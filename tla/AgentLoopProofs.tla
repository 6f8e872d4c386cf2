--------------------------- MODULE AgentLoopProofs ---------------------------
(***************************************************************************)
(* Proofs about AgentLoop, for every value of its constants: type          *)
(* correctness, that the session file reloads to the session, and that the *)
(* ledger and the locked lemmas behave as TrustLog says.                   *)
(*                                                                         *)
(* The invariant adds to the two properties that the claim a tool returned *)
(* is on the ledger before its lemma can be locked: without it the step    *)
(* that locks a lemma would not be a step of TrustLog.                     *)
(***************************************************************************)
EXTENDS AgentLoop, SequenceTheorems, TLAPS

ClaimRecorded ==
    run.stage \in {"result", "settle"} =>
        \E k \in 1..Len(mem.ledger) : mem.ledger[k] = run.claim

IInv == TypeOK /\ ReloadsAsIs /\ ClaimRecorded

-----------------------------------------------------------------------------
(***************************************************************************)
(* The session and its file                                                *)
(***************************************************************************)
\* What a step that logs does to the session: both copies change alike.
Logged == mem' \in Session /\ disk' \in File /\ disk'.said = mem'

\* The part of a session that TrustLog is about does not change.
TrustKept(new, old) == new.ledger = old.ledger /\ new.notes = old.notes

\* What a line makes of what the file says, with or without a separator in it.
LEMMA Written ==
    ASSUME disk \in File, NEW line, WriteEvent(line), Reread(disk.said, line) \in Session
    PROVE  disk' \in File /\ disk'.said = Reread(disk.said, line)
<1>1. PICK separator \in BOOLEAN :
        disk' = [said |-> Reread(disk.said, line), legible |-> disk.legible /\ ~separator]
  BY DEF WriteEvent
<1>2. PICK legible \in BOOLEAN : disk' = [said |-> Reread(disk.said, line), legible |-> legible]
  <2>1. (disk.legible /\ ~separator) \in BOOLEAN OBVIOUS
  <2> QED BY <1>1, <2>1
<1> QED BY <1>2 DEF File

\* The items the loop logs are items.
LEMMA ItemType ==
    ASSUME NEW i \in Nat, NEW kind \in Kinds
    PROVE  Message(kind) \in Item /\ CallItem(i) \in Item /\ ResultItem(i) \in Item
BY DEF Message, CallItem, ResultItem, Item, Kinds

\* An item logged reaches the transcript in memory and in the file.
LEMMA ItemLogged ==
    ASSUME mem \in Session, disk \in File, disk.said = mem, NEW item \in Item, LogItem(item)
    PROVE  Logged /\ TrustKept(mem', mem)
<1>1. Append(mem.hist, item) \in Seq(Item)
  BY AppendProperties DEF Session
<1>2. mem' = [mem EXCEPT !.hist = Append(@, item)] BY DEF LogItem
<1>3. mem' \in Session /\ TrustKept(mem', mem) BY <1>1, <1>2 DEF TrustKept, Session
<1>4. Reread(disk.said, ItemLine(item)) = mem' BY <1>2 DEF Reread, ItemLine
<1>5. WriteEvent(ItemLine(item)) BY DEF LogItem
<1> QED BY <1>3, <1>4, <1>5, Written DEF Logged

\* So does a claim, at the end of the ledger.
LEMMA ClaimLogged ==
    ASSUME mem \in Session, disk \in File, disk.said = mem, NEW c \in Claim, LogClaim(c)
    PROVE  /\ Logged
           /\ mem'.ledger = Append(mem.ledger, c) /\ mem'.notes = mem.notes
<1>1. Append(mem.ledger, c) \in Seq(Claim)
  BY AppendProperties DEF Session
<1>2. mem' = [mem EXCEPT !.ledger = Append(@, c)] BY DEF LogClaim
<1>3. /\ mem' \in Session
      /\ mem'.ledger = Append(mem.ledger, c) /\ mem'.notes = mem.notes
  BY <1>1, <1>2 DEF Session
<1>4. Reread(disk.said, ClaimLine(c)) = mem' BY <1>2 DEF Reread, ClaimLine
<1>5. WriteEvent(ClaimLine(c)) BY DEF LogClaim
<1> QED BY <1>3, <1>4, <1>5, Written DEF Logged

\* The names in a notebook.
NamesIn(notes) == {notes[k] : k \in 1..Len(notes)}

\* A notebook without its entry k: only the name of that entry may be missing.
LEMMA EntryRemoved ==
    ASSUME NEW notes \in Seq(Names), NEW k \in 1..Len(notes), NEW rest,
           rest = SubSeq(notes, 1, k - 1) \o SubSeq(notes, k + 1, Len(notes))
    PROVE  /\ rest \in Seq(Names)
           /\ NamesIn(rest) \cup {notes[k]} = NamesIn(notes)
<1> DEFINE N == Len(notes)
           before == SubSeq(notes, 1, k - 1)
           behind == SubSeq(notes, k + 1, Len(notes))
<1>1. Len(notes) \in Nat /\ \A j \in 1..Len(notes) : notes[j] \in Names
  BY ElementOfSeq
<1>2. /\ before \in Seq(Names) /\ Len(before) = k - 1
      /\ \A j \in 1..(k - 1) : before[j] = notes[j]
  BY <1>1, SubSeqProperties
<1>3. /\ behind \in Seq(Names) /\ Len(behind) = Len(notes) - k
      /\ \A j \in 1..(Len(notes) - k) : behind[j] = notes[k + j]
  <2>1. CASE k = Len(notes)
    <3>1. behind = << >> BY <1>1, <2>1, SubSeqEmpty
    <3> QED BY <1>1, <2>1, <3>1
  <2>2. CASE k < Len(notes)
    <3>1. k + 1 \in 1..Len(notes) BY <1>1, <2>2
    <3>2. \A j \in (k + 1)..Len(notes) : notes[j] \in Names BY <1>1, <3>1
    <3> QED BY <1>1, <3>1, <3>2, SubSeqProperties
  <2> QED BY <1>1, <2>1, <2>2
<1>4. rest = before \o behind OBVIOUS
<1> HIDE DEF before, behind
<1>5. /\ before \o behind \in Seq(Names)
      /\ Len(before \o behind) = Len(before) + Len(behind)
      /\ \A j \in 1..(Len(before) + Len(behind)) : (before \o behind)[j] =
            IF j <= Len(before) THEN before[j] ELSE behind[j - Len(before)]
  <2>1. before \in Seq(Names) /\ behind \in Seq(Names) BY <1>2, <1>3
  <2> HIDE <1>4
  <2> QED BY <2>1, ConcatProperties
<1>6. /\ rest \in Seq(Names) /\ Len(rest) = Len(notes) - 1
      /\ \A j \in 1..(k - 1) : rest[j] = notes[j]
      /\ \A j \in k..(Len(notes) - 1) : rest[j] = notes[j + 1]
  <2>1. k \in 1..Len(notes) /\ Len(notes) \in Nat BY <1>1
  <2>2. Len(before) = k - 1 /\ Len(behind) = Len(notes) - k BY <1>2, <1>3
  <2>3. Len(before) + Len(behind) = Len(notes) - 1 BY <2>1, <2>2
  <2>4. ASSUME NEW j \in 1..(k - 1)
        PROVE  (before \o behind)[j] = notes[j]
    <3>1. j \in 1..(Len(before) + Len(behind)) /\ j <= Len(before)
      BY <2>1, <2>2, <2>3
    <3>2. (before \o behind)[j] = before[j] BY <1>5, <3>1
    <3> QED BY <1>2, <3>2
  <2>5. ASSUME NEW j \in k..(Len(notes) - 1)
        PROVE  (before \o behind)[j] = notes[j + 1]
    <3>1. j \in 1..(Len(before) + Len(behind)) /\ ~(j <= Len(before))
      BY <2>1, <2>2, <2>3
    <3>2. (before \o behind)[j] = behind[j - Len(before)] BY <1>5, <3>1
    <3>3. j - Len(before) = j - k + 1 /\ j - k + 1 \in 1..(Len(notes) - k)
      BY <2>1, <2>2
    <3>4. behind[j - k + 1] = notes[k + (j - k + 1)] BY <1>3, <3>3
    <3>5. k + (j - k + 1) = j + 1 BY <2>1
    <3> QED BY <3>2, <3>3, <3>4, <3>5
  <2> QED BY <1>4, <1>5, <2>3, <2>4, <2>5
<1> HIDE <1>4
<1>7. NamesIn(rest) \subseteq NamesIn(notes)
  <2> SUFFICES ASSUME NEW j \in 1..(Len(notes) - 1)
               PROVE  rest[j] \in NamesIn(notes)
    BY <1>6 DEF NamesIn
  <2>1. j \in 1..Len(notes) /\ j + 1 \in 1..Len(notes) BY <1>1
  <2>2. j \in 1..(k - 1) \/ j \in k..(Len(notes) - 1) BY <1>1
  <2>3. rest[j] = notes[j] \/ rest[j] = notes[j + 1] BY <1>6, <2>2
  <2> QED BY <2>1, <2>3 DEF NamesIn
<1>8. ASSUME NEW j \in 1..Len(notes), j # k
      PROVE  notes[j] \in NamesIn(rest)
  <2>1. CASE j < k
    <3>1. j \in 1..(k - 1) /\ j \in 1..(Len(notes) - 1) BY <1>1, <2>1
    <3>2. rest[j] = notes[j] BY <1>6, <3>1
    <3> QED BY <1>6, <3>1, <3>2 DEF NamesIn
  <2>2. CASE j > k
    <3>1. /\ j - 1 \in k..(Len(notes) - 1) /\ j - 1 \in 1..(Len(notes) - 1)
          /\ (j - 1) + 1 = j
      BY <1>1, <2>2
    <3>2. rest[j - 1] = notes[j] BY <1>6, <3>1
    <3> QED BY <1>6, <3>1, <3>2 DEF NamesIn
  <2> QED BY <1>8, <2>1, <2>2
<1>9. NamesIn(notes) \subseteq NamesIn(rest) \cup {notes[k]}
  BY <1>8 DEF NamesIn
<1>10. notes[k] \in NamesIn(notes) BY DEF NamesIn
<1> QED BY <1>5, <1>7, <1>9, <1>10

\* Locking a name adds it to a notebook and loses no other.
LEMMA LockInFacts ==
    ASSUME NEW notes \in Seq(Names), NEW n \in Names
    PROVE  /\ LockIn(notes, n) \in Seq(Names)
           /\ NamesIn(LockIn(notes, n)) = NamesIn(notes) \cup {n}
<1> DEFINE at == {k \in 1..Len(notes) : notes[k] = n}
           k0 == CHOOSE k \in at : TRUE
           others == IF at = {} THEN notes
                     ELSE SubSeq(notes, 1, k0 - 1) \o SubSeq(notes, k0 + 1, Len(notes))
<1>1. LockIn(notes, n) = Append(others, n) BY DEF LockIn
<1>2. others \in Seq(Names) /\ NamesIn(others) \cup {n} = NamesIn(notes) \cup {n}
  <2>1. CASE at = {} BY <2>1
  <2>2. CASE at # {}
    <3>1. k0 \in at BY <2>2
    <3>2. k0 \in 1..Len(notes) /\ notes[k0] = n BY <3>1
    <3>3. others = SubSeq(notes, 1, k0 - 1) \o SubSeq(notes, k0 + 1, Len(notes))
      BY <2>2
    <3> HIDE DEF at, k0, others
    <3> QED BY <3>2, <3>3, EntryRemoved
  <2> QED BY <2>1, <2>2
<1> HIDE DEF others
<1>3. /\ Append(others, n) \in Seq(Names)
      /\ Len(Append(others, n)) = Len(others) + 1
      /\ \A k \in 1..Len(others) : Append(others, n)[k] = others[k]
      /\ Append(others, n)[Len(others) + 1] = n
  BY <1>2, AppendProperties
<1>4. NamesIn(Append(others, n)) = NamesIn(others) \cup {n}
  <2>1. Len(others) \in Nat BY <1>2
  <2>2. NamesIn(Append(others, n)) \subseteq NamesIn(others) \cup {n}
    BY <1>3, <2>1 DEF NamesIn
  <2>3. NamesIn(others) \subseteq NamesIn(Append(others, n))
    BY <1>3, <2>1 DEF NamesIn
  <2>4. n \in NamesIn(Append(others, n))
    BY <1>3, <2>1 DEF NamesIn
  <2> QED BY <2>2, <2>3, <2>4
<1> QED BY <1>1, <1>2, <1>3, <1>4

\* A lemma locked reaches the notebook in memory and in the file.
LEMMA LemmaLogged ==
    ASSUME mem \in Session, disk \in File, disk.said = mem, NEW n \in Names, LogLemma(n)
    PROVE  /\ Logged
           /\ mem'.ledger = mem.ledger
           /\ NamesIn(mem'.notes) = NamesIn(mem.notes) \cup {n}
<1>1. /\ LockIn(mem.notes, n) \in Seq(Names)
      /\ NamesIn(LockIn(mem.notes, n)) = NamesIn(mem.notes) \cup {n}
  BY LockInFacts DEF Session
<1>2. mem' = [mem EXCEPT !.notes = LockIn(@, n)] BY DEF LogLemma
<1>3. /\ mem' \in Session /\ mem'.ledger = mem.ledger
      /\ NamesIn(mem'.notes) = NamesIn(mem.notes) \cup {n}
  BY <1>1, <1>2 DEF Session
<1>4. Reread(disk.said, LemmaLine(n)) = mem' BY <1>2 DEF Reread, LemmaLine
<1>5. WriteEvent(LemmaLine(n)) BY DEF LogLemma
<1> QED BY <1>3, <1>4, <1>5, Written DEF Logged

\* A compaction changes the transcript only, in memory and in the file.
LEMMA CompactionLogged ==
    ASSUME mem \in Session, disk \in File, disk.said = mem, Compacts
    PROVE  Logged /\ TrustKept(mem', mem)
<1>1. PICK s \in 2..Len(mem.hist) :
        LogCompaction(SubSeq(mem.hist, s, Len(mem.hist)))
  BY DEF Compacts
<1> DEFINE kept == SubSeq(mem.hist, s, Len(mem.hist))
           hist == <<Message("summary")>> \o kept
<1>2. mem.hist \in Seq(Item) /\ Len(mem.hist) \in Nat BY DEF Session
<1>3. kept \in Seq(Item)
  <2>1. \A j \in s..Len(mem.hist) : mem.hist[j] \in Item BY <1>2, ElementOfSeq
  <2> QED BY <1>2, <2>1, SubSeqProperties
<1> HIDE DEF kept
<1>4. hist \in Seq(Item)
  <2>1. <<Message("summary")>> \in Seq(Item)
    BY DEF Message, Item, Kinds
  <2> QED BY <1>3, <2>1, ConcatProperties
<1>5. mem' = [mem EXCEPT !.hist = hist] BY <1>1 DEF LogCompaction, kept
<1>6. mem' \in Session /\ TrustKept(mem', mem) BY <1>4, <1>5 DEF TrustKept, Session
<1>7. Reread(disk.said, CompactLine(Message("summary"), kept)) = mem'
  BY <1>5 DEF Reread, CompactLine
<1>8. WriteEvent(CompactLine(Message("summary"), kept)) BY <1>1 DEF LogCompaction, kept
<1> QED BY <1>6, <1>7, <1>8, Written DEF Logged


-----------------------------------------------------------------------------
(***************************************************************************)
(* The steps                                                               *)
(***************************************************************************)
Counters == [prompts: Nat, turns: Nat, calls: Nat, crashes: Nat]

\* A step of TrustLog, or none, under the mapping of AgentLoop.
TrustStep == [Trust!Mint \/ Trust!LockLemma]_(Trust!trust)

\* What the names of the locked lemmas are under that mapping.
LEMMA Mapping ==
    /\ Trust!trust = <<Current.ledger, NamesIn(Current.notes)>>
    /\ Trust!trust' = <<Current'.ledger, NamesIn(Current'.notes)>>
BY DEF Trust!trust, NamesIn

\* While the program runs, a step that keeps the ledger and the notebook is a
\* stutter of TrustLog, and preserves the invariant if it ends in no stage
\* that holds a claim, or keeps the claim.
LEMMA QuietStep ==
    ASSUME IInv, ~At("down"), ~(At("down")'),
           Logged, TrustKept(mem', mem),
           run' \in Run, interrupt' \in BOOLEAN, used' \in Counters,
           \/ run'.stage \notin {"result", "settle"}
           \/ run.stage \in {"result", "settle"} /\ run'.claim = run.claim
    PROVE  IInv' /\ TrustStep
<1>1. TypeOK' BY DEF TypeOK, Logged, Counters
<1>2. ReloadsAsIs' BY DEF ReloadsAsIs, Logged
<1>3. mem'.ledger = mem.ledger /\ mem'.notes = mem.notes BY DEF TrustKept
<1>4. ClaimRecorded' BY <1>3 DEF IInv, ClaimRecorded
<1>5. Current = mem /\ Current' = mem' BY DEF Current
<1>6. Trust!trust' = Trust!trust BY <1>3, <1>5, Mapping
<1> QED BY <1>1, <1>2, <1>4, <1>6 DEF IInv, TrustStep

\* The same for a step that leaves the session and its file alone.
LEMMA StillStep ==
    ASSUME IInv, ~At("down"), ~(At("down")'), UNCHANGED <<mem, disk>>,
           run' \in Run, interrupt' \in BOOLEAN, used' \in Counters,
           \/ run'.stage \notin {"result", "settle"}
           \/ run.stage \in {"result", "settle"} /\ run'.claim = run.claim
    PROVE  IInv' /\ TrustStep
<1>1. mem \in Session /\ disk \in File /\ disk.said = mem BY DEF IInv, TypeOK, ReloadsAsIs
<1>2. Logged /\ TrustKept(mem', mem) BY <1>1 DEF Logged, TrustKept
<1> QED BY <1>2, QuietStep

\* The same for a step that logs an item.
LEMMA ItemStep ==
    ASSUME IInv, ~At("down"), ~(At("down")'), NEW item \in Item, LogItem(item),
           run' \in Run, interrupt' \in BOOLEAN, used' \in Counters,
           \/ run'.stage \notin {"result", "settle"}
           \/ run.stage \in {"result", "settle"} /\ run'.claim = run.claim
    PROVE  IInv' /\ TrustStep
<1>1. mem \in Session /\ disk \in File /\ disk.said = mem BY DEF IInv, TypeOK, ReloadsAsIs
<1>2. Logged /\ TrustKept(mem', mem) BY <1>1, ItemLogged
<1> QED BY <1>2, QuietStep

\* The same for a compaction.
LEMMA CompactionStep ==
    ASSUME IInv, ~At("down"), ~(At("down")'), Compacts,
           run' \in Run, interrupt' \in BOOLEAN, used' \in Counters,
           run'.stage \notin {"result", "settle"}
    PROVE  IInv' /\ TrustStep
<1>1. mem \in Session /\ disk \in File /\ disk.said = mem BY DEF IInv, TypeOK, ReloadsAsIs
<1>2. Logged /\ TrustKept(mem', mem) BY <1>1, CompactionLogged
<1> QED BY <1>2, QuietStep

\* The records that Agent.step goes through are of their type.
LEMMA RunTypes ==
    ASSUME IInv
    PROVE  /\ run \in Run /\ used \in Counters /\ interrupt \in BOOLEAN
           /\ \A stage \in Stages, outcome \in Outcomes :
                Ended(stage, outcome) \in Run
           /\ \A mode \in Modes : [Ready EXCEPT !.stage = "start", !.mode = mode] \in Run
           /\ [Ready EXCEPT !.stage = "down"] \in Run
           /\ [Ready EXCEPT !.outcome = run.outcome] \in Run
           /\ Begun(run.late) \in Nat /\ Begun(run.aside) \in Nat
<1>1. run \in Run /\ used \in Counters /\ interrupt \in BOOLEAN
  BY DEF IInv, TypeOK, Counters
<1>2. Ready \in Run BY DEF Ready, Run, Stages, Modes, Outcomes
<1>3. /\ run.mode \in Modes /\ run.outcome \in Outcomes
      /\ run.late \in Nat /\ run.aside \in Nat
  BY <1>1 DEF Run
<1>4. ASSUME NEW stage \in Stages, NEW outcome \in Outcomes
      PROVE  Ended(stage, outcome) \in Run
  BY <1>2, <1>3 DEF Ended, Run
<1>5. ASSUME NEW mode \in Modes
      PROVE  [Ready EXCEPT !.stage = "start", !.mode = mode] \in Run
  BY <1>2 DEF Run, Stages
<1>6. [Ready EXCEPT !.stage = "down"] \in Run BY <1>2 DEF Run, Stages
<1>7. [Ready EXCEPT !.outcome = run.outcome] \in Run BY <1>2, <1>3 DEF Run
<1>8. Begun(run.late) \in Nat /\ Begun(run.aside) \in Nat BY <1>1, <1>3 DEF Begun
<1> QED BY <1>1, <1>4, <1>5, <1>6, <1>7, <1>8

\* The loop moves to another stage, another call or another round.
LEMMA Moves ==
    ASSUME run \in Run, NEW stage \in Stages, NEW n \in Nat
    PROVE  /\ [run EXCEPT !.stage = stage, !.i = n] \in Run
           /\ [run EXCEPT !.stage = stage, !.i = n].stage = stage
           /\ [run EXCEPT !.stage = stage, !.rounds = n] \in Run
           /\ [run EXCEPT !.stage = stage, !.rounds = n].stage = stage
           /\ run.i + 1 \in Nat /\ run.rounds + 1 \in Nat
<1>1. run.i \in Nat /\ run.rounds \in Nat BY DEF Run
<1>2. run.i + 1 \in Nat /\ run.rounds + 1 \in Nat BY <1>1
<1>3. /\ [run EXCEPT !.stage = stage, !.i = n] \in Run
      /\ [run EXCEPT !.stage = stage, !.i = n].stage = stage
  BY DEF Run
<1>4. /\ [run EXCEPT !.stage = stage, !.rounds = n] \in Run
      /\ [run EXCEPT !.stage = stage, !.rounds = n].stage = stage
  BY DEF Run
<1> QED BY <1>2, <1>3, <1>4

\* The actions of the loop that log nothing.
StillActions == StepBegins \/ NextRound \/ RespondError \/ RespondCalls \/ CheckInterrupt

\* They keep the invariant and what TrustLog is about.
LEMMA StillActionsKeep ==
    ASSUME IInv, StillActions
    PROVE  IInv' /\ TrustStep
<1>1. /\ run \in Run /\ used \in Counters /\ interrupt \in BOOLEAN
      /\ \A stage \in Stages, outcome \in Outcomes : Ended(stage, outcome) \in Run
      /\ Begun(run.late) \in Nat /\ Begun(run.aside) \in Nat
  BY RunTypes
<1>2. \A stage \in Stages, outcome \in Outcomes :
        Ended(stage, outcome).stage = stage
  BY <1>1 DEF Ended, Ready
<1>3. CASE StepBegins
  <2>1. run' \in Run /\ run'.stage = "head" /\ ~At("down")
    BY <1>1, <1>3 DEF StepBegins, Go, At, Run, Stages
  <2>2. UNCHANGED <<mem, disk>> /\ interrupt' \in BOOLEAN /\ used' = used
    BY <1>3 DEF StepBegins
  <2> QED BY <1>1, <2>1, <2>2, StillStep DEF At
<1>4. CASE NextRound
  <2>1. run' \in Run /\ run'.stage \in {"after", "compact", "inject"} /\ ~At("down")
    <3>1. CASE run' = Ended("after", "interrupted") \/ run' = Ended("after", "cap")
      BY <1>1, <1>2, <1>4, <3>1 DEF NextRound, At, Stages, Outcomes
    <3>2. run.stage = "head" /\ run \in Run BY <1>1, <1>4 DEF NextRound, At
    <3>3. ASSUME NEW stage \in {"compact", "inject"},
                 run' = [run EXCEPT !.stage = stage, !.rounds = @ + 1]
          PROVE  run' \in Run /\ run'.stage = stage
      <4>1. stage \in Stages /\ run.rounds + 1 \in Nat BY <3>2, Moves DEF Stages
      <4> QED BY <3>2, <3>3, <4>1, Moves
    <3> QED BY <1>4, <3>1, <3>2, <3>3 DEF NextRound, Return, At
  <2>2. UNCHANGED <<mem, disk, interrupt, used>> BY <1>4 DEF NextRound
  <2> QED BY <1>1, <2>1, <2>2, StillStep DEF At
<1>5. CASE RespondError
  <2>1. PICK outcome \in {"timeout", "error"} :
          run' = [Ended("idle", outcome) EXCEPT !.late = Begun(@)]
    BY <1>5 DEF RespondError
  <2>2. /\ Ended("idle", outcome) \in Run /\ Ended("idle", outcome).stage = "idle"
        /\ Ended("idle", outcome).late = run.late
    <3>1. Ended("idle", outcome) \in Run BY <1>1 DEF Stages, Outcomes
    <3>2. Ended("idle", outcome).late = run.late BY DEF Ended, Ready
    <3>3. Ended("idle", outcome).stage = "idle" BY DEF Ended, Ready
    <3> QED BY <3>1, <3>2, <3>3
  <2>3. run' \in Run /\ run'.stage = "idle" BY <1>1, <2>1, <2>2 DEF Run
  <2>4. ~At("down") BY <1>5 DEF RespondError, At
  <2>5. UNCHANGED <<mem, disk, interrupt, used>> BY <1>5 DEF RespondError
  <2> QED BY <1>1, <2>3, <2>4, <2>5, StillStep DEF At
<1>6. CASE RespondCalls
  <2>1. PICK n \in 1..TurnCalls :
          /\ used' = [used EXCEPT !.turns = @ + 1, !.calls = @ + n]
          /\ run' = [run EXCEPT !.stage = "record", !.calls = n, !.i = 1,
                                !.late = Begun(@)]
    BY <1>6 DEF RespondCalls
  <2>2. n \in Nat BY BoundsType
  <2>3. used' \in Counters
    <3>1. /\ used \in [prompts: Nat, turns: Nat, calls: Nat, crashes: Nat]
          /\ used' = [used EXCEPT !.turns = @ + 1, !.calls = @ + n]
      BY <1>1, <2>1 DEF Counters
    <3>2. used.turns + 1 \in Nat /\ used.calls + n \in Nat BY <2>2, <3>1
    <3> QED BY <3>1, <3>2 DEF Counters
  <2>4. run' \in Run /\ run'.stage = "record" /\ ~At("down")
    BY <1>1, <1>6, <2>1, <2>2 DEF RespondCalls, At, Run, Stages
  <2>5. UNCHANGED <<mem, disk, interrupt>> BY <1>6 DEF RespondCalls
  <2> QED BY <1>1, <2>3, <2>4, <2>5, StillStep DEF At
<1>7. CASE CheckInterrupt
  <2>1. run' \in Run /\ run'.stage \in {"after", "flush", "dispatch", "head"}
        /\ ~At("down")
    <3>1. CASE run' = Ended("after", "interrupted") \/ run' = Ended("after", "final")
      BY <1>1, <1>2, <1>7, <3>1 DEF CheckInterrupt, At, Stages, Outcomes
    <3>2. run.stage = "check" /\ run \in Run BY <1>1, <1>7 DEF CheckInterrupt, At
    <3>3. ASSUME NEW stage \in {"flush", "dispatch"},
                 run' = [run EXCEPT !.stage = stage, !.i = @ + 1]
          PROVE  run' \in Run /\ run'.stage = stage
      <4>1. stage \in Stages /\ run.i + 1 \in Nat BY <3>2, Moves DEF Stages
      <4> QED BY <3>2, <3>3, <4>1, Moves
    <3>4. CASE run' = [run EXCEPT !.stage = "head", !.calls = 0, !.i = 0]
      BY <3>2, <3>4 DEF At, Run, Stages
    <3> QED BY <1>7, <3>1, <3>2, <3>3, <3>4 DEF CheckInterrupt, Return, At
  <2>2. UNCHANGED <<mem, disk, interrupt, used>> BY <1>7 DEF CheckInterrupt
  <2> QED BY <1>1, <2>1, <2>2, StillStep DEF At
<1> QED BY <1>3, <1>4, <1>5, <1>6, <1>7 DEF StillActions

\* The actions of the loop that log an item and no claim.
ItemActions == (\E mode \in Modes : Prompt(mode)) \/ Inject \/ RespondText \/ Nudge
               \/ RecordCall \/ DispatchPlain \/ RecordResult \/ Flush

\* So do these.
LEMMA ItemActionsKeep ==
    ASSUME IInv, ItemActions
    PROVE  IInv' /\ TrustStep
<1>1. /\ run \in Run /\ used \in Counters /\ interrupt \in BOOLEAN
      /\ \A stage \in Stages, outcome \in Outcomes : Ended(stage, outcome) \in Run
      /\ Begun(run.late) \in Nat /\ Begun(run.aside) \in Nat
  BY RunTypes
<1>2. \A stage \in Stages, outcome \in Outcomes :
        Ended(stage, outcome).stage = stage
  BY <1>1 DEF Ended, Ready
<1>3. /\ \A kind \in Kinds : Message(kind) \in Item
      /\ CallItem(run.i) \in Item /\ ResultItem(run.i) \in Item
  <2>1. run.i \in Nat BY <1>1 DEF Run
  <2> QED BY <2>1, ItemType DEF Kinds
<1>4. ASSUME NEW mode \in Modes, Prompt(mode)
      PROVE  IInv' /\ TrustStep
  <2>1. LogItem(Message("user")) /\ Message("user") \in Item
    BY <1>3, <1>4 DEF Prompt, Kinds
  <2>2. run' = [Ready EXCEPT !.stage = "start", !.mode = mode] BY <1>4 DEF Prompt
  <2>3. run' \in Run BY <2>2, RunTypes
  <2>4. run'.stage = "start" BY <2>2 DEF Ready
  <2>5. ~At("down") /\ interrupt' = interrupt BY <1>4 DEF Prompt, At
  <2>6. used' \in Counters BY <1>1, <1>4 DEF Prompt, Counters
  <2> QED BY <1>1, <2>1, <2>3, <2>4, <2>5, <2>6, ItemStep DEF At
<1>5. CASE Inject
  <2>1. run' \in Run /\ run'.stage = "respond" /\ ~At("down")
    BY <1>1, <1>5 DEF Inject, Go, At, Run, Stages
  <2>2. UNCHANGED <<interrupt, used>> BY <1>5 DEF Inject
  <2>3. CASE LogItem(Message("staircase"))
    <3>1. Message("staircase") \in Item BY <1>3 DEF Kinds
    <3> QED BY <1>1, <2>1, <2>2, <2>3, <3>1, ItemStep DEF At
  <2>4. CASE UNCHANGED <<mem, disk>>
    BY <1>1, <2>1, <2>2, <2>4, StillStep DEF At
  <2> QED BY <1>5, <2>3, <2>4 DEF Inject
<1>6. CASE RespondText
  <2>1. LogItem(Message("assistant")) /\ Message("assistant") \in Item
    BY <1>3, <1>6 DEF RespondText, Kinds
  <2>2. run' \in Run /\ run'.stage \in {"continue", "after"} /\ ~At("down")
    <3>1. CASE run' = [Ended("after", "final") EXCEPT !.late = Begun(@)]
      <4>1. Ended("after", "final") \in Run /\ Ended("after", "final").stage = "after"
            /\ Ended("after", "final").late = run.late
        BY <1>1, <1>2 DEF Stages, Outcomes, Ended, Ready
      <4>2. run' \in Run /\ run'.stage = "after" BY <1>1, <3>1, <4>1 DEF Run
      <4> QED BY <1>6, <4>2 DEF RespondText, At
    <3>2. CASE run' = [run EXCEPT !.stage = "continue", !.late = Begun(@)]
      BY <1>1, <1>6, <3>2 DEF RespondText, At, Run, Stages
    <3> QED BY <1>6, <3>1, <3>2 DEF RespondText
  <2>3. interrupt' = interrupt /\ used' \in Counters
    BY <1>1, <1>6 DEF RespondText, Counters
  <2> QED BY <1>1, <2>1, <2>2, <2>3, ItemStep DEF At
<1>7. CASE Nudge
  <2>1. PICK kind \in Kinds : LogItem(Message(kind)) BY <1>7 DEF Nudge, Kinds
  <2>2. run' \in Run /\ run'.stage = "head" /\ ~At("down")
    BY <1>1, <1>7 DEF Nudge, Go, At, Run, Stages
  <2>3. UNCHANGED <<interrupt, used>> BY <1>7 DEF Nudge
  <2> QED BY <1>1, <1>3, <2>1, <2>2, <2>3, ItemStep DEF At
<1>8. CASE RecordCall
  <2>1. LogItem(CallItem(run.i)) BY <1>8 DEF RecordCall
  <2>2. run' \in Run /\ run'.stage \in {"flush", "record", "dispatch"} /\ ~At("down")
    <3>1. run.stage = "record" /\ run \in Run BY <1>1, <1>8 DEF RecordCall, At
    <3>2. CASE run' = [run EXCEPT !.stage = "flush", !.i = 1]
      BY <3>1, <3>2 DEF At, Run, Stages
    <3>3. CASE run' = [run EXCEPT !.i = @ + 1]
      BY <3>1, <3>3 DEF At, Run, Stages
    <3>4. CASE run' = [run EXCEPT !.stage = "dispatch", !.i = 1]
      BY <3>1, <3>4 DEF At, Run, Stages
    <3> QED BY <1>8, <3>2, <3>3, <3>4 DEF RecordCall
  <2>3. UNCHANGED <<interrupt, used>> BY <1>8 DEF RecordCall
  <2> QED BY <1>1, <1>3, <2>1, <2>2, <2>3, ItemStep DEF At
<1>9. CASE DispatchPlain
  <2>1. LogItem(ResultItem(run.i)) BY <1>9 DEF DispatchPlain
  <2>2. run' \in Run /\ run'.stage = "check" /\ ~At("down")
    BY <1>1, <1>9 DEF DispatchPlain, At, Run, Stages
  <2>3. UNCHANGED <<interrupt, used>> BY <1>9 DEF DispatchPlain
  <2> QED BY <1>1, <1>3, <2>1, <2>2, <2>3, ItemStep DEF At
<1>10. CASE RecordResult
  <2>1. LogItem(ResultItem(run.i)) BY <1>10 DEF RecordResult
  <2>2. /\ run' \in Run /\ run'.stage = "settle" /\ run'.claim = run.claim
        /\ run.stage = "result" /\ ~At("down")
    BY <1>1, <1>10 DEF RecordResult, Go, At, Run, Stages
  <2>3. UNCHANGED <<interrupt, used>> BY <1>10 DEF RecordResult
  <2> QED BY <1>1, <1>3, <2>1, <2>2, <2>3, ItemStep DEF At
<1>11. CASE Flush
  <2>1. LogItem(ResultItem(run.i)) BY <1>11 DEF Flush
  <2>2. run' \in Run /\ run'.stage \in {"flush", "after"} /\ ~At("down")
    <3>1. CASE run' = Ended("after", "interrupted")
      BY <1>1, <1>2, <1>11, <3>1 DEF Flush, At, Stages, Outcomes
    <3>2. CASE run' = [run EXCEPT !.i = @ + 1]
      BY <1>1, <1>11, <3>2 DEF Flush, At, Run, Stages
    <3> QED BY <1>11, <3>1, <3>2 DEF Flush, Return
  <2>3. UNCHANGED <<interrupt, used>> BY <1>11 DEF Flush
  <2> QED BY <1>1, <1>3, <2>1, <2>2, <2>3, ItemStep DEF At
<1> QED BY <1>4, <1>5, <1>6, <1>7, <1>8, <1>9, <1>10, <1>11 DEF ItemActions

\* The steps with a compaction: in a hunt, after a step, and by the user.
LEMMA CompactionsKeep ==
    ASSUME IInv, HuntCompaction \/ AutoCompact \/ SlashCompact
    PROVE  IInv' /\ TrustStep
<1>1. /\ run \in Run /\ used \in Counters /\ interrupt \in BOOLEAN
      /\ \A stage \in Stages, outcome \in Outcomes : Ended(stage, outcome) \in Run
      /\ Begun(run.aside) \in Nat
  BY RunTypes
<1>2. UNCHANGED <<interrupt, used>>
  BY DEF HuntCompaction, AutoCompact, SlashCompact
<1>3. run.stage \in {"compact", "after", "idle"}
  BY DEF HuntCompaction, AutoCompact, SlashCompact, At
<1>4. run' \in Run /\ run'.stage \in {"inject", "forceInject", "idle"}
  <2>1. ASSUME NEW stage \in {"inject", "forceInject", "idle"}, Go(stage)
        PROVE  run' \in Run /\ run'.stage = stage
    BY <1>1, <2>1 DEF Go, Run, Stages
  <2>2. ASSUME NEW outcome \in {"timeout", "error"},
               run' = [Ended("idle", outcome) EXCEPT !.aside = Begun(@)]
        PROVE  run' \in Run /\ run'.stage = "idle"
    <3>1. Ended("idle", outcome).stage = "idle" /\ Ended("idle", outcome).aside = run.aside
      BY DEF Ended, Ready
    <3>2. Ended("idle", outcome) \in Run BY <1>1 DEF Stages, Outcomes
    <3> QED BY <1>1, <2>2, <3>1, <3>2 DEF Run
  <2>3. ASSUME run' = [run EXCEPT !.stage = "forceInject", !.aside = Begun(@)]
        PROVE  run' \in Run /\ run'.stage = "forceInject"
    BY <1>1, <2>3 DEF Run, Stages
  <2>4. CASE HuntCompaction
    <3>1. \/ Go("inject") \/ Go("forceInject")
          \/ run' = [run EXCEPT !.stage = "forceInject", !.aside = Begun(@)]
          \/ \E outcome \in {"timeout", "error"} :
               run' = [Ended("idle", outcome) EXCEPT !.aside = Begun(@)]
      BY <2>4 DEF HuntCompaction
    <3> QED BY <2>1, <2>2, <2>3, <3>1
  <2>5. CASE AutoCompact BY <2>1, <2>5 DEF AutoCompact
  <2>6. CASE SlashCompact BY <1>1, <2>6 DEF SlashCompact, At
  <2> QED BY <2>4, <2>5, <2>6
<1>5. Compacts \/ UNCHANGED <<mem, disk>>
  BY DEF HuntCompaction, AutoCompact, SlashCompact
<1>6. ~At("down") /\ ~(At("down")') BY <1>3, <1>4 DEF At
<1>7. run'.stage \notin {"result", "settle"} BY <1>4
<1>8. CASE Compacts BY <1>1, <1>2, <1>4, <1>6, <1>7, <1>8, CompactionStep
<1>9. CASE UNCHANGED <<mem, disk>>
  BY <1>1, <1>2, <1>4, <1>6, <1>7, <1>9, StillStep
<1> QED BY <1>5, <1>8, <1>9

\* A claim that a tool returns is minted.
LEMMA DispatchClaimKeeps ==
    ASSUME IInv, DispatchClaim
    PROVE  IInv' /\ TrustStep
<1>1. PICK c \in Minted :
        /\ LogClaim(c)
        /\ run' = [run EXCEPT !.stage = "result", !.claim = c, !.late = Begun(@)]
  BY DEF DispatchClaim
<1>2. c \in Claim BY MintedType
<1>3. run \in Run /\ used \in Counters /\ interrupt \in BOOLEAN /\ Begun(run.late) \in Nat /\ Begun(run.aside) \in Nat
  BY RunTypes
<1>4. run.stage = "dispatch" /\ UNCHANGED <<interrupt, used>>
  BY DEF DispatchClaim, At
<1>5. mem \in Session /\ disk \in File /\ disk.said = mem
  BY <1>4 DEF IInv, TypeOK, ReloadsAsIs, At
<1>6. /\ Logged
      /\ mem'.ledger = Append(mem.ledger, c) /\ mem'.notes = mem.notes
  BY <1>1, <1>2, <1>5, ClaimLogged
<1>7. run' \in Run /\ run'.stage = "result" /\ run'.claim = c
  BY <1>1, <1>2, <1>3 DEF Run, Stages
<1>8. TypeOK' BY <1>3, <1>4, <1>6, <1>7 DEF TypeOK, Logged, Counters
<1>9. ReloadsAsIs' BY <1>6 DEF ReloadsAsIs, Logged
<1>10. ClaimRecorded'
  <2>1. mem.ledger \in Seq(Claim) BY <1>5 DEF Session
  <2>2. /\ Len(Append(mem.ledger, c)) = Len(mem.ledger) + 1
        /\ Append(mem.ledger, c)[Len(mem.ledger) + 1] = c
        /\ Len(mem.ledger) \in Nat
    BY <1>2, <2>1, AppendProperties
  <2>3. Len(mem.ledger) + 1 \in 1..(Len(mem.ledger) + 1) BY <2>2
  <2> QED BY <1>6, <1>7, <2>2, <2>3 DEF ClaimRecorded
<1>11. Trust!Mint
  <2>1. Current = mem /\ Current' = mem' BY <1>4, <1>7 DEF Current, At
  <2> QED BY <1>1, <1>6, <2>1 DEF Trust!Mint
<1> QED BY <1>8, <1>9, <1>10, <1>11 DEF IInv, TrustStep

\* The lemma of a lean_prove claim is locked when the claim is on the ledger.
LEMMA SettleKeeps ==
    ASSUME IInv, Settle
    PROVE  IInv' /\ TrustStep
<1>1. /\ run \in Run /\ used \in Counters /\ interrupt \in BOOLEAN
      /\ Begun(run.aside) \in Nat
  BY RunTypes
<1>2. run.stage = "settle" /\ UNCHANGED <<interrupt, used>> BY DEF Settle, At
<1>3. mem \in Session /\ disk \in File /\ disk.said = mem
  BY <1>2 DEF IInv, TypeOK, ReloadsAsIs, At
<1>4. run' \in Run /\ run'.stage = "check"
  <2> DEFINE aside == IF AsksKernel(run.claim) THEN Begun(run.aside) ELSE run.aside
  <2>1. PICK h : run' = [run EXCEPT !.stage = "check", !.claim = NoClaim,
                                    !.hit = @ \/ h, !.aside = aside]
    BY DEF Settle
  <2>2. (run.hit \/ h) \in BOOLEAN OBVIOUS
  <2> DEFINE hit == run.hit \/ h
  <2>3. run' = [run EXCEPT !.stage = "check", !.claim = NoClaim, !.hit = hit, !.aside = aside]
    BY <2>1
  <2>4. hit \in BOOLEAN BY <2>2
  <2>5. aside \in Nat BY <1>1 DEF Run
  <2> HIDE DEF hit, aside
  <2> QED BY <1>1, <2>3, <2>4, <2>5 DEF Run, Stages
<1>5. ~At("down") /\ ~(At("down")') BY <1>2, <1>4 DEF At
<1>6. CASE run.claim.tool # "lean_prove"
  <2>1. UNCHANGED <<mem, disk>> BY <1>6 DEF Settle
  <2>2. run'.stage \notin {"result", "settle"} BY <1>4
  <2> QED BY <1>1, <1>2, <1>4, <1>5, <2>1, <2>2, StillStep
<1>7. CASE run.claim.tool = "lean_prove"
  <2>1. PICK k \in 1..Len(mem.ledger) : mem.ledger[k] = run.claim
    BY <1>2 DEF IInv, ClaimRecorded
  <2>2. run.claim \in Claim
    <3>1. mem.ledger \in Seq(Claim) BY <1>3 DEF Session
    <3> QED BY <2>1, <3>1, ElementOfSeq
  <2>3. run.claim.name \in Names BY <2>2 DEF Claim
  <2>4. LogLemma(run.claim.name) BY <1>7 DEF Settle
  <2>5. /\ Logged
        /\ mem'.ledger = mem.ledger
        /\ NamesIn(mem'.notes) = NamesIn(mem.notes) \cup {run.claim.name}
    BY <1>3, <2>3, <2>4, LemmaLogged
  <2>6. TypeOK' BY <1>1, <1>2, <1>4, <2>5 DEF TypeOK, Logged, Counters
  <2>7. ReloadsAsIs' BY <2>5 DEF ReloadsAsIs, Logged
  <2>8. ClaimRecorded' BY <1>4 DEF ClaimRecorded
  <2>9. Current = mem /\ Current' = mem' BY <1>5 DEF Current
  <2>10. Trust!Backed(run.claim.name) BY <1>7, <2>1, <2>9 DEF Trust!Backed
  <2>11. Trust!LockLemma
    <3>1. /\ NamesIn(Current.notes)' = NamesIn(Current.notes) \cup {run.claim.name}
          /\ UNCHANGED Current.ledger
      BY <2>5, <2>9
    <3>2. /\ {Current.notes[j] : j \in 1..Len(Current.notes)} = NamesIn(Current.notes)
          /\ {Current.notes[j] : j \in 1..Len(Current.notes)}' = NamesIn(Current.notes)'
      BY DEF NamesIn
    <3>3. {Current.notes[j] : j \in 1..Len(Current.notes)}'
            = {Current.notes[j] : j \in 1..Len(Current.notes)} \cup {run.claim.name}
      BY <3>1, <3>2
    <3> QED BY <2>3, <2>10, <3>1, <3>3 DEF Trust!LockLemma
  <2> QED BY <2>6, <2>7, <2>8, <2>11 DEF IInv, TrustStep
<1> QED BY <1>6, <1>7

\* An interrupt changes a flag only.
LEMMA InterruptKeeps ==
    ASSUME IInv, Interrupt
    PROVE  IInv' /\ TrustStep
<1>1. run \in Run /\ used \in Counters BY RunTypes
<1>2. /\ ~At("down") /\ interrupt' = TRUE
      /\ UNCHANGED <<mem, disk, run, used>>
  BY DEF Interrupt, At
<1>3. ~(At("down")') BY <1>2 DEF At
<1> QED BY <1>1, <1>2, <1>3, StillStep

\* A crash leaves what the file holds, which is what the program knew.
LEMMA CrashKeeps ==
    ASSUME IInv, Crash
    PROVE  IInv' /\ TrustStep
<1>1. used \in Counters /\ [Ready EXCEPT !.stage = "down"] \in Run BY RunTypes
<1>2. /\ ~At("down") /\ mem' = NewSession /\ disk' = disk /\ interrupt' = FALSE
      /\ run' = [Ready EXCEPT !.stage = "down"]
      /\ used' = [used EXCEPT !.crashes = @ + 1]
  BY DEF Crash
<1>3. At("down")' BY <1>2 DEF At, Ready
<1>4. used' \in Counters BY <1>1, <1>2 DEF Counters
<1>5. NewSession \in Session
  <2>1. << >> \in Seq(Item) /\ << >> \in Seq(Claim) /\ << >> \in Seq(Names)
    BY EmptySeq
  <2> QED BY <2>1 DEF NewSession, Session
<1>6. TypeOK' BY <1>1, <1>2, <1>4, <1>5 DEF IInv, TypeOK, Counters
<1>7. ReloadsAsIs' /\ ClaimRecorded' BY <1>3 DEF ReloadsAsIs, ClaimRecorded, At
<1>8. Current = mem /\ Current' = disk'.said /\ disk'.said = mem
  BY <1>2, <1>3 DEF Current, IInv, ReloadsAsIs
<1>9. Trust!trust' = Trust!trust BY <1>8, Mapping
<1> QED BY <1>6, <1>7, <1>9 DEF IInv, TrustStep

\* A resume brings back what the file holds.
LEMMA ResumeKeeps ==
    ASSUME IInv, Resume
    PROVE  IInv' /\ TrustStep
<1>1. [Ready EXCEPT !.outcome = run.outcome] \in Run BY RunTypes
<1>2. /\ mem' = disk.said /\ UNCHANGED <<disk, interrupt, used>>
      /\ run' = [Ready EXCEPT !.outcome = run.outcome]
  BY DEF Resume
<1>3. run'.stage = "idle" BY <1>2 DEF Ready
<1>4. TypeOK' BY <1>1, <1>2 DEF IInv, TypeOK, File
<1>5. ReloadsAsIs' /\ ClaimRecorded'
  BY <1>2, <1>3 DEF ReloadsAsIs, ClaimRecorded
<1>6. Current = disk.said /\ Current' = disk.said
  BY <1>2, <1>3 DEF Current, IInv, ReloadsAsIs, At
<1>7. Trust!trust' = Trust!trust BY <1>6, Mapping
<1> QED BY <1>4, <1>5, <1>7 DEF IInv, TrustStep

\* Every step preserves the invariant and is a step or a stutter of TrustLog.
LEMMA StepKeeps ==
    ASSUME IInv, [Next]_vars
    PROVE  IInv' /\ TrustStep
<1>1. CASE StillActions BY <1>1, StillActionsKeep
<1>2. CASE ItemActions BY <1>2, ItemActionsKeep
<1>3. CASE HuntCompaction \/ AutoCompact \/ SlashCompact BY <1>3, CompactionsKeep
<1>4. CASE DispatchClaim BY <1>4, DispatchClaimKeeps
<1>5. CASE Settle BY <1>5, SettleKeeps
<1>6. CASE Interrupt BY <1>6, InterruptKeeps
<1>7. CASE Crash BY <1>7, CrashKeeps
<1>8. CASE Resume BY <1>8, ResumeKeeps
<1>9. CASE UNCHANGED vars
  <2>1. UNCHANGED <<mem, disk, run, interrupt, used>> BY <1>9 DEF vars
  <2>2. IInv' BY <2>1 DEF IInv, TypeOK, ReloadsAsIs, ClaimRecorded, At
  <2>3. Current' = Current BY <2>1 DEF Current, At
  <2>4. Trust!trust' = Trust!trust BY <2>3, Mapping
  <2> QED BY <2>2, <2>4 DEF TrustStep
<1> QED
  BY <1>1, <1>2, <1>3, <1>4, <1>5, <1>6, <1>7, <1>8, <1>9
  DEF Next, Loop, User, StillActions, ItemActions

\* The program begins with an empty session.
LEMMA InitKeeps ==
    ASSUME Init
    PROVE  IInv /\ Trust!Empty
<1>1. NewSession \in Session
  <2>1. << >> \in Seq(Item) /\ << >> \in Seq(Claim) /\ << >> \in Seq(Names)
    BY EmptySeq
  <2> QED BY <2>1 DEF NewSession, Session
<1>2. Ready \in Run BY DEF Ready, Run, Stages, Modes, Outcomes
<1>3. TypeOK BY <1>1, <1>2 DEF Init, TypeOK, File, NewFile
<1>4. ReloadsAsIs /\ ClaimRecorded
  BY DEF Init, ReloadsAsIs, ClaimRecorded, Ready, NewFile
<1>5. Current.ledger = << >> /\ Current.notes = << >>
  BY DEF Init, Current, NewSession, NewFile
<1>6. {Current.notes[k] : k \in 1..Len(Current.notes)} = {}
  BY <1>5, EmptySeq
<1> QED BY <1>3, <1>4, <1>5, <1>6 DEF IInv, Trust!Empty

-----------------------------------------------------------------------------
(***************************************************************************)
(* The theorems                                                            *)
(***************************************************************************)
\* The invariant of the proofs holds in every reachable state.
THEOREM Invariance == Spec => []IInv
<1>1. Init => IInv BY InitKeeps
<1>2. IInv /\ [Next]_vars => IInv' BY StepKeeps
<1> QED BY <1>1, <1>2, PTL DEF Spec

\* Agent.step and the session have their types, for every number of steps,
\* rounds, calls, prompts and crashes.
THEOREM TypeCorrect == Spec => []TypeOK
<1>1. IInv => TypeOK BY DEF IInv
<1> QED BY <1>1, Invariance, PTL

\* session.py 1-7: whenever the program runs, the lines of the file say the session as
\* the program knows it. Killed at any event, it is resumed as it was, when load can
\* read the file at all: not once a text with a line separator was written (171, 228).
THEOREM SessionReloads == Spec => []ReloadsAsIs
<1>1. IInv => ReloadsAsIs BY DEF IInv
<1> QED BY <1>1, Invariance, PTL

\* ledger.py, session.py, compaction.py: whatever is compacted, interrupted,
\* killed or resumed, the ledger only grows, by one claim at a time, and a
\* lemma is locked only when a lean_prove claim for it is on the ledger.
THEOREM TrustImplemented == Spec => KeepsTrust
<1>1. Init => Trust!Empty BY InitKeeps
<1>2. IInv /\ [Next]_vars => [Trust!Mint \/ Trust!LockLemma]_(Trust!trust)
  BY StepKeeps DEF TrustStep
<1> QED BY <1>1, <1>2, Invariance, PTL DEF Spec, KeepsTrust, Trust!Spec

=============================================================================
