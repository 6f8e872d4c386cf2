-------------------------- MODULE PromotionProofs --------------------------
(***************************************************************************)
(* Proofs about Promotion, for every value of its constants: a promotion   *)
(* that a ledger speaks of has a complete, green entry behind it; a        *)
(* directory that no write-back was cut short in belongs to a recorded     *)
(* promotion; a claim that a check found flawed is not being promoted.     *)
(*                                                                         *)
(* The invariant follows the write-back. At each stage the directory holds *)
(* the files of the stages before, so an entry that is being written is    *)
(* never one that a ledger already leans on: what the rollback removes is  *)
(* nobody else's. The parts after it rest on it: the gates of CI are green *)
(* but for the entries that a cut touched, the ledger in memory and the    *)
(* file of its session agree up to the claims cut off from the file, and   *)
(* every variable has its type.                                            *)
(***************************************************************************)
EXTENDS Promotion, SequenceTheorems, WellFoundedInduction, TLAPS

\* The files that stand when a stage begins.
Written(stage) ==
    CASE stage \in {"elaborate", "mkdir", "Statements"} -> {}
      [] stage = "Proofs" -> {"Statements"}
      [] stage = "SanityChecks" -> {"Statements", "Proofs"}
      [] stage = "Notes" -> {"Statements", "Proofs", "SanityChecks"}
      [] stage = "status" -> {"Statements", "Proofs", "SanityChecks", "Notes"}
      [] OTHER -> FileNames

Being(e) == at \in WriteBack /\ e = job.entry
\* A rollback may still take its directory.
Open(e) == Being(e) /\ at \notin {"again", "append"}
\* Its import stands, or would if no write of the barrel had been cut.
Kept(e) == Imported(e) \/ e \in lost

SessionShape ==
    /\ at \in {"down", "idle"} \cup WriteBack
    /\ recent \in Seq(Sessions)
    /\ ledger \in Seq(Claims) /\ unlogged \subseteq Claims /\ log \in [Sessions -> Seq(Claims)]
    /\ at # "down" => cur \in Sessions
    /\ \A s \in Sessions \ ToSet(recent) : log[s] = <<>>

DiskShape ==
    /\ corpus \in [Entries -> Stored] /\ content \in [Entries -> Contents]
    /\ barrel \subseteq Entries /\ lost \subseteq Entries

\* The stages that begin with the entry in the barrel.
Imports == {"gates", "record", "again", "append"}

\* How far the write-back in progress has come.
InStep ==
    at \in WriteBack =>
        /\ job \in Jobs
        /\ corpus[job.entry].files = Written(at)
        /\ at \in {"import", "refill"} \cup Imports => content[job.entry] = job.content
        /\ at = "refill" => barrel = {}
        /\ at \in Imports => job.entry \in barrel
        /\ at \in Imports \ {"gates"} => EntryGates(corpus[job.entry], job.content)

\* A promotion of a ledger leans on an entry that no rollback can take.
Backs(e, t) == /\ ~Open(e) /\ Kept(e) /\ Complete(corpus[e]) /\ content[e].thm = t
               /\ EntryGates(corpus[e], content[e])
BackedElsewhere ==
    \A t \in Theorems : InLedgers(PromotionClaim(t)) => \E e \in Entries : Backs(e, t)

\* A directory that nothing was cut short in, and that is not being written, is accounted for.
Accounted ==
    \A e \in Entries :
        /\ Being(e) => at \in {"elaborate", "mkdir"}
        /\ corpus[e].dir /\ e \notin failed
        => /\ Complete(corpus[e]) /\ Kept(e)
           /\ \E s \in Sessions : PromotionClaim(content[e].thm) \in ToSet(log[s])

\* What the file holds is in memory, and what memory holds is in the file, was cut off
\* from it, or is on its way.
SameClaims ==
    at # "down" => /\ ToSet(log[cur]) \subseteq ToSet(ledger)
                   /\ ToSet(ledger) \subseteq ToSet(log[cur]) \cup unlogged \cup Recorded
                   /\ Recorded \subseteq ToSet(ledger)

DiskInv == DiskShape /\ InStep /\ BackedElsewhere /\ Accounted
IInv == SessionShape /\ DiskInv /\ SameClaims

-----------------------------------------------------------------------------
(***************************************************************************)
(* Stages and sequences                                                    *)
(***************************************************************************)
\* The stages by name, and which one follows which.
LEMMA StageOrder ==
    /\ WriteBack = {"elaborate", "mkdir", "import", "refill"} \cup Imports \cup FileNames
    /\ NextStage["elaborate"] = "mkdir" /\ NextStage["mkdir"] = "Statements"
    /\ NextStage["Statements"] = "Proofs" /\ NextStage["Proofs"] = "SanityChecks"
    /\ NextStage["SanityChecks"] = "Notes" /\ NextStage["Notes"] = "status"
    /\ NextStage["status"] = "import" /\ NextStage["import"] = "refill"
    /\ NextStage["refill"] = "gates" /\ NextStage["gates"] = "record"
    /\ NextStage["record"] = "again" /\ NextStage["again"] = "append"
BY DEF WriteBack, NextStage, FileNames, Imports

\* Each file adds itself to those that stand.
LEMMA FilesGrow ==
    /\ \A f \in FileNames : Written(NextStage[f]) = Written(f) \cup {f}
    /\ Written("elaborate") = {} /\ Written("mkdir") = {} /\ Written("Statements") = {}
    /\ \A stage \in {"import", "refill"} \cup Imports : Written(stage) = FileNames
BY StageOrder DEF Written, FileNames, Imports

\* What a concatenation holds.
LEMMA HeldByBoth ==
    ASSUME NEW S, NEW s \in Seq(S), NEW t \in Seq(S)
    PROVE  ToSet(s \o t) = ToSet(s) \cup ToSet(t)
<1>1. /\ s \o t \in Seq(S) /\ Len(s \o t) = Len(s) + Len(t)
      /\ \A i \in 1..(Len(s) + Len(t)) :
           (s \o t)[i] = IF i <= Len(s) THEN s[i] ELSE t[i - Len(s)]
  BY ConcatProperties
<1>2. /\ DOMAIN s = 1..Len(s) /\ DOMAIN t = 1..Len(t) /\ DOMAIN (s \o t) = 1..Len(s \o t)
      /\ Len(s) \in Nat /\ Len(t) \in Nat
  BY <1>1, LenProperties
<1>3. ASSUME NEW x \in ToSet(s \o t) PROVE x \in ToSet(s) \cup ToSet(t)
  <2>1. PICK i \in 1..(Len(s) + Len(t)) : x = (s \o t)[i] BY <1>1, <1>2, <1>3 DEF ToSet
  <2>2. CASE i <= Len(s) BY <1>1, <1>2, <2>1, <2>2 DEF ToSet
  <2>3. CASE i > Len(s)
    <3>1. i - Len(s) \in 1..Len(t) /\ x = t[i - Len(s)] BY <1>1, <1>2, <2>1, <2>3
    <3> QED BY <1>2, <3>1 DEF ToSet
  <2> QED BY <1>2, <2>2, <2>3
<1>4. ASSUME NEW i \in 1..Len(s) PROVE s[i] \in ToSet(s \o t)
  <2>1. i \in 1..(Len(s) + Len(t)) /\ (s \o t)[i] = s[i] BY <1>1, <1>2, <1>4
  <2> QED BY <1>1, <1>2, <2>1 DEF ToSet
<1>5. ASSUME NEW i \in 1..Len(t) PROVE t[i] \in ToSet(s \o t)
  <2>1. /\ i + Len(s) \in 1..(Len(s) + Len(t)) /\ ~(i + Len(s) <= Len(s))
        /\ (i + Len(s)) - Len(s) = i
    BY <1>2, <1>5
  <2>2. (s \o t)[i + Len(s)] = t[i] BY <1>1, <2>1
  <2> QED BY <1>1, <1>2, <2>1, <2>2 DEF ToSet
<1> QED BY <1>2, <1>3, <1>4, <1>5 DEF ToSet

\* The empty sequence holds nothing.
LEMMA EmptyHolds == ToSet(<<>>) = {}
BY DEF ToSet

\* What a sequence holds after one more.
LEMMA HeldByAppend ==
    ASSUME NEW S, NEW s \in Seq(S), NEW x \in S
    PROVE  Append(s, x) \in Seq(S) /\ ToSet(Append(s, x)) = ToSet(s) \cup {x}
<1>1. /\ Append(s, x) \in Seq(S) /\ Len(Append(s, x)) = Len(s) + 1
      /\ \A i \in 1..Len(s) : Append(s, x)[i] = s[i]
      /\ Append(s, x)[Len(s) + 1] = x
  BY AppendProperties
<1>2. /\ DOMAIN s = 1..Len(s) /\ DOMAIN Append(s, x) = 1..(Len(s) + 1) /\ Len(s) \in Nat
  BY <1>1, LenProperties
<1> QED BY <1>1, <1>2 DEF ToSet

\* The list of files keeps its type when one is written, and loses none.
LEMMA TouchedType ==
    ASSUME recent \in Seq(Sessions), NEW s \in Sessions
    PROVE  /\ Touched(s) \in Seq(Sessions)
           /\ ToSet(recent) \cup {s} \subseteq ToSet(Touched(s))
<1>1. CASE s \notin ToSet(recent)
  BY <1>1, AppendProperties, HeldByAppend DEF Touched
<1>2. CASE s \in ToSet(recent)
  <2> DEFINE i == CHOOSE i \in DOMAIN recent : recent[i] = s
  <2>1. DOMAIN recent = 1..Len(recent) /\ Len(recent) \in Nat BY LenProperties
  <2>2. \E j \in DOMAIN recent : recent[j] = s BY <1>2 DEF ToSet
  <2>3. i \in 1..Len(recent) BY <2>1, <2>2
  <2> HIDE DEF i
  <2>4. \A j \in 1..Len(recent) : recent[j] \in Sessions BY ElementOfSeq
  <2>5. SubSeq(recent, 1, i - 1) \in Seq(Sessions)
    <3>1. \A j \in 1..(i - 1) : recent[j] \in Sessions BY <2>1, <2>3, <2>4
    <3> QED BY <2>3, <3>1, SubSeqProperties
  <2>6. SubSeq(recent, i + 1, Len(recent)) \in Seq(Sessions)
    <3>1. \A j \in (i + 1)..Len(recent) : recent[j] \in Sessions BY <2>1, <2>3, <2>4
    <3> QED BY <2>1, <2>3, <3>1, SubSeqProperties
  <2>7. RemoveAt(recent, i) \in Seq(Sessions)
    BY <2>5, <2>6, ConcatProperties DEF RemoveAt
  <2>8. Touched(s) = Append(RemoveAt(recent, i), s) BY <1>2 DEF Touched, i
  <2>9. ToSet(recent) \subseteq ToSet(RemoveAt(recent, i)) \cup {s}
    <3> DEFINE before == SubSeq(recent, 1, i - 1)
               after == SubSeq(recent, i + 1, Len(recent))
    <3>1. ToSet(RemoveAt(recent, i)) = ToSet(before) \cup ToSet(after)
      BY <2>5, <2>6, HeldByBoth DEF RemoveAt
    <3>2. ASSUME NEW j \in 1..Len(recent)
          PROVE  recent[j] \in ToSet(before) \cup ToSet(after) \cup {s}
      <4>1. CASE j < i
        <5>1. \A k \in 1..(i - 1) : recent[k] \in Sessions BY <2>1, <2>3, <2>4
        <5>2. /\ Len(before) = IF 1 <= i - 1 THEN i - 1 - 1 + 1 ELSE 0
              /\ \A k \in 1..(i - 1 - 1 + 1) : before[k] = recent[1 + k - 1]
          BY <2>3, <5>1, SubSeqProperties
        <5>3. j \in 1..Len(before) /\ before[j] = recent[j] BY <2>1, <2>3, <4>1, <5>2
        <5> QED BY <2>5, <5>3, LenProperties DEF ToSet
      <4>2. CASE j = i
        BY <2>2, <4>2 DEF i
      <4>3. CASE j > i
        <5>1. \A k \in (i + 1)..Len(recent) : recent[k] \in Sessions
          BY <2>1, <2>3, <2>4
        <5>2. /\ Len(after) = IF i + 1 <= Len(recent) THEN Len(recent) - (i + 1) + 1 ELSE 0
              /\ \A k \in 1..(Len(recent) - (i + 1) + 1) : after[k] = recent[(i + 1) + k - 1]
          BY <2>1, <2>3, <5>1, SubSeqProperties
        <5>3. j - i \in 1..Len(after) /\ after[j - i] = recent[j]
          <6>1. j - i \in 1..(Len(recent) - (i + 1) + 1) /\ (i + 1) + (j - i) - 1 = j
            BY <2>1, <2>3, <4>3
          <6>2. after[j - i] = recent[(i + 1) + (j - i) - 1] BY <5>2, <6>1
          <6>3. i + 1 <= Len(recent) BY <2>1, <2>3, <4>3
          <6> HIDE DEF after
          <6>4. Len(after) = Len(recent) - (i + 1) + 1 BY <5>2, <6>3
          <6> QED BY <6>1, <6>2, <6>4
        <5> QED BY <2>6, <5>3, LenProperties DEF ToSet
      <4> QED BY <2>1, <2>3, <4>1, <4>2, <4>3
    <3> QED BY <2>1, <3>1, <3>2 DEF ToSet
  <2> QED BY <2>7, <2>8, <2>9, HeldByAppend
<1> QED BY <1>1, <1>2

-----------------------------------------------------------------------------
(***************************************************************************)
(* Between write-backs the corpus stays as it is                           *)
(***************************************************************************)
\* The claims of promotions in memory and files are the old ones, and no file loses a claim.
NoNewPromotion ==
    /\ \A t \in Theorems : InLedgers(PromotionClaim(t))' => InLedgers(PromotionClaim(t))
    /\ \A s \in Sessions : ToSet(log[s]) \subseteq ToSet(log'[s])

\* A claim that is backed stays so where the entry and its import are as they were.
LEMMA BacksStays ==
    ASSUME NEW e \in Entries, NEW t, Backs(e, t), ~Open(e)', Kept(e)',
           corpus'[e] = corpus[e], content'[e] = content[e]
    PROVE  Backs(e, t)'
BY DEF Backs, Complete, EntryGates, Conventions, NoSorryToken, TomlParses, AxiomsClean

\* A step outside of a write-back, without a promotion in it, keeps the corpus accounted for.
LEMMA DiskKept ==
    ASSUME DiskInv, UNCHANGED <<disk, cuts>>, at' \notin WriteBack,
           NoNewPromotion, at \notin WriteBack
    PROVE  DiskInv'
<1>1. DiskShape' BY DEF DiskInv, DiskShape, disk, cuts
<1>2. InStep' BY DEF InStep
<1>3. \A e : Kept(e) <=> Kept(e)'
  <2>1. at # "refill" /\ at' # "refill" BY StageOrder
  <2> QED BY <2>1 DEF Kept, Imported, disk, cuts
<1>4. BackedElsewhere'
  <2> SUFFICES ASSUME NEW t \in Theorems, InLedgers(PromotionClaim(t))'
               PROVE  \E e \in Entries : Backs(e, t)'
    BY DEF BackedElsewhere, PromotionClaim
  <2>1. InLedgers(PromotionClaim(t)) BY DEF NoNewPromotion
  <2>2. PICK e \in Entries : Backs(e, t) BY <2>1 DEF DiskInv, BackedElsewhere
  <2>3. ~Open(e)' BY DEF Open, Being
  <2>4. Kept(e)' BY <1>3, <2>2 DEF Backs
  <2> QED BY <2>2, <2>3, <2>4, BacksStays DEF disk
<1>5. Accounted'
  <2> SUFFICES ASSUME NEW e \in Entries, corpus'[e].dir, e \notin failed'
               PROVE  /\ Complete(corpus'[e]) /\ Kept(e)'
                      /\ \E s \in Sessions : PromotionClaim(content'[e].thm) \in ToSet(log'[s])
    BY DEF Accounted, Complete, PromotionClaim
  <2>1. /\ Complete(corpus[e]) /\ Kept(e)
        /\ \E s \in Sessions : PromotionClaim(content[e].thm) \in ToSet(log[s])
    BY DEF DiskInv, Accounted, Being, disk, cuts
  <2> QED BY <1>3, <2>1 DEF disk, NoNewPromotion
<1> QED BY <1>1, <1>2, <1>4, <1>5 DEF DiskInv

\* The part about the sessions, and that a step outside of a write-back leaves the rest.
LEMMA SessionStep ==
    ASSUME IInv, SessionShape', SameClaims', UNCHANGED <<disk, cuts>>, NoNewPromotion,
           at \notin WriteBack, at' \notin WriteBack
    PROVE  IInv'
BY DiskKept DEF IInv

\* The two places outside of a write-back.
LEMMA Outside == "idle" \notin WriteBack /\ "down" \notin WriteBack
BY StageOrder DEF FileNames, Imports

\* Binding a session reads its file; a new one is empty.
LEMMA BindStep ==
    ASSUME IInv, UNCHANGED <<disk, cuts, log>>, at \in {"idle", "down"}, at' = "idle",
           recent' \in Seq(Sessions), ToSet(recent) \subseteq ToSet(recent'),
           NEW s \in Sessions, cur' = s, ledger' = log[s], unlogged' = {}
    PROVE  IInv'
<1>1. log[s] \in Seq(Claims) BY DEF IInv, SessionShape
<1>2. SessionShape' BY <1>1 DEF IInv, SessionShape
<1>3. SameClaims'
  <2>1. Recorded' = {} BY DEF Recorded
  <2> QED BY <2>1 DEF SameClaims
<1>4. NoNewPromotion BY DEF NoNewPromotion, InLedgers, PromotionClaim
<1> QED BY <1>2, <1>3, <1>4, SessionStep, Outside

\* A claim of a turn is not a promotion.
LEMMA MintedIsNoPromotion ==
    ASSUME NEW minted, minted \in {<<>>} \cup {<<c>> : c \in Minted}
    PROVE  /\ minted \in Seq(Claims)
           /\ \A t : PromotionClaim(t) \notin ToSet(minted)
<1>1. CASE minted = <<>> BY <1>1, EmptySeq DEF ToSet
<1>2. CASE minted \in {<<c>> : c \in Minted}
  <2>1. PICK c \in Minted : minted = <<c>> BY <1>2
  <2>2. c \in Claims /\ c.tool # "lean_add_to_library" BY DEF Minted
  <2>3. ToSet(minted) = {c} BY <2>1 DEF ToSet
  <2>4. \A t : PromotionClaim(t).tool = "lean_add_to_library" BY DEF PromotionClaim
  <2> QED BY <2>1, <2>2, <2>3, <2>4
<1> QED BY <1>1, <1>2

\* A turn of the agent writes what it mints to both.
LEMMA TurnStep ==
    ASSUME IInv, NEW minted \in {<<>>} \cup {<<c>> : c \in Minted}, NEW ok \in BOOLEAN,
           Turn(minted, ok)
    PROVE  IInv'
<1>1. /\ at = "idle" /\ at' = "idle" /\ UNCHANGED <<cur, disk, cuts>>
      /\ ledger' = ledger \o minted /\ recent' = Touched(cur)
      /\ IF ok THEN log' = [log EXCEPT ![cur] = @ \o minted] /\ unlogged' = unlogged
               ELSE log' = log /\ unlogged' = unlogged \cup ToSet(minted)
  BY DEF Turn, Type
<1>2. /\ cur \in Sessions /\ ledger \in Seq(Claims) /\ log \in [Sessions -> Seq(Claims)]
      /\ recent \in Seq(Sessions)
  BY <1>1 DEF IInv, SessionShape
<1>3. /\ minted \in Seq(Claims) /\ \A t : PromotionClaim(t) \notin ToSet(minted)
  BY MintedIsNoPromotion
<1>4. ToSet(ledger') = ToSet(ledger) \cup ToSet(minted) BY <1>1, <1>2, <1>3, HeldByBoth
<1>5. ToSet(minted) \subseteq Claims BY <1>3, LenProperties, ElementOfSeq DEF ToSet
<1>6. /\ log' \in [Sessions -> Seq(Claims)] /\ unlogged' \subseteq Claims
      /\ \A s \in Sessions : s # cur => log'[s] = log[s]
      /\ ToSet(log[cur]) \subseteq ToSet(log'[cur])
      /\ ToSet(log'[cur]) \cup unlogged' = ToSet(log[cur]) \cup unlogged \cup ToSet(minted)
      /\ ToSet(log'[cur]) \subseteq ToSet(log[cur]) \cup ToSet(minted)
  <2>1. unlogged \subseteq Claims BY DEF IInv, SessionShape
  <2>2. CASE ok
    <3>1. log[cur] \o minted \in Seq(Claims) BY <1>2, <1>3, ConcatProperties
    <3>2. ToSet(log[cur] \o minted) = ToSet(log[cur]) \cup ToSet(minted)
      BY <1>2, <1>3, HeldByBoth
    <3>3. log'[cur] = log[cur] \o minted BY <1>1, <1>2, <2>2
    <3> QED BY <1>1, <1>2, <2>1, <2>2, <3>1, <3>2, <3>3
  <2>3. CASE ~ok BY <1>1, <1>2, <1>5, <2>1, <2>3
  <2> QED BY <2>2, <2>3
<1>7. SessionShape'
  <2>1. ledger' \in Seq(Claims) BY <1>1, <1>2, <1>3, ConcatProperties
  <2>2. recent' \in Seq(Sessions) /\ ToSet(recent) \cup {cur} \subseteq ToSet(recent')
    BY <1>1, <1>2, TouchedType
  <2>3. \A s \in Sessions \ ToSet(recent') : log'[s] = <<>>
    BY <1>6, <2>2 DEF IInv, SessionShape
  <2> QED BY <1>1, <1>2, <1>6, <2>1, <2>2, <2>3 DEF SessionShape
<1>8. SameClaims'
  <2>1. Recorded = {} /\ Recorded' = {} BY <1>1 DEF Recorded
  <2>2. /\ ToSet(log[cur]) \subseteq ToSet(ledger)
        /\ ToSet(ledger) \subseteq ToSet(log[cur]) \cup unlogged
    BY <1>1, <2>1 DEF IInv, SameClaims
  <2> QED BY <1>1, <1>4, <1>6, <2>1, <2>2 DEF SameClaims
<1>9. NoNewPromotion
  <2>1. ASSUME NEW s \in Sessions PROVE ToSet(log[s]) \subseteq ToSet(log'[s])
    BY <1>6
  <2>2. ASSUME NEW t \in Theorems, InLedgers(PromotionClaim(t))'
        PROVE  InLedgers(PromotionClaim(t))
    <3>1. \/ PromotionClaim(t) \in ToSet(ledger')
          \/ \E s \in Sessions : PromotionClaim(t) \in ToSet(log'[s])
      BY <2>2 DEF InLedgers, PromotionClaim
    <3>2. PromotionClaim(t) \notin ToSet(minted) BY <1>3
    <3> QED BY <1>2, <1>4, <1>6, <3>1, <3>2 DEF InLedgers
  <2> QED BY <2>1, <2>2 DEF NoNewPromotion
<1> QED BY <1>1, <1>7, <1>8, <1>9, SessionStep, Outside

\* Every step between write-backs.
LEMMA SessionSteps ==
    ASSUME IInv, \/ Start \/ StartResume \/ StartContinue \/ Quit \/ Clear
                 \/ \E minted \in {<<>>} \cup {<<c>> : c \in Minted}, ok \in BOOLEAN : Turn(minted, ok)
                 \/ \E arg \in ToSet(recent) \cup {NoSession} : Resume(arg)
    PROVE  IInv'
<1>1. recent \in Seq(Sessions) /\ log \in [Sessions -> Seq(Claims)]
  BY DEF IInv, SessionShape
<1>2. \A i \in DOMAIN recent : recent[i] \in Sessions BY <1>1, LenProperties, ElementOfSeq
<1>3. ToSet(recent) \subseteq Sessions BY <1>2 DEF ToSet
<1>4. ASSUME NEW s \in Fresh
      PROVE  /\ s \in Sessions /\ log[s] = <<>>
             /\ Touched(s) \in Seq(Sessions) /\ ToSet(recent) \subseteq ToSet(Touched(s))
             /\ Append(recent, s) \in Seq(Sessions)
             /\ ToSet(recent) \subseteq ToSet(Append(recent, s))
  BY <1>1, TouchedType, HeldByAppend DEF Fresh, IInv, SessionShape
<1>5. ASSUME NEW s \in Fresh, Create(s), UNCHANGED <<disk, cuts>>,
             at \in {"idle", "down"}, at' = "idle"
      PROVE  IInv'
  BY <1>4, <1>5, BindStep DEF Create
<1>6. ASSUME Start PROVE IInv' BY <1>5, <1>6 DEF Start
<1>7. ASSUME Clear PROVE IInv' BY <1>5, <1>7 DEF Clear, Type
<1>8. ASSUME NEW found \in Sessions, StartBound(found) PROVE IInv'
  <2>1. PICK s \in Fresh : recent' = Append(recent, s) BY <1>8 DEF StartBound
  <2> QED BY <1>4, <1>8, <2>1, BindStep DEF StartBound, Bind
<1>9. ASSUME StartResume PROVE IInv' BY <1>3, <1>8, <1>9 DEF StartResume
<1>10. ASSUME StartContinue PROVE IInv' BY <1>2, <1>8, <1>10 DEF StartContinue
<1>11. ASSUME Quit PROVE IInv'
  <2>1. /\ at = "idle" /\ at' = "down" /\ ledger' = <<>> /\ unlogged' = {}
        /\ UNCHANGED <<log, recent, disk, cuts>>
    BY <1>11 DEF Quit, Type, Unbind
  <2>2. SessionShape' BY <2>1, EmptySeq DEF IInv, SessionShape
  <2>3. NoNewPromotion BY <2>1, EmptyHolds DEF NoNewPromotion, InLedgers, PromotionClaim
  <2>4. SameClaims' BY <2>1 DEF SameClaims
  <2> QED BY <2>1, <2>2, <2>3, <2>4, SessionStep, Outside
<1>12. ASSUME NEW arg \in ToSet(recent) \cup {NoSession}, Resume(arg) PROVE IInv'
  <2> DEFINE s == IF arg = NoSession THEN LatestId ELSE arg
  <2>1. s \in Sessions
    <3>1. CASE arg # NoSession BY <1>3, <1>12, <3>1
    <3>2. CASE arg = NoSession
      <4>1. recent # <<>> /\ s = recent[Len(recent)]
        BY <1>12, <3>2 DEF Resume, LatestId, Last
      <4> QED BY <1>1, <1>2, <4>1, EmptySeq, LenProperties
    <3> QED BY <3>1, <3>2
  <2>2. /\ at = "idle" /\ at' = "idle" /\ cur' = s /\ ledger' = log[s] /\ unlogged' = {}
        /\ UNCHANGED <<disk, cuts, log, recent>>
    BY <1>12 DEF Resume, Type, Bind
  <2> HIDE DEF s
  <2> QED BY <1>1, <2>1, <2>2, BindStep
<1>13. ASSUME NEW minted \in {<<>>} \cup {<<c>> : c \in Minted}, NEW ok \in BOOLEAN,
              Turn(minted, ok)
       PROVE  IInv'
  BY <1>13, TurnStep
<1> QED BY <1>6, <1>7, <1>9, <1>10, <1>11, <1>12, <1>13

-----------------------------------------------------------------------------
(***************************************************************************)
(* The write-back                                                          *)
(***************************************************************************)
\* It ends, or Ctrl-C or a kill ends it: nothing on the disk changes, and what is left
\* of the entry is among the failed.
LEMMA LeavesWriteBack ==
    ASSUME IInv, UNCHANGED <<recent, log, disk>>, at' \in {"idle", "down"},
           at = "down" => at' = "down",
           \/ UNCHANGED <<cur, ledger>> /\ unlogged' = unlogged \cup Recorded /\ at' = "idle"
           \/ at' = "down" /\ ledger' = <<>> /\ unlogged' = {},
           failed \subseteq failed', lost \subseteq lost', lost' \subseteq Entries,
           at = "refill" => job.held \subseteq lost',
           at \in WriteBack \ {"elaborate", "mkdir"} /\ corpus[job.entry].dir
             => job.entry \in failed'
    PROVE  IInv'
<1>1. at' \notin WriteBack /\ at' # "refill" BY Outside
<1>2. Recorded' = {} BY DEF Recorded
<1>3. Recorded \subseteq Claims
  <2>1. CASE at \in {"again", "append"}
    <3>1. at \in WriteBack BY <2>1, StageOrder DEF Imports
    <3>2. job \in Jobs BY <3>1 DEF IInv, DiskInv, InStep
    <3>3. job.content.thm \in Theorems BY <3>2 DEF Jobs, Contents
    <3>4. PromotionClaim(job.content.thm) \in Claims BY <3>3 DEF PromotionClaim, Claims
    <3> QED BY <2>1, <3>4 DEF Recorded
  <2> QED BY <2>1 DEF Recorded
<1>4. SessionShape' BY <1>3, EmptySeq DEF IInv, SessionShape
<1>5. SameClaims'
  <2>1. CASE at' = "down" BY <2>1 DEF SameClaims
  <2>2. CASE at' # "down"
    <3>1. UNCHANGED <<cur, ledger, log>> /\ unlogged' = unlogged \cup Recorded /\ at # "down"
      BY <2>2
    <3>2. /\ ToSet(log[cur]) \subseteq ToSet(ledger)
          /\ ToSet(ledger) \subseteq ToSet(log[cur]) \cup unlogged \cup Recorded
      BY <3>1 DEF IInv, SameClaims
    <3> HIDE DEF Recorded
    <3> QED BY <1>2, <3>1, <3>2 DEF SameClaims
  <2> QED BY <2>1, <2>2
<1>6. DiskShape' BY DEF IInv, DiskInv, DiskShape, disk
<1>7. InStep' BY <1>1 DEF InStep
<1>8. \A t \in Theorems : InLedgers(PromotionClaim(t))' => InLedgers(PromotionClaim(t))
  BY EmptyHolds DEF InLedgers, PromotionClaim
<1>9. \A e : Kept(e) => Kept(e)' BY DEF Kept, Imported, disk
<1>10. BackedElsewhere'
  <2> SUFFICES ASSUME NEW t \in Theorems, InLedgers(PromotionClaim(t))'
               PROVE  \E e \in Entries : Backs(e, t)'
    BY DEF BackedElsewhere, PromotionClaim
  <2>1. PICK e \in Entries : Backs(e, t) BY <1>8 DEF IInv, DiskInv, BackedElsewhere
  <2>2. ~Open(e)' BY <1>1 DEF Open, Being
  <2>3. Kept(e)' BY <1>9, <2>1 DEF Backs
  <2> QED BY <2>1, <2>2, <2>3, BacksStays DEF disk
<1>11. Accounted'
  <2> SUFFICES ASSUME NEW e \in Entries, corpus'[e].dir, e \notin failed'
               PROVE  /\ Complete(corpus'[e]) /\ Kept(e)'
                      /\ \E s \in Sessions : PromotionClaim(content'[e].thm) \in ToSet(log'[s])
    BY DEF Accounted, Complete, PromotionClaim
  <2>1. Being(e) => at \in {"elaborate", "mkdir"} BY DEF Being, disk
  <2>2. /\ Complete(corpus[e]) /\ Kept(e)
        /\ \E s \in Sessions : PromotionClaim(content[e].thm) \in ToSet(log[s])
    BY <2>1 DEF IInv, DiskInv, Accounted, disk
  <2> QED BY <1>9, <2>2 DEF disk
<1> QED BY <1>4, <1>5, <1>6, <1>7, <1>10, <1>11 DEF IInv, DiskInv

\* A step of the write-back touches the entry it is about and no other.
OthersKept ==
    /\ \A e \in Entries \ {job.entry} :
         /\ corpus'[e] = corpus[e] /\ content'[e] = content[e]
         /\ Kept(e) => Kept(e)'
         /\ Imported(e)' => Imported(e)
    /\ failed \subseteq failed'

\* A claim of a ledger that is as it was is backed by an entry that is not open.
LEMMA BackedByOthers ==
    ASSUME IInv, at \in WriteBack \ {"again", "append"}, OthersKept, UNCHANGED sess,
           at' \in WriteBack => job'.entry = job.entry
    PROVE  BackedElsewhere'
<1> SUFFICES ASSUME NEW t \in Theorems, InLedgers(PromotionClaim(t))'
             PROVE  \E e \in Entries : Backs(e, t)'
  BY DEF BackedElsewhere, PromotionClaim
<1>1. InLedgers(PromotionClaim(t)) BY DEF InLedgers, sess, PromotionClaim
<1>2. PICK e \in Entries : Backs(e, t) BY <1>1 DEF IInv, DiskInv, BackedElsewhere
<1>3. e \in Entries \ {job.entry} BY <1>2 DEF Backs, Open, Being
<1>4. ~Open(e)' BY <1>3 DEF Open, Being
<1>5. Kept(e)' /\ corpus'[e] = corpus[e] /\ content'[e] = content[e]
  BY <1>2, <1>3 DEF Backs, OthersKept
<1> QED BY <1>2, <1>4, <1>5, BacksStays

\* The directories of the others stay accounted for.
LEMMA OthersAccounted ==
    ASSUME IInv, at \in WriteBack, OthersKept, UNCHANGED sess,
           NEW e \in Entries \ {job.entry}, corpus'[e].dir, e \notin failed'
    PROVE  /\ Complete(corpus'[e]) /\ Kept(e)'
           /\ \E s \in Sessions : PromotionClaim(content'[e].thm) \in ToSet(log'[s])
<1>1. corpus'[e] = corpus[e] /\ content'[e] = content[e] BY DEF OthersKept
<1>2. /\ Complete(corpus[e]) /\ Kept(e)
      /\ \E s \in Sessions : PromotionClaim(content[e].thm) \in ToSet(log[s])
  BY <1>1 DEF IInv, DiskInv, Accounted, Being, OthersKept
<1> QED BY <1>1, <1>2 DEF OthersKept, sess

\* A stage that is followed by another: only where the entry has come to is to be shown.
LEMMA GoesOn ==
    ASSUME IInv, UNCHANGED sess, at \in WriteBack \ {"again", "append"},
           at' \in WriteBack \ {"again", "append"}, job'.entry = job.entry,
           at' \notin {"elaborate", "mkdir"}, OthersKept, DiskShape', InStep'
    PROVE  IInv'
<1>1. job \in Jobs /\ job.entry \in Entries BY DEF IInv, DiskInv, InStep, Jobs
<1>2. at \notin {"down", "idle"} BY Outside
<1>3. SessionShape' BY Outside DEF IInv, SessionShape, sess
<1>4. SameClaims' BY <1>2 DEF IInv, SameClaims, sess, Recorded
<1>5. BackedElsewhere' BY BackedByOthers
<1>6. Accounted'
  <2> SUFFICES ASSUME NEW e \in Entries, e # job.entry, corpus'[e].dir, e \notin failed'
               PROVE  /\ Complete(corpus'[e]) /\ Kept(e)'
                      /\ \E s \in Sessions : PromotionClaim(content'[e].thm) \in ToSet(log'[s])
    BY DEF Accounted, Being, Complete, PromotionClaim
  <2> QED BY OthersAccounted
<1> QED BY <1>3, <1>4, <1>5, <1>6 DEF IInv, DiskInv

\* What the rollback leaves of the barrel: some of what was there and of what was read.
Leaves(imports) == imports \subseteq barrel \cup job.held \cup {job.entry}

\* The rollback touches no other entry.
LEMMA RollbackSpares ==
    ASSUME IInv, at \in WriteBack, NEW imports, Rollback(imports),
           at # "refill" => imports = barrel, Leaves(imports)
    PROVE  /\ job.entry \in Entries /\ at' = "idle" /\ UNCHANGED <<sess, content>>
           /\ corpus' = [corpus EXCEPT ![job.entry] = NoDir] /\ OthersKept
           /\ barrel' = imports /\ lost' \subseteq Entries
<1>1. job \in Jobs /\ job.entry \in Entries /\ job.held \subseteq Entries
  BY DEF IInv, DiskInv, InStep, Jobs
<1>2. /\ at' = "idle" /\ UNCHANGED <<sess, content>> /\ failed \subseteq failed'
      /\ corpus' = [corpus EXCEPT ![job.entry] = NoDir] /\ barrel' = imports
      /\ lost' = lost \cup ((barrel \cup job.held) \ imports)
  BY DEF Rollback, Done
<1>3. \A e \in Entries \ {job.entry} : corpus'[e] = corpus[e]
  BY <1>2 DEF IInv, DiskInv, DiskShape
<1>4. \A e \in Entries : Kept(e) => Kept(e)' BY <1>2 DEF Kept, Imported
<1>5. \A e \in Entries \ {job.entry} : Imported(e)' => Imported(e)
  BY <1>2 DEF Imported, Leaves
<1>6. lost' \subseteq Entries BY <1>1, <1>2 DEF IInv, DiskInv, DiskShape
<1> QED BY <1>1, <1>2, <1>3, <1>4, <1>5, <1>6 DEF OthersKept

\* The rollback: the directory of the entry goes.
LEMMA RollbackStep ==
    ASSUME IInv, at \in WriteBack \ {"again", "append"}, NEW imports, Rollback(imports),
           at # "refill" => imports = barrel, Leaves(imports)
    PROVE  IInv'
<1>1. job \in Jobs /\ job.entry \in Entries /\ job.held \subseteq Entries
  BY DEF IInv, DiskInv, InStep, Jobs
<1>2. /\ at' = "idle" /\ UNCHANGED <<sess, content>> /\ OthersKept
      /\ corpus' = [corpus EXCEPT ![job.entry] = NoDir]
      /\ barrel' = imports /\ lost' \subseteq Entries
  BY RollbackSpares
<1>3. at' \notin WriteBack /\ at # "down" BY <1>2, Outside
<1>4. SessionShape' BY <1>2, <1>3 DEF IInv, SessionShape, sess
<1>5. SameClaims' BY <1>2, <1>3 DEF IInv, SameClaims, sess, Recorded
<1>6. NoDir \in Stored /\ NoDir.dir = FALSE BY DEF NoDir, Stored
<1>7. DiskShape' BY <1>1, <1>2, <1>6 DEF IInv, DiskInv, DiskShape, Leaves
<1>8. InStep' BY <1>3 DEF InStep
<1>9. BackedElsewhere' BY <1>2, <1>3, BackedByOthers
<1>10. Accounted'
  <2> SUFFICES ASSUME NEW e \in Entries, corpus'[e].dir, e \notin failed'
               PROVE  /\ Complete(corpus'[e]) /\ Kept(e)'
                      /\ \E s \in Sessions : PromotionClaim(content'[e].thm) \in ToSet(log'[s])
    BY DEF Accounted, Being, Complete, PromotionClaim
  <2>1. corpus'[job.entry] = NoDir BY <1>1, <1>2 DEF IInv, DiskInv, DiskShape
  <2>2. e # job.entry BY <1>6, <2>1
  <2> QED BY <1>2, <2>2, OthersAccounted
<1> QED BY <1>4, <1>5, <1>7, <1>8, <1>9, <1>10 DEF IInv, DiskInv

\* /promote begins a write-back of an entry that has no files.
LEMMA PromoteStep ==
    ASSUME IInv, NEW arg \in 0..Len(ledger), NEW typed \in BOOLEAN,
           NEW first \in Answered, NEW forced \in Answered, Promote(arg, typed, first, forced)
    PROVE  IInv'
<1>1. PICK i \in DOMAIN ledger, e \in Entries, b \in Brought :
        /\ corpus[e].files = {}
        /\ job' = [entry |-> e, content |-> b, claim |-> ledger[i],
                   answer |-> Deciding(first, forced), held |-> {}]
  BY DEF Promote
<1>2. at = "idle" /\ at' = "elaborate" /\ UNCHANGED <<sess, disk, cuts>>
  BY DEF Promote, Type
<1>3. at \notin WriteBack /\ at' \in WriteBack BY <1>2, Outside, StageOrder
<1>4. SessionShape' BY <1>2, <1>3 DEF IInv, SessionShape, sess
<1>5. SameClaims' BY <1>2 DEF IInv, SameClaims, sess, Recorded
<1>6. DiskShape' BY <1>2 DEF IInv, DiskInv, DiskShape, disk, cuts
<1>7. job' \in Jobs
  <2>1. b \in Contents BY BroughtType
  <2>2. Deciding(first, forced) \in Answers BY AnsweredType DEF Deciding
  <2>3. ledger[i] \in Claims BY LenProperties, ElementOfSeq DEF IInv, SessionShape
  <2> QED BY <1>1, <2>1, <2>2, <2>3 DEF Jobs
<1>8. job'.entry = e BY <1>1
<1>9. InStep'
  <2>1. corpus'[job'.entry].files = Written(at')
    BY <1>1, <1>2, <1>8, FilesGrow DEF disk
  <2> QED BY <1>2, <1>7, <2>1 DEF InStep, Imports
<1>10. \A x : Kept(x) => Kept(x)' BY <1>2 DEF Kept, Imported, disk, cuts
<1>11. BackedElsewhere'
  <2> SUFFICES ASSUME NEW t \in Theorems, InLedgers(PromotionClaim(t))'
               PROVE  \E x \in Entries : Backs(x, t)'
    BY DEF BackedElsewhere, PromotionClaim
  <2>1. InLedgers(PromotionClaim(t)) BY <1>2 DEF InLedgers, sess, PromotionClaim
  <2>2. PICK x \in Entries : Backs(x, t) BY <2>1 DEF IInv, DiskInv, BackedElsewhere
  <2>3. x # e BY <1>1, <2>2 DEF Backs, Complete, FileNames
  <2>4. ~Open(x)' BY <1>8, <2>3 DEF Open, Being
  <2>5. Kept(x)' BY <1>10, <2>2 DEF Backs
  <2> QED BY <1>2, <2>2, <2>4, <2>5, BacksStays DEF disk
<1>12. Accounted'
  <2> SUFFICES ASSUME NEW x \in Entries, corpus'[x].dir, x \notin failed'
               PROVE  /\ Complete(corpus'[x]) /\ Kept(x)'
                      /\ \E s \in Sessions : PromotionClaim(content'[x].thm) \in ToSet(log'[s])
    BY DEF Accounted, Complete, PromotionClaim
  <2>1. /\ Complete(corpus[x]) /\ Kept(x)
        /\ \E s \in Sessions : PromotionClaim(content[x].thm) \in ToSet(log[s])
    BY <1>2, <1>3 DEF IInv, DiskInv, Accounted, Being, disk, cuts
  <2> QED BY <1>2, <1>10, <2>1 DEF disk, sess
<1> QED BY <1>4, <1>5, <1>6, <1>9, <1>11, <1>12 DEF IInv, DiskInv

\* Before there is anything to write: the snippet is elaborated.
LEMMA ElaborateStep ==
    ASSUME IInv, NEW answers \in BOOLEAN, Elaborate(answers)
    PROVE  IInv'
<1>1. /\ at = "elaborate" /\ UNCHANGED <<sess, disk, cuts>>
      /\ Go \/ Done
  BY DEF Elaborate
<1>2. CASE Done
  <2>1. lost \subseteq Entries BY DEF IInv, DiskInv, DiskShape
  <2>2. Recorded = {} BY <1>1 DEF Recorded
  <2> QED BY <1>1, <1>2, <2>1, <2>2, LeavesWriteBack DEF Done, sess, cuts
<1>3. CASE Go
  <2>1. at' = "mkdir" /\ UNCHANGED job BY <1>1, <1>3, StageOrder DEF Go
  <2>2. at \in WriteBack /\ at' \in WriteBack BY <1>1, <2>1, StageOrder
  <2>3. SessionShape' BY <1>1, <2>1, <2>2 DEF IInv, SessionShape, sess
  <2>4. SameClaims' BY <1>1, <2>1 DEF IInv, SameClaims, sess, Recorded
  <2>5. DiskShape' BY <1>1 DEF IInv, DiskInv, DiskShape, disk, cuts
  <2>6. InStep'
    BY <1>1, <2>1, <2>2, FilesGrow DEF IInv, DiskInv, InStep, disk, Imports
  <2>7. OthersKept BY <1>1, <2>1 DEF OthersKept, Kept, Imported, disk, cuts
  <2>8. BackedElsewhere' BY <1>1, <2>1, <2>2, <2>7, BackedByOthers
  <2>9. Accounted'
    <3> SUFFICES ASSUME NEW e \in Entries, corpus'[e].dir, e \notin failed'
                 PROVE  /\ Complete(corpus'[e]) /\ Kept(e)'
                        /\ \E s \in Sessions :
                             PromotionClaim(content'[e].thm) \in ToSet(log'[s])
      BY DEF Accounted, Complete, PromotionClaim
    <3>1. /\ Complete(corpus[e]) /\ Kept(e)
          /\ \E s \in Sessions : PromotionClaim(content[e].thm) \in ToSet(log[s])
      BY <1>1 DEF IInv, DiskInv, Accounted, Being, disk, cuts
    <3>2. Kept(e)' BY <1>1, <2>1, <3>1 DEF Kept, Imported, disk, cuts
    <3> QED BY <1>1, <3>1, <3>2 DEF disk, sess
  <2> QED BY <2>3, <2>4, <2>5, <2>6, <2>8, <2>9 DEF IInv, DiskInv
<1> QED BY <1>1, <1>2, <1>3

\* The directory is made, unless there is one.
LEMMA MakeDirStep == ASSUME IInv, MakeDir PROVE IInv'
<1>1. at = "mkdir" /\ UNCHANGED <<sess, content, barrel, cuts>> BY DEF MakeDir
<1>2. CASE Done /\ UNCHANGED corpus
  <2>1. lost \subseteq Entries BY DEF IInv, DiskInv, DiskShape
  <2>2. Recorded = {} BY <1>1 DEF Recorded
  <2> QED BY <1>1, <1>2, <2>1, <2>2, LeavesWriteBack DEF Done, sess, disk, cuts
<1>3. CASE Go /\ corpus' = [corpus EXCEPT ![job.entry] = [dir |-> TRUE, files |-> {}]]
  <2>1. at' = "Statements" /\ UNCHANGED job BY <1>1, <1>3, StageOrder DEF Go
  <2>2. at \in WriteBack /\ at' \in WriteBack BY <1>1, <2>1, StageOrder DEF FileNames
  <2>3. job \in Jobs /\ job.entry \in Entries BY <2>2 DEF IInv, DiskInv, InStep, Jobs
  <2>4. DiskShape' BY <1>1, <1>3, <2>3 DEF IInv, DiskInv, DiskShape, Stored, cuts
  <2>5. InStep'
    <3>1. corpus'[job.entry].files = {} BY <1>3, <2>3 DEF IInv, DiskInv, DiskShape
    <3> QED BY <2>1, <2>2, <2>3, <3>1, FilesGrow DEF InStep, Imports
  <2>6. OthersKept
    BY <1>1, <1>3, <2>1 DEF OthersKept, IInv, DiskInv, DiskShape, Kept, Imported, cuts
  <2> QED BY <1>1, <2>1, <2>2, <2>4, <2>5, <2>6, GoesOn
<1> QED BY <1>2, <1>3 DEF MakeDir

\* A file is written, or the entry is rolled back.
LEMMA WriteFileStep == ASSUME IInv, NEW ok \in BOOLEAN, WriteFile(ok) PROVE IInv'
<1>1. at \in FileNames /\ at \in WriteBack BY StageOrder DEF WriteFile
<1>2. at \notin {"again", "append", "refill"} BY <1>1 DEF FileNames
<1>3. CASE ~ok BY <1>1, <1>2, <1>3, RollbackStep DEF WriteFile, Leaves
<1>4. CASE ok
  <2>1. /\ at' = NextStage[at] /\ UNCHANGED <<job, sess, barrel, cuts>>
        /\ corpus' = [corpus EXCEPT ![job.entry].files = @ \cup {at}]
        /\ content' = [content EXCEPT ![job.entry] = job.content]
    BY <1>4 DEF WriteFile, Go
  <2>2. at' \in {"Proofs", "SanityChecks", "Notes", "status", "import"}
    BY <1>1, <2>1, StageOrder DEF FileNames
  <2>3. at' \in WriteBack BY <2>2, StageOrder DEF FileNames
  <2>4. job \in Jobs /\ job.entry \in Entries /\ job.content \in Contents
    BY <1>1 DEF IInv, DiskInv, InStep, Jobs
  <2>5. corpus'[job.entry] = [corpus[job.entry] EXCEPT !.files = @ \cup {at}]
    BY <2>1, <2>4 DEF IInv, DiskInv, DiskShape
  <2>6. corpus[job.entry] \in Stored BY <2>4 DEF IInv, DiskInv, DiskShape
  <2>7. DiskShape'
    <3>1. corpus'[job.entry] \in Stored BY <1>1, <2>5, <2>6 DEF Stored
    <3>2. corpus' = [corpus EXCEPT ![job.entry] = corpus'[job.entry]]
      BY <2>1, <2>4 DEF IInv, DiskInv, DiskShape
    <3> QED BY <2>1, <2>4, <3>1, <3>2 DEF IInv, DiskInv, DiskShape, cuts
  <2>8. InStep'
    <3>1. corpus'[job.entry].files = corpus[job.entry].files \cup {at}
      BY <2>5, <2>6 DEF Stored
    <3>2. corpus'[job.entry].files = Written(at')
      BY <1>1, <2>1, <3>1, FilesGrow DEF IInv, DiskInv, InStep
    <3>3. content'[job.entry] = job.content
      BY <2>1, <2>4 DEF IInv, DiskInv, DiskShape
    <3> QED BY <2>1, <2>2, <2>4, <3>2, <3>3 DEF InStep, Imports
  <2>9. at' # "refill" /\ at' \notin {"again", "append", "elaborate", "mkdir"} BY <2>2
  <2>10. OthersKept
    BY <1>2, <2>1, <2>9 DEF OthersKept, IInv, DiskInv, DiskShape, Kept, Imported, cuts
  <2> QED BY <1>1, <1>2, <2>1, <2>3, <2>7, <2>8, <2>9, <2>10, GoesOn
<1> QED BY <1>3, <1>4

\* The barrel is opened for writing, left alone, or the entry is rolled back.
LEMMA OpenBarrelStep == ASSUME IInv, NEW ok \in BOOLEAN, OpenBarrel(ok) PROVE IInv'
<1>1. at = "import" /\ at \in WriteBack BY StageOrder DEF OpenBarrel
<1>2. CASE ~ok BY <1>1, <1>2, RollbackStep DEF OpenBarrel, Leaves
<1>3. CASE ok
  <2>1. UNCHANGED <<sess, corpus, content, cuts>> BY <1>3 DEF OpenBarrel
  <2>2. job \in Jobs /\ job.entry \in Entries BY <1>1 DEF IInv, DiskInv, InStep, Jobs
  <2>3. /\ corpus[job.entry].files = FileNames /\ content[job.entry] = job.content
        /\ barrel \subseteq Entries
    BY <1>1, FilesGrow DEF IInv, DiskInv, InStep, DiskShape
  <2>4. CASE job.entry \in barrel
    <3>1. at' = "gates" /\ UNCHANGED <<job, barrel>> BY <1>3, <2>4 DEF OpenBarrel
    <3>2. at' \in WriteBack BY <3>1, StageOrder DEF Imports
    <3>3. DiskShape' BY <2>1, <3>1 DEF IInv, DiskInv, DiskShape, cuts
    <3>4. InStep' BY <2>1, <2>2, <2>3, <2>4, <3>1, FilesGrow DEF InStep, Imports
    <3>5. OthersKept BY <1>1, <2>1, <3>1 DEF OthersKept, Kept, Imported, cuts
    <3> QED BY <1>1, <2>1, <3>1, <3>2, <3>3, <3>4, <3>5, GoesOn
  <2>5. CASE job.entry \notin barrel
    <3>1. at' = "refill" /\ barrel' = {} /\ job' = [job EXCEPT !.held = barrel]
      BY <1>3, <2>5 DEF OpenBarrel
    <3>2. job' \in Jobs /\ job'.entry = job.entry /\ job'.content = job.content
          /\ job'.held = barrel
      BY <2>2, <2>3, <3>1 DEF Jobs
    <3>3. at' \in WriteBack BY <3>1, StageOrder
    <3>4. DiskShape' BY <2>1, <3>1 DEF IInv, DiskInv, DiskShape, cuts
    <3>5. InStep' BY <2>1, <2>3, <3>1, <3>2, FilesGrow DEF InStep, Imports
    <3>6. OthersKept BY <1>1, <2>1, <3>1, <3>2 DEF OthersKept, Kept, Imported, cuts
    <3> QED BY <1>1, <2>1, <3>1, <3>2, <3>3, <3>4, <3>5, <3>6, GoesOn
  <2> QED BY <2>4, <2>5
<1> QED BY <1>2, <1>3

\* The barrel is written with the entry's import, or some of it is and the entry is rolled back.
LEMMA AppendImportsStep == ASSUME IInv, NEW ok \in BOOLEAN, AppendImports(ok) PROVE IInv'
<1>1. at = "refill" /\ at \in WriteBack BY StageOrder DEF AppendImports
<1>2. CASE ~ok
  <2>1. PICK some \in SUBSET (job.held \cup {job.entry}) : Rollback(some)
    BY <1>2 DEF AppendImports
  <2> QED BY <1>1, <2>1, RollbackStep DEF Leaves
<1>3. CASE ok
  <2>1. /\ at' = "gates" /\ UNCHANGED <<job, sess, corpus, content, cuts>>
        /\ barrel' = job.held \cup {job.entry}
    BY <1>1, <1>3, StageOrder DEF AppendImports, Go
  <2>2. at' \in WriteBack BY <2>1, StageOrder DEF Imports
  <2>3. job \in Jobs /\ job.entry \in Entries /\ job.held \subseteq Entries /\ barrel = {}
    BY <1>1 DEF IInv, DiskInv, InStep, Jobs
  <2>4. DiskShape' BY <2>1, <2>3 DEF IInv, DiskInv, DiskShape, cuts
  <2>5. InStep' BY <1>1, <2>1, <2>3, FilesGrow DEF IInv, DiskInv, InStep, Imports
  <2>6. OthersKept BY <1>1, <2>1, <2>3 DEF OthersKept, Kept, Imported, cuts
  <2> QED BY <1>1, <2>1, <2>2, <2>4, <2>5, <2>6, GoesOn
<1> QED BY <1>2, <1>3

\* The gates are green, or the entry is rolled back.
LEMMA RunGatesStep == ASSUME IInv, RunGates PROVE IInv'
<1>1. at = "gates" /\ at \in WriteBack BY StageOrder DEF RunGates, Imports
<1>2. CASE ~EntryGates(corpus[job.entry], job.content)
  BY <1>1, <1>2, RollbackStep DEF RunGates, Leaves
<1>3. CASE EntryGates(corpus[job.entry], job.content)
  <2>1. at' = "record" /\ UNCHANGED <<job, sess, disk, cuts>>
    BY <1>1, <1>3, StageOrder DEF RunGates, Go
  <2>2. at' \in WriteBack BY <2>1, StageOrder DEF Imports
  <2>3. DiskShape' BY <2>1 DEF IInv, DiskInv, DiskShape, disk, cuts
  <2>4. InStep'
    <3>1. EntryGates(corpus'[job'.entry], job'.content)
      BY <1>3, <2>1 DEF disk, EntryGates, Conventions, NoSorryToken, TomlParses, AxiomsClean
    <3>2. /\ job' \in Jobs /\ corpus'[job'.entry].files = Written(at')
          /\ content'[job'.entry] = job'.content /\ job'.entry \in barrel'
      BY <1>1, <2>1, FilesGrow DEF IInv, DiskInv, InStep, disk, Imports
    <3> QED BY <2>1, <3>1, <3>2 DEF InStep
  <2>5. OthersKept BY <1>1, <2>1 DEF OthersKept, disk, Kept, Imported, cuts
  <2> QED BY <1>1, <2>1, <2>2, <2>3, <2>4, <2>5, GoesOn
<1> QED BY <1>2, <1>3

\* The claim of a promotion names its theorem.
LEMMA PromotionClaims ==
    /\ \A t \in Theorems : PromotionClaim(t) \in Claims
    /\ \A t, u : PromotionClaim(t) = PromotionClaim(u) => t = u
<1>1. \A t : PromotionClaim(t).thm = t BY DEF PromotionClaim
<1>2. \A t \in Theorems : PromotionClaim(t) \in Claims BY DEF PromotionClaim, Claims
<1> QED BY <1>1, <1>2

\* The stages from the first record on: the entry is whole.
LEMMA WhileRecorded ==
    ASSUME IInv, at \in {"record", "again", "append"}
    PROVE  /\ at \in WriteBack /\ cur \in Sessions /\ job \in Jobs /\ job.entry \in Entries
           /\ PromotionClaim(job.content.thm) \in Claims
           /\ Complete(corpus[job.entry]) /\ content[job.entry] = job.content
           /\ job.entry \in barrel /\ EntryGates(corpus[job.entry], content[job.entry])
<1>1. at \in WriteBack BY StageOrder DEF Imports
<1>2. job \in Jobs /\ job.entry \in Entries /\ job.content.thm \in Theorems
  BY <1>1 DEF IInv, DiskInv, InStep, Jobs, Contents
<1>3. Complete(corpus[job.entry])
  BY <1>1, FilesGrow DEF IInv, DiskInv, InStep, Imports, Complete
<1>4. /\ content[job.entry] = job.content /\ job.entry \in barrel
      /\ EntryGates(corpus[job.entry], job.content)
  BY <1>1 DEF IInv, DiskInv, InStep, Imports
<1>5. cur \in Sessions BY DEF IInv, SessionShape
<1> QED BY <1>1, <1>2, <1>3, <1>4, <1>5, PromotionClaims

\* The claim is recorded in memory: the entry that has been written now backs it.
LEMMA RecordStep == ASSUME IInv, Record PROVE IInv'
<1> DEFINE p == PromotionClaim(job.content.thm)
<1>1. /\ at \in {"record", "again"} /\ at' \in {"again", "append"}
      /\ UNCHANGED <<cur, log, recent, unlogged, job, disk, cuts>>
      /\ ledger' = Append(ledger, p)
  BY StageOrder DEF Record, Go
<1>2. /\ at \in WriteBack /\ cur \in Sessions /\ job \in Jobs /\ job.entry \in Entries
      /\ p \in Claims
      /\ Complete(corpus[job.entry]) /\ content[job.entry] = job.content
      /\ job.entry \in barrel /\ EntryGates(corpus[job.entry], content[job.entry])
  BY <1>1, WhileRecorded
<1>3. at' \in WriteBack BY <1>1, StageOrder DEF Imports
<1>4. Recorded' = {p} BY <1>1 DEF Recorded, PromotionClaim
<1>5. p = PromotionClaim(job.content.thm) OBVIOUS
<1> HIDE DEF p
<1>6. ledger' \in Seq(Claims) /\ ToSet(ledger') = ToSet(ledger) \cup {p}
  BY <1>1, <1>2, HeldByAppend DEF IInv, SessionShape
<1>7. Recorded \subseteq {p} BY <1>5 DEF Recorded
<1>8. SessionShape' BY <1>1, <1>2, <1>3, <1>6 DEF IInv, SessionShape
<1>9. SameClaims'
  <2>1. at # "down" BY <1>1
  <2> QED BY <1>1, <1>4, <1>6, <1>7, <2>1 DEF IInv, SameClaims
<1>10. DiskShape' BY <1>1 DEF IInv, DiskInv, DiskShape, disk, cuts
<1>11. InStep'
  <2>1. EntryGates(corpus'[job'.entry], job'.content)
    BY <1>1, <1>2 DEF disk, EntryGates, Conventions, NoSorryToken, TomlParses, AxiomsClean
  <2>2. corpus'[job'.entry].files = Written(at')
    BY <1>1, <1>2, FilesGrow DEF disk, Complete, Imports
  <2> QED BY <1>1, <1>2, <2>1, <2>2 DEF InStep, disk
<1>12. \A e : Kept(e) => Kept(e)' BY <1>1 DEF Kept, Imported, disk, cuts
<1>13. \A e : ~Open(e)' BY <1>1 DEF Open
<1>14. BackedElsewhere'
  <2> SUFFICES ASSUME NEW t \in Theorems, InLedgers(PromotionClaim(t))'
               PROVE  \E e \in Entries : Backs(e, t)'
    BY DEF BackedElsewhere, PromotionClaim
  <2>1. PromotionClaim(t) = p \/ InLedgers(PromotionClaim(t))
    <3>1. \/ PromotionClaim(t) \in ToSet(ledger')
          \/ \E s \in Sessions : PromotionClaim(t) \in ToSet(log'[s])
      BY DEF InLedgers, PromotionClaim
    <3> QED BY <1>1, <1>6, <3>1 DEF InLedgers
  <2>2. CASE PromotionClaim(t) = p
    <3>1. t = job.content.thm BY <1>5, <2>2, PromotionClaims
    <3>2. Kept(job.entry) BY <1>2 DEF Kept, Imported
    <3>3. PICK e \in Entries : e = job.entry BY <1>2
    <3>4. Backs(e, t)'
      BY <1>1, <1>2, <1>12, <1>13, <3>1, <3>2, <3>3
      DEF Backs, disk, Complete, EntryGates, Conventions, NoSorryToken, TomlParses, AxiomsClean
    <3> QED BY <3>4
  <2>3. CASE InLedgers(PromotionClaim(t))
    <3>1. PICK e \in Entries : Backs(e, t) BY <2>3 DEF IInv, DiskInv, BackedElsewhere
    <3>2. Kept(e)' BY <1>12, <3>1 DEF Backs
    <3> QED BY <1>1, <1>13, <3>1, <3>2, BacksStays DEF disk
  <2> QED BY <2>1, <2>2, <2>3
<1>15. Accounted'
  <2> SUFFICES ASSUME NEW e \in Entries, e # job.entry, corpus'[e].dir, e \notin failed'
               PROVE  /\ Complete(corpus'[e]) /\ Kept(e)'
                      /\ \E s \in Sessions : PromotionClaim(content'[e].thm) \in ToSet(log'[s])
    BY <1>1, <1>3 DEF Accounted, Being, Complete, PromotionClaim
  <2>1. /\ Complete(corpus[e]) /\ Kept(e)
        /\ \E s \in Sessions : PromotionClaim(content[e].thm) \in ToSet(log[s])
    BY <1>1 DEF IInv, DiskInv, Accounted, Being, disk, cuts
  <2> QED BY <1>1, <1>12, <2>1 DEF disk
<1> QED BY <1>8, <1>9, <1>10, <1>11, <1>14, <1>15 DEF IInv, DiskInv

\* Its line is written, and the directory is accounted for; or the disk refuses it.
LEMMA LogClaimStep == ASSUME IInv, NEW ok \in BOOLEAN, LogClaim(ok) PROVE IInv'
<1> DEFINE p == PromotionClaim(job.content.thm)
<1>1. at = "append" /\ at' = "idle" /\ UNCHANGED <<cur, ledger, disk, lost>>
  BY DEF LogClaim, Done
<1>2. /\ at \in WriteBack /\ cur \in Sessions /\ job \in Jobs /\ job.entry \in Entries
      /\ p \in Claims
      /\ Complete(corpus[job.entry]) /\ content[job.entry] = job.content
      /\ job.entry \in barrel /\ EntryGates(corpus[job.entry], content[job.entry])
  BY <1>1, WhileRecorded
<1>3. Recorded = {p} /\ Recorded' = {} BY <1>1 DEF Recorded
<1>4. p = PromotionClaim(job.content.thm) OBVIOUS
<1>5. CASE ~ok
  <2>1. /\ UNCHANGED <<recent, log>> /\ unlogged' = unlogged \cup Recorded
        /\ failed' = failed \cup {job.entry}
    BY <1>3, <1>5 DEF LogClaim
  <2>2. lost' \subseteq Entries BY <1>1 DEF IInv, DiskInv, DiskShape
  <2> QED BY <1>1, <2>1, <2>2, LeavesWriteBack
<1>6. CASE ok
  <2>1. /\ log' = [log EXCEPT ![cur] = Append(@, p)] /\ recent' = Touched(cur)
        /\ UNCHANGED <<unlogged, failed>>
    BY <1>6 DEF LogClaim
  <2> HIDE DEF p
  <2>2. log \in [Sessions -> Seq(Claims)] /\ recent \in Seq(Sessions)
    BY DEF IInv, SessionShape
  <2>3. /\ Append(log[cur], p) \in Seq(Claims)
        /\ ToSet(Append(log[cur], p)) = ToSet(log[cur]) \cup {p}
    BY <1>2, <2>2, HeldByAppend
  <2>4. /\ log' \in [Sessions -> Seq(Claims)]
        /\ ToSet(log'[cur]) = ToSet(log[cur]) \cup {p}
        /\ \A s \in Sessions : s # cur => log'[s] = log[s]
    BY <1>2, <2>1, <2>2, <2>3
  <2>5. recent' \in Seq(Sessions) /\ ToSet(recent) \cup {cur} \subseteq ToSet(recent')
    BY <1>2, <2>1, <2>2, TouchedType
  <2>6. SessionShape'
    <3>1. \A s \in Sessions \ ToSet(recent') : log'[s] = <<>>
      BY <2>4, <2>5 DEF IInv, SessionShape
    <3> QED BY <1>1, <1>2, <2>1, <2>4, <2>5, <3>1 DEF IInv, SessionShape
  <2>7. p \in ToSet(ledger) BY <1>1, <1>3 DEF IInv, SameClaims
  <2>8. SameClaims' BY <1>1, <1>3, <2>1, <2>4, <2>7 DEF IInv, SameClaims
  <2>9. DiskShape' BY <1>1 DEF IInv, DiskInv, DiskShape, disk
  <2>10. at' \notin WriteBack BY <1>1, Outside
  <2>11. InStep' BY <2>10 DEF InStep
  <2>12. \A e : Kept(e) => Kept(e)' BY <1>1 DEF Kept, Imported, disk
  <2>13. BackedElsewhere'
    <3> SUFFICES ASSUME NEW t \in Theorems, InLedgers(PromotionClaim(t))'
                 PROVE  \E e \in Entries : Backs(e, t)'
      BY DEF BackedElsewhere, PromotionClaim
    <3>1. InLedgers(PromotionClaim(t))
      <4>1. \/ PromotionClaim(t) \in ToSet(ledger')
            \/ \E s \in Sessions : PromotionClaim(t) \in ToSet(log'[s])
        BY DEF InLedgers, PromotionClaim
      <4> QED BY <1>1, <2>4, <2>7, <4>1 DEF InLedgers
    <3>2. PICK e \in Entries : Backs(e, t) BY <3>1 DEF IInv, DiskInv, BackedElsewhere
    <3>3. ~Open(e)' /\ Kept(e)' BY <2>10, <2>12, <3>2 DEF Open, Being, Backs
    <3> QED BY <1>1, <3>2, <3>3, BacksStays DEF disk
  <2>14. Accounted'
    <3> SUFFICES ASSUME NEW e \in Entries, corpus'[e].dir, e \notin failed'
                 PROVE  /\ Complete(corpus'[e]) /\ Kept(e)'
                        /\ \E s \in Sessions :
                             PromotionClaim(content'[e].thm) \in ToSet(log'[s])
      BY DEF Accounted, Complete, PromotionClaim
    <3>1. CASE e = job.entry
      <4>1. PromotionClaim(content'[e].thm) = p BY <1>1, <1>2, <1>4, <3>1 DEF disk
      <4>2. Kept(e) BY <1>2, <3>1 DEF Kept, Imported
      <4> QED BY <1>1, <1>2, <2>4, <2>12, <3>1, <4>1, <4>2 DEF disk
    <3>2. CASE e # job.entry
      <4>1. /\ Complete(corpus[e]) /\ Kept(e)
            /\ \E s \in Sessions : PromotionClaim(content[e].thm) \in ToSet(log[s])
        BY <1>1, <2>1, <3>2 DEF IInv, DiskInv, Accounted, Being, disk
      <4>2. \A s \in Sessions : ToSet(log[s]) \subseteq ToSet(log'[s]) BY <2>4
      <4> QED BY <1>1, <2>12, <4>1, <4>2 DEF disk
    <3> QED BY <3>1, <3>2
  <2> QED BY <2>6, <2>8, <2>9, <2>11, <2>13, <2>14 DEF IInv, DiskInv
<1> QED BY <1>5, <1>6

\* Ctrl-C or a kill, wherever it falls.
LEMMA StopStep == ASSUME IInv, Interrupt \/ Kill PROVE IInv'
<1>1. at \in WriteBack => job # NoJob
  <2>1. \A j \in Jobs : "content" \in DOMAIN j BY DEF Jobs
  <2>2. "content" \notin DOMAIN NoJob BY DEF NoJob
  <2> QED BY <2>1, <2>2 DEF IInv, DiskInv, InStep
<1>2. Cut BY DEF Interrupt, Kill, Stop
<1>3. failed \subseteq failed' BY <1>2 DEF Cut
<1>4. at \in WriteBack /\ corpus[job.entry].dir => job.entry \in failed'
  BY <1>1, <1>2 DEF Cut
<1>5. /\ lost \subseteq lost' /\ lost' \subseteq Entries
      /\ at = "refill" => job.held \subseteq lost'
  <2>1. lost \subseteq Entries BY DEF IInv, DiskInv, DiskShape
  <2>2. at = "refill" => job.held \subseteq Entries
    BY StageOrder DEF IInv, DiskInv, InStep, Jobs
  <2> QED BY <1>2, <2>1, <2>2 DEF Cut
<1>6. CASE Interrupt
  BY <1>3, <1>4, <1>5, <1>6, Outside, LeavesWriteBack DEF Interrupt
<1>7. CASE Kill
  BY <1>3, <1>4, <1>5, <1>7, LeavesWriteBack DEF Kill, Unbind
<1> QED BY <1>6, <1>7

-----------------------------------------------------------------------------
(***************************************************************************)
(* The theorems                                                            *)
(***************************************************************************)
\* No files, no session, nothing promoted.
LEMMA Begins == Init => IInv
<1> SUFFICES ASSUME Init PROVE IInv OBVIOUS
<1>1. /\ at = "down" /\ ledger = <<>> /\ log = [s \in Sessions |-> <<>>] /\ recent = <<>>
      /\ corpus = [e \in Entries |-> NoDir] /\ content = [e \in Entries |-> Content0]
      /\ barrel = {} /\ lost = {} /\ unlogged = {}
  BY DEF Init
<1>2. Content0 \in Contents BY TheoremsExist DEF Content0, Contents, Forms, Sanities
<1>3. NoDir \in Stored /\ NoDir.dir = FALSE BY DEF NoDir, Stored
<1>4. SessionShape BY <1>1, EmptySeq DEF SessionShape
<1>5. DiskShape BY <1>1, <1>2, <1>3 DEF DiskShape
<1>6. InStep BY <1>1, Outside DEF InStep
<1>7. BackedElsewhere BY <1>1, EmptyHolds DEF BackedElsewhere, InLedgers
<1>8. Accounted BY <1>1, <1>3 DEF Accounted
<1> QED BY <1>1, <1>4, <1>5, <1>6, <1>7, <1>8 DEF IInv, DiskInv, SameClaims

\* The invariant holds over every step.
LEMMA EveryStep == IInv /\ [Next]_vars => IInv'
<1> SUFFICES ASSUME IInv, [Next]_vars PROVE IInv' OBVIOUS
<1>1. CASE \/ Start \/ StartResume \/ StartContinue \/ Quit \/ Clear
           \/ \E minted \in {<<>>} \cup {<<c>> : c \in Minted}, ok \in BOOLEAN : Turn(minted, ok)
           \/ \E arg \in ToSet(recent) \cup {NoSession} : Resume(arg)
  BY <1>1, SessionSteps
<1>2. CASE \E arg \in 0..Len(ledger), typed \in BOOLEAN, first, forced \in Answered :
             Promote(arg, typed, first, forced)
  BY <1>2, PromoteStep
<1>3. CASE WriteBackStep
  BY <1>3, ElaborateStep, WriteFileStep, AppendImportsStep, MakeDirStep, RunGatesStep,
     RecordStep, OpenBarrelStep, LogClaimStep DEF WriteBackStep
<1>4. CASE Interrupt \/ Kill BY <1>4, StopStep
<1>5. CASE UNCHANGED vars
  <2> USE DEF vars, sess, disk, cuts
  <2>1. SessionShape' BY <1>5 DEF IInv, SessionShape
  <2>2. DiskShape' BY <1>5 DEF IInv, DiskInv, DiskShape
  <2>3. InStep'
    BY <1>5 DEF IInv, DiskInv, InStep, EntryGates, Conventions, NoSorryToken, TomlParses, AxiomsClean
  <2>4. BackedElsewhere'
    <3> SUFFICES ASSUME NEW t \in Theorems, InLedgers(PromotionClaim(t))'
                 PROVE  \E e \in Entries : Backs(e, t)'
      BY DEF BackedElsewhere, PromotionClaim
    <3>1. InLedgers(PromotionClaim(t)) BY <1>5 DEF InLedgers, PromotionClaim
    <3>2. PICK e \in Entries : Backs(e, t) BY <3>1 DEF IInv, DiskInv, BackedElsewhere
    <3>3. ~Open(e)' /\ Kept(e)' BY <1>5, <3>2 DEF Backs, Open, Being, Kept, Imported
    <3> QED BY <1>5, <3>2, <3>3, BacksStays
  <2>5. Accounted'
    BY <1>5 DEF IInv, DiskInv, Accounted, Being, Complete, PromotionClaim, Kept, Imported
  <2>6. SameClaims' BY <1>5 DEF IInv, SameClaims, Recorded, PromotionClaim
  <2> QED BY <2>1, <2>2, <2>3, <2>4, <2>5, <2>6 DEF IInv, DiskInv
<1> QED BY <1>1, <1>2, <1>3, <1>4, <1>5 DEF Next

\* Every promotion that a ledger speaks of, in memory or in a file, is backed by a complete
\* entry that is green under its gates, whatever is promoted, fails, is cut short or
\* killed later, and imported unless a write of Literature.lean was cut
\* (library_writeback.py:171-178, 264-351).
THEOREM PromotionsStayBacked == Spec => []PromotionsBacked
<1>1. Init => IInv BY Begins
<1>2. IInv /\ [Next]_vars => IInv' BY EveryStep
<1>3. IInv => PromotionsBacked
  BY DEF IInv, DiskInv, BackedElsewhere, Backs, Kept, PromotionsBacked
<1> QED BY <1>1, <1>2, <1>3, PTL DEF Spec

\* Outside of a write-back, a directory that no write-back was cut short in belongs to a
\* recorded promotion: no refusal and no error leaves one. Only a cut write of
\* Literature.lean takes its import (library_writeback.py:171-178, 345-351).
THEOREM NothingLeftBehind == Spec => []EntriesAccounted
<1>1. Init => IInv BY Begins
<1>2. IInv /\ [Next]_vars => IInv' BY EveryStep
<1>3. IInv => EntriesAccounted
  BY Outside DEF IInv, DiskInv, Accounted, EntriesAccounted, Settled, Being, Kept, Imported
<1> QED BY <1>1, <1>2, <1>3, PTL DEF Spec

\* What the file of a session holds is in memory, and what memory holds is in the file, was
\* cut off from it by an interrupt or a disk error, or is the promotion being recorded
\* (session.py:3-6, 194-197, repl.py:699-700).
THEOREM SameClaimsAlways == Spec => []SameClaims
<1>1. Init => IInv BY Begins
<1>2. IInv /\ [Next]_vars => IInv' BY EveryStep
<1>3. IInv => SameClaims BY DEF IInv
<1> QED BY <1>1, <1>2, <1>3, PTL DEF Spec

\* A claim whose flaw a heuristic sees does not get past the review, with any model.
LEMMA ReviewFindsFlaws ==
    ASSUME NEW c, NEW typed, NEW first, NEW forced,
           AllowsPromotion(Review(c, typed, "live", first, forced))
    PROVE  /\ ~Planted(Text[c.thm])
           /\ Deciding(first, forced).rec \notin {"minor", "major", "reject", "other"}
           /\ ~Deciding(first, forced).major
<1> DEFINE answer == Deciding(first, forced)
           checks == ReviewChecks(c, typed)
           pass == AdversarialPass(first, forced)
<1>1. Review(c, typed, "live", first, forced) =
        IF ~pass.ran THEN MergeUnavailable(checks) ELSE MergeModel(checks, pass)
  BY DEF Review, RunReferee
<1>2. MergeUnavailable(checks).rec # "accept" BY DEF MergeUnavailable, Report
<1>3. pass.ran /\ AllowsPromotion(MergeModel(checks, pass))
  BY <1>1, <1>2 DEF AllowsPromotion
<1>4. ~MajorFrom(checks) /\ ~pass.major /\ pass.rec \notin {"minor", "major", "reject"}
  <2> HIDE DEF pass, checks
  <2> QED BY <1>3 DEF AllowsPromotion, MergeModel, Report
<1>5. pass = Parse(answer)
  <2>1. Unavailable.ran = FALSE BY DEF Unavailable, Report
  <2> QED BY <1>3, <2>1 DEF AdversarialPass
<1>6. answer.rec \notin {"minor", "major", "reject", "other"} /\ ~answer.major
  <2> HIDE DEF pass, answer
  <2> QED BY <1>4, <1>5 DEF Parse, Report, Recommendations
<1>7. ~Planted(Text[c.thm])
  <2> DEFINE t == Text[c.thm]
             looked == c.tool = "lean_prove"
             type == IF looked /\ typed THEN t.type ELSE {}
             notes == IF looked THEN t.notes ELSE {}
             sweeps == \E i \in DOMAIN ledger : ~Proved(ledger[i])
  <2>1. checks = Checks(t.stmt, type, notes, sweeps, TRUE) BY DEF ReviewChecks
  <2>2. type \subseteq t.type \cup {} /\ notes \subseteq t.notes \cup {} OBVIOUS
  <2> HIDE DEF checks, t, type, notes, sweeps
  <2>3. /\ checks["definition"] = Definition(t.stmt, type)
        /\ checks["empirical"] = CrossCheck(t.stmt)
        /\ checks["vacuity"] = Vacuity(t.stmt, type, notes)
    BY <2>1 DEF Checks, Kinds
  <2>4. /\ Definition(t.stmt, type) # "fail" /\ CrossCheck(t.stmt) # "fail"
        /\ Vacuity(t.stmt, type, notes) # "fail"
    BY <1>4, <2>3 DEF MajorFrom, MajorKinds
  <2>5. ~({"bipartite", "hit"} \subseteq t.stmt /\ ~Has(t.stmt, {"triangle-free", "triangle_free"}))
    BY <2>4 DEF CrossCheck, Has
  <2>6. ~({"bespoke", "standard notion"} \subseteq t.stmt /\ "bridge" \notin t.stmt \cup t.type)
    BY <2>2, <2>4 DEF Definition
  <2>7. ~Has(t.stmt, {"vacuous", "trivial"}) BY <2>4 DEF Vacuity, Has
  <2>8. ~("=> False" \in t.stmt /\ "witness" \notin t.stmt \cup t.type \cup t.notes)
    BY <2>2, <2>4 DEF Vacuity
  <2> QED BY <2>5, <2>6, <2>7, <2>8 DEF Planted, t
<1> QED BY <1>6, <1>7

\* What is being promoted is durable, the heuristics see no flaw in it whatever the model
\* says, and the model has nothing against it whatever they say (referee.py:831-882).
THEOREM FlawedNeverPromoted == Spec => []FlawsBlock
<1>1. Init => FlawsBlock BY DEF Init, FlawsBlock
<1>2. FlawsBlock /\ [Next]_vars => FlawsBlock'
  <2> SUFFICES ASSUME FlawsBlock, [Next]_vars PROVE FlawsBlock' OBVIOUS
  <2>1. ASSUME UNCHANGED job PROVE FlawsBlock' BY <2>1 DEF FlawsBlock, Planted, Has
  <2>2. ASSUME job' = NoJob PROVE FlawsBlock' BY <2>2 DEF FlawsBlock
  <2>3. CASE Start \/ StartResume \/ StartContinue \/ Quit \/ Clear
    BY <2>1, <2>3 DEF Start, StartResume, StartContinue, StartBound, Quit, Clear
  <2>4. CASE \E minted \in {<<>>} \cup {<<c>> : c \in Minted}, ok \in BOOLEAN : Turn(minted, ok)
    BY <2>1, <2>4 DEF Turn
  <2>5. CASE \E arg \in ToSet(recent) \cup {NoSession} : Resume(arg)
    BY <2>1, <2>5 DEF Resume
  <2>6. CASE \E arg \in 0..Len(ledger), typed \in BOOLEAN, first, forced \in Answered :
               Promote(arg, typed, first, forced)
    <3>1. PICK typed \in BOOLEAN, first \in Answered, forced \in Answered,
               i \in DOMAIN ledger, e \in Entries, b \in Brought :
            /\ ledger[i].durable
            /\ AllowsPromotion(Review(ledger[i], typed, "live", first, forced))
            /\ job' = [entry |-> e, content |-> b, claim |-> ledger[i],
                       answer |-> Deciding(first, forced), held |-> {}]
      BY <2>6 DEF Promote
    <3>2. job'.claim = ledger[i] /\ job'.answer = Deciding(first, forced) BY <3>1
    <3>3. /\ ~Planted(Text[ledger[i].thm])
          /\ Deciding(first, forced).rec \notin {"minor", "major", "reject", "other"}
          /\ ~Deciding(first, forced).major
      BY <3>1, ReviewFindsFlaws
    <3> QED BY <3>1, <3>2, <3>3 DEF FlawsBlock, Planted, Has
  <2>7. CASE WriteBackStep
    <3>1. \/ UNCHANGED job \/ job' = NoJob
          \/ at = "import" /\ job' = [job EXCEPT !.held = barrel]
      BY <2>7 DEF WriteBackStep, Elaborate, WriteFile, OpenBarrel, AppendImports, MakeDir,
         RunGates, Record, LogClaim, Rollback, Go, Done
    <3>2. CASE job' = [job EXCEPT !.held = barrel]
      <4>1. CASE job = NoJob
        <5>1. job' = NoJob BY <3>2, <4>1 DEF NoJob
        <5> QED BY <2>2, <5>1
      <4>2. CASE job # NoJob
        <5>1. job'.claim = job.claim /\ job'.answer = job.answer BY <3>2
        <5> QED BY <4>2, <5>1 DEF FlawsBlock, Planted, Has
      <4> QED BY <4>1, <4>2
    <3> QED BY <2>1, <2>2, <3>1, <3>2
  <2>8. CASE Interrupt \/ Kill BY <2>2, <2>8 DEF Interrupt, Kill, Stop
  <2>9. CASE UNCHANGED vars BY <2>1, <2>9 DEF vars
  <2> QED BY <2>3, <2>4, <2>5, <2>6, <2>7, <2>8, <2>9 DEF Next
<1> QED BY <1>1, <1>2, PTL DEF Spec

-----------------------------------------------------------------------------
(***************************************************************************)
(* The corpus under make gates                                             *)
(***************************************************************************)
\* The write-back has made, or found it could make, the directory of its entry.
Late == at \in WriteBack \ {"elaborate", "mkdir"}

\* What the barrel imports, or will again, is complete, unless its write-back failed.
BarrelWhole == \A e \in Entries \ failed : Imported(e) => Complete(corpus[e])

\* Files are in directories.
FilesInDir == /\ \A e \in Entries : corpus[e].files # {} => corpus[e].dir
              /\ Late => corpus[job.entry].dir

\* A directory that nothing was cut short in, and that is not being written, is green.
GreenEntries ==
    \A e \in Entries :
        corpus[e].dir /\ e \notin failed /\ ~(Late /\ e = job.entry)
          => EntryGates(corpus[e], content[e])

RedInv == BarrelWhole /\ FilesInDir /\ GreenEntries

\* A step that leaves the corpus as it is keeps this, when the write-back that it ends
\* was of an entry that is green, or is among the failed from now on.
LEMMA RedKept ==
    ASSUME RedInv, UNCHANGED disk, failed \subseteq failed', at' # "refill" \/ UNCHANGED <<at, job>>,
           Late' => Late /\ job'.entry = job.entry,
           Late /\ ~Late' => \/ job.entry \in failed'
                             \/ EntryGates(corpus[job.entry], content[job.entry])
    PROVE  RedInv'
<1>1. BarrelWhole' BY DEF RedInv, BarrelWhole, disk, Complete, Imported
<1>2. FilesInDir' BY DEF RedInv, FilesInDir, disk
<1>3. GreenEntries'
  <2> SUFFICES ASSUME NEW e \in Entries, corpus[e].dir, e \notin failed',
                      ~(Late' /\ e = job'.entry)
               PROVE  EntryGates(corpus[e], content[e])
    BY DEF GreenEntries, disk, EntryGates, Conventions, NoSorryToken, TomlParses, AxiomsClean
  <2>1. CASE Late /\ e = job.entry
    <3>1. ~Late' BY <2>1
    <3> QED BY <2>1, <3>1
  <2>2. CASE ~(Late /\ e = job.entry)
    BY <2>2 DEF RedInv, GreenEntries
  <2> QED BY <2>1, <2>2
<1> QED BY <1>1, <1>2, <1>3 DEF RedInv

\* Where the write-back is late and where it is not.
LEMMA WhenLate ==
    /\ Late => at \in WriteBack
    /\ Late <=> at \in FileNames \cup {"import", "refill"} \cup Imports
    /\ Late' <=> at' \in FileNames \cup {"import", "refill"} \cup Imports
    /\ at = "refill" => Late
BY StageOrder DEF Late, FileNames, Imports

\* The entry being written, and that nothing else moves when its directory does.
LEMMA TheEntry ==
    ASSUME IInv, at \in WriteBack
    PROVE  /\ job \in Jobs /\ job.entry \in Entries
           /\ corpus \in [Entries -> Stored] /\ barrel \subseteq Entries
BY DEF IInv, DiskInv, InStep, DiskShape, Jobs

\* The rollback removes the directory, and the entry counts as failed if the barrel has it.
LEMMA RollbackKeepsRed ==
    ASSUME IInv, RedInv, at \in WriteBack, NEW imports, Rollback(imports),
           at # "refill" => imports = barrel, Leaves(imports)
    PROVE  RedInv'
<1>1. job.entry \in Entries /\ corpus \in [Entries -> Stored] BY TheEntry
<1>2. /\ at' = "idle" /\ UNCHANGED content /\ failed \subseteq failed' /\ barrel' = imports
      /\ corpus' = [corpus EXCEPT ![job.entry] = NoDir]
      /\ job.entry \in imports => job.entry \in failed'
      /\ OthersKept
  BY RollbackSpares DEF Rollback
<1>3. ~Late' BY <1>2, WhenLate DEF FileNames, Imports
<1>4. /\ corpus'[job.entry] = NoDir
      /\ \A e \in Entries \ {job.entry} : corpus'[e] = corpus[e]
  BY <1>1, <1>2
<1>5. BarrelWhole'
  <2> SUFFICES ASSUME NEW e \in Entries, e \notin failed', Imported(e)'
               PROVE  Complete(corpus'[e])
    BY DEF BarrelWhole, Complete
  <2>1. e # job.entry BY <1>2 DEF Imported
  <2>2. Imported(e) /\ corpus'[e] = corpus[e] BY <1>2, <2>1 DEF OthersKept
  <2> QED BY <1>2, <2>2 DEF RedInv, BarrelWhole
<1>6. FilesInDir' BY <1>3, <1>4 DEF RedInv, FilesInDir, NoDir
<1>7. GreenEntries'
  <2> SUFFICES ASSUME NEW e \in Entries, corpus'[e].dir, e \notin failed'
               PROVE  EntryGates(corpus'[e], content[e])
    BY <1>2 DEF GreenEntries, EntryGates, Conventions, NoSorryToken, TomlParses, AxiomsClean
  <2>1. e # job.entry BY <1>4 DEF NoDir
  <2> QED BY <1>2, <1>4, <2>1 DEF RedInv, GreenEntries
<1> QED BY <1>5, <1>6, <1>7 DEF RedInv

\* A step of a write-back that goes on and whose entry has its directory.
LEMMA GoesOnKeepsRed ==
    ASSUME IInv, RedInv, at \in WriteBack, Late', job'.entry = job.entry, UNCHANGED failed,
           OthersKept, corpus'[job.entry].dir,
           \/ Imported(job.entry)' => /\ Imported(job.entry)
                                      /\ Complete(corpus[job.entry])
                                           => Complete(corpus'[job.entry])
           \/ Complete(corpus'[job.entry])
    PROVE  RedInv'
<1>1. job.entry \in Entries BY TheEntry
<1>2. BarrelWhole'
  <2> SUFFICES ASSUME NEW e \in Entries, e \notin failed, Imported(e)'
               PROVE  Complete(corpus'[e])
    BY DEF BarrelWhole, Complete
  <2>1. CASE e = job.entry BY <2>1 DEF RedInv, BarrelWhole
  <2>2. CASE e # job.entry
    <3>1. Imported(e) /\ corpus'[e] = corpus[e] BY <2>2 DEF OthersKept
    <3> QED BY <3>1 DEF RedInv, BarrelWhole
  <2> QED BY <2>1, <2>2
<1>3. FilesInDir' BY DEF RedInv, FilesInDir, OthersKept
<1>4. GreenEntries'
  <2> SUFFICES ASSUME NEW e \in Entries, e # job.entry, corpus'[e].dir, e \notin failed
               PROVE  EntryGates(corpus'[e], content'[e])
    BY DEF GreenEntries, EntryGates, Conventions, NoSorryToken, TomlParses, AxiomsClean
  <2> QED BY DEF RedInv, GreenEntries, OthersKept
<1> QED BY <1>2, <1>3, <1>4 DEF RedInv

\* A step of the write-back.
LEMMA WriteBackKeepsRed ==
    ASSUME IInv, RedInv, WriteBackStep
    PROVE  RedInv'
<1>1. ASSUME NEW ok \in BOOLEAN, Elaborate(ok) PROVE RedInv'
  <2>1. at = "elaborate" /\ at' \in {"mkdir", "idle"} /\ UNCHANGED <<disk, cuts>>
    BY <1>1, StageOrder DEF Elaborate, Go, Done
  <2> QED BY <2>1, WhenLate, RedKept DEF FileNames, cuts, Imports
<1>2. ASSUME MakeDir PROVE RedInv'
  <2>1. at = "mkdir" /\ at \in WriteBack /\ UNCHANGED <<content, barrel, cuts>>
    BY <1>2, StageOrder DEF MakeDir
  <2>2. CASE Done /\ UNCHANGED corpus
    BY <2>1, <2>2, WhenLate, RedKept DEF Done, FileNames, disk, cuts, Imports
  <2>3. CASE Go /\ corpus' = [corpus EXCEPT ![job.entry] = [dir |-> TRUE, files |-> {}]]
    <3>1. at' = "Statements" /\ UNCHANGED job BY <2>1, <2>3, StageOrder DEF Go
    <3>2. Late' BY <3>1, WhenLate DEF FileNames
    <3>3. job.entry \in Entries /\ corpus \in [Entries -> Stored] BY <2>1, TheEntry
    <3>4. corpus'[job.entry].dir BY <2>3, <3>3
    <3>5. corpus[job.entry].files = {} BY <2>1, FilesGrow DEF IInv, DiskInv, InStep
    <3>6. ~Complete(corpus[job.entry]) BY <3>5 DEF Complete, FileNames
    <3>7. OthersKept BY <2>1, <2>3, <3>1, <3>3 DEF OthersKept, Kept, Imported, cuts
    <3>8. Imported(job.entry)' => Imported(job.entry) BY <2>1, <3>1 DEF Imported
    <3> QED BY <2>1, <3>1, <3>2, <3>4, <3>6, <3>7, <3>8, GoesOnKeepsRed DEF cuts
  <2> QED BY <1>2, <2>2, <2>3 DEF MakeDir
<1>3. ASSUME NEW ok \in BOOLEAN, WriteFile(ok) PROVE RedInv'
  <2>1. at \in FileNames /\ at \in WriteBack /\ at # "refill"
    BY <1>3, StageOrder DEF WriteFile, FileNames
  <2>2. CASE ~ok BY <1>3, <2>1, <2>2, RollbackKeepsRed DEF WriteFile, Leaves
  <2>3. CASE ok
    <3>1. /\ at' = NextStage[at] /\ UNCHANGED <<job, barrel, cuts>>
          /\ corpus' = [corpus EXCEPT ![job.entry].files = @ \cup {at}]
          /\ content' = [content EXCEPT ![job.entry] = job.content]
      BY <1>3, <2>3 DEF WriteFile, Go
    <3>2. at' \in {"Proofs", "SanityChecks", "Notes", "status", "import"}
      BY <2>1, <3>1, StageOrder DEF FileNames
    <3>3. Late' /\ at' # "refill" BY <3>2, WhenLate DEF FileNames
    <3>4. job.entry \in Entries /\ corpus \in [Entries -> Stored] BY <2>1, TheEntry
    <3>5. corpus'[job.entry] = [corpus[job.entry] EXCEPT !.files = @ \cup {at}]
      BY <3>1, <3>4
    <3>6. corpus[job.entry] \in Stored BY <3>4
    <3>7. /\ corpus'[job.entry].dir = corpus[job.entry].dir
          /\ corpus'[job.entry].files = corpus[job.entry].files \cup {at}
      BY <3>5, <3>6 DEF Stored
    <3>8. corpus'[job.entry].dir BY <2>1, <3>7, WhenLate DEF RedInv, FilesInDir
    <3>9. Complete(corpus[job.entry]) => Complete(corpus'[job.entry])
      BY <2>1, <3>7 DEF Complete
    <3>10. OthersKept
      BY <2>1, <3>1, <3>3, <3>4 DEF OthersKept, IInv, DiskInv, DiskShape, Kept, Imported, cuts
    <3>11. Imported(job.entry)' => Imported(job.entry) BY <3>1, <3>3 DEF Imported
    <3> QED BY <2>1, <3>1, <3>3, <3>8, <3>9, <3>10, <3>11, GoesOnKeepsRed DEF cuts
  <2> QED BY <2>2, <2>3
<1>4. ASSUME NEW ok \in BOOLEAN, OpenBarrel(ok) PROVE RedInv'
  <2>1. at = "import" /\ at \in WriteBack BY <1>4, StageOrder DEF OpenBarrel
  <2>2. CASE ~ok BY <1>4, <2>1, <2>2, RollbackKeepsRed DEF OpenBarrel, Leaves
  <2>3. CASE ok
    <3>1. /\ UNCHANGED <<corpus, content, cuts>>
          /\ \/ at' = "gates" /\ UNCHANGED <<job, barrel>>
             \/ /\ at' = "refill" /\ barrel' = {} /\ job' = [job EXCEPT !.held = barrel]
      BY <1>4, <2>1, <2>3 DEF OpenBarrel
    <3>2. Late' BY <3>1, WhenLate DEF Imports
    <3>3. corpus[job.entry].dir BY <2>1, WhenLate DEF RedInv, FilesInDir
    <3>4. Complete(corpus[job.entry])
      BY <2>1, FilesGrow DEF IInv, DiskInv, InStep, Complete
    <3>5. job \in Jobs BY <2>1, TheEntry
    <3>6. /\ job'.entry = job.entry
          /\ at' = "refill" => barrel' = {} /\ job'.held = barrel
          /\ at' # "refill" => barrel' = barrel
      <4>1. CASE at' = "gates" BY <3>1, <4>1
      <4>2. CASE at' = "refill" BY <3>1, <3>5, <4>2 DEF Jobs
      <4> QED BY <3>1, <4>1, <4>2
    <3>7. OthersKept BY <2>1, <3>1, <3>6 DEF OthersKept, Kept, Imported, cuts
    <3> QED BY <2>1, <3>1, <3>2, <3>3, <3>4, <3>6, <3>7, GoesOnKeepsRed DEF cuts
  <2> QED BY <2>2, <2>3
<1>5. ASSUME NEW ok \in BOOLEAN, AppendImports(ok) PROVE RedInv'
  <2>1. at = "refill" /\ at \in WriteBack BY <1>5, StageOrder DEF AppendImports
  <2>2. CASE ~ok
    <3>1. PICK some \in SUBSET (job.held \cup {job.entry}) : Rollback(some)
      BY <1>5, <2>2 DEF AppendImports
    <3> QED BY <2>1, <3>1, RollbackKeepsRed DEF Leaves
  <2>3. CASE ok
    <3>1. /\ at' = "gates" /\ UNCHANGED <<job, corpus, content, cuts>>
          /\ barrel' = job.held \cup {job.entry}
      BY <1>5, <2>1, <2>3, StageOrder DEF AppendImports, Go
    <3>2. Late' BY <3>1, WhenLate DEF Imports
    <3>3. corpus[job.entry].dir BY <2>1, WhenLate DEF RedInv, FilesInDir
    <3>4. Complete(corpus[job.entry]) /\ barrel = {}
      BY <2>1, FilesGrow DEF IInv, DiskInv, InStep, Complete
    <3>5. OthersKept BY <2>1, <3>1, <3>4 DEF OthersKept, Kept, Imported, cuts
    <3> QED BY <2>1, <3>1, <3>2, <3>3, <3>4, <3>5, GoesOnKeepsRed DEF cuts
  <2> QED BY <2>2, <2>3
<1>6. ASSUME RunGates PROVE RedInv'
  <2>1. at = "gates" /\ at \in WriteBack BY <1>6, StageOrder DEF RunGates, Imports
  <2>2. CASE Rollback(barrel) BY <2>1, <2>2, RollbackKeepsRed DEF Leaves
  <2>3. CASE Go /\ UNCHANGED <<disk, cuts>>
    BY <2>1, <2>3, StageOrder, WhenLate, RedKept DEF Go, cuts, Imports
  <2> QED BY <1>6, <2>2, <2>3 DEF RunGates
<1>7. ASSUME Record PROVE RedInv'
  <2>1. /\ at \in {"record", "again"} /\ at' \in {"again", "append"}
        /\ UNCHANGED <<job, disk, cuts>>
    BY <1>7, StageOrder DEF Record, Go
  <2> QED BY <2>1, WhenLate, RedKept DEF cuts, Imports
<1>8. ASSUME NEW ok \in BOOLEAN, LogClaim(ok) PROVE RedInv'
  <2>1. at = "append" /\ at' = "idle" /\ UNCHANGED disk /\ failed \subseteq failed'
    BY <1>8 DEF LogClaim, Done
  <2>2. EntryGates(corpus[job.entry], content[job.entry]) BY <2>1, WhileRecorded
  <2> QED BY <2>1, <2>2, WhenLate, RedKept DEF FileNames, Imports
<1> QED BY <1>1, <1>2, <1>3, <1>4, <1>5, <1>6, <1>7, <1>8 DEF WriteBackStep

\* Every step.
LEMMA EveryStepKeepsRed == IInv /\ RedInv /\ [Next]_vars => RedInv'
<1> SUFFICES ASSUME IInv, RedInv, [Next]_vars PROVE RedInv' OBVIOUS
<1>1. CASE WriteBackStep BY <1>1, WriteBackKeepsRed
<1>2. CASE \/ Start \/ StartResume \/ StartContinue \/ Quit \/ Clear
           \/ \E minted \in {<<>>} \cup {<<c>> : c \in Minted}, ok \in BOOLEAN : Turn(minted, ok)
           \/ \E arg \in ToSet(recent) \cup {NoSession} : Resume(arg)
  <2>1. at \in {"down", "idle"} /\ at' \in {"down", "idle"} /\ UNCHANGED <<disk, cuts>>
    BY <1>2 DEF Start, StartResume, StartContinue, StartBound, Quit, Clear, Turn, Resume, Type
  <2> QED BY <2>1, WhenLate, RedKept DEF FileNames, cuts, Imports
<1>3. CASE \E arg \in 0..Len(ledger), typed \in BOOLEAN, first, forced \in Answered :
             Promote(arg, typed, first, forced)
  <2>1. at = "idle" /\ at' = "elaborate" /\ UNCHANGED <<disk, cuts>>
    BY <1>3 DEF Promote, Type
  <2> QED BY <2>1, WhenLate, RedKept DEF FileNames, cuts, Imports
<1>4. CASE Interrupt \/ Kill
  <2>1. Cut /\ UNCHANGED disk /\ at' \in {"idle", "down"}
    BY <1>4 DEF Interrupt, Kill, Stop, disk
  <2>2. at' # "refill" BY <2>1
  <2>3. ~Late' BY <2>1, WhenLate DEF FileNames, Imports
  <2>4. Late => job # NoJob
    <3>1. \A j \in Jobs : "content" \in DOMAIN j BY DEF Jobs
    <3>2. "content" \notin DOMAIN NoJob BY DEF NoJob
    <3> QED BY <3>1, <3>2, WhenLate, TheEntry
  <2>5. failed \subseteq failed' /\ (Late => job.entry \in failed')
    BY <2>1, <2>4 DEF Cut, RedInv, FilesInDir
  <2> QED BY <2>1, <2>5, <2>2, <2>3, RedKept
<1>5. CASE UNCHANGED vars
  BY <1>5, RedKept, WhenLate DEF vars, disk, cuts
<1> QED BY <1>1, <1>2, <1>3, <1>4, <1>5 DEF Next

\* What make gates asks, of a corpus without the entries that are spoiled.
LEMMA GreenUnderAll ==
    ASSUME IInv, RedInv, Settled
    PROVE  RedOnlyWhereCut
<1> DEFINE sound == [e \in Entries |-> IF e \in Spoiled THEN NoDir ELSE corpus[e]]
           imports == barrel \ Spoiled
<1>1. corpus \in [Entries -> Stored] /\ barrel \subseteq Entries
  BY DEF IInv, DiskInv, DiskShape
<1>2. at \notin WriteBack /\ ~Late /\ at # "refill" BY Outside, WhenLate DEF Settled
<1>3. ASSUME NEW e \in Entries, sound[e].files # {}
      PROVE  /\ Complete(sound[e]) /\ e \in imports /\ e \in WordNames
             /\ EntryGates(sound[e], content[e])
  <2>1. e \notin Spoiled /\ sound[e] = corpus[e] BY <1>3 DEF NoDir
  <2>2. e \notin failed /\ e \notin lost /\ e \in WordNames BY <2>1 DEF Spoiled
  <2>3. corpus[e].dir BY <1>3, <2>1 DEF RedInv, FilesInDir
  <2>4. Complete(corpus[e]) /\ Kept(e)
    BY <1>2, <2>2, <2>3 DEF IInv, DiskInv, Accounted, Being
  <2>5. e \in barrel BY <1>2, <2>2, <2>4 DEF Kept, Imported
  <2>6. EntryGates(corpus[e], content[e])
    BY <1>2, <2>2, <2>3 DEF RedInv, GreenEntries
  <2> HIDE DEF sound
  <2> QED BY <2>1, <2>2, <2>4, <2>5, <2>6
<1>4. ASSUME NEW e \in imports PROVE Complete(sound[e])
  <2>1. e \in Entries /\ e \in barrel /\ e \notin Spoiled BY <1>1
  <2>2. sound[e] = corpus[e] /\ e \notin failed BY <2>1 DEF Spoiled
  <2>3. Complete(corpus[e]) BY <2>1, <2>2 DEF RedInv, BarrelWhole, Imported
  <2> HIDE DEF sound
  <2> QED BY <2>2, <2>3
<1> HIDE DEF sound, imports
<1>5. ASSUME NEW e \in Listed(sound)
      PROVE  e \in Entries /\ Complete(sound[e]) /\ EntryGates(sound[e], content[e])
  <2>1. e \in Entries /\ sound[e].files # {} BY <1>5 DEF Listed
  <2> QED BY <1>3, <2>1
<1>6. CheckStatus(sound, content)
  BY <1>5, WhitelistType DEF CheckStatus, EntryGates, TomlParses, AxiomsClean
<1>7. CheckNoSorry(sound, content)
  BY <1>5 DEF CheckNoSorry, EntryGates, TomlParses, NoSorryToken
<1>8. CheckAxioms(sound, content) BY <1>5 DEF CheckAxioms, EntryGates
<1>9. CheckConventions(sound, content) BY <1>5 DEF CheckConventions, EntryGates
<1>10. CheckImports(sound, imports)
  <2>1. ASSUME NEW e \in Entries, sound[e].files \cap LeanFiles # {}
        PROVE  e \in imports \cap WordNames
    <3>1. sound[e].files # {} BY <2>1
    <3> QED BY <1>3, <3>1
  <2>2. \A e \in imports : LeanFiles \subseteq sound[e].files
    BY <1>4 DEF Complete, FileNames, LeanFiles
  <2> QED BY <2>1, <2>2 DEF CheckImports
<1>11. MakeGates(sound, content, imports) BY <1>6, <1>7, <1>8, <1>9, <1>10 DEF MakeGates
<1> QED BY <1>11 DEF RedOnlyWhereCut, sound, imports

\* Outside of a write-back the corpus is green under all of CI's gates, but for the entries
\* a write-back was cut short or failed in after it had extended the barrel, those a cut
\* write of the barrel dropped, and those whose name check_imports does not read
\* (library_writeback.py:171-178, 316-351, ci/check_imports.py).
THEOREM GreenUnlessCut == Spec => []RedOnlyWhereCut
<1>1. Init => IInv /\ RedInv
  <2>1. Init => IInv BY Begins
  <2>2. Init => ~Late BY WhenLate DEF Init, FileNames, Imports
  <2>3. Init => RedInv
    BY <2>2 DEF Init, RedInv, BarrelWhole, FilesInDir, GreenEntries, NoDir, Imported
  <2> QED BY <2>1, <2>3
<1>2. IInv /\ RedInv /\ [Next]_vars => IInv' /\ RedInv' BY EveryStep, EveryStepKeepsRed
<1>3. IInv /\ RedInv => RedOnlyWhereCut BY GreenUnderAll DEF RedOnlyWhereCut
<1> QED BY <1>1, <1>2, <1>3, PTL DEF Spec

-----------------------------------------------------------------------------
(***************************************************************************)
(* The ledger in memory and in the file                                    *)
(***************************************************************************)
\* What a table of the claims kept so far says of the first n of a ledger.
Keeps(kept, claims, n) ==
    /\ kept \in [0..n -> Seq(Claims)]
    /\ kept[0] = <<>>
    /\ \A i \in 1..n :
         kept[i] = IF claims[i].tool # "lean_add_to_library" THEN Append(kept[i - 1], claims[i])
                   ELSE kept[i - 1]

\* A set of numbers that has 0 and, with a number, the next one.
LEMMA CountUp ==
    ASSUME NEW P, 0 \in P, \A n \in Nat : n \in P => n + 1 \in P
    PROVE  \A n \in Nat : n \in P
<1> DEFINE T == {n \in Nat : n \notin P}
<1> SUFFICES ASSUME T # {} PROVE FALSE OBVIOUS
<1>1. T \subseteq Nat OBVIOUS
<1> HIDE DEF T
<1>2. \E x \in T : \A y \in T : <<y, x>> \notin OpToRel(<, Nat)
  BY <1>1, NatLessThanWellFounded, WFMin, Zenon
<1>3. PICK x \in T : \A y \in T : <<y, x>> \notin OpToRel(<, Nat) BY <1>2
<1>4. \A y \in T : ~(y < x) BY <1>1, <1>3 DEF OpToRel
<1>5. x \in Nat /\ x \notin P BY <1>3 DEF T
<1>6. x # 0 /\ x - 1 \in Nat /\ (x - 1) + 1 = x BY <1>5
<1>7. x - 1 \notin T BY <1>4, <1>5, <1>6
<1> QED BY <1>5, <1>6, <1>7 DEF T

\* There is such a table.
LEMMA TableExists ==
    ASSUME NEW claims \in Seq(Claims)
    PROVE  \E kept : Keeps(kept, claims, Len(claims))
<1> DEFINE P == {n \in Nat : n <= Len(claims) => \E kept : Keeps(kept, claims, n)}
<1>1. Len(claims) \in Nat /\ \A i \in 1..Len(claims) : claims[i] \in Claims
  BY LenProperties, ElementOfSeq
<1>2. 0 \in P
  <2>1. Keeps([i \in 0..0 |-> <<>>], claims, 0) BY EmptySeq DEF Keeps
  <2> QED BY <2>1
<1>3. ASSUME NEW n \in Nat, n \in P PROVE n + 1 \in P
  <2> SUFFICES ASSUME n + 1 <= Len(claims) PROVE \E kept : Keeps(kept, claims, n + 1)
    OBVIOUS
  <2>1. n <= Len(claims) BY <1>1
  <2>2. PICK kept : Keeps(kept, claims, n) BY <1>3, <2>1
  <2> DEFINE next == IF claims[n + 1].tool # "lean_add_to_library"
                     THEN Append(kept[n], claims[n + 1]) ELSE kept[n]
             longer == [i \in 0..(n + 1) |-> IF i <= n THEN kept[i] ELSE next]
  <2>3. kept[n] \in Seq(Claims) /\ claims[n + 1] \in Claims BY <1>1, <2>2 DEF Keeps
  <2>4. next \in Seq(Claims) BY <2>3, AppendProperties
  <2>5. longer \in [0..(n + 1) -> Seq(Claims)] BY <2>2, <2>4 DEF Keeps
  <2>6. longer[0] = <<>> BY <2>2 DEF Keeps
  <2>7. ASSUME NEW i \in 1..(n + 1)
        PROVE  longer[i] = IF claims[i].tool # "lean_add_to_library"
                           THEN Append(longer[i - 1], claims[i]) ELSE longer[i - 1]
    <3>1. CASE i <= n
      <4>1. longer[i] = kept[i] /\ longer[i - 1] = kept[i - 1] BY <3>1
      <4> QED BY <2>2, <3>1, <4>1 DEF Keeps
    <3>2. CASE i = n + 1
      <4>1. longer[i] = next /\ longer[i - 1] = kept[n] BY <3>2
      <4> QED BY <3>2, <4>1
    <3> QED BY <3>1, <3>2
  <2> HIDE DEF longer
  <2> QED BY <2>5, <2>6, <2>7 DEF Keeps
<1> HIDE DEF P
<1>4. Len(claims) \in P BY <1>1, <1>2, <1>3, CountUp
<1> QED BY <1>1, <1>4 DEF P

\* The table is what Others is read from.
LEMMA OthersIsKept ==
    ASSUME NEW claims \in Seq(Claims)
    PROVE  \E kept : Keeps(kept, claims, Len(claims)) /\ Others(claims) = kept[Len(claims)]
<1> DEFINE Row(f, i) == IF i = 0 THEN <<>>
                        ELSE IF claims[i].tool # "lean_add_to_library"
                             THEN Append(f[i - 1], claims[i])
                        ELSE f[i - 1]
           table == CHOOSE f : f = [i \in 0..Len(claims) |-> Row(f, i)]
<1>1. Len(claims) \in Nat BY LenProperties
<1>2. PICK kept : Keeps(kept, claims, Len(claims)) BY TableExists
<1>3. kept = [i \in 0..Len(claims) |-> Row(kept, i)]
  <2>1. \A i \in 0..Len(claims) : kept[i] = Row(kept, i)
    <3> SUFFICES ASSUME NEW i \in 0..Len(claims) PROVE kept[i] = Row(kept, i) OBVIOUS
    <3>1. CASE i = 0 BY <1>2, <3>1 DEF Keeps
    <3>2. CASE i # 0
      <4>1. i \in 1..Len(claims) BY <1>1, <3>2
      <4> QED BY <1>2, <3>2, <4>1 DEF Keeps
    <3> QED BY <3>1, <3>2
  <2>2. kept = [i \in 0..Len(claims) |-> kept[i]] BY <1>2 DEF Keeps
  <2> QED BY <2>1, <2>2
<1>4. table = [i \in 0..Len(claims) |-> Row(table, i)] BY <1>3
<1>5. Others(claims) = table[Len(claims)] BY DEF Others
<1> HIDE DEF table
<1> DEFINE P == {n \in Nat : n <= Len(claims) => table[n] = kept[n]}
<1>6. 0 \in P BY <1>1, <1>2, <1>4 DEF Keeps
<1>7. ASSUME NEW n \in Nat, n \in P PROVE n + 1 \in P
  <2> SUFFICES ASSUME n + 1 <= Len(claims) PROVE table[n + 1] = kept[n + 1] OBVIOUS
  <2>1. table[n] = kept[n] BY <1>1, <1>7
  <2>2. n + 1 \in 0..Len(claims) /\ n + 1 # 0 /\ (n + 1) - 1 = n BY <1>1
  <2>3. table[n + 1] = Row(table, n + 1) /\ kept[n + 1] = Row(kept, n + 1)
    BY <1>3, <1>4, <2>2
  <2> QED BY <2>1, <2>2, <2>3
<1> HIDE DEF P
<1>8. Len(claims) \in P BY <1>1, <1>6, <1>7, CountUp
<1> QED BY <1>1, <1>2, <1>5, <1>8 DEF P

\* One claim more.
LEMMA OthersOfOneMore ==
    ASSUME NEW claims \in Seq(Claims), NEW c \in Claims
    PROVE  Others(Append(claims, c))
             = IF c.tool # "lean_add_to_library" THEN Append(Others(claims), c)
               ELSE Others(claims)
<1> DEFINE more == Append(claims, c)
           len == Len(claims)
<1>1. /\ more \in Seq(Claims) /\ Len(more) = len + 1 /\ len \in Nat
      /\ \A i \in 1..len : more[i] = claims[i]
      /\ more[len + 1] = c
  BY AppendProperties, LenProperties
<1>2. PICK few : Keeps(few, claims, len) /\ Others(claims) = few[len] BY OthersIsKept
<1> HIDE DEF more
<1>3. PICK kept : Keeps(kept, more, Len(more)) /\ Others(more) = kept[Len(more)]
  BY <1>1, OthersIsKept
<1> HIDE DEF len
<1>4. Keeps(kept, more, len + 1) /\ Others(more) = kept[len + 1] BY <1>1, <1>3
<1> DEFINE P == {n \in Nat : n <= len => kept[n] = few[n]}
<1>5. 0 \in P BY <1>2, <1>4 DEF Keeps
<1>6. ASSUME NEW n \in Nat, n \in P PROVE n + 1 \in P
  <2> SUFFICES ASSUME n + 1 <= len PROVE kept[n + 1] = few[n + 1] OBVIOUS
  <2>1. kept[n] = few[n] BY <1>1, <1>6
  <2>2. n + 1 \in 1..len /\ n + 1 \in 1..(len + 1) /\ (n + 1) - 1 = n BY <1>1
  <2>3. more[n + 1] = claims[n + 1] BY <1>1, <2>2
  <2>4. few[n + 1] = IF claims[n + 1].tool # "lean_add_to_library"
                     THEN Append(few[n], claims[n + 1]) ELSE few[n]
    BY <1>2, <2>2 DEF Keeps
  <2>5. kept[n + 1] = IF more[n + 1].tool # "lean_add_to_library"
                      THEN Append(kept[n], more[n + 1]) ELSE kept[n]
    BY <1>4, <2>2 DEF Keeps
  <2> QED BY <2>1, <2>3, <2>4, <2>5
<1> HIDE DEF P
<1>7. kept[len] = few[len]
  <2>1. len \in P BY <1>1, <1>5, <1>6, CountUp
  <2> QED BY <1>1, <2>1 DEF P
<1>8. len + 1 \in 1..(len + 1) /\ (len + 1) - 1 = len BY <1>1
<1>9. kept[len + 1] = IF c.tool # "lean_add_to_library"
                      THEN Append(kept[len], c) ELSE kept[len]
  BY <1>1, <1>4, <1>8 DEF Keeps
<1> QED BY <1>2, <1>4, <1>7, <1>9 DEF more

-----------------------------------------------------------------------------
(***************************************************************************)
(* Types                                                                   *)
(***************************************************************************)
\* The list of files has each once.
Once(files) == \A i, j \in DOMAIN files : files[i] = files[j] => i = j

TypeInv ==
    /\ cur \in Sessions \cup {NoSession} /\ (at = "down" => cur = NoSession)
    /\ Once(recent) /\ worked \subseteq ToSet(recent)
    /\ job \in Jobs \cup {NoJob} /\ (job = NoJob <=> at \in {"down", "idle"})
    /\ failed \subseteq Entries
    /\ commands \in 0..MaxCommands /\ stops \in 0..MaxStops

\* A claim other than a promotion was cut off from the file.
CutOff == \E c \in unlogged : c.tool # "lean_add_to_library"

\* The ledgers in memory and in the file, less the promotions, if none was cut off.
SameOthers == at # "down" => CutOff \/ Others(ledger) = Others(log[cur])

\* One file more, a new one.
LEMMA OnceMore ==
    ASSUME NEW files \in Seq(Sessions), Once(files), NEW s \in Sessions, s \notin ToSet(files)
    PROVE  Once(Append(files, s))
<1> DEFINE longer == Append(files, s)
<1>1. /\ Len(files) \in Nat /\ Len(longer) = Len(files) + 1
      /\ \A i \in 1..Len(files) : longer[i] = files[i]
      /\ longer[Len(files) + 1] = s
      /\ DOMAIN files = 1..Len(files) /\ DOMAIN longer = 1..(Len(files) + 1)
  BY AppendProperties, LenProperties
<1>2. \A i \in 1..Len(files) : files[i] # s BY <1>1 DEF ToSet
<1> HIDE DEF longer
<1>3. ASSUME NEW i \in 1..(Len(files) + 1), NEW j \in 1..(Len(files) + 1),
             longer[i] = longer[j]
      PROVE  i = j
  <2>1. CASE i = Len(files) + 1 /\ j # Len(files) + 1
    <3>1. j \in 1..Len(files) BY <1>1, <2>1
    <3> QED BY <1>1, <1>2, <1>3, <2>1, <3>1
  <2>2. CASE j = Len(files) + 1 /\ i # Len(files) + 1
    <3>1. i \in 1..Len(files) BY <1>1, <2>2
    <3> QED BY <1>1, <1>2, <1>3, <2>2, <3>1
  <2>3. CASE i # Len(files) + 1 /\ j # Len(files) + 1
    <3>1. i \in 1..Len(files) /\ j \in 1..Len(files) BY <1>1, <2>3
    <3> QED BY <1>1, <1>3, <3>1 DEF Once
  <2> QED BY <2>1, <2>2, <2>3
<1> QED BY <1>1, <1>3 DEF Once, longer

\* A sequence less one of its places.
LEMMA WithoutOne ==
    ASSUME NEW files \in Seq(Sessions), NEW i \in 1..Len(files)
    PROVE  /\ RemoveAt(files, i) \in Seq(Sessions)
           /\ Len(RemoveAt(files, i)) = Len(files) - 1
           /\ \A j \in 1..(Len(files) - 1) :
                RemoveAt(files, i)[j] = files[IF j < i THEN j ELSE j + 1]
<1> DEFINE before == SubSeq(files, 1, i - 1)
           after == SubSeq(files, i + 1, Len(files))
<1>1. Len(files) \in Nat /\ \A j \in 1..Len(files) : files[j] \in Sessions
  BY LenProperties, ElementOfSeq
<1>2. /\ before \in Seq(Sessions) /\ Len(before) = i - 1
      /\ \A j \in 1..(i - 1) : before[j] = files[j]
  <2>1. \A j \in 1..(i - 1) : files[j] \in Sessions BY <1>1
  <2>2. /\ before \in Seq(Sessions)
        /\ Len(before) = IF 1 <= i - 1 THEN i - 1 - 1 + 1 ELSE 0
        /\ \A j \in 1..(i - 1 - 1 + 1) : before[j] = files[1 + j - 1]
    BY <2>1, SubSeqProperties
  <2> HIDE DEF before
  <2> QED BY <1>1, <2>2
<1>3. /\ after \in Seq(Sessions) /\ Len(after) = Len(files) - i
      /\ \A j \in 1..(Len(files) - i) : after[j] = files[i + j]
  <2>1. \A j \in (i + 1)..Len(files) : files[j] \in Sessions BY <1>1
  <2>2. /\ after \in Seq(Sessions)
        /\ Len(after) = IF i + 1 <= Len(files) THEN Len(files) - (i + 1) + 1 ELSE 0
        /\ \A j \in 1..(Len(files) - (i + 1) + 1) : after[j] = files[(i + 1) + j - 1]
    BY <1>1, <2>1, SubSeqProperties
  <2> HIDE DEF after
  <2>3. \A j \in 1..(Len(files) - i) : (i + 1) + j - 1 = i + j BY <1>1
  <2>4. Len(files) - (i + 1) + 1 = Len(files) - i BY <1>1
  <2>5. Len(after) = Len(files) - i BY <1>1, <2>2
  <2>6. ASSUME NEW j \in 1..(Len(files) - i) PROVE after[j] = files[i + j]
    <3>1. after[j] = files[(i + 1) + j - 1] BY <2>2, <2>4
    <3> QED BY <2>3, <3>1
  <2> QED BY <2>2, <2>5, <2>6
<1>4. RemoveAt(files, i) = before \o after BY DEF RemoveAt
<1> HIDE DEF before, after
<1>5. /\ before \o after \in Seq(Sessions)
      /\ Len(before \o after) = Len(before) + Len(after)
      /\ \A j \in 1..(Len(before) + Len(after)) :
           (before \o after)[j] = IF j <= Len(before) THEN before[j] ELSE after[j - Len(before)]
  BY <1>2, <1>3, ConcatProperties
<1>6. Len(before) + Len(after) = Len(files) - 1 BY <1>1, <1>2, <1>3
<1>7. ASSUME NEW j \in 1..(Len(files) - 1)
      PROVE  (before \o after)[j] = files[IF j < i THEN j ELSE j + 1]
  <2>1. CASE j < i
    <3>1. j \in 1..(i - 1) /\ j <= Len(before) BY <1>2, <2>1
    <3> QED BY <1>2, <1>5, <1>6, <2>1, <3>1
  <2>2. CASE ~(j < i)
    <3>1. /\ j - (i - 1) \in 1..(Len(files) - i) /\ ~(j <= Len(before))
          /\ i + (j - (i - 1)) = j + 1
      BY <1>1, <1>2, <2>2
    <3>2. after[j - (i - 1)] = files[j + 1]
      <4>1. after[j - (i - 1)] = files[i + (j - (i - 1))] BY <1>3, <3>1
      <4> QED BY <3>1, <4>1
    <3>3. (before \o after)[j] = after[j - Len(before)] BY <1>5, <1>6, <3>1
    <3>4. j - Len(before) = j - (i - 1) BY <1>2
    <3> QED BY <2>2, <3>2, <3>3, <3>4
  <2> QED BY <2>1, <2>2
<1> QED BY <1>4, <1>5, <1>6, <1>7

\* The list of files has each once after one is written, that one and those before.
LEMMA TouchedOnce ==
    ASSUME recent \in Seq(Sessions), Once(recent), NEW s \in Sessions
    PROVE  Once(Touched(s))
<1>1. CASE s \notin ToSet(recent) BY <1>1, OnceMore DEF Touched
<1>2. CASE s \in ToSet(recent)
  <2> DEFINE i == CHOOSE i \in DOMAIN recent : recent[i] = s
             rest == RemoveAt(recent, i)
  <2>1. DOMAIN recent = 1..Len(recent) /\ Len(recent) \in Nat BY LenProperties
  <2>2. \E j \in DOMAIN recent : recent[j] = s BY <1>2 DEF ToSet
  <2>3. i \in 1..Len(recent) /\ recent[i] = s BY <2>1, <2>2
  <2>4. Touched(s) = Append(rest, s) BY <1>2 DEF Touched
  <2> HIDE DEF i
  <2>5. /\ rest \in Seq(Sessions) /\ Len(rest) = Len(recent) - 1
        /\ \A j \in 1..(Len(recent) - 1) : rest[j] = recent[IF j < i THEN j ELSE j + 1]
    BY <2>3, WithoutOne
  <2> HIDE DEF rest
  <2>6. DOMAIN rest = 1..(Len(recent) - 1) BY <2>5, LenProperties
  <2>7. ASSUME NEW j \in 1..(Len(recent) - 1), NEW k \in 1..(Len(recent) - 1),
               rest[j] = rest[k]
        PROVE  j = k
    <3> DEFINE J == IF j < i THEN j ELSE j + 1
               K == IF k < i THEN k ELSE k + 1
    <3>1. J \in 1..Len(recent) /\ K \in 1..Len(recent) /\ (J = K => j = k)
      BY <2>1, <2>3
    <3>2. rest[j] = recent[J] /\ rest[k] = recent[K] BY <2>5
    <3> HIDE DEF J, K
    <3> QED BY <2>1, <2>7, <3>1, <3>2 DEF Once
  <2>8. ASSUME NEW j \in 1..(Len(recent) - 1) PROVE rest[j] # s
    <3> DEFINE J == IF j < i THEN j ELSE j + 1
    <3>1. J \in 1..Len(recent) /\ J # i BY <2>1, <2>3
    <3>2. rest[j] = recent[J] BY <2>5
    <3> HIDE DEF J
    <3> QED BY <2>1, <2>3, <3>1, <3>2 DEF Once
  <2>9. Once(rest) BY <2>6, <2>7 DEF Once
  <2>10. s \notin ToSet(rest) BY <2>6, <2>8 DEF ToSet
  <2> QED BY <2>4, <2>5, <2>9, <2>10, OnceMore
<1> QED BY <1>1, <1>2

\* A job is not no job.
LEMMA JobIsOne == \A j \in Jobs : j # NoJob
<1>1. \A j \in Jobs : "content" \in DOMAIN j BY DEF Jobs
<1>2. "content" \notin DOMAIN NoJob BY DEF NoJob
<1> QED BY <1>1, <1>2

\* A step that writes one file at most, drops the job when no write-back is left and the
\* session when the process ends.
Wrote(s) ==
    /\ worked' \subseteq worked \cup {s}
    /\ recent' = Touched(s) \/ (s \notin ToSet(recent) /\ recent' = Append(recent, s))

\* Such a step keeps the files in one order, and the job and the session of their types.
LEMMA TypeKept ==
    ASSUME IInv, IInv', TypeInv,
           UNCHANGED <<recent, worked>> \/ \E s \in Sessions : Wrote(s),
           at' = "down" => cur' = NoSession, at' \in {"down", "idle"} => job' = NoJob,
           failed' \subseteq Entries, commands' \in 0..MaxCommands, stops' \in 0..MaxStops
    PROVE  TypeInv'
<1>1. recent \in Seq(Sessions) /\ Once(recent) /\ worked \subseteq ToSet(recent)
  BY DEF IInv, SessionShape, TypeInv
<1>2. Once(recent') /\ worked' \subseteq ToSet(recent')
  <2>1. CASE UNCHANGED <<recent, worked>> BY <1>1, <2>1
  <2>2. ASSUME NEW s \in Sessions, Wrote(s)
        PROVE  Once(recent') /\ worked' \subseteq ToSet(recent')
    <3>1. CASE recent' = Touched(s) BY <1>1, <2>2, <3>1, TouchedOnce, TouchedType DEF Wrote
    <3>2. CASE s \notin ToSet(recent) /\ recent' = Append(recent, s)
      BY <1>1, <2>2, <3>2, OnceMore, HeldByAppend DEF Wrote
    <3> QED BY <2>2, <3>1, <3>2 DEF Wrote
  <2> QED BY <2>1, <2>2
<1>3. at' \in {"down", "idle"} \cup WriteBack /\ (at' # "down" => cur' \in Sessions)
  BY DEF IInv, SessionShape
<1>4. at' \in WriteBack => job' \in Jobs /\ job' # NoJob
  BY JobIsOne DEF IInv, DiskInv, InStep
<1>5. job' \in Jobs \cup {NoJob} /\ (job' = NoJob <=> at' \in {"down", "idle"})
  BY <1>3, <1>4, Outside
<1> QED BY <1>2, <1>3, <1>5 DEF TypeInv

\* Every step keeps the types, given how far the write-back has come.
LEMMA TypeStep == IInv /\ IInv' /\ TypeInv /\ [Next]_vars => TypeInv'
<1> SUFFICES ASSUME IInv, IInv', TypeInv, [Next]_vars PROVE TypeInv' OBVIOUS
<1> DEFINE Counted == commands' \in 0..MaxCommands /\ stops' \in 0..MaxStops
<1>1. /\ failed \subseteq Entries /\ commands \in 0..MaxCommands /\ stops \in 0..MaxStops
      /\ at \in {"down", "idle"} => job = NoJob
      /\ at = "down" => cur = NoSession
      /\ at # "down" => cur \in Sessions
  BY DEF TypeInv, IInv, SessionShape
<1>2. Type /\ UNCHANGED stops => Counted BY <1>1, BoundsType DEF Type
<1>3. stops < MaxStops /\ stops' = stops + 1 /\ UNCHANGED commands => Counted
  BY <1>1, BoundsType
<1>4. UNCHANGED <<commands, stops>> => Counted BY <1>1
<1>5. job # NoJob => job.entry \in Entries BY DEF TypeInv, Jobs
<1>6. \A s \in Fresh : s \in Sessions /\ s \notin ToSet(recent) BY DEF Fresh
<1>7. ASSUME Start \/ Clear PROVE TypeInv'
  <2>1. PICK s \in Fresh : Create(s) BY <1>7 DEF Start, Clear
  <2>2. s \in Sessions /\ Wrote(s) BY <1>6, <2>1 DEF Create, Wrote
  <2>3. at' = "idle" /\ UNCHANGED <<job, failed>> /\ Counted /\ at \in {"down", "idle"}
    BY <1>2, <1>4, <1>7 DEF Start, Clear, Type, cuts
  <2> QED BY <1>1, <2>2, <2>3, TypeKept
<1>8. ASSUME StartResume \/ StartContinue PROVE TypeInv'
  <2>1. PICK found : StartBound(found) BY <1>8 DEF StartResume, StartContinue
  <2>2. PICK s \in Fresh : recent' = Append(recent, s) BY <2>1 DEF StartBound
  <2>3. s \in Sessions /\ Wrote(s) BY <1>6, <2>1, <2>2 DEF StartBound, Wrote
  <2>4. at' = "idle" /\ UNCHANGED <<job, failed>> /\ Counted /\ at \in {"down", "idle"}
    BY <1>4, <2>1 DEF StartBound, cuts
  <2> QED BY <1>1, <2>3, <2>4, TypeKept
<1>9. ASSUME Quit PROVE TypeInv'
  BY <1>1, <1>2, <1>9, TypeKept DEF Quit, Type, Unbind, cuts
<1>10. ASSUME NEW minted, NEW ok \in BOOLEAN, Turn(minted, ok) PROVE TypeInv'
  <2>1. cur \in Sessions /\ Wrote(cur) BY <1>1, <1>10 DEF Turn, Type, Wrote
  <2>2. Type /\ (UNCHANGED stops \/ (stops < MaxStops /\ stops' = stops + 1))
    BY <1>10 DEF Turn
  <2>3. Counted
    <3>1. commands' \in 0..MaxCommands BY <1>1, <2>2, BoundsType DEF Type
    <3>2. stops' \in 0..MaxStops BY <1>1, <2>2, BoundsType
    <3> QED BY <3>1, <3>2
  <2>4. at' = "idle" /\ at = "idle" /\ UNCHANGED <<job, failed>>
    BY <1>10 DEF Turn, Type, cuts
  <2> QED BY <1>1, <2>1, <2>3, <2>4, TypeKept
<1>11. ASSUME NEW arg, Resume(arg) PROVE TypeInv'
  <2>1. /\ at = "idle" /\ at' = "idle" /\ UNCHANGED <<recent, worked, job, failed>>
        /\ Counted
    BY <1>2, <1>11 DEF Resume, Type, cuts
  <2> QED BY <1>1, <2>1, TypeKept
<1>12. ASSUME NEW arg, NEW typed, NEW first, NEW forced, Promote(arg, typed, first, forced)
       PROVE  TypeInv'
  <2>1. at' = "elaborate" /\ UNCHANGED <<recent, worked, failed>> /\ Counted
    BY <1>2, <1>12 DEF Promote, Type, sess, cuts
  <2> QED BY <1>1, <2>1, TypeKept
<1>13. ASSUME NEW ok \in BOOLEAN, LogClaim(ok) PROVE TypeInv'
  <2>1. at = "append" /\ at' = "idle" /\ job' = NoJob /\ Counted
    BY <1>4, <1>13 DEF LogClaim, Done
  <2>2. cur \in Sessions /\ (UNCHANGED <<recent, worked>> \/ Wrote(cur))
    BY <1>1, <1>13, <2>1 DEF LogClaim, Wrote
  <2>3. job \in Jobs BY <2>1, StageOrder DEF IInv, DiskInv, InStep, Imports
  <2>4. failed' \subseteq Entries BY <1>1, <1>13, <2>3 DEF LogClaim, Jobs
  <2> QED BY <1>1, <2>1, <2>2, <2>4, TypeKept
<1>14. ASSUME WriteBackStep, ~(\E ok \in BOOLEAN : LogClaim(ok)) PROVE TypeInv'
  <2>1. at' # "down" /\ (at' = "idle" => job' = NoJob)
    BY <1>14, StageOrder
    DEF WriteBackStep, Elaborate, MakeDir, WriteFile, OpenBarrel, AppendImports, RunGates,
        Record, Rollback, Go, Done, FileNames
  <2>2. UNCHANGED <<recent, worked, commands, stops>>
    BY <1>14
    DEF WriteBackStep, Elaborate, MakeDir, WriteFile, OpenBarrel, AppendImports, RunGates,
        Record, Rollback, sess
  <2>3. failed' \subseteq Entries
    <3>1. at \in WriteBack /\ (failed' = failed \/ failed' = failed \cup {job.entry})
      BY <1>14, StageOrder
      DEF WriteBackStep, Elaborate, MakeDir, WriteFile, OpenBarrel, AppendImports, RunGates,
          Record, Rollback, cuts, Imports
    <3> QED BY <1>1, <3>1, TheEntry
  <2> QED BY <1>4, <2>1, <2>2, <2>3, TypeKept
<1>15. ASSUME Interrupt \/ Kill PROVE TypeInv'
  <2>1. Stop /\ Counted BY <1>3, <1>15 DEF Interrupt, Kill, Stop
  <2>2. job' = NoJob /\ failed' \subseteq Entries BY <1>1, <1>5, <2>1 DEF Stop, Cut
  <2>3. UNCHANGED <<recent, worked>> /\ (at' = "down" => cur' = NoSession)
    BY <1>15 DEF Interrupt, Kill, Unbind
  <2> QED BY <2>1, <2>2, <2>3, TypeKept
<1>16. CASE UNCHANGED vars
  <2>1. UNCHANGED <<at, cur, recent, worked, job, failed, commands, stops>>
    BY <1>16 DEF vars, sess, cuts
  <2> QED BY <1>1, <1>4, <2>1, TypeKept
<1> QED BY <1>7, <1>8, <1>9, <1>10, <1>11, <1>12, <1>13, <1>14, <1>15, <1>16 DEF Next

\* What a turn and a promotion add to a ledger, claim by claim.
LEMMA OthersOfMinted ==
    ASSUME NEW claims \in Seq(Claims), NEW c \in Minted
    PROVE  claims \o <<>> = claims /\ Others(claims \o <<c>>) = Append(Others(claims), c)
<1>1. c \in Claims /\ c.tool # "lean_add_to_library" BY DEF Minted
<1>2. claims \o <<c>> = Append(claims, c) BY <1>1, AppendIsConcat
<1> QED BY <1>1, <1>2, OthersOfOneMore, ConcatEmptySeq

\* A promotion is none of the other claims.
LEMMA OthersOfPromotion ==
    ASSUME NEW claims \in Seq(Claims), NEW p \in Claims, p.tool = "lean_add_to_library"
    PROVE  Others(Append(claims, p)) = Others(claims)
BY OthersOfOneMore

\* Memory and file stay the same up to promotions.
LEMMA OthersStep == IInv /\ SameOthers /\ [Next]_vars => SameOthers'
<1> SUFFICES ASSUME IInv, SameOthers, [Next]_vars, at' # "down", ~CutOff'
             PROVE  Others(ledger') = Others(log'[cur'])
  BY DEF SameOthers, Others, CutOff
<1>1. /\ log \in [Sessions -> Seq(Claims)] /\ ledger \in Seq(Claims)
      /\ at # "down" => cur \in Sessions
      /\ \A s \in Fresh : s \in Sessions /\ log[s] = <<>>
  BY DEF IInv, SessionShape, Fresh
<1>2. ASSUME Start \/ Clear PROVE Others(ledger') = Others(log'[cur'])
  <2>1. PICK s \in Fresh : Create(s) BY <1>2 DEF Start, Clear
  <2> QED BY <1>1, <2>1 DEF Create
<1>3. ASSUME StartResume \/ StartContinue PROVE Others(ledger') = Others(log'[cur'])
  <2>1. PICK found : StartBound(found) BY <1>3 DEF StartResume, StartContinue
  <2> QED BY <2>1 DEF StartBound, Bind
<1>4. ASSUME NEW arg, Resume(arg) PROVE Others(ledger') = Others(log'[cur'])
  BY <1>4 DEF Resume, Bind
<1>5. ASSUME NEW minted \in {<<>>} \cup {<<c>> : c \in Minted}, NEW ok \in BOOLEAN,
             Turn(minted, ok)
      PROVE  Others(ledger') = Others(log'[cur'])
  <2>1. at # "down" /\ cur' = cur /\ ledger' = ledger \o minted
    BY <1>5 DEF Turn, Type
  <2>2. cur \in Sessions /\ log[cur] \in Seq(Claims) BY <1>1, <2>1
  <2>3. unlogged \subseteq unlogged' BY <1>5 DEF Turn
  <2>4. Others(ledger) = Others(log[cur]) BY <2>1, <2>3 DEF SameOthers, CutOff
  <2>5. CASE minted = <<>>
    <3>1. ledger' = ledger BY <1>1, <2>1, <2>5, ConcatEmptySeq
    <3>2. log[cur] \o <<>> = log[cur] BY <2>2, ConcatEmptySeq
    <3>3. log'[cur] = log[cur] BY <1>1, <1>5, <2>2, <2>5, <3>2 DEF Turn
    <3> QED BY <2>1, <2>4, <3>1, <3>3
  <2>6. ASSUME NEW c \in Minted, minted = <<c>>
        PROVE  Others(ledger') = Others(log'[cur'])
    <3>1. Others(ledger \o <<c>>) = Append(Others(ledger), c) BY <1>1, OthersOfMinted
    <3>2. Others(log[cur] \o <<c>>) = Append(Others(log[cur]), c) BY <2>2, OthersOfMinted
    <3>3. ok
      <4>1. c \in ToSet(minted) /\ c.tool # "lean_add_to_library"
        BY <2>6 DEF ToSet, Minted
      <4> QED BY <1>5, <4>1 DEF Turn, CutOff
    <3>4. log'[cur] = log[cur] \o minted BY <1>1, <1>5, <2>2, <3>3 DEF Turn
    <3> QED BY <2>1, <2>4, <2>6, <3>1, <3>2, <3>4
  <2> QED BY <2>5, <2>6
<1>6. ASSUME at \in {"record", "again", "append"}
      PROVE  /\ PromotionClaim(job.content.thm) \in Claims
             /\ PromotionClaim(job.content.thm).tool = "lean_add_to_library"
             /\ cur \in Sessions /\ log[cur] \in Seq(Claims)
  BY <1>1, <1>6, WhileRecorded DEF PromotionClaim
<1>7. ASSUME Record PROVE Others(ledger') = Others(log'[cur'])
  <2> DEFINE p == PromotionClaim(job.content.thm)
  <2>1. /\ at \in {"record", "again"} /\ cur' = cur /\ ledger' = Append(ledger, p)
        /\ UNCHANGED <<log, unlogged>>
    BY <1>7 DEF Record
  <2>2. p \in Claims /\ p.tool = "lean_add_to_library" BY <1>6, <2>1
  <2> HIDE DEF p
  <2>3. Others(ledger') = Others(ledger) BY <1>1, <2>1, <2>2, OthersOfPromotion
  <2> QED BY <2>1, <2>3 DEF SameOthers, CutOff
<1>8. ASSUME NEW ok \in BOOLEAN, LogClaim(ok) PROVE Others(ledger') = Others(log'[cur'])
  <2> DEFINE p == PromotionClaim(job.content.thm)
  <2>1. at = "append" /\ UNCHANGED <<cur, ledger>> BY <1>8 DEF LogClaim
  <2>2. /\ p \in Claims /\ p.tool = "lean_add_to_library" /\ cur \in Sessions
        /\ log[cur] \in Seq(Claims)
    BY <1>6, <2>1
  <2>3. /\ unlogged \subseteq unlogged'
        /\ log' = log \/ log' = [log EXCEPT ![cur] = Append(@, p)]
    BY <1>8 DEF LogClaim
  <2> HIDE DEF p
  <2>4. Others(log'[cur]) = Others(log[cur])
    <3>1. CASE log' = log BY <3>1
    <3>2. CASE log' = [log EXCEPT ![cur] = Append(@, p)]
      <4>1. log'[cur] = Append(log[cur], p) BY <1>1, <2>2, <3>2
      <4> QED BY <2>2, <4>1, OthersOfPromotion
    <3> QED BY <2>3, <3>1, <3>2
  <2>5. ~CutOff BY <2>3 DEF CutOff
  <2> QED BY <2>1, <2>4, <2>5 DEF SameOthers
<1>9. ASSUME UNCHANGED <<cur, ledger, log>>, unlogged \subseteq unlogged', at # "down"
      PROVE  Others(ledger') = Others(log'[cur'])
  BY <1>9 DEF SameOthers, CutOff
<1>10. ASSUME WriteBackStep, ~Record, ~(\E ok \in BOOLEAN : LogClaim(ok))
       PROVE  UNCHANGED sess /\ at # "down"
  BY <1>10 DEF WriteBackStep, Elaborate, MakeDir, WriteFile, OpenBarrel, AppendImports,
     RunGates, Rollback, FileNames
<1>11. ASSUME NEW arg, NEW typed, NEW first, NEW forced, Promote(arg, typed, first, forced)
       PROVE  UNCHANGED sess /\ at # "down"
  BY <1>11 DEF Promote, Type
<1>12. ASSUME UNCHANGED sess, at # "down" PROVE Others(ledger') = Others(log'[cur'])
  <2>1. UNCHANGED <<cur, ledger, log>> /\ unlogged \subseteq unlogged' BY <1>12 DEF sess
  <2> QED BY <1>9, <1>12, <2>1
<1>13. ASSUME Interrupt PROVE Others(ledger') = Others(log'[cur'])
  <2>1. UNCHANGED <<cur, ledger, log>> /\ unlogged \subseteq unlogged' /\ at # "down"
    BY <1>13, Outside DEF Interrupt
  <2> QED BY <1>9, <2>1
<1>14. CASE UNCHANGED vars BY <1>12, <1>14 DEF vars
<1>15. ASSUME Quit \/ Kill PROVE FALSE BY <1>15 DEF Quit, Kill
<1> QED
  BY <1>2, <1>3, <1>4, <1>5, <1>7, <1>8, <1>10, <1>11, <1>12, <1>13, <1>14, <1>15
  DEF Next

\* Both, and what they rest on.
LEMMA SafetyBegins == Init => IInv /\ TypeInv /\ SameOthers
<1>1. Init => IInv BY Begins
<1>2. ASSUME Init PROVE TypeInv
  <2>1. at = "down" /\ cur = NoSession /\ recent = <<>> /\ worked = {} /\ job = NoJob
        /\ failed = {} /\ commands = 0 /\ stops = 0
    BY <1>2 DEF Init
  <2>2. Once(recent) BY <2>1 DEF Once
  <2> QED BY <2>1, <2>2, BoundsType DEF TypeInv
<1>3. Init => SameOthers BY DEF Init, SameOthers
<1> QED BY <1>1, <1>2, <1>3

\* The session files hold each session once, what is worked on is among them, a promotion
\* is under way just where the write-back is, and disk, ledgers and counters have their
\* types (repl.py, session.py, library_writeback.py).
THEOREM TypeCorrect == Spec => []TypeOK
<1>1. Init => IInv /\ TypeInv BY SafetyBegins
<1>2. IInv /\ TypeInv /\ [Next]_vars => IInv' /\ TypeInv' BY EveryStep, TypeStep
<1>3. IInv /\ TypeInv => TypeOK
  BY DEF IInv, SessionShape, DiskInv, DiskShape, TypeInv, Once, TypeOK
<1> QED BY <1>1, <1>2, <1>3, PTL DEF Spec

\* Reloading the file of the session gives the claims in memory in their order, up to the
\* promotions, of which memory may hold two copies, and but for the claims whose line an
\* interrupt or a disk error cut off; it never gives one that memory does not hold
\* (repl.py:699-700, session.py:3-6, 194-197).
THEOREM ReloadGivesTheLedger == Spec => []LedgersAgree
<1>1. Init => IInv /\ TypeInv /\ SameOthers BY SafetyBegins
<1>2. IInv /\ TypeInv /\ SameOthers /\ [Next]_vars => IInv' /\ TypeInv' /\ SameOthers'
  BY EveryStep, TypeStep, OthersStep
<1>3. IInv /\ TypeInv /\ SameOthers => LedgersAgree
  BY DEF IInv, SameClaims, TypeInv, SameOthers, CutOff, LedgersAgree
<1> QED BY <1>1, <1>2, <1>3, PTL DEF Spec
=============================================================================
