----------------------------- MODULE AgentLoop -----------------------------
(***************************************************************************)
(* The agent loop (agent.py), the session it writes (session.py) and the   *)
(* compaction of its chat transcript (compaction.py), as the interactive   *)
(* REPL drives them (repl.py).                                             *)
(*                                                                         *)
(* Agent.step is a generator: between two of its events the program may be *)
(* killed, and Ctrl-C, which only sets a flag, may come at any point. Each *)
(* action below is one event with what the code does up to the next one.   *)
(*                                                                         *)
(* The JSONL file of a session is represented by what its lines say of the *)
(* session, read in order, so that a line appended to the file is one step *)
(* of that reading (Reread), and by whether SessionStore.load can read     *)
(* them at all: it splits the text also at U+0085, U+2028 and U+2029,      *)
(* which the JSON of a line does not escape, and raises on the halves.     *)
(***************************************************************************)
EXTENDS Naturals, Sequences, FiniteSets

CONSTANTS
    Names,         \* names of the statements lean_prove is called with
    BK,            \* those that denote the conjecture of the campaign
    Minted,        \* the claims the tools may return
    NoClaim,       \* no claim was returned
    KeepRecent,    \* CompactionConfig.keep_recent
    StaircaseEvery,\* a staircase is injected every so many rounds (5)
    MaxSteps,      \* AgentConfig.max_steps, for chat mode
    MaxRounds,     \* hunt_max_rounds, for the hunt modes
    TurnCalls,     \* bound on the tool calls of one model turn
    MaxTurns,      \* bound on the turns the model answers (then it raises)
    MaxCalls,      \* bound on all tool calls
    MaxPrompts,    \* bound on the prompts of the user
    MaxCrashes     \* bound on the crashes

\* What a claim's provenance keeps: the tool and the statement; whether the
\* proof is durable and free of nonstandard axioms; a bk_predicate certificate
\* says that the graph violates the conjecture or not.
Claim == [tool: {"lean_prove", "bk_predicate", "other"}, name: Names,
          durable: BOOLEAN, clean: BOOLEAN, violates: BOOLEAN]

ASSUME BKType == BK \subseteq Names
ASSUME MintedType == Minted \subseteq Claim
ASSUME NoClaimIsNone == NoClaim \notin Claim
ASSUME KeepRecentType == KeepRecent \in Nat
ASSUME StaircaseEveryType == StaircaseEvery \in Nat \ {0}
ASSUME BoundsType == /\ MaxSteps \in Nat /\ MaxRounds \in Nat \ {0}
                     /\ TurnCalls \in Nat \ {0} /\ MaxTurns \in Nat /\ MaxCalls \in Nat
                     /\ MaxPrompts \in Nat /\ MaxCrashes \in Nat

\* An item of the chat transcript. staircase: a user message that carries the
\* staircase mark; id: which call of its turn a call or a result belongs to.
Kinds == {"user", "summary", "staircase", "assistant", "call", "result"}
Item == [kind: Kinds, id: Nat]
Message(kind) == [kind |-> kind, id |-> 0]
CallItem(i) == [kind |-> "call", id |-> i]
ResultItem(i) == [kind |-> "result", id |-> i]

\* A session: transcript, ledger and notebook of locked lemmas (their names).
Session == [hist: Seq(Item), ledger: Seq(Claim), notes: Seq(Names)]
NewSession == [hist |-> <<>>, ledger |-> <<>>, notes |-> <<>>]

\* Its file: what the lines say, and whether load can read them.
File == [said: Session, legible: BOOLEAN]
NewFile == [said |-> NewSession, legible |-> TRUE]

VARIABLES
    mem,       \* the Session object of the running program
    disk,      \* its JSONL file
    run,       \* where Agent.step is
    interrupt, \* Agent._interrupt
    used       \* what the bounds have counted

vars == <<mem, disk, run, interrupt, used>>

Modes == {"chat", "hunt", "forever"}
Stages == {"down", "idle", "start", "head", "compact", "inject", "forceInject",
           "respond", "continue", "record", "dispatch", "result", "settle",
           "check", "flush", "after"}
Outcomes == {"none", "final", "interrupted", "cap", "error", "timeout"}

\* calls: the tool calls of the turn; i: the one the loop is at; claim: what it
\* returned; hit: hunt_hit. For InterruptBoundsWork only, what began when an
\* interrupt was already pending: late, the turns of the model and its tool calls;
\* aside, the summaries of compactions and the kernel checks of settlements.
Run == [stage: Stages, mode: Modes, rounds: Nat, calls: Nat, i: Nat,
        claim: Claim \cup {NoClaim}, hit: BOOLEAN, outcome: Outcomes,
        late: Nat, aside: Nat]

TypeOK ==
    /\ mem \in Session
    /\ disk \in File
    /\ run \in Run
    /\ interrupt \in BOOLEAN
    /\ used \in [prompts: Nat, turns: Nat, calls: Nat, crashes: Nat]

-----------------------------------------------------------------------------
(***************************************************************************)
(* session.py: what is logged in memory, and what load makes of the line.  *)
(***************************************************************************)
\* LemmaNotebook.lock: the entry of that name, of which there is at most one,
\* goes; the lemma is appended.
LockIn(notes, n) ==
    LET at == {k \in 1..Len(notes) : notes[k] = n}
        others == IF at = {} THEN notes
                  ELSE LET k == CHOOSE k \in at : TRUE IN
                       SubSeq(notes, 1, k - 1) \o SubSeq(notes, k + 1, Len(notes))
    IN  Append(others, n)

\* The lines of the file.
ItemLine(item) == [type |-> "item", item |-> item]
ClaimLine(c) == [type |-> "claim", claim |-> c]
LemmaLine(n) == [type |-> "lemma", name |-> n]
CompactLine(summary, kept) ==
    [type |-> "compact", summary |-> summary, kept |-> kept]

\* (mutant of Reread) A compact line leaves out the summary.
Reread_KeptOnly(d, line) ==
    CASE line.type = "item"    -> [d EXCEPT !.hist = Append(@, line.item)]
      [] line.type = "claim"   -> [d EXCEPT !.ledger = Append(@, line.claim)]
      [] line.type = "lemma"   -> [d EXCEPT !.notes = LockIn(@, line.name)]
      [] line.type = "compact" -> [d EXCEPT !.hist = line.kept]

\* The loop of SessionStore.load, one line further.
Reread(d, line) ==
    CASE line.type = "item"    -> [d EXCEPT !.hist = Append(@, line.item)]
      [] line.type = "claim"   -> [d EXCEPT !.ledger = Append(@, line.claim)]
      [] line.type = "lemma"   -> [d EXCEPT !.notes = LockIn(@, line.name)]
      [] line.type = "compact" -> [d EXCEPT !.hist = <<line.summary>> \o line.kept]

\* write_event: a line is appended. A text in it may hold a line separator, and from
\* then on load raises.
WriteEvent(line) ==
    \E separator \in BOOLEAN :
        disk' = [said |-> Reread(disk.said, line), legible |-> disk.legible /\ ~separator]

\* log_user, log_history_item
LogItem(item) ==
    /\ mem' = [mem EXCEPT !.hist = Append(@, item)]
    /\ WriteEvent(ItemLine(item))

LogClaim(c) ==
    /\ mem' = [mem EXCEPT !.ledger = Append(@, c)]
    /\ WriteEvent(ClaimLine(c))

LogLemma(n) ==
    /\ mem' = [mem EXCEPT !.notes = LockIn(@, n)]
    /\ WriteEvent(LemmaLine(n))

LogCompaction(kept) ==
    /\ mem' = [mem EXCEPT !.hist = <<Message("summary")>> \o kept]
    /\ WriteEvent(CompactLine(Message("summary"), kept))

-----------------------------------------------------------------------------
(***************************************************************************)
(* compaction.py                                                           *)
(***************************************************************************)
\* (mutant of Opens) The window is not widened to whole groups.
Opens_Blind(h, s) ==
    IF KeepRecent = 0 \/ Len(h) <= KeepRecent
    THEN s = 1 ELSE s = Len(h) - KeepRecent + 1

\* _kept_window: the window opens at item s. The last KeepRecent items, back
\* from a result to what it answers (r), back over the calls just before.
Opens(h, s) ==
    IF KeepRecent = 0 \/ Len(h) <= KeepRecent THEN s = 1
    ELSE LET last == Len(h) - KeepRecent + 1 IN
         \E r \in s..last :
            /\ \A x \in (r + 1)..last : h[x].kind = "result"
            /\ r = 1 \/ h[r].kind # "result"
            /\ \A x \in s..(r - 1) : h[x].kind = "call"
            /\ s = 1 \/ h[s - 1].kind # "call"

\* compact: nothing is older than the window and nothing changes, or the model
\* summarizes what is older. The model may also raise, or answer with a call.
NothingOlder == Opens(mem.hist, 1)
Compacts ==
    \E s \in 2..Len(mem.hist) :
        /\ Opens(mem.hist, s)
        /\ LogCompaction(SubSeq(mem.hist, s, Len(mem.hist)))

-----------------------------------------------------------------------------
(***************************************************************************)
(* Agent.step                                                              *)
(***************************************************************************)
Hunting == run.mode \in {"hunt", "forever"}
Cap == IF run.mode = "chat" THEN MaxSteps ELSE MaxRounds

Ready == [stage |-> "idle", mode |-> "chat", rounds |-> 0, calls |-> 0, i |-> 0,
          claim |-> NoClaim, hit |-> FALSE, outcome |-> "none",
          late |-> 0, aside |-> 0]

At(stage) == run.stage = stage
Go(stage) == run' = [run EXCEPT !.stage = stage]

\* The generator returns; run_agent goes on to its own compaction.
Ended(stage, outcome) ==
    [Ready EXCEPT !.stage = stage, !.mode = run.mode, !.outcome = outcome,
                  !.late = run.late, !.aside = run.aside]
Return(outcome) == run' = Ended("after", outcome)

\* A model turn or a tool call begins, counted when an interrupt is pending.
Begun(count) == IF interrupt THEN count + 1 ELSE count

\* loop, _run_hunt: the line of the user is logged, and the handler of Ctrl-C
\* is installed.
Prompt(mode) ==
    /\ At("idle")
    /\ used.prompts < MaxPrompts
    /\ used' = [used EXCEPT !.prompts = @ + 1]
    /\ LogItem(Message("user"))
    /\ run' = [Ready EXCEPT !.stage = "start", !.mode = mode]
    /\ UNCHANGED interrupt

\* The first lines of step: clear_interrupt.
StepBegins ==
    /\ At("start")
    /\ interrupt' = FALSE
    /\ Go("head")
    /\ UNCHANGED <<mem, disk, used>>

\* (mutant of NextRound) The flag is not looked at before a new round.
NextRound_Deaf ==
    /\ At("head")
    /\ IF run.rounds >= Cap THEN Return("cap")
       ELSE run' = [run EXCEPT !.stage = IF Hunting THEN "compact" ELSE "inject",
                               !.rounds = @ + 1]
    /\ UNCHANGED <<mem, disk, interrupt, used>>

\* The head of the loop.
NextRound ==
    /\ At("head")
    /\ IF interrupt THEN Return("interrupted")
       ELSE IF run.rounds >= Cap THEN Return("cap")
       ELSE run' = [run EXCEPT !.stage = IF Hunting THEN "compact" ELSE "inject",
                               !.rounds = @ + 1]
    /\ UNCHANGED <<mem, disk, interrupt, used>>

\* should_compact (by the length of the texts), compact, which asks the model for the
\* summary. Its exceptions leave step: the try of the model turn begins further down.
HuntCompaction ==
    /\ At("compact")
    /\ \/ Go("inject") /\ UNCHANGED <<mem, disk>>
       \/ NothingOlder /\ Go("forceInject") /\ UNCHANGED <<mem, disk>>
       \/ Compacts /\ run' = [run EXCEPT !.stage = "forceInject", !.aside = Begun(@)]
       \/ /\ ~NothingOlder
          /\ \E outcome \in {"timeout", "error"} :
                run' = [Ended("idle", outcome) EXCEPT !.aside = Begun(@)]
          /\ UNCHANGED <<mem, disk>>
    /\ UNCHANGED <<interrupt, used>>

LastIsStaircase ==
    mem.hist # <<>> /\ mem.hist[Len(mem.hist)].kind = "staircase"
StaircaseDue ==
    /\ run.mode = "forever"
    /\ At("forceInject") \/ (run.rounds # 1 /\ run.rounds % StaircaseEvery = 1)
    /\ ~LastIsStaircase

\* _maybe_inject_staircase
Inject ==
    /\ run.stage \in {"inject", "forceInject"}
    /\ IF StaircaseDue THEN LogItem(Message("staircase"))
                       ELSE UNCHANGED <<mem, disk>>
    /\ Go("respond")
    /\ UNCHANGED <<interrupt, used>>

\* The model answers with text: the final answer of a chat; a hunt goes on.
\* In a forever hunt its timeouts count as text.
RespondText ==
    /\ At("respond")
    /\ used.turns < MaxTurns
    /\ used' = [used EXCEPT !.turns = @ + 1]
    /\ LogItem(Message("assistant"))
    /\ run' = IF Hunting
              THEN [run EXCEPT !.stage = "continue", !.late = Begun(@)]
              ELSE [Ended("after", "final") EXCEPT !.late = Begun(@)]
    /\ UNCHANGED interrupt

\* The model raises: a timeout, outside a forever hunt, or another error.
RespondError ==
    /\ At("respond")
    /\ \E outcome \in {"timeout", "error"} :
          /\ outcome = "timeout" => run.mode # "forever"
          /\ run' = [Ended("idle", outcome) EXCEPT !.late = Begun(@)]
    /\ UNCHANGED <<mem, disk, interrupt, used>>

RespondCalls ==
    /\ At("respond")
    /\ used.turns < MaxTurns
    /\ \E n \in 1..TurnCalls :
          /\ used.calls + n <= MaxCalls
          /\ used' = [used EXCEPT !.turns = @ + 1, !.calls = @ + n]
          /\ run' = [run EXCEPT !.stage = "record", !.calls = n, !.i = 1,
                                !.late = Begun(@)]
    /\ UNCHANGED <<mem, disk, interrupt>>

\* The nudge after a text in a hunt; in a forever hunt it carries the staircase.
Nudge ==
    /\ At("continue")
    /\ LogItem(Message(IF run.mode = "forever" THEN "staircase" ELSE "user"))
    /\ Go("head")
    /\ UNCHANGED <<interrupt, used>>

\* The calls of the turn are recorded first. After an interrupt every call of
\* the turn gets a result, those that were not recorded included.
RecordCall ==
    /\ At("record")
    /\ LogItem(CallItem(run.i))
    /\ run' = IF interrupt       THEN [run EXCEPT !.stage = "flush", !.i = 1]
              ELSE IF run.i < run.calls THEN [run EXCEPT !.i = @ + 1]
              ELSE [run EXCEPT !.stage = "dispatch", !.i = 1]
    /\ UNCHANGED <<interrupt, used>>

\* The registry runs the tool: a result without a claim or an error, which
\* are recorded alike, or a claim, which is recorded before its result.
DispatchPlain ==
    /\ At("dispatch")
    /\ LogItem(ResultItem(run.i))
    /\ run' = [run EXCEPT !.stage = "check", !.late = Begun(@)]
    /\ UNCHANGED <<interrupt, used>>

\* (mutant of DispatchClaim) What is no claim is recorded as well.
DispatchClaim_Unchecked ==
    /\ At("dispatch")
    /\ \E c \in Minted \cup {NoClaim} :
          /\ LogClaim(c)
          /\ run' = [run EXCEPT !.stage = "result", !.claim = c, !.late = Begun(@)]
    /\ UNCHANGED <<interrupt, used>>

DispatchClaim ==
    /\ At("dispatch")
    /\ \E c \in Minted :
          /\ LogClaim(c)
          /\ run' = [run EXCEPT !.stage = "result", !.claim = c, !.late = Begun(@)]
    /\ UNCHANGED <<interrupt, used>>

RecordResult ==
    /\ At("result")
    /\ LogItem(ResultItem(run.i))
    /\ Go("settle")
    /\ UNCHANGED <<interrupt, used>>

\* (mutant of CampaignSettled) Nonstandard axioms are not looked for.
CampaignSettled_Unclean(c) ==
    \/ c.tool = "bk_predicate" /\ c.violates
    \/ c.tool = "lean_prove" /\ c.durable /\ c.name \in BK

\* campaign_settlement, but for the kernel check of the type, which may fail.
CampaignSettled(c) ==
    \/ c.tool = "bk_predicate" /\ c.violates
    \/ c.tool = "lean_prove" /\ c.durable /\ c.clean /\ c.name \in BK

\* _is_hunt_proof: hunt_require_durable is set or not.
HuntProof(c, requireDurable) ==
    c.tool = "lean_prove" /\ (requireDurable => c.durable)

Hits(c) ==
    CASE run.mode = "forever" -> IF ~CampaignSettled(c) THEN {FALSE}
                                 ELSE IF c.tool = "lean_prove" THEN BOOLEAN ELSE {TRUE}
      [] run.mode = "hunt"    -> {HuntProof(c, d) : d \in BOOLEAN}
      [] OTHER                -> {FALSE}

\* A forever hunt asks the kernel for the type of a proof that may settle, by a
\* lean_check of its own.
AsksKernel(c) == run.mode = "forever" /\ CampaignSettled(c) /\ c.tool = "lean_prove"

\* ClaimMinted: a lean_prove locks its lemma; a hunt looks for its end.
Settle ==
    /\ At("settle")
    /\ IF run.claim.tool = "lean_prove" THEN LogLemma(run.claim.name)
                                        ELSE UNCHANGED <<mem, disk>>
    /\ \E h \in Hits(run.claim) :
          run' = [run EXCEPT !.stage = "check", !.claim = NoClaim, !.hit = @ \/ h,
                             !.aside = IF AsksKernel(run.claim) THEN Begun(@) ELSE @]
    /\ UNCHANGED <<interrupt, used>>

\* (mutant of CheckInterrupt) The calls left are not answered.
CheckInterrupt_NoFlush ==
    /\ At("check")
    /\ IF interrupt THEN Return("interrupted")
       ELSE IF run.i < run.calls
            THEN run' = [run EXCEPT !.stage = "dispatch", !.i = @ + 1]
            ELSE IF run.hit THEN Return("final")
            ELSE run' = [run EXCEPT !.stage = "head", !.calls = 0, !.i = 0]
    /\ UNCHANGED <<mem, disk, interrupt, used>>

\* After each result: stop, with a result for every call left; or take the next
\* call; or, after the last, stop on a hit or begin another round.
CheckInterrupt ==
    /\ At("check")
    /\ IF interrupt
       THEN IF run.i < run.calls
            THEN run' = [run EXCEPT !.stage = "flush", !.i = @ + 1]
            ELSE Return("interrupted")
       ELSE IF run.i < run.calls
            THEN run' = [run EXCEPT !.stage = "dispatch", !.i = @ + 1]
            ELSE IF run.hit THEN Return("final")
            ELSE run' = [run EXCEPT !.stage = "head", !.calls = 0, !.i = 0]
    /\ UNCHANGED <<mem, disk, interrupt, used>>

\* (mutant of Flush) One result more than there are calls is waited for.
Flush_OneMore ==
    /\ At("flush") /\ run.i <= run.calls
    /\ LogItem(ResultItem(run.i))
    /\ run' = [run EXCEPT !.i = @ + 1]
    /\ UNCHANGED <<interrupt, used>>

\* The results "ERROR Interrupted".
Flush ==
    /\ At("flush")
    /\ LogItem(ResultItem(run.i))
    /\ IF run.i < run.calls THEN run' = [run EXCEPT !.i = @ + 1]
                            ELSE Return("interrupted")
    /\ UNCHANGED <<interrupt, used>>

-----------------------------------------------------------------------------
(***************************************************************************)
(* repl.py                                                                 *)
(***************************************************************************)
\* run_agent, after the events: the transcript is compacted, or it need not
\* be, or the model fails, which the REPL reports. Then it prompts again.
AutoCompact ==
    /\ At("after")
    /\ Compacts \/ UNCHANGED <<mem, disk>>
    /\ Go("idle")
    /\ UNCHANGED <<interrupt, used>>

\* /compact
SlashCompact ==
    /\ At("idle")
    /\ Compacts
    /\ UNCHANGED <<run, interrupt, used>>

\* Ctrl-C while run_agent has its handler installed.
Interrupt ==
    /\ run.stage \notin {"idle", "down"}
    /\ interrupt' = TRUE
    /\ UNCHANGED <<mem, disk, run, used>>

\* The program is killed; what is on the disk stays.
Crash ==
    /\ ~At("down")
    /\ used.crashes < MaxCrashes
    /\ used' = [used EXCEPT !.crashes = @ + 1]
    /\ mem' = NewSession
    /\ run' = [Ready EXCEPT !.stage = "down"]
    /\ interrupt' = FALSE
    /\ UNCHANGED disk

\* (mutant of Resume) The claims are left to be derived again.
Resume_ChatOnly ==
    /\ run.stage \in {"down", "idle"}
    /\ disk.legible
    /\ mem' = [disk.said EXCEPT !.ledger = <<>>]
    /\ run' = [Ready EXCEPT !.outcome = run.outcome]
    /\ UNCHANGED <<disk, interrupt, used>>

\* --resume, --continue in a new program, /resume in a running one. When load raises,
\* the new program ends and the running one prompts again: nothing is bound.
Resume ==
    /\ run.stage \in {"down", "idle"}
    /\ disk.legible
    /\ mem' = disk.said
    /\ run' = [Ready EXCEPT !.outcome = run.outcome]
    /\ UNCHANGED <<disk, interrupt, used>>

\* What Agent.step and run_agent do of themselves.
Loop == \/ StepBegins \/ NextRound \/ HuntCompaction \/ Inject
        \/ RespondText \/ RespondError \/ RespondCalls \/ Nudge
        \/ RecordCall \/ DispatchPlain \/ DispatchClaim \/ RecordResult \/ Settle
        \/ CheckInterrupt \/ Flush \/ AutoCompact

User == (\E mode \in Modes : Prompt(mode)) \/ SlashCompact \/ Interrupt \/ Resume

Init ==
    /\ mem = NewSession
    /\ disk = NewFile
    /\ run = Ready
    /\ interrupt = FALSE
    /\ used = [prompts |-> 0, turns |-> 0, calls |-> 0, crashes |-> 0]

Next == Loop \/ User \/ Crash

\* The program runs: the model and the tools are called with timeouts.
Spec == Init /\ [][Next]_vars /\ WF_vars(Loop)

-----------------------------------------------------------------------------
(***************************************************************************)
(* Properties                                                              *)
(***************************************************************************)
\* session.py 1-7: at every point where the program may be killed, the lines of the file
\* say the session as the program knows it, transcript, ledger and notebook. A resume
\* then loads exactly this, unless a text with a line separator was written: then load
\* raises (171, 228; Resume) and the session is in the file only.
ReloadsAsIs == ~At("down") => disk.said = mem

\* The session that counts: of the running program, or what its file says.
Current == IF At("down") THEN disk.said ELSE mem

\* agent.py, session.py, compaction.py: the ledger and the locked lemmas
\* behave as TrustLog says, whatever is compacted, interrupted or killed.
Trust == INSTANCE TrustLog WITH
            Claims <- Minted, Lemmas <- Names,
            ledger <- Current.ledger,
            locked <- {Current.notes[k] : k \in 1..Len(Current.notes)}
KeepsTrust == Trust!Spec

\* A run of calls and the run of results after it become one tool_use message
\* and one tool_result message (models.py 255-300).
SameGroup(h, i, j) ==
    \E m \in i..(j - 1) : /\ \A x \in i..m : h[x].kind = "call"
                          /\ \A x \in (m + 1)..j : h[x].kind = "result"

Answers(h, i) == {j \in (i + 1)..Len(h) : h[j].id = h[i].id /\ SameGroup(h, i, j)}
Asked(h, j) == {i \in 1..(j - 1) : h[i].id = h[j].id /\ SameGroup(h, i, j)}

AllAnswered(h) ==
    \A i \in 1..Len(h) : h[i].kind = "call" => Cardinality(Answers(h, i)) = 1
AllAsked(h) ==
    \A j \in 1..Len(h) : h[j].kind = "result" => Cardinality(Asked(h, j)) = 1

\* agent.py 773-923: between turns every call in the transcript has exactly one
\* result in the message after it, interrupted or not (a crash may leave calls
\* without results: load repairs nothing).
BetweenTurns == run.stage \in {"idle", "start", "head", "compact", "respond", "after"}
CallsAnswered ==
    used.crashes = 0 /\ BetweenTurns => AllAnswered(mem.hist)

\* compaction.py 49-60: a compaction cuts no group of calls and results.
CompactionKeepsGroups ==
    [][ mem'.hist # mem.hist /\ Len(mem'.hist) <= Len(mem.hist)
        /\ AllAnswered(mem.hist) /\ AllAsked(mem.hist)
        => AllAnswered(mem'.hist) /\ AllAsked(mem'.hist) ]_vars

\* agent.py 420-470, 863-921: a forever hunt ends by itself only with a claim
\* on the ledger that settles the conjecture, and after such a claim no other
\* round begins.
Settles(c) ==
    IF c.tool = "lean_prove" THEN c.durable /\ c.clean /\ c.name \in BK
                             ELSE c.tool = "bk_predicate" /\ c.violates
HaltsWhenSettled ==
    /\ run.mode = "forever" /\ (run.outcome = "final" \/ run.hit)
          => \E k \in 1..Len(mem.ledger) : Settles(mem.ledger[k])
    /\ run.stage \in {"head", "compact", "inject", "forceInject", "respond"} => ~run.hit

\* agent.py 581-590: once an interrupt is pending, at most one more turn of the model
\* or tool call of its begins before step returns, and beside it at most one call
\* that the loop makes itself: the summary before the turn (718) or the kernel check
\* of the claim after the tool call (865-867).
InterruptBoundsWork == run.late <= 1 /\ run.aside <= 1

\* agent.py 677-923: a step comes back to the prompt, whatever the model and
\* the tools answer (a hunt without round cap is outside the bounds).
StepReturns == run.stage \notin {"idle", "down"} ~> run.stage \in {"idle", "down"}

-----------------------------------------------------------------------------
(***************************************************************************)
(* What the comments say and the code does not do.                         *)
(***************************************************************************)
\* agent.py 120, 773-774: an interrupt leaves the session consistent, with the
\* results that the API requires: every result the model is sent has its call.
RespondsPaired == At("respond") => AllAsked(mem.hist)

\* agent.py 724-725: a forever hunt does not die on a silent model.
ForeverSurvivesTimeouts ==
    ~(run.mode = "forever" /\ run.outcome = "timeout")

=============================================================================
