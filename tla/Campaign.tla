------------------------------ MODULE Campaign ------------------------------
(***************************************************************************)
(* The campaign staircase (campaign.py): the next step, read off the ledger *)
(* and the notebook of the session; the tools that move it (the discharging *)
(* tools of empirical_tools.py, reducible_configuration, lean_prove); and   *)
(* the injections of a forever hunt (agent.py), which count how often the   *)
(* staircase did not move.                                                  *)
(***************************************************************************)
EXTENDS Discharging

CONSTANTS
    Seeds,              \* the cores of reducible_seeds.toml
    BridgeFormalized,   \* does the bridge's status.toml say "formalized"
    Lemmas,             \* lemma names
    BridgeNames, ClosureNames, AtNineNames,
    Arguments,          \* the arguments a model may propose: [mu, rules]
    MaxIters,           \* the values of max_iters a model may pass
    MAX_ITERS_CAP,
    Sessions,           \* the sessions /clear and /resume go between
    Begun,              \* cores minted by an earlier hunt of the first session
    MaxCalls,           \* bound: tool calls that change something, and switches
    MaxStreak           \* bound: a longer streak is not told apart

ASSUME BridgeType == BridgeFormalized \in BOOLEAN
ASSUME NamesType == BridgeNames \cup ClosureNames \cup AtNineNames \subseteq Lemmas
ASSUME SessionsExist == Sessions # {}
ASSUME ArgumentsType == \A a \in Arguments : IsArgument(a)
ASSUME IterationsType == MaxIters \subseteq Int /\ MAX_ITERS_CAP \in Nat \ {0}
ASSUME BegunType == Begun \subseteq Cores
ASSUME CallsType == MaxCalls \in Nat

STAGNATION_THRESHOLD == 2
ASSUME StreakType == MaxStreak \in Nat /\ MaxStreak > STAGNATION_THRESHOLD

VARIABLES
    session,    \* the session of the agent
    ledgers,    \* session -> the claims on its ledger
    notebooks,  \* session -> lemma -> how it is locked
    bind,       \* the CampaignBind of the process
    search,     \* the discharging search that is running
    last,       \* the last message: a prompt, one with the staircase in it, tool results
    still,      \* observer: injections since something was gained
    undone,     \* observer: has a durable lemma been unlocked
    scores,     \* observer: the scores of the running search, in order
    calls       \* bounded counter

vars == <<session, ledgers, notebooks, bind, search, last,
          still, undone, scores, calls>>

\* The claims that the staircase reads: a session proof and an irreducible frontier are
\* on the ledger too, and nothing here looks at them.
CoreClaim(c) == [kind |-> "core", core |-> c, name |-> None, cores |-> {}]
DurableClaim(n) == [kind |-> "durable", core |-> None, name |-> n, cores |-> {}]
UnavoidableClaim(S) == [kind |-> "unavoidable", core |-> None, name |-> None, cores |-> S]

\* Why the last attempt did not close, as far as the next step reads it.
Notes == {"", "coupling", "illegal", "other"}
NoteOf(refusal) == CASE refusal = "coupling" -> "coupling"
                     [] refusal \in {"non-conserving", "mu"} -> "illegal"
                     [] OTHER -> "other"

NoSearch == [on |-> FALSE]
NoFingerprint == [durable |-> {}, cores |-> {}, key |-> <<"none">>]
FreshBind == [live |-> FALSE, survivors |-> <<>>, note |-> "", fp |-> NoFingerprint, streak |-> 0]

Claims == ledgers[session]
Notebook == notebooks[session]

(***************************************************************************)
(* What the ledger and the notebook say.                                    *)
(***************************************************************************)
ForbiddenCores(claims) == {c.core : c \in {d \in claims : d.kind = "core"}}

\* Mutant: only the notebook is asked.
HasDurable_Notebook(claims, notebook, names) == \E n \in names : notebook[n] = "durable"

HasDurable(claims, notebook, names) ==
  \/ \E n \in names : notebook[n] = "durable"
  \/ \E c \in claims : c.kind = "durable" /\ c.name \in names

HasDurableBridge(claims, notebook) ==
  BridgeFormalized \/ HasDurable(claims, notebook, BridgeNames)

DischargingClosed(claims) ==
  \E c \in claims : /\ c.kind = "unavoidable" /\ c.cores # {}
                    /\ c.cores \subseteq ForbiddenCores(claims)

\* next_step, by the stair it stands on.
NextStep(claims, notebook, survivors, note) ==
  IF ~HasDurableBridge(claims, notebook) THEN "bridge"
  ELSE IF ~(Seeds \subseteq ForbiddenCores(claims)) THEN "seed"
  ELSE IF ~DischargingClosed(claims)
  THEN IF survivors # <<>> THEN "survivors"
       ELSE IF note # "" THEN note ELSE "open"
  ELSE IF ~HasDurable(claims, notebook, ClosureNames) THEN "closure"
  ELSE IF ~HasDurable(claims, notebook, AtNineNames) THEN "at nine"
  ELSE "BK"

StairNumber(step) == CASE step = "bridge"  -> 1
                       [] step = "seed"    -> 2
                       [] step = "closure" -> 4
                       [] step = "at nine" -> 5
                       [] step = "BK"      -> 6
                       [] OTHER            -> 3

RegularType == [center |-> V1_D, high |-> V1_D, low |-> 0]

\* The residuals of two misses are the same key when both leave the regular type.
ResidualKey(survivors) ==
  IF \E i \in DOMAIN survivors : survivors[i] = RegularType
  THEN <<"stuck">> ELSE <<"miss", survivors>>

Fingerprint(claims, notebook, survivors) ==
  [durable |-> {n \in Lemmas : notebook[n] = "durable"},
   cores   |-> ForbiddenCores(claims),
   key     |-> IF DischargingClosed(claims) THEN <<"closed">>
               ELSE IF survivors # <<>> THEN ResidualKey(survivors) ELSE <<"open">>]

StagnationEligible(step) == step \notin {"bridge", "seed"}
Reformulate == bind.streak >= STAGNATION_THRESHOLD

\* Mutant: a fingerprint that changed does not end the streak.
NoteStagnation_KeepsStreak(b, claims, notebook) ==
  LET fp == Fingerprint(claims, notebook, b.survivors)
      eligible == StagnationEligible(NextStep(claims, notebook, b.survivors, b.note))
  IN  IF ~eligible THEN [b EXCEPT !.fp = fp, !.streak = 0]
      ELSE IF b.fp = fp THEN [b EXCEPT !.streak = Min({@ + 1, MaxStreak})]
      ELSE [b EXCEPT !.fp = fp]

NoteStagnation(b, claims, notebook) ==
  LET fp == Fingerprint(claims, notebook, b.survivors)
      eligible == StagnationEligible(NextStep(claims, notebook, b.survivors, b.note))
  IN  IF eligible /\ b.fp = fp THEN [b EXCEPT !.streak = Min({@ + 1, MaxStreak})]
      ELSE [b EXCEPT !.fp = fp, !.streak = 0]

\* Mutant: the streak starts anew in every round.
Bound_Always(b) == [b EXCEPT !.live = TRUE, !.fp = NoFingerprint, !.streak = 0]

\* _bind_campaign
Bound(b) == IF b.live THEN b
            ELSE [b EXCEPT !.live = TRUE, !.fp = NoFingerprint, !.streak = 0]

(***************************************************************************)
(* The rounds of a forever hunt. A round binds the campaign, may compact,   *)
(* injects the staircase, and the model answers in prose or with calls; the *)
(* prose is followed by a message that holds the staircase.                 *)
(***************************************************************************)
Answered == last' \in {"stair", "results"}

\* After a compaction, or every fifth round: any round may be one. A staircase that is
\* the last message already is not repeated, and not counted.
RoundWithStair ==
  /\ ~search.on /\ last # "stair"
  /\ bind' = NoteStagnation(Bound(bind), Claims, Notebook)
  /\ still' = Min({still + 1, MaxStreak})
  /\ Answered
  /\ UNCHANGED <<session, ledgers, notebooks, search, undone, scores, calls>>

RoundWithout ==
  /\ ~search.on
  /\ bind' = Bound(bind)
  /\ Answered
  /\ UNCHANGED <<session, ledgers, notebooks, search, still, undone, scores, calls>>

Calls == last = "results" /\ ~search.on /\ calls < MaxCalls /\ calls' = calls + 1
Records(claim) == ledgers' = [ledgers EXCEPT ![session] = @ \cup {claim}]
Gained(new) == still' = IF new THEN 0 ELSE still

(***************************************************************************)
(* The tools. reducible_configuration mints what it finds; a miss leaves    *)
(* everything as it was.                                                    *)
(***************************************************************************)
ReducibleConfiguration ==
  /\ Calls
  /\ \E c \in Cores : /\ Records(CoreClaim(c))
                      /\ Gained(c \notin ForbiddenCores(Claims))
  /\ UNCHANGED <<session, notebooks, bind, search, last, undone, scores>>

\* A proof: its claim, and the lock that replaces one of the same name.
LeanProve ==
  /\ Calls
  /\ \E n \in Lemmas, durable \in BOOLEAN :
       /\ IF durable THEN Records(DurableClaim(n)) ELSE ledgers' = ledgers
       /\ notebooks' = [notebooks EXCEPT ![session][n] = IF durable THEN "durable" ELSE "session"]
       /\ undone' = (undone \/ (Notebook[n] = "durable" /\ ~durable))
       /\ Gained(durable /\ DurableClaim(n) \notin Claims)
  /\ UNCHANGED <<session, bind, search, last, scores>>

Argument(a, forbidden) == [mu |-> a.mu, rules |-> a.rules, forbidden |-> forbidden]
Types(ranked) == [i \in DOMAIN ranked |-> ranked[i].type]

\* A refusal over budget is raised before the bind is written.
Refused(refusal) ==
  bind' = IF OverBudget(refusal) THEN bind
          ELSE [bind EXCEPT !.survivors = <<>>, !.note = NoteOf(refusal)]

\* An UNAVOIDABLE claim that closes the stair is a gain.
Closes(claim) == ~DischargingClosed(Claims) /\ DischargingClosed(Claims \cup {claim})

DischargingUnavoidable ==
  /\ Calls
  /\ \E a \in Arguments, S \in SUBSET Cores :
       LET forbidden == Listed(S)
           result == VerifyUnavoidable(Argument(a, forbidden), ForbiddenCores(Claims))
       IN  /\ CASE result.kind = "refused" ->
                     Refused(result.refusal) /\ UNCHANGED <<ledgers, still>>
                [] result.kind = "miss" ->
                     /\ bind' = [bind EXCEPT !.survivors = Types(result.ranked), !.note = "other"]
                     /\ UNCHANGED <<ledgers, still>>
                [] result.kind = "hit" ->
                     /\ bind' = [bind EXCEPT !.survivors = <<>>, !.note = ""]
                     /\ LET claim == UnavoidableClaim(ToSet(forbidden))
                        IN  Records(claim) /\ Gained(Closes(claim))
  /\ UNCHANGED <<session, notebooks, search, last, undone, scores>>

(***************************************************************************)
(* discharging_search: one iteration is one step. No list of cores means    *)
(* all that are minted.                                                     *)
(***************************************************************************)
\* Mutant: what the model asks for is taken as it is.
Iterations_Unclamped(n) == n

Iterations(n) == Max({1, Min({n, MAX_ITERS_CAP})})

NoBest == [score |-> <<>>]
StartSearch ==
  /\ Calls
  /\ \E a \in Arguments, S \in {{}, ForbiddenCores(Claims), Cores}, n \in MaxIters :
       search' = [on |-> TRUE, mu |-> a.mu, rules |-> a.rules,
                  forbidden |-> Listed(S),
                  unminted |-> {}, left |-> Iterations(n), best |-> NoBest]
  /\ scores' = <<>>
  /\ UNCHANGED <<session, ledgers, notebooks, bind, last, still, undone>>

Live == Argument(search, search.forbidden)
Minted == ForbiddenCores(Claims)

\* The search ends with the best it verified, or with the refusal of its first argument.
Stuck(best) ==
  /\ bind' = [bind EXCEPT !.survivors = Types(best.ranked), !.note = "other"]
  /\ UNCHANGED <<ledgers, still>>

Closed ==
  /\ bind' = [bind EXCEPT !.survivors = <<>>, !.note = "other"]
  /\ LET claim == UnavoidableClaim(ToSet(search.forbidden))
     IN  Records(claim) /\ Gained(Closes(claim))

\* Mutant: a move that changes nothing is taken.
Improves_Weakly(new, old) == ~LexLess(old, new)

Improves(new, old) == LexLess(new, old)

\* The moves that verify to a better score; the first is taken.
Improvements(score) ==
  LET improves(move) ==
        LET result == VerifyUnavoidable(Argument(move, search.forbidden), Minted)
        IN  result.kind # "refused" /\ Improves(Score(result), score)
  IN  {move \in MutateArguments(search.mu, search.rules) : improves(move)}
First(moves) == CHOOSE m \in moves : \A o \in moves : m.at <= o.at

BetterOf(best, result) ==
  IF best.score = <<>> \/ LexLess(Score(result), best.score)
  THEN [score |-> Score(result), ranked |-> result.ranked, forbidden |-> search.forbidden]
  ELSE best

Ends == search' = NoSearch /\ scores' = <<>>
GoesOn(s, score) == search' = s /\ scores' = Append(scores, score) /\ UNCHANGED <<bind, ledgers, still>>

SearchStep ==
  /\ search.on
  /\ LET result == VerifyUnavoidable(Live, Minted)
         score == Score(result)
         best == BetterOf(search.best, result)
         covers == AddCovers(result.ranked, search.forbidden, search.unminted, Minted)
         moves == Improvements(score)
         next == [search EXCEPT !.left = @ - 1, !.best = best]
     IN  \/ /\ result.kind = "refused"
            /\ bind' = [bind EXCEPT !.survivors = <<>>, !.note = "other"]
            /\ Ends /\ UNCHANGED <<ledgers, still>>
         \/ /\ result.kind = "hit"
            /\ Closed /\ Ends
         \/ /\ result.kind = "miss" /\ search.left = 1
            /\ Stuck(best) /\ Ends
         \/ /\ result.kind = "miss" /\ search.left > 1 /\ covers.forbidden # search.forbidden
            /\ GoesOn([next EXCEPT !.forbidden = covers.forbidden,
                                   !.unminted = covers.unminted], score)
         \/ /\ result.kind = "miss" /\ search.left > 1 /\ covers.forbidden = search.forbidden
            /\ moves # {}
            /\ GoesOn([next EXCEPT !.mu = First(moves).mu, !.rules = First(moves).rules,
                                   !.unminted = covers.unminted], score)
         \/ /\ result.kind = "miss" /\ search.left > 1 /\ covers.forbidden = search.forbidden
            /\ moves = {}
            /\ Stuck(best) /\ Ends
  /\ UNCHANGED <<session, notebooks, last, undone, calls>>

(***************************************************************************)
(* Between two hunts, /clear and /resume. The bind keeps its survivors and  *)
(* its note; the notebook is the session's.                                 *)
(***************************************************************************)
Switch ==
  /\ ~search.on /\ calls < MaxCalls /\ calls' = calls + 1
  /\ session' \in Sessions
  /\ bind' = [bind EXCEPT !.live = FALSE]
  /\ last' \in {"prompt", "stair"}
  /\ still' = 0 /\ undone' = FALSE
  /\ UNCHANGED <<ledgers, notebooks, search, scores>>

Init ==
  /\ session = CHOOSE s \in Sessions : TRUE
  /\ \E begun \in {{}, Begun} :
       ledgers = [s \in Sessions |-> IF s = session THEN {CoreClaim(c) : c \in begun} ELSE {}]
  /\ notebooks = [s \in Sessions |-> [n \in Lemmas |-> "none"]]
  /\ bind = FreshBind
  /\ search = NoSearch
  /\ last = "prompt"
  /\ still = 0 /\ undone = FALSE /\ scores = <<>> /\ calls = 0

Tools == ReducibleConfiguration \/ LeanProve
           \/ DischargingUnavoidable \/ StartSearch \/ SearchStep

Next == RoundWithStair \/ RoundWithout \/ Tools \/ Switch

\* The loop goes on.
Fairness == WF_vars(RoundWithStair \/ RoundWithout)

Spec == Init /\ [][Next]_vars /\ Fairness

-----------------------------------------------------------------------------
(***************************************************************************)
(* Properties.                                                              *)
(***************************************************************************)
\* Every variable keeps its type; a search has at most its capped number of
\* iterations left and at least one, and lists a core once.
TypeOK ==
  /\ session \in Sessions
  /\ \A s \in Sessions : \A c \in ledgers[s] :
       /\ c.kind \in {"core", "durable", "unavoidable"}
       /\ c.core \in Cores \cup {None} /\ c.name \in Lemmas \cup {None}
       /\ c.cores \subseteq Cores
  /\ notebooks \in [Sessions -> [Lemmas -> {"none", "session", "durable"}]]
  /\ bind.live \in BOOLEAN /\ bind.note \in Notes /\ bind.streak \in 0..MaxStreak
  /\ \A i \in DOMAIN bind.survivors : bind.survivors[i] \in LocalTypes
  /\ search.on => /\ search.left \in 1..MAX_ITERS_CAP
                  /\ ToSet(search.forbidden) \cup search.unminted \subseteq Cores
                  /\ IsInjective(search.forbidden)
  /\ last \in {"prompt", "stair", "results"}
  /\ still \in 0..MaxStreak /\ undone \in BOOLEAN /\ calls \in 0..MaxCalls

\* Within a session the staircase only rises, also when a lemma that carried a stair
\* is proved again in the session only (campaign.py:136).
StairsOnlyRise ==
  [][session' = session =>
       StairNumber(NextStep(Claims, Notebook, bind.survivors, bind.note))
         <= StairNumber(NextStep(Claims, Notebook, bind.survivors, bind.note))']_vars

\* REFORMULATE says the ledger has not moved: an injection adds it only when over three
\* injections no core was minted, nothing closed and no durable lemma was proved,
\* unless a durable lemma was unlocked in between (campaign.py:400).
ReformulateWhenFrozen ==
  [][Reformulate' /\ bind'.streak > bind.streak => still' > STAGNATION_THRESHOLD \/ undone]_vars

\* An argument rests on cores that were minted in its session, and on no others
\* (engine.py:297, campaign.py:199).
ClosedOnMinted ==
  \A s \in Sessions : \A c \in ledgers[s] :
    c.kind = "unavoidable" => c.cores \subseteq ForbiddenCores(ledgers[s])

\* Charge only moves between neighbours, so a neighbourhood in which all have full
\* degree keeps its charge: an argument closes only with a core that the regular
\* neighbourhood is taken to contain, and with minted cores alone (engine.py:257).
ClosedCoversRegular ==
  /\ ClosedOnMinted
  /\ \A s \in Sessions : \A c \in ledgers[s] :
       c.kind = "unavoidable" => \E core \in c.cores : Forced(Graph[core], RegularType)

\* Each argument that the search verifies is strictly better than the one before,
\* whichever of the two levers made it (search.py:218).
SearchDescends ==
  \A i \in 1..(Len(scores) - 1) : LexLess(scores[i + 1], scores[i])

\* A hunt whose fingerprint no longer changes is told to reformulate, and goes on being
\* told, if the staircase goes on being injected (campaign.py:410).
Unmoved ==
  /\ Fingerprint(Claims, Notebook, bind.survivors)'
       = Fingerprint(Claims, Notebook, bind.survivors)
  /\ StagnationEligible(NextStep(Claims, Notebook, bind.survivors, bind.note))
  /\ bind.live => bind'.live
FrozenIsTold ==
  (<>[][Unmoved]_vars /\ []<><<RoundWithStair>>_vars) => <>[]Reformulate
=============================================================================
