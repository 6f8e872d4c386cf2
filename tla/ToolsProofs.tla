----------------------------- MODULE ToolsProofs -----------------------------
(***************************************************************************)
(* Proofs about Tools, for every value of its constants: whatever a call   *)
(* ends with carries a root of trust exactly when it is a claim; the alarm *)
(* stays inside the search it was armed for; no clause rules out a bad     *)
(* list assignment; every claim the choosability searches mint is true,    *)
(* and every claim about colourings, cliques and independent sets; and     *)
(* every board the game gives to fixer is fixable by definition.           *)
(*                                                                         *)
(* The claims rest on three facts about list colouring: any assignment can *)
(* be renamed, colours and only colours, to one in value precedence        *)
(* (PrecedenceComplete: rank the colours by the vertex that lists them     *)
(* first); an assignment in value precedence uses no colour beyond n times *)
(* its longest list (PaletteSuffices); and fixing the list of              *)
(* vertex 0, as is_k_choosable does, loses nothing (FirstListFixed).       *)
(* list_critical adds what it has found so far (Progress).                 *)
(*                                                                         *)
(* The game rests on three facts about boards: a colouring by the colours  *)
(* of a board is one from the lists (ColorableBoard); swapping two colours *)
(* on some parts makes of the board what from_swap says (SwapIsFromSwap);  *)
(* and any partition into parts of at most two vertices is one of          *)
(* breaker's when parts are put together (Coarsening). That what the       *)
(* definition computes is closed under its own rule is FixableClosed.      *)
(*                                                                         *)
(* Last, what the tools say about the colourings, cliques and independent  *)
(* sets of a graph, and the census of Reed's bound: the search for the     *)
(* chromatic number may start at the clique number (CertificatesFound),    *)
(* the backtracking for a hitting set loses none (HitsFinds), and the      *)
(* graphs the census has seen are those it has counted (CensusSays).       *)
(***************************************************************************)
EXTENDS Tools, FiniteSetTheorems, FunctionTheorems, TLAPS

(***************************************************************************)
(* The alarm                                                               *)
(***************************************************************************)
\* What ends is one of the outcomes.
Outcome(o) ==
    /\ o.kind \in {"none", "claim", "verdict", "inconclusive", "budget", "error"}
    /\ o.root \in {"none", "certificate", "enumeration", "solver"}
    /\ (o.kind = "claim") <=> (o.root # "none")

\* The handler a guarded search will give back is one of the two.
HandlerKept == phase \in {"search", "leaving"} => job.prev \in {"previous", "deadline"}
Inv == TypeOK /\ HandlerKept /\ AlarmContained

LEMMA Minting ==
    ASSUME NEW says, NEW value, NEW exhaustive
    PROVE  /\ Outcome(Certified(says, value))
           /\ Outcome(Enumerated(says, value, exhaustive))
           /\ Outcome(Solved(says, value))
BY DEF Outcome, Certified, Enumerated, Solved, Claim

LEMMA NotMinting ==
    ASSUME NEW kind \in {"none", "verdict", "inconclusive", "budget", "error"}
    PROVE  Outcome(Unminted(kind))
BY DEF Outcome, Unminted

\* Whatever a tool makes of its engine's answer, it is an outcome.
LEMMA Answers == ASSUME NEW r, r.tool \in Immediate PROVE Outcome(AnswerTo(r))
<1>1. \A says, value : Outcome(Certified(says, value)) BY Minting
<1>2. \A says, value, exhaustive : Outcome(Enumerated(says, value, exhaustive)) BY Minting
<1>3. \A says, value : Outcome(Solved(says, value)) BY Minting
<1>4. Outcome(Unminted("error")) BY NotMinting
<1>5. \A g, certs, outcome : Outcome(outcome) => Outcome(Bundled(g, certs, outcome))
  BY <1>4 DEF Bundled
<1>6. \A g, k : Outcome(DecideColorable(g, k)) BY <1>1, <1>2 DEF DecideColorable
<1>7. \A g : Outcome(ChromaticNumber(g))
  BY <1>1, <1>2, <1>5 DEF ChromaticNumber
<1>8. \A g : Outcome(BkPredicate(g)) BY <1>1, <1>2, <1>5 DEF BkPredicate
<1>9. \A g : Outcome(ReedPredicate(g)) BY <1>1, <1>5 DEF ReedPredicate
<1>10. \A g : Outcome(AlonTarsiTool(g)) BY <1>1, <1>3, <1>4 DEF AlonTarsiTool
<1>11. \A g : Outcome(HittingSetTool(g)) BY <1>1, <1>2 DEF HittingSetTool
<1>12. \A g : Outcome(IndependenceNumber(g)) /\ Outcome(Degeneracy(g))
  BY <1>1 DEF IndependenceNumber, Degeneracy
<1>13. \A says, holds : Outcome(Relation(says, holds)) /\ Outcome(Decided(says, holds))
  BY <1>1, <1>2 DEF Relation, Decided
<1>14. \A s : Outcome(Structure(s)) BY <1>2, <1>4 DEF Structure
<1> QED
  BY <1>1, <1>4, <1>6, <1>7, <1>8, <1>9, <1>10, <1>11, <1>12, <1>13, <1>14 DEF AnswerTo

LEMMA Begins == Init => Inv
<1> SUFFICES ASSUME Init PROVE Inv OBVIOUS
<1>1. Outcome(Unminted("none")) BY NotMinting
<1> QED BY <1>1 DEF Init, Inv, TypeOK, Outcome, HandlerKept, AlarmContained

\* The outcome of a search that ends.
LEMMA Verdicts ==
    ASSUME NEW r, NEW bad \in BOOLEAN, r.tool \in Searching
    PROVE  Outcome(Verdict(r, bad))
<1>1. \A says, value : Outcome(Certified(says, value)) BY Minting
<1>2. \A says, value, exhaustive : Outcome(Enumerated(says, value, exhaustive)) BY Minting
<1>3. Outcome(Unminted("inconclusive")) BY NotMinting
<1> QED BY <1>1, <1>2, <1>3 DEF Verdict

\* A call that ends, under no alarm, in an outcome.
LEMMA Finishes ==
    ASSUME NEW o, Outcome(o), Finish(o), timer' = FALSE, handler' \in {"previous", "deadline"}
    PROVE  Inv'
<1>1. phase' = "done" /\ last' = o BY DEF Finish
<1> QED BY <1>1 DEF Inv, TypeOK, Outcome, HandlerKept, AlarmContained

\* A call that begins from rest.
LEMMA Calling ==
    ASSUME Inv, NEW r \in Requests,
           Answer(r) \/ Refuse(r) \/ Begin(r) \/ Play(r) \/ AskFixable(r) \/ Sweep(r)
    PROVE  Inv'
<1>0. /\ phase = "idle" => timer = FALSE
      /\ timer \in BOOLEAN /\ handler \in {"previous", "deadline"}
      /\ last.kind \in {"none", "claim", "verdict", "inconclusive", "budget", "error"}
      /\ last.root \in {"none", "certificate", "enumeration", "solver"}
      /\ (last.kind = "claim") <=> (last.root # "none")
  BY DEF Inv, TypeOK, AlarmContained
<1>1. CASE Answer(r)
  <2>1. Outcome(AnswerTo(r)) BY <1>1, Answers DEF Answer
  <2> QED BY <1>0, <1>1, <2>1, Finishes DEF Answer
<1>2. CASE Refuse(r)
  <2> DEFINE kind == IF Refused(r) = "out of scope" THEN "inconclusive" ELSE Refused(r)
  <2>1. Refused(r) \in {"none", "budget", "error", "out of scope"} BY Zenon DEF Refused
  <2>2. kind \in {"none", "verdict", "inconclusive", "budget", "error"} BY <2>1
  <2>3. Outcome(Unminted(kind)) BY <2>2, NotMinting
  <2>4. Finish(Unminted(kind)) BY <1>2 DEF Refuse
  <2> HIDE DEF kind
  <2> QED BY <1>0, <1>2, <2>3, <2>4, Finishes DEF Refuse
<1>3. CASE Begin(r)
  <2>1. /\ phase' = "search" /\ call' = r /\ timer' = Guarded(r) /\ last' = last
        /\ handler' = (IF Guarded(r) THEN "deadline" ELSE handler)
        /\ job' = SearchOf(r.g, r)
    BY <1>3 DEF Begin
  <2>2. job'.prev = handler BY <2>1 DEF SearchOf
  <2>3. Guarded(r) \in BOOLEAN BY DEF Guarded
  <2> QED BY <1>0, <2>1, <2>2, <2>3 DEF Inv, TypeOK, HandlerKept, AlarmContained, Guarded
<1>4. CASE Play(r)
  BY <1>0, <1>4 DEF Play, Inv, TypeOK, HandlerKept, AlarmContained
<1>5. CASE AskFixable(r)
  <2>1. \A n : Outcome([Unminted("verdict") EXCEPT !.value = n]) BY DEF Outcome, Unminted
  <2> QED BY <1>0, <1>5, <2>1, Finishes DEF AskFixable
<1>6. CASE Sweep(r)
  <2>1. Outcome(Unminted("error")) BY NotMinting
  <2>2. /\ phase = "idle" /\ timer' = timer /\ handler' = handler
        /\ \/ Finish(Unminted("error"))
           \/ phase' = "census" /\ last' = last
    BY <1>6 DEF Sweep
  <2>3. CASE Finish(Unminted("error")) BY <1>0, <2>1, <2>2, <2>3, Finishes
  <2>4. CASE phase' = "census" /\ last' = last
    BY <1>0, <2>2, <2>4 DEF Inv, TypeOK, HandlerKept, AlarmContained
  <2> QED BY <2>2, <2>3, <2>4
<1> QED BY <1>1, <1>2, <1>3, <1>4, <1>5, <1>6

\* A search that goes on, or ends with an answer.
LEMMA Searches ==
    ASSUME Inv, call.tool \in Searching, Refine \/ FindBad \/ Exhaust
    PROVE  Inv'
<1>0. /\ timer \in BOOLEAN /\ handler \in {"previous", "deadline"}
      /\ last.kind \in {"none", "claim", "verdict", "inconclusive", "budget", "error"}
      /\ last.root \in {"none", "certificate", "enumeration", "solver"}
      /\ (last.kind = "claim") <=> (last.root # "none")
      /\ timer => Guarded(call)
      /\ phase = "search" => job.prev \in {"previous", "deadline"}
  BY DEF Inv, TypeOK, AlarmContained, HandlerKept
<1>1. CASE Refine
  <2>1. PICK L, coloring :
          job' = [job EXCEPT !.cands = @ \ Blocked(@, coloring)]
    BY <1>1 DEF Refine
  <2>2. job'.prev = job.prev BY <2>1
  <2> QED BY <1>0, <1>1, <2>2 DEF Refine, Inv, TypeOK, HandlerKept, AlarmContained
<1>2. ASSUME NEW bad \in BOOLEAN, phase = "search", SearchEnds(bad) PROVE Inv'
  <2>1. CASE Leaving(bad)
    <3>1. Outcome(Verdict(call, bad)) BY Verdicts
    <3>2. /\ phase' = "leaving" /\ last' = Verdict(call, bad) /\ call' = call /\ timer' = timer
          /\ handler' = handler /\ job'.prev = job.prev /\ Guarded(call)
      BY <2>1 DEF Leaving
    <3> HIDE DEF Verdict
    <3> QED BY <1>0, <1>2, <3>1, <3>2 DEF Inv, TypeOK, Outcome, HandlerKept, AlarmContained, Guarded
  <2>2. CASE ~Guarded(call) /\ Critical(bad, IF job.graph = call.g THEN call.g.edges ELSE job.edges)
    <3>1. timer = FALSE BY <1>0, <2>2
    <3>2. PICK left : Critical(bad, left) BY <2>2
    <3>3. CASE NextEdge(left)
      <4>1. /\ call' = call /\ phase' = phase /\ last' = last /\ timer' = timer
            /\ handler' = handler /\ job'.prev = handler
        BY <3>3 DEF NextEdge, SearchOf
      <4> QED BY <1>0, <1>2, <3>1, <4>1 DEF Inv, TypeOK, HandlerKept, AlarmContained
    <3>4. ASSUME NEW o, Outcome(o), Finish(o), timer' = timer, handler' = handler PROVE Inv'
      BY <1>0, <3>1, <3>4, Finishes
    <3>5. Outcome(Verdict(call, FALSE)) BY Verdicts
    <3>6. \A says, value : Outcome(Certified(says, value)) BY Minting
    <3>7. \A says, value, exhaustive : Outcome(Enumerated(says, value, exhaustive)) BY Minting
    <3>8. NextEdge(left) \/ \E o : Outcome(o) /\ Finish(o) /\ timer' = timer /\ handler' = handler
      BY <3>2, <3>5, <3>6, <3>7 DEF Critical
    <3> QED BY <3>3, <3>4, <3>8
  <2> QED BY <1>2, <2>1, <2>2 DEF SearchEnds
<1> QED BY <1>1, <1>2 DEF FindBad, Exhaust

\* What runs otherwise, and the alarm.
LEMMA Others ==
    ASSUME Inv, Leave \/ Pack \/ Deal \/ Round \/ GameOver \/ SweepOne \/ SweepEnds \/ Deliver \/ Alarm
    PROVE  Inv'
<1>0. /\ timer \in BOOLEAN /\ handler \in {"previous", "deadline"} /\ Outcome(last)
      /\ timer => phase \in {"search", "leaving"} /\ Guarded(call)
      /\ phase \in {"search", "leaving"} => job.prev \in {"previous", "deadline"}
  BY DEF Inv, TypeOK, AlarmContained, HandlerKept, Outcome
<1>1. CASE Leave BY <1>0, <1>1, Finishes DEF Leave
<1>2. CASE Round BY <1>0, <1>2 DEF Round, Inv, TypeOK, Outcome, HandlerKept, AlarmContained
<1>3. CASE GameOver
  <2>1. \A n : Outcome([Unminted("verdict") EXCEPT !.value = n]) BY DEF Outcome, Unminted
  <2>2. \A n : Outcome(Solved("fixer wins", n)) BY Minting
  <2>3. \E o : Outcome(o) /\ Finish(o) BY <1>3, <2>1, <2>2 DEF GameOver
  <2>4. phase = "game" /\ timer' = timer /\ handler' = handler BY <1>3 DEF GameOver
  <2> QED BY <1>0, <2>3, <2>4, Finishes
<1>4. CASE SweepOne
  <2>1. Outcome(Unminted("error")) BY NotMinting
  <2>2. \A n : Outcome(Certified("violation", n)) BY Minting
  <2>3. phase = "census" /\ timer' = timer /\ handler' = handler BY <1>4 DEF SweepOne
  <2>4. (\E o : Outcome(o) /\ Finish(o)) \/ (phase' = phase /\ last' = last)
    BY <1>4, <2>1, <2>2 DEF SweepOne
  <2>5. CASE \E o : Outcome(o) /\ Finish(o) BY <1>0, <2>3, <2>5, Finishes
  <2>6. CASE phase' = phase /\ last' = last
    BY <1>0, <2>3, <2>6 DEF Inv, TypeOK, Outcome, HandlerKept, AlarmContained
  <2> QED BY <2>4, <2>5, <2>6
<1>5. CASE SweepEnds
  <2>1. Outcome(Enumerated("Reed tight", job.tight, TRUE)) BY Minting
  <2> QED BY <1>0, <1>5, <2>1, Finishes DEF SweepEnds
<1>6. CASE Deliver
  <2>1. Outcome(Unminted("none")) BY NotMinting
  <2> QED BY <1>0, <1>6, <2>1 DEF Deliver, Inv, TypeOK, Outcome, HandlerKept, AlarmContained
<1>7. CASE Alarm
  <2>1. Outcome(Unminted("budget")) /\ Outcome(Unminted("error")) BY NotMinting
  <2> QED BY <1>0, <1>7, <2>1, Finishes DEF Alarm
<1>8. CASE Pack BY <1>0, <1>8 DEF Pack, Inv, TypeOK, Outcome, HandlerKept, AlarmContained
<1>9. CASE Deal
  <2>1. Outcome(Unminted("error")) BY NotMinting
  <2>2. /\ phase = "packing" /\ timer' = timer /\ handler' = handler /\ call' = call
        /\ Finish(Unminted("error")) \/ (phase' = "game" /\ last' = last)
    BY <1>9 DEF Deal
  <2>3. CASE Finish(Unminted("error")) BY <1>0, <2>1, <2>2, <2>3, Finishes
  <2>4. CASE phase' = "game" /\ last' = last
    BY <1>0, <2>2, <2>4 DEF Inv, TypeOK, Outcome, HandlerKept, AlarmContained
  <2> QED BY <2>2, <2>3, <2>4
<1> QED BY <1>1, <1>2, <1>3, <1>4, <1>5, <1>6, <1>7, <1>8, <1>9

LEMMA LeastNumber ==
    ASSUME NEW T, T \subseteq Nat, T # {}
    PROVE  \E x \in T : \A y \in T : x <= y
<1> DEFINE R == OpToRel(<, Nat)
<1>1. IsWellFoundedOn(R, Nat) BY NatLessThanWellFounded
<1>2. \A x, y \in Nat : y < x => <<y, x>> \in R BY DEF OpToRel
<1> HIDE DEF R
<1>3. PICK x \in T : \A y \in T : <<y, x>> \notin R BY <1>1, WFMin
<1>4. \A y \in T : ~(y < x) BY <1>2, <1>3
<1> QED BY <1>3, <1>4

LEMMA CountUp ==
    ASSUME NEW P, 0 \in P, \A n \in Nat : n \in P => n + 1 \in P
    PROVE  \A n \in Nat : n \in P
<1> DEFINE T == {n \in Nat : n \notin P}
<1> SUFFICES ASSUME T # {} PROVE FALSE OBVIOUS
<1>1. T \subseteq Nat OBVIOUS
<1> HIDE DEF T
<1>2. PICK x \in T : \A y \in T : x <= y BY <1>1, LeastNumber
<1>3. x \in Nat /\ x \notin P BY <1>2 DEF T
<1>4. x # 0 /\ x - 1 \in Nat /\ (x - 1) + 1 = x BY <1>3
<1>5. x - 1 \notin T BY <1>2, <1>3, <1>4
<1> QED BY <1>3, <1>4, <1>5 DEF T

(***************************************************************************)
(* Lists and colourings                                                    *)
(***************************************************************************)
\* The functions that give each v below n a member of L[v].
Selected(L, n) ==
    {f \in [0..(n - 1) -> UNION {L[v] : v \in 0..(n - 1)}] : \A v \in 0..(n - 1) : f[v] \in L[v]}

LEMMA SelectedAt ==
    ASSUME NEW L, NEW n \in Nat, NEW f
    PROVE  f \in Selected(L, n) <=> /\ f = [v \in 0..(n - 1) |-> f[v]]
                                   /\ \A v \in 0..(n - 1) : f[v] \in L[v]
<1> DEFINE V == 0..(n - 1)
           U == UNION {L[v] : v \in V}
<1>1. (\A v \in V : f[v] \in L[v]) => \A v \in V : f[v] \in U OBVIOUS
<1> HIDE DEF U
<1>2. f \in [V -> U] => f = [v \in V |-> f[v]] OBVIOUS
<1>3. f = [v \in V |-> f[v]] /\ (\A v \in V : f[v] \in U) => f \in [V -> U] OBVIOUS
<1>4. Selected(L, n) = {h \in [V -> U] : \A v \in V : h[v] \in L[v]} BY DEF Selected, U
<1> HIDE DEF V
<1> QED BY <1>1, <1>2, <1>3, <1>4 DEF V

Extended(shorter, L, n) == {Longer(f, n, x) : x \in L[n], f \in shorter}

\* One more: what is given to the last, after what is given to those before it.
LEMMA OneMoreChoice ==
    ASSUME NEW L, NEW n \in Nat
    PROVE  Selected(L, n + 1) = Extended(Selected(L, n), L, n)
<1> DEFINE V == 0..(n - 1)
           W == 0..n
<1>0. W = V \cup {n} /\ n \notin V /\ (n + 1) - 1 = n /\ n + 1 \in Nat OBVIOUS
<1>2. ASSUME NEW x \in L[n], NEW f \in Selected(L, n) PROVE Longer(f, n, x) \in Selected(L, n + 1)
  <2>1. \A v \in V : f[v] \in L[v] BY SelectedAt
  <2> DEFINE h == Longer(f, n, x)
  <2>2. h = [v \in W |-> IF v = n THEN x ELSE f[v]] BY DEF Longer
  <2>3. \A v \in W : h[v] = IF v = n THEN x ELSE f[v] BY <2>2
  <2>4. h = [v \in W |-> h[v]] BY <2>2
  <2> HIDE DEF h
  <2>5. \A v \in W : h[v] \in L[v] BY <1>0, <2>1, <2>3
  <2>6. h \in Selected(L, n + 1) BY <1>0, <2>4, <2>5, SelectedAt
  <2> QED BY <2>6 DEF h
<1>3. ASSUME NEW h \in Selected(L, n + 1)
      PROVE  \E x \in L[n], f \in Selected(L, n) : h = Longer(f, n, x)
  <2>1. h = [v \in W |-> h[v]] /\ \A v \in W : h[v] \in L[v] BY <1>0, SelectedAt
  <2> DEFINE f == [v \in V |-> h[v]]
  <2>2. \A v \in V : f[v] = h[v] OBVIOUS
  <2>3. f = [v \in V |-> f[v]] OBVIOUS
  <2> HIDE DEF f
  <2>4. \A v \in V : f[v] \in L[v] BY <1>0, <2>1, <2>2
  <2>5. f \in Selected(L, n) BY <2>3, <2>4, SelectedAt
  <2>6. h[n] \in L[n] BY <1>0, <2>1
  <2>7. \A v \in W : h[v] = IF v = n THEN h[n] ELSE f[v] BY <1>0, <2>2
  <2> DEFINE k == Longer(f, n, h[n])
  <2>8. k = [v \in W |-> IF v = n THEN h[n] ELSE f[v]] BY DEF Longer
  <2>9. h = k BY <2>1, <2>7, <2>8
  <2> QED BY <2>5, <2>6, <2>9
<1>4. \A h : h \in Extended(Selected(L, n), L, n)
              <=> \E x \in L[n], f \in Selected(L, n) : h = Longer(f, n, x)
  BY DEF Extended
<1>5. \A h : h \in Selected(L, n + 1) <=> h \in Extended(Selected(L, n), L, n)
  BY <1>2, <1>3, <1>4
<1> QED BY <1>5

LEMMA NoChoice == ASSUME NEW L PROVE Selected(L, 0) = {<<>>}
<1>1. 0..(0 - 1) = {} OBVIOUS
<1>3. \A f : f \in Selected(L, 0) <=> f = [v \in {} |-> f[v]] BY <1>1, SelectedAt
<1>4. \A f : [v \in {} |-> f[v]] = <<>>
  <2> SUFFICES ASSUME NEW f PROVE [v \in {} |-> f[v]] = <<>> OBVIOUS
  <2>1. <<>> = [v \in 1..0 |-> f[v]] OBVIOUS
  <2>2. 1..0 = {} OBVIOUS
  <2> QED BY <2>1, <2>2
<1> QED BY <1>3, <1>4

\* The definition by recursion gives the same.
LEMMA SelectionsAre ==
    ASSUME NEW L, NEW n \in Nat
    PROVE  Selections(L, n) = Selected(L, n)
<1> DEFINE Row(s, k) == IF k = 0 THEN {<<>>}
                        ELSE {Longer(f, k - 1, x) : x \in L[k - 1], f \in s[k - 1]}
           Solves(s) == s = [k \in 0..n |-> Row(s, k)]
           choices == [k \in 0..n |-> Selected(L, k)]
           selections == CHOOSE s : Solves(s)
<1>0. \A s, k : Row(s, k) = IF k = 0 THEN {<<>>} ELSE Extended(s[k - 1], L, k - 1)
  BY DEF Extended
<1> HIDE DEF Row
<1>1. ASSUME NEW k \in 0..n PROVE Row(choices, k) = Selected(L, k)
  <2>1. CASE k = 0 BY <1>0, <2>1, NoChoice
  <2>2. CASE k # 0
    <3>1. k - 1 \in Nat /\ k - 1 \in 0..n /\ (k - 1) + 1 = k BY <2>2
    <3>2. choices[k - 1] = Selected(L, k - 1) BY <3>1
    <3> HIDE DEF choices
    <3>3. Row(choices, k) = Extended(Selected(L, k - 1), L, k - 1) BY <1>0, <2>2, <3>2
    <3>4. Selected(L, (k - 1) + 1) = Extended(Selected(L, k - 1), L, k - 1)
      BY <3>1, OneMoreChoice
    <3> QED BY <3>1, <3>3, <3>4
  <2> QED BY <2>1, <2>2
<1>2. Solves(choices)
  <2>1. [k \in 0..n |-> Row(choices, k)] = [k \in 0..n |-> Selected(L, k)] BY <1>1
  <2> QED BY <2>1
<1>3. Solves(selections)
  <2> HIDE DEF Solves
  <2> QED BY <1>2
<1> HIDE DEF choices
<1>4. \A k \in 0..n : selections[k] = Row(selections, k)
  <2> HIDE DEF selections
  <2> QED BY <1>3
<1>5. \A k \in Nat : k <= n => selections[k] = Selected(L, k)
  <2> DEFINE P == {k \in Nat : k <= n => selections[k] = Selected(L, k)}
  <2> HIDE DEF selections
  <2>1. 0 \in P
    <3>1. selections[0] = Row(selections, 0) BY <1>4
    <3> QED BY <1>0, <3>1, NoChoice
  <2>2. ASSUME NEW k \in Nat, k \in P PROVE k + 1 \in P
    <3> SUFFICES ASSUME k + 1 <= n PROVE selections[k + 1] = Selected(L, k + 1) OBVIOUS
    <3>1. k + 1 \in 0..n /\ k + 1 # 0 /\ (k + 1) - 1 = k BY <2>2
    <3>2. selections[k] = Selected(L, k) BY <2>2
    <3>3. selections[k + 1] = Extended(Selected(L, k), L, k) BY <1>0, <1>4, <3>1, <3>2
    <3> QED BY <3>3, OneMoreChoice
  <2> HIDE DEF P
  <2>3. \A k \in Nat : k \in P BY <2>1, <2>2, CountUp, Zenon
  <2> QED BY <2>3 DEF P
<1>6. Selections(L, n) = selections[n] BY DEF Selections, Row
<1> HIDE DEF selections
<1> QED BY <1>5, <1>6

(***************************************************************************)
(* The searches: what is known of the call in progress, and that no bad     *)
(* list is lost.                                                            *)
(***************************************************************************)
AssignmentsOf(r) == Assignments(ListSizes(r), r.g.n, PaletteOf(r))

\* A search that runs has been called, and not refused.
Called ==
    phase \in {"search", "leaving"} =>
      call \in Requests /\ call.tool \in Searching /\ Refused(call) = "none"

\* It is about the graph of the call, or that graph without an edge.
SearchedGraph ==
    phase = "search" =>
      /\ job.graph = call.g \/ \E e \in call.g.edges : job.graph = DeleteEdge(call.g, e)
      /\ job.cands \subseteq AssignmentsOf(call) /\ job.edges \subseteq call.g.edges

LEMMA EdgeDeleted ==
    ASSUME NEW g, IsGraph(g), NEW e
    PROVE  /\ IsGraph(DeleteEdge(g, e)) /\ DeleteEdge(g, e).n = g.n
           /\ DeleteEdge(g, e).edges = g.edges \ {e}
           /\ Vertices(DeleteEdge(g, e)) = Vertices(g)
<1> DEFINE h == DeleteEdge(g, e)
<1>1. g = [n |-> g.n, edges |-> g.edges] BY DEF IsGraph
<1>2. h = [n |-> g.n, edges |-> g.edges \ {e}] BY <1>1 DEF DeleteEdge
<1>3. h.n = g.n /\ h.edges = g.edges \ {e} BY <1>2
<1>4. Vertices(h) = Vertices(g) BY <1>3 DEF Vertices
<1>5. h = [n |-> h.n, edges |-> h.edges] BY <1>2, <1>3
<1> HIDE DEF h
<1>6. IsGraph(h) BY <1>3, <1>4, <1>5 DEF IsGraph
<1> QED BY <1>3, <1>4, <1>6 DEF h

\* A search is of a simple graph.
LEMMA GraphSearched ==
    ASSUME Called, SearchedGraph, phase = "search"
    PROVE  /\ IsGraph(call.g) /\ IsGraph(job.graph) /\ job.graph.n = call.g.n
           /\ Vertices(job.graph) = Vertices(call.g)
<1>1. call \in Requests /\ call.tool \in Searching BY DEF Called
<1>2. IsRequest(call) BY <1>1, RequestsType
<1>3. IsGraph(call.g) BY <1>1, <1>2 DEF IsRequest, Searching
<1>4. job.graph = call.g \/ \E e \in call.g.edges : job.graph = DeleteEdge(call.g, e)
  BY DEF SearchedGraph
<1> QED BY <1>3, <1>4, EdgeDeleted

\* A clause never rules out an assignment from which nothing colours the graph.
LEMMA ClausesSound ==
    ASSUME NEW g, g.n \in Nat, NEW L, NEW M, NEW cands,
           L \in cands, ListColorings(g, L) = {},
           FindListColoring(g, M) # NoColoring
    PROVE  L \in cands \ Blocked(cands, FindListColoring(g, M))
<1> DEFINE c == FindListColoring(g, M)
<1>1. c \in ListColorings(g, M) BY DEF FindListColoring
<1> HIDE DEF c
<1>2. c \in Selected(M, g.n) /\ Proper(g, c) BY <1>1, SelectionsAre DEF ListColorings
<1>3. c = [v \in 0..(g.n - 1) |-> c[v]] BY <1>2, SelectedAt
<1>4. DOMAIN c = 0..(g.n - 1) BY <1>3
<1>5. ASSUME Colors(c, L) PROVE FALSE
  <2>1. \A v \in 0..(g.n - 1) : c[v] \in L[v] BY <1>4, <1>5 DEF Colors
  <2>2. c \in Selected(L, g.n) BY <1>3, <2>1, SelectedAt
  <2>3. c \in ListColorings(g, L) BY <1>2, <2>2, SelectionsAre DEF ListColorings
  <2> QED BY <2>3
<1>6. L \notin Blocked(cands, c) BY <1>5 DEF Blocked
<1> QED BY <1>6 DEF c

SearchInv == Called /\ SearchedGraph /\ NoBadListLost

\* Only a search can disturb it.
LEMMA Elsewhere == ASSUME phase' \notin {"search", "leaving"} PROVE SearchInv'
BY DEF SearchInv, Called, SearchedGraph, NoBadListLost

\* Each action that is no search ends outside of one.
LEMMA NoSearch ==
    ASSUME NEW r,
           Answer(r) \/ Refuse(r) \/ Play(r) \/ AskFixable(r) \/ Sweep(r)
           \/ Leave \/ Pack \/ Deal \/ Round \/ GameOver \/ SweepOne \/ SweepEnds \/ Deliver \/ Alarm
    PROVE  phase' \notin {"search", "leaving"}
<1>1. CASE Answer(r) BY <1>1 DEF Answer, Finish
<1>2. CASE Refuse(r) BY <1>2 DEF Refuse, Finish
<1>3. CASE Play(r) BY <1>3 DEF Play
<1>4. CASE AskFixable(r) BY <1>4 DEF AskFixable, Finish
<1>5. CASE Sweep(r)
  <2>1. Finish(Unminted("error")) \/ phase' = "census" BY <1>5 DEF Sweep
  <2> QED BY <2>1 DEF Finish
<1>6. CASE Leave BY <1>6 DEF Leave, Finish
<1>7. CASE Round BY <1>7 DEF Round
<1>8. CASE GameOver BY <1>8 DEF GameOver, Finish
<1>9. CASE SweepOne
  <2>1. (\E o : Finish(o)) \/ phase' = phase BY <1>9 DEF SweepOne
  <2>2. phase = "census" BY <1>9 DEF SweepOne
  <2> QED BY <2>1, <2>2 DEF Finish
<1>10. CASE SweepEnds BY <1>10 DEF SweepEnds, Finish
<1>11. CASE Deliver BY <1>11 DEF Deliver
<1>12. CASE Alarm
  <2>1. \E o : Finish(o) BY <1>12 DEF Alarm
  <2> QED BY <2>1 DEF Finish
<1>13. CASE Pack BY <1>13 DEF Pack
<1>14. CASE Deal
  <2>1. Finish(Unminted("error")) \/ phase' = "game" BY <1>14 DEF Deal
  <2> QED BY <2>1 DEF Finish
<1> QED
  BY <1>1, <1>2, <1>3, <1>4, <1>5, <1>6, <1>7, <1>8, <1>9, <1>10, <1>11, <1>12, <1>13, <1>14

\* A search of a graph begins with every assignment.
LEMMA SearchBegins ==
    ASSUME NEW g, g.n = call'.g.n,
           g = call'.g \/ \E e \in call'.g.edges : g = DeleteEdge(call'.g, e),
           job'.graph = g, job'.cands = Assignments(ListSizes(call'), g.n, PaletteOf(call')),
           job'.edges \subseteq call'.g.edges,
           Called'
    PROVE  SearchInv'
BY DEF SearchInv, SearchedGraph, AssignmentsOf, NoBadListLost

LEMMA SearchStep ==
    ASSUME SearchInv, [Next]_vars
    PROVE  SearchInv'
<1>1. CASE UNCHANGED vars
  BY <1>1 DEF vars, SearchInv, Called, SearchedGraph, AssignmentsOf, NoBadListLost
<1>2. ASSUME NEW r \in Requests, Begin(r) PROVE SearchInv'
  <2>1. /\ r.tool \in Searching /\ Refused(r) = "none"
        /\ call' = r /\ phase' = "search" /\ job' = SearchOf(r.g, r)
    BY <1>2 DEF Begin
  <2>2. Called' BY <2>1 DEF Called
  <2>3. /\ job'.graph = r.g /\ job'.cands = Assignments(ListSizes(r), r.g.n, PaletteOf(r))
        /\ job'.edges = {}
    BY <2>1 DEF SearchOf
  <2> QED BY <2>1, <2>2, <2>3, SearchBegins
<1>3. CASE Refine
  <2>1. phase = "search" /\ call' = call /\ phase' = phase BY <1>3 DEF Refine
  <2>2. PICK M \in job.cands :
          /\ FindListColoring(job.graph, M) # NoColoring
          /\ job' = [job EXCEPT !.cands = @ \ Blocked(@, FindListColoring(job.graph, M))]
    BY <1>3 DEF Refine
  <2> DEFINE c == FindListColoring(job.graph, M)
  <2>3. job'.graph = job.graph /\ job'.cands \subseteq job.cands /\ job'.edges = job.edges
    BY <2>2
  <2>4. ASSUME NEW L \in job.cands, ListColorings(job.graph, L) = {} PROVE L \in job'.cands
    <3>1. L \in job.cands \ Blocked(job.cands, c)
      <4>1. IsGraph(job.graph) BY <2>1, GraphSearched DEF SearchInv
      <4>2. job.graph.n \in Nat BY <4>1 DEF IsGraph
      <4> QED BY <2>2, <2>4, <4>2, ClausesSound
    <3> HIDE DEF c
    <3>2. job'.cands = job.cands \ Blocked(job.cands, c) \/ job'.cands = job.cands
      BY <2>2 DEF c
    <3> QED BY <3>1, <3>2
  <2>5. Called' BY <2>1 DEF SearchInv, Called
  <2>6. SearchedGraph' BY <2>1, <2>3 DEF SearchInv, SearchedGraph, AssignmentsOf
  <2>7. NoBadListLost' BY <2>1, <2>3, <2>4 DEF SearchInv, NoBadListLost
  <2> QED BY <2>5, <2>6, <2>7 DEF SearchInv
<1>4. ASSUME NEW bad \in BOOLEAN, phase = "search", SearchEnds(bad) PROVE SearchInv'
  <2>0. call \in Requests /\ call.tool \in Searching /\ Refused(call) = "none"
    BY <1>4 DEF SearchInv, Called
  <2>1. CASE Leaving(bad)
    BY <2>0, <2>1 DEF Leaving, SearchInv, Called, SearchedGraph, NoBadListLost
  <2>2. CASE ~Guarded(call)
             /\ Critical(bad, IF job.graph = call.g THEN call.g.edges ELSE job.edges)
    <3> DEFINE left == IF job.graph = call.g THEN call.g.edges ELSE job.edges
    <3>1. NextEdge(left) \/ \E o : Finish(o) BY <2>2 DEF Critical
    <3>2. CASE \E o : Finish(o) BY <3>2, Elsewhere DEF Finish
    <3>3. CASE NextEdge(left)
      <4>1. PICK e \in left :
              job' = [SearchOf(DeleteEdge(call.g, e), call) EXCEPT !.edges = left \ {e}]
        BY <3>3 DEF NextEdge
      <4>2. call' = call /\ phase' = phase BY <3>3 DEF NextEdge
      <4> DEFINE h == DeleteEdge(call.g, e)
      <4>3. /\ job'.graph = h
            /\ job'.cands = Assignments(ListSizes(call), h.n, PaletteOf(call))
            /\ job'.edges = left \ {e}
        <5> DEFINE begun == SearchOf(h, call)
        <5>1. /\ begun.graph = h
              /\ begun.cands = Assignments(ListSizes(call), h.n, PaletteOf(call))
              /\ DOMAIN begun = {"graph", "cands", "edges", "prev"}
          BY DEF SearchOf
        <5> HIDE DEF begun
        <5> QED BY <4>1, <5>1 DEF begun
      <4>7. left \subseteq call.g.edges BY <1>4 DEF SearchInv, SearchedGraph
      <4>4. IsGraph(call.g) BY <1>4, GraphSearched DEF SearchInv
      <4>5. h.n = call.g.n BY <4>4, EdgeDeleted
      <4>6. Called' BY <1>4, <2>0, <4>2 DEF Called
      <4>8. e \in call.g.edges BY <4>1, <4>7
      <4> HIDE DEF left, h
      <4>9. h = DeleteEdge(call'.g, e) /\ h.n = call'.g.n /\ job'.edges \subseteq call'.g.edges
        BY <4>2, <4>3, <4>5, <4>7 DEF h
      <4> QED BY <4>2, <4>3, <4>6, <4>8, <4>9, SearchBegins
    <3> QED BY <3>1, <3>2, <3>3
  <2> QED BY <1>4, <2>1, <2>2 DEF SearchEnds
<1>5. CASE FindBad \/ Exhaust BY <1>4, <1>5 DEF FindBad, Exhaust
<1> QED BY <1>1, <1>2, <1>3, <1>5, NoSearch, Elsewhere DEF Next, Working

LEMMA SearchBeginning == Init => SearchInv
BY DEF Init, SearchInv, Called, SearchedGraph, NoBadListLost

\* A bad list assignment is never ruled out by a clause while the search goes on,
\* whatever the graph, the sizes of the lists and the order of the solver's proposals
\* (choosability.py:118).
THEOREM NeverLosesBadList == Spec => []NoBadListLost
<1>1. SearchInv => NoBadListLost BY DEF SearchInv
<1> QED BY <1>1, SearchBeginning, SearchStep, PTL DEF Spec

LEMMA SearchAlways == Spec => []SearchInv
BY SearchBeginning, SearchStep, PTL DEF Spec

LEMMA AlarmStep ==
    ASSUME Inv, Called, [Next]_vars
    PROVE  Inv'
<1>1. CASE UNCHANGED vars BY <1>1 DEF vars, Inv, TypeOK, HandlerKept, AlarmContained
<1>2. CASE Refine \/ FindBad \/ Exhaust
  <2>1. phase = "search" BY <1>2 DEF Refine, FindBad, Exhaust
  <2> QED BY <1>2, <2>1, Searches DEF Called
<1> QED BY <1>1, <1>2, Calling, Others DEF Next, Working

LEMMA AlarmAlways == Spec => []Inv
<1>1. SearchInv => Called BY DEF SearchInv
<1> QED BY <1>1, Begins, AlarmStep, SearchAlways, PTL DEF Spec

\* Types, and a claim is what carries a root of trust: no tool mints without one, and
\* none that ends in a refusal, an error or a bare verdict leaves one behind
\* (empirical_tools.py, mint_certificate and mint_python).
THEOREM EveryClaimRooted == Spec => []TypeOK
<1>1. Inv => TypeOK BY DEF Inv
<1> QED BY <1>1, AlarmAlways, PTL

\* The wall-clock alarm can go off only inside the guarded search it was armed for
\* (empirical_tools.py, choosability_deadline).
THEOREM AlarmStaysInside == Spec => []AlarmContained
<1>1. Inv => AlarmContained BY DEF Inv
<1> QED BY <1>1, AlarmAlways, PTL

(***************************************************************************)
(* The assignments asked of the solver                                      *)
(***************************************************************************)
\* A function on 0..n-1.
IsTable(h, n) == h = [v \in 0..(n - 1) |-> h[v]]

LEMMA SameTable ==
    ASSUME NEW n, NEW h, IsTable(h, n), NEW k, IsTable(k, n), \A v \in 0..(n - 1) : h[v] = k[v]
    PROVE  h = k
BY DEF IsTable

LEMMA LongerAt ==
    \A f, x, h : \A n \in Nat :
      h = Longer(f, n, x) =>
        IsTable(h, n + 1) /\ h[n] = x /\ \A v \in 0..(n - 1) : h[v] = f[v]
<1> SUFFICES ASSUME NEW f, NEW x, NEW h, NEW n \in Nat, h = Longer(f, n, x)
             PROVE  IsTable(h, n + 1) /\ h[n] = x /\ \A v \in 0..(n - 1) : h[v] = f[v]
  OBVIOUS
<1>0. (n + 1) - 1 = n OBVIOUS
<1>1. h = [v \in 0..n |-> IF v = n THEN x ELSE f[v]] BY DEF Longer
<1>2. \A v \in 0..n : h[v] = IF v = n THEN x ELSE f[v] BY <1>1
<1>3. h = [v \in 0..n |-> h[v]] BY <1>1
<1>4. n \in 0..n /\ \A v \in 0..(n - 1) : v \in 0..n /\ v # n OBVIOUS
<1>5. h[n] = x /\ \A v \in 0..(n - 1) : h[v] = f[v] BY <1>2, <1>4
<1>6. IsTable(h, n + 1) BY <1>0, <1>3 DEF IsTable
<1> QED BY <1>5, <1>6

LEMMA LongerOf ==
    ASSUME NEW h, NEW n \in Nat, IsTable(h, n + 1)
    PROVE  h = Longer([v \in 0..(n - 1) |-> h[v]], n, h[n])
<1> DEFINE f == [v \in 0..(n - 1) |-> h[v]]
           k == Longer(f, n, h[n])
<1>1. \A v \in 0..((n + 1) - 1) : v = n \/ v \in 0..(n - 1) OBVIOUS
<1>2. \A v \in 0..(n - 1) : f[v] = h[v] OBVIOUS
<1> HIDE DEF f
<1>3. k = Longer(f, n, h[n]) OBVIOUS
<1> HIDE DEF k
<1>4. IsTable(k, n + 1) /\ k[n] = h[n] /\ \A v \in 0..(n - 1) : k[v] = f[v]
  BY <1>3, LongerAt
<1>6. \A v \in 0..((n + 1) - 1) : k[v] = h[v] BY <1>1, <1>2, <1>4
<1>5. h = k BY <1>4, <1>6, SameTable
<1> QED BY <1>5 DEF f, k

\* With the colours in value precedence: the set that the recursion computes.
InOrder(f, n, p) ==
    {L \in Selected([v \in 0..(n - 1) |-> kSubset(f[v], 0..(p - 1))], n) :
       \A v \in 0..(n - 1) : Precedes(L, v)}

LEMMA InOrderAt ==
    ASSUME NEW f, NEW n \in Nat, NEW p, NEW L
    PROVE  L \in InOrder(f, n, p) <=>
             /\ IsTable(L, n)
             /\ \A v \in 0..(n - 1) : L[v] \in kSubset(f[v], 0..(p - 1)) /\ Precedes(L, v)
<1> DEFINE lists == [v \in 0..(n - 1) |-> kSubset(f[v], 0..(p - 1))]
<1>1. \A v \in 0..(n - 1) : lists[v] = kSubset(f[v], 0..(p - 1)) OBVIOUS
<1>2. InOrder(f, n, p) = {M \in Selected(lists, n) : \A v \in 0..(n - 1) : Precedes(M, v)}
  BY DEF InOrder
<1> HIDE DEF lists
<1> QED BY <1>1, <1>2, SelectedAt DEF IsTable

\* Precedence at v is about the lists up to v.
LEMMA PrecedesBelow ==
    ASSUME NEW L, NEW M, NEW v \in Nat, \A u \in 0..v : L[u] = M[u], Precedes(L, v)
    PROVE  Precedes(M, v)
<1>1. v \in 0..v OBVIOUS
<1> QED BY <1>1 DEF Precedes

OrderedStep(shorter, f, p, n) ==
    {L \in {Longer(M, n, S) : S \in kSubset(f[n], 0..(p - 1)), M \in shorter} : Precedes(L, n)}

LEMMA OneMoreList ==
    ASSUME NEW f, NEW n \in Nat, NEW p
    PROVE  InOrder(f, n + 1, p) = OrderedStep(InOrder(f, n, p), f, p, n)
<1> DEFINE V == 0..(n - 1)
           colors == 0..(p - 1)
<1>0. 0..n = V \cup {n} /\ (n + 1) - 1 = n /\ n + 1 \in Nat /\ V \subseteq Nat OBVIOUS
<1>1. \A L : L \in OrderedStep(InOrder(f, n, p), f, p, n) <=>
        /\ \E S \in kSubset(f[n], colors), M \in InOrder(f, n, p) : L = Longer(M, n, S)
        /\ Precedes(L, n)
  BY DEF OrderedStep
<1> HIDE DEF colors
<1>2. ASSUME NEW S \in kSubset(f[n], colors), NEW M \in InOrder(f, n, p), NEW L,
             L = Longer(M, n, S), Precedes(L, n)
      PROVE  L \in InOrder(f, n + 1, p)
  <2>1. /\ IsTable(L, n + 1) /\ L[n] = S
        /\ \A v \in V : L[v] = M[v]
    BY <1>2, LongerAt
  <2>2. \A v \in V : M[v] \in kSubset(f[v], colors) /\ Precedes(M, v) BY InOrderAt DEF colors
  <2>3. ASSUME NEW v \in V PROVE Precedes(L, v)
    <3>1. \A u \in 0..v : M[u] = L[u] BY <2>1
    <3> QED BY <1>0, <2>2, <3>1, PrecedesBelow
  <2>4. \A v \in 0..n : L[v] \in kSubset(f[v], colors) /\ Precedes(L, v)
    BY <1>0, <1>2, <2>1, <2>2, <2>3
  <2> QED BY <1>0, <2>1, <2>4, InOrderAt DEF colors
<1>3. ASSUME NEW L \in InOrder(f, n + 1, p)
      PROVE  /\ \E S \in kSubset(f[n], colors), M \in InOrder(f, n, p) : L = Longer(M, n, S)
             /\ Precedes(L, n)
  <2>1. /\ IsTable(L, n + 1)
        /\ \A v \in 0..n : L[v] \in kSubset(f[v], colors) /\ Precedes(L, v)
    BY <1>0, InOrderAt DEF colors
  <2> DEFINE M == [v \in V |-> L[v]]
  <2>2. L = Longer(M, n, L[n]) BY <2>1, LongerOf
  <2>3. IsTable(M, n) /\ \A v \in V : M[v] = L[v] BY DEF IsTable
  <2> HIDE DEF M
  <2>4. ASSUME NEW v \in V PROVE Precedes(M, v)
    <3>1. \A u \in 0..v : L[u] = M[u] BY <2>3
    <3> QED BY <1>0, <2>1, <3>1, PrecedesBelow
  <2>5. M \in InOrder(f, n, p) BY <1>0, <2>1, <2>3, <2>4, InOrderAt DEF colors
  <2> QED BY <1>0, <2>1, <2>2, <2>5
<1>4. \A L : L \in InOrder(f, n + 1, p) <=> L \in OrderedStep(InOrder(f, n, p), f, p, n)
  BY <1>1, <1>2, <1>3
<1> QED BY <1>4

LEMMA NoList == ASSUME NEW f, NEW p PROVE InOrder(f, 0, p) = {<<>>}
<1> DEFINE lists == [v \in 0..(0 - 1) |-> kSubset(f[v], 0..(p - 1))]
<1>1. 0..(0 - 1) = {} OBVIOUS
<1>2. InOrder(f, 0, p) = {L \in Selected(lists, 0) : \A v \in 0..(0 - 1) : Precedes(L, v)}
  BY DEF InOrder
<1> HIDE DEF lists
<1>3. InOrder(f, 0, p) = Selected(lists, 0) BY <1>1, <1>2
<1> QED BY <1>3, NoChoice

LEMMA AssignmentsAre ==
    ASSUME NEW f, NEW n \in Nat, NEW p
    PROVE  Assignments(f, n, p) = InOrder(f, n, p)
<1> DEFINE Row(s, k) ==
             IF k = 0 THEN {<<>>}
             ELSE {L \in {Longer(M, k - 1, S) : S \in kSubset(f[k - 1], 0..(p - 1)), M \in s[k - 1]} :
                     Precedes(L, k - 1)}
           Solves(s) == s = [k \in 0..n |-> Row(s, k)]
           ordered == [k \in 0..n |-> InOrder(f, k, p)]
           assignments == CHOOSE s : Solves(s)
<1>0. \A s, k : Row(s, k) = IF k = 0 THEN {<<>>} ELSE OrderedStep(s[k - 1], f, p, k - 1)
  BY DEF OrderedStep
<1>6. Assignments(f, n, p) = assignments[n] BY DEF Assignments
<1> HIDE DEF Row
<1>1. ASSUME NEW k \in 0..n PROVE Row(ordered, k) = InOrder(f, k, p)
  <2>1. CASE k = 0 BY <1>0, <2>1, NoList
  <2>2. CASE k # 0
    <3>1. k - 1 \in Nat /\ k - 1 \in 0..n /\ (k - 1) + 1 = k BY <2>2
    <3>2. ordered[k - 1] = InOrder(f, k - 1, p) BY <3>1
    <3> HIDE DEF ordered
    <3>3. Row(ordered, k) = OrderedStep(InOrder(f, k - 1, p), f, p, k - 1) BY <1>0, <2>2, <3>2
    <3>4. InOrder(f, (k - 1) + 1, p) = OrderedStep(InOrder(f, k - 1, p), f, p, k - 1)
      BY <3>1, OneMoreList
    <3> QED BY <3>1, <3>3, <3>4
  <2> QED BY <2>1, <2>2
<1>2. Solves(ordered)
  <2>1. [k \in 0..n |-> Row(ordered, k)] = [k \in 0..n |-> InOrder(f, k, p)] BY <1>1
  <2> QED BY <2>1
<1>3. Solves(assignments)
  <2> HIDE DEF Solves
  <2> QED BY <1>2
<1> HIDE DEF ordered
<1>4. \A k \in 0..n : assignments[k] = Row(assignments, k)
  <2> HIDE DEF assignments
  <2> QED BY <1>3
<1>5. \A k \in Nat : k <= n => assignments[k] = InOrder(f, k, p)
  <2> DEFINE P == {k \in Nat : k <= n => assignments[k] = InOrder(f, k, p)}
  <2> HIDE DEF assignments
  <2>1. 0 \in P
    <3>1. assignments[0] = Row(assignments, 0) BY <1>4
    <3> QED BY <1>0, <3>1, NoList
  <2>2. ASSUME NEW k \in Nat, k \in P PROVE k + 1 \in P
    <3> SUFFICES ASSUME k + 1 <= n PROVE assignments[k + 1] = InOrder(f, k + 1, p) OBVIOUS
    <3>1. k + 1 \in 0..n /\ k + 1 # 0 /\ (k + 1) - 1 = k BY <2>2
    <3>2. assignments[k] = InOrder(f, k, p) BY <2>2
    <3>3. assignments[k + 1] = OrderedStep(InOrder(f, k, p), f, p, k) BY <1>0, <1>4, <3>1, <3>2
    <3> QED BY <3>3, OneMoreList
  <2> HIDE DEF P
  <2>3. \A k \in Nat : k \in P BY <2>1, <2>2, CountUp, Zenon
  <2> QED BY <2>3 DEF P
<1> HIDE DEF assignments
<1> QED BY <1>5, <1>6

\* Colours in the order in which they are first listed.
Ahead(first, d, c) == first[d] < first[c] \/ (first[d] = first[c] /\ d < c)

\* Whatever says when a colour is first listed, the colours can be renamed in that order.
LEMMA Ranking ==
    ASSUME NEW p \in Int, NEW first \in [0..(p - 1) -> Nat]
    PROVE  \E rank \in Bijection(0..(p - 1), 0..(p - 1)) :
             \A c, d \in 0..(p - 1) : rank[d] < rank[c] => first[d] <= first[c]
<1> DEFINE P == 0..(p - 1)
           ahead(c) == {d \in P : Ahead(first, d, c)}
           rank == [c \in P |-> Cardinality(ahead(c))]
<1>1. /\ \A c, d, e \in P : Ahead(first, c, d) /\ Ahead(first, d, e) => Ahead(first, c, e)
      /\ \A c, d \in P : c = d \/ Ahead(first, c, d) \/ Ahead(first, d, c)
      /\ \A c \in P : ~Ahead(first, c, c)
      /\ \A c, d \in P : Ahead(first, d, c) => first[d] <= first[c]
  BY DEF Ahead
<1>2. IsFiniteSet(P) /\ (P # {} => Cardinality(P) = p)
  BY FS_Interval
<1>3. \A c, d \in P : d \in ahead(c) <=> Ahead(first, d, c) OBVIOUS
<1>4. \A c \in P : ahead(c) \in SUBSET P OBVIOUS
<1>5. \A c \in P : rank[c] = Cardinality(ahead(c)) OBVIOUS
<1>6. rank = [c \in P |-> rank[c]] OBVIOUS
<1> HIDE DEF P, ahead, rank
<1>7. \A c \in P : IsFiniteSet(ahead(c)) /\ Cardinality(ahead(c)) \in Nat
  BY <1>2, <1>4, FS_Subset, FS_CardinalityType
<1>8. ASSUME NEW c \in P, NEW d \in P, Ahead(first, d, c) PROVE rank[d] < rank[c]
  <2>1. ahead(d) \in SUBSET ahead(c) BY <1>1, <1>3, <1>4, <1>8
  <2>2. d \in ahead(c) /\ d \notin ahead(d) BY <1>1, <1>3, <1>8
  <2>3. /\ Cardinality(ahead(d)) <= Cardinality(ahead(c))
        /\ Cardinality(ahead(c)) = Cardinality(ahead(d)) => ahead(c) = ahead(d)
    BY <1>7, <2>1, FS_Subset
  <2> QED BY <1>5, <1>7, <2>2, <2>3
<1>9. \A c \in P : rank[c] \in P
  <2> SUFFICES ASSUME NEW c \in P PROVE rank[c] \in P OBVIOUS
  <2>1. c \notin ahead(c) BY <1>1, <1>3
  <2>2. /\ Cardinality(ahead(c)) <= Cardinality(P)
        /\ Cardinality(P) = Cardinality(ahead(c)) => P = ahead(c)
    BY <1>2, <1>4, FS_Subset
  <2> QED BY <1>2, <1>5, <1>7, <2>1, <2>2 DEF P
<1>10. rank \in [P -> P] BY <1>6, <1>9
<1>11. \A c, d \in P : rank[c] = rank[d] => c = d
  <2>1. P \subseteq Int BY DEF P
  <2> SUFFICES ASSUME NEW c \in P, NEW d \in P, rank[c] = rank[d], c # d PROVE FALSE OBVIOUS
  <2>2. rank[c] \in Int /\ rank[d] \in Int BY <1>9, <2>1
  <2>3. Ahead(first, c, d) \/ Ahead(first, d, c) BY <1>1
  <2>4. rank[c] < rank[d] \/ rank[d] < rank[c] BY <1>8, <2>3
  <2> QED BY <2>2, <2>4
<1>12. rank \in Injection(P, P) BY <1>10, <1>11, Fun_IsInj
<1>13. rank \in Surjection(P, P) BY <1>2, <1>12, FS_Injection
<1>14. rank \in Bijection(P, P) BY <1>12, <1>13, Fun_IsBij
<1>15. \A c, d \in P : rank[d] < rank[c] => first[d] <= first[c]
  <2>1. P \subseteq Int BY DEF P
  <2> SUFFICES ASSUME NEW c \in P, NEW d \in P, rank[d] < rank[c] PROVE first[d] <= first[c]
    OBVIOUS
  <2>2. c = d \/ Ahead(first, c, d) \/ Ahead(first, d, c) BY <1>1
  <2>3. rank[c] \in Int /\ rank[d] \in Int BY <1>9, <2>1
  <2>4. CASE c = d BY <2>3, <2>4
  <2>5. CASE Ahead(first, c, d)
    <3>1. rank[c] < rank[d] BY <1>8, <2>5
    <3> QED BY <2>3, <3>1
  <2>6. CASE Ahead(first, d, c) BY <1>1, <2>6
  <2> QED BY <2>2, <2>4, <2>5, <2>6
<1> QED BY <1>14, <1>15 DEF P

\* The lists with the colours renamed.
Renamed(L, n, rank) == [v \in 0..(n - 1) |-> {rank[c] : c \in L[v]}]

\* Value precedence loses nothing: every assignment has a renaming in it
\* (choosability.py:79).
LEMMA PrecedenceComplete ==
    ASSUME NEW n \in Nat, NEW p \in Int, NEW f, NEW L,
           \A v \in 0..(n - 1) : L[v] \in kSubset(f[v], 0..(p - 1))
    PROVE  \E rank \in Bijection(0..(p - 1), 0..(p - 1)) :
             Renamed(L, n, rank) \in InOrder(f, n, p)
<1> DEFINE P == 0..(p - 1)
           V == 0..(n - 1)
           listing(c) == {v \in 0..n : v = n \/ c \in L[v]}
           first == [c \in P |-> CHOOSE v \in listing(c) : \A w \in listing(c) : v <= w]
<1>1. ASSUME NEW c \in P
      PROVE  first[c] \in listing(c) /\ \A w \in listing(c) : first[c] <= w
  <2>1. listing(c) \subseteq Nat /\ listing(c) # {} OBVIOUS
  <2>2. first[c] = CHOOSE v \in listing(c) : \A w \in listing(c) : v <= w OBVIOUS
  <2> HIDE DEF listing, first
  <2>3. \E v \in listing(c) : \A w \in listing(c) : v <= w BY <2>1, LeastNumber
  <2> QED BY <2>2, <2>3
<1>2. first \in [P -> Nat]
  <2>1. \A c \in P : listing(c) \subseteq Nat OBVIOUS
  <2>2. first = [c \in P |-> first[c]] OBVIOUS
  <2> HIDE DEF first, listing
  <2>3. \A c \in P : first[c] \in Nat BY <1>1, <2>1
  <2> QED BY <2>2, <2>3
<1>3. \A c \in P, v \in V : c \in L[v] => v \in listing(c) BY SMT
<1>4. \A c \in P, v \in V : v \in listing(c) => c \in L[v] BY SMT
<1>5. \A c \in P : first[c] \in Nat BY <1>2
<1> HIDE DEF listing, first
<1>6. PICK rank \in Bijection(P, P) :
        \A c, d \in P : rank[d] < rank[c] => first[d] <= first[c]
  BY <1>2, Ranking
<1>7. /\ rank \in [P -> P]
      /\ \A a, b \in P : rank[a] = rank[b] => a = b
      /\ \A b \in P : \E a \in P : rank[a] = b
  <2> HIDE DEF P
  <2>1. rank \in Bijection(P, P) BY <1>6
  <2> QED BY <2>1 DEF Bijection, Injection, Surjection, IsInjective
<1> DEFINE M == Renamed(L, n, rank)
<1>8. \A v \in V : L[v] \in SUBSET P /\ Cardinality(L[v]) = f[v] BY DEF kSubset
<1>9. \A v \in V : M[v] = {rank[c] : c \in L[v]} BY DEF Renamed
<1>10. IsTable(M, n) BY DEF Renamed, IsTable
<1> HIDE DEF M
<1>11. ASSUME NEW v \in V PROVE M[v] \in kSubset(f[v], P)
  <2>1. M[v] \subseteq P
    <3> HIDE DEF P
    <3>1. \A c \in L[v] : rank[c] \in P BY <1>7, <1>8
    <3> QED BY <1>9, <3>1
  <2>2. IsFiniteSet(P) BY FS_Interval
  <2>3. IsFiniteSet(L[v]) BY <1>8, <2>2, FS_Subset
  <2> DEFINE h == [c \in L[v] |-> rank[c]]
  <2>4. h \in [L[v] -> M[v]] BY <1>9
  <2>5. \A a, b \in L[v] : h[a] = h[b] => a = b BY <1>7, <1>8
  <2>6. \A b \in M[v] : \E a \in L[v] : h[a] = b BY <1>9
  <2> HIDE DEF h
  <2>7. h \in Bijection(L[v], M[v]) BY <2>4, <2>5, <2>6, Fun_IsBij
  <2>8. ExistsBijection(L[v], M[v]) BY <2>7, Fun_ExistsBij
  <2>9. Cardinality(M[v]) = Cardinality(L[v]) BY <2>3, <2>8, FS_Bijection
  <2> QED BY <1>8, <2>1, <2>9 DEF kSubset
<1>12. ASSUME NEW v \in V PROVE Precedes(M, v)
  <2> SUFFICES ASSUME NEW b \in M[v], b > 0 PROVE \E u \in 0..v : b - 1 \in M[u]
    BY DEF Precedes
  <2>1. PICK c \in L[v] : b = rank[c] BY <1>9
  <2>2. c \in P /\ b \in P BY <1>7, <1>8, <2>1
  <2>3. b - 1 \in P BY <2>2
  <2>4. PICK d \in P : rank[d] = b - 1 BY <1>7, <2>3
  <2>5. rank[d] < rank[c] BY <2>1, <2>2, <2>4
  <2>6. first[d] <= first[c] BY <1>6, <2>2, <2>5
  <2>7. first[c] <= v BY <1>1, <1>3, <2>1, <2>2
  <2>8. first[d] \in 0..v /\ first[d] \in V
    <3>1. first[d] \in Nat /\ first[c] \in Nat BY <1>5, <2>2
    <3> QED BY <2>6, <2>7, <3>1
  <2>9. d \in L[first[d]] BY <1>1, <1>4, <2>8
  <2>10. rank[d] \in M[first[d]] BY <1>9, <2>8, <2>9
  <2> QED BY <2>4, <2>8, <2>10
<1>13. M \in InOrder(f, n, p) BY <1>10, <1>11, <1>12, InOrderAt
<1> QED BY <1>6, <1>13 DEF M

(***************************************************************************)
(* What the verdicts of a search mean                                       *)
(***************************************************************************)
LEMMA ListsAt ==
    ASSUME NEW f, NEW n \in Nat, NEW p, NEW L
    PROVE  L \in ListsOfSize(f, p, n) <=>
             IsTable(L, n) /\ \A v \in 0..(n - 1) : L[v] \in kSubset(f[v], 0..(p - 1))
<1> DEFINE lists == [v \in 0..(n - 1) |-> kSubset(f[v], 0..(p - 1))]
<1>1. \A v \in 0..(n - 1) : lists[v] = kSubset(f[v], 0..(p - 1)) OBVIOUS
<1>2. ListsOfSize(f, p, n) = Selections(lists, n) BY DEF ListsOfSize
<1> HIDE DEF lists
<1>3. ListsOfSize(f, p, n) = Selected(lists, n) BY <1>2, SelectionsAre
<1> QED BY <1>1, <1>3, SelectedAt DEF IsTable

LEMMA ColoringsAt ==
    ASSUME NEW g, g.n \in Nat, NEW L, NEW c
    PROVE  c \in ListColorings(g, L) <=>
             IsTable(c, g.n) /\ Proper(g, c) /\ \A v \in 0..(g.n - 1) : c[v] \in L[v]
<1>1. Selections(L, g.n) = Selected(L, g.n) BY SelectionsAre
<1> QED BY <1>1, SelectedAt DEF ListColorings, IsTable

LEMMA ChoosableIs ==
    ASSUME NEW g, NEW f, NEW p
    PROVE  Choosable(g, f, p) <=> \A L \in ListsOfSize(f, p, g.n) : ListColorings(g, L) # {}
BY DEF Choosable, ListColorings

\* Fewer colours, fewer assignments.
LEMMA FewerColors ==
    ASSUME NEW g, g.n \in Nat, NEW f, NEW p \in Int, NEW q \in Int, q <= p, Choosable(g, f, p)
    PROVE  Choosable(g, f, q)
<1>1. ASSUME NEW L \in ListsOfSize(f, q, g.n) PROVE L \in ListsOfSize(f, p, g.n)
  <2>1. IsTable(L, g.n) /\ \A v \in 0..(g.n - 1) : L[v] \in kSubset(f[v], 0..(q - 1))
    BY ListsAt
  <2>2. 0..(q - 1) \subseteq 0..(p - 1) OBVIOUS
  <2>3. \A k : kSubset(k, 0..(q - 1)) \subseteq kSubset(k, 0..(p - 1)) BY <2>2 DEF kSubset
  <2> QED BY <2>1, <2>3, ListsAt
<1> QED BY <1>1, ChoosableIs

\* When every assignment in value precedence can be coloured, every assignment can.
LEMMA ExhaustedIsChoosable ==
    ASSUME NEW g, IsGraph(g), NEW f, NEW p \in Int,
           \A L \in Assignments(f, g.n, p) : ListColorings(g, L) # {}
    PROVE  Choosable(g, f, p)
<1> DEFINE V == 0..(g.n - 1)
           P == 0..(p - 1)
<1>1. g.n \in Nat /\ \A e \in g.edges : e \subseteq V
  BY DEF IsGraph, Pairs, kSubset, Vertices
<1>2. ASSUME NEW L \in ListsOfSize(f, p, g.n) PROVE ListColorings(g, L) # {}
  <2>1. \A v \in V : L[v] \in kSubset(f[v], P) BY <1>1, ListsAt
  <2>2. PICK rank \in Bijection(P, P) : Renamed(L, g.n, rank) \in InOrder(f, g.n, p)
    BY <1>1, <2>1, PrecedenceComplete
  <2> DEFINE M == Renamed(L, g.n, rank)
  <2>3. \A v \in V : M[v] = {rank[c] : c \in L[v]} BY DEF Renamed
  <2>4. M \in Assignments(f, g.n, p) BY <1>1, <2>2, AssignmentsAre
  <2> HIDE DEF M
  <2>5. PICK c : c \in ListColorings(g, M) BY <2>4
  <2>6. IsTable(c, g.n) /\ Proper(g, c) /\ \A v \in V : c[v] \in M[v] BY <1>1, <2>5, ColoringsAt
  <2> DEFINE d == [v \in V |-> CHOOSE x \in L[v] : rank[x] = c[v]]
  <2>7. ASSUME NEW v \in V PROVE d[v] \in L[v] /\ rank[d[v]] = c[v]
    <3>1. \E x \in L[v] : rank[x] = c[v] BY <2>3, <2>6
    <3>2. d[v] = CHOOSE x \in L[v] : rank[x] = c[v] OBVIOUS
    <3> HIDE DEF d
    <3> QED BY <3>1, <3>2
  <2>8. IsTable(d, g.n) BY DEF IsTable
  <2> HIDE DEF d
  <2>9. Proper(g, d)
    <3> SUFFICES ASSUME NEW e \in g.edges, NEW u \in e, NEW v \in e, u # v, d[u] = d[v]
                 PROVE  FALSE
      BY DEF Proper
    <3>1. u \in V /\ v \in V BY <1>1
    <3>2. c[u] = c[v] BY <2>7, <3>1
    <3> QED BY <2>6, <3>2 DEF Proper
  <2>10. d \in ListColorings(g, L) BY <1>1, <2>7, <2>8, <2>9, ColoringsAt
  <2> QED BY <2>10
<1> QED BY <1>2, ChoosableIs

\* What the first k lists use.
Used(L, k) == UNION {L[v] : v \in 0..(k - 1)}

LEMMA UsedCounted ==
    ASSUME NEW f, NEW n \in Nat, NEW p \in Int, NEW L \in InOrder(f, n, p), NEW m \in Nat,
           \A v \in 0..(n - 1) : f[v] \in Nat /\ f[v] <= m
    PROVE  IsFiniteSet(Used(L, n)) /\ Cardinality(Used(L, n)) <= m * n
<1> DEFINE Q == {k \in Nat : k <= n => /\ IsFiniteSet(Used(L, k))
                                       /\ Cardinality(Used(L, k)) <= m * k}
<1>1. 0 \in Q
  <2>1. 0..(0 - 1) = {} OBVIOUS
  <2>2. Used(L, 0) = {} BY <2>1 DEF Used
  <2>3. m * 0 = 0 OBVIOUS
  <2> QED BY <2>2, <2>3, FS_EmptySet
<1>2. ASSUME NEW k \in Nat, k \in Q PROVE k + 1 \in Q
  <2> SUFFICES ASSUME k + 1 <= n
               PROVE  /\ IsFiniteSet(Used(L, k + 1))
                      /\ Cardinality(Used(L, k + 1)) <= m * (k + 1)
    OBVIOUS
  <2>1. IsFiniteSet(Used(L, k)) /\ Cardinality(Used(L, k)) <= m * k BY <1>2
  <2>2. k \in 0..(n - 1) OBVIOUS
  <2>3. L[k] \in kSubset(f[k], 0..(p - 1)) BY <2>2, InOrderAt
  <2>4. L[k] \in SUBSET (0..(p - 1)) /\ Cardinality(L[k]) = f[k] BY <2>3 DEF kSubset
  <2>5. IsFiniteSet(L[k])
    <3>1. IsFiniteSet(0..(p - 1)) BY FS_Interval
    <3> QED BY <2>4, <3>1, FS_Subset
  <2>6. Used(L, k + 1) = Used(L, k) \cup L[k]
    <3>1. 0..((k + 1) - 1) = 0..(k - 1) \cup {k} OBVIOUS
    <3> QED BY <3>1 DEF Used
  <2> DEFINE A == Used(L, k)
             B == L[k]
  <2>7. IsFiniteSet(A) /\ IsFiniteSet(B) /\ Cardinality(A) <= m * k /\ Cardinality(B) <= m
    BY <2>1, <2>2, <2>4, <2>5
  <2> HIDE DEF A, B
  <2>8. IsFiniteSet(A \cup B)
        /\ Cardinality(A \cup B) = Cardinality(A) + Cardinality(B) - Cardinality(A \cap B)
    BY <2>7, FS_Union
  <2>9. Cardinality(A) \in Nat /\ Cardinality(B) \in Nat /\ Cardinality(A \cap B) \in Nat
    BY <2>7, FS_Intersection, FS_CardinalityType
  <2>10. m * (k + 1) = m * k + m /\ m * k \in Nat OBVIOUS
  <2>11. Cardinality(A \cup B) <= m * (k + 1) BY <2>7, <2>8, <2>9, <2>10
  <2> QED BY <2>6, <2>8, <2>11 DEF A, B
<1> HIDE DEF Q
<1>3. \A k \in Nat : k \in Q BY <1>1, <1>2, CountUp, Zenon
<1> QED BY <1>3 DEF Q

\* No assignment in value precedence needs more colours than the complete palette.
LEMMA PaletteSuffices ==
    ASSUME NEW f, NEW n \in Nat, NEW p \in Int, NEW L \in InOrder(f, n, p), NEW m \in Nat,
           \A v \in 0..(n - 1) : f[v] \in Nat /\ f[v] <= m
    PROVE  L \in ListsOfSize(f, m * n, n)
<1> DEFINE V == 0..(n - 1)
           U == Used(L, n)
<1>1. IsTable(L, n) /\ \A v \in V : L[v] \in kSubset(f[v], 0..(p - 1)) /\ Precedes(L, v)
  BY InOrderAt
<1>2. IsFiniteSet(U) /\ Cardinality(U) <= m * n BY UsedCounted
<1>3. \A c : c \in U <=> \E v \in V : c \in L[v] BY DEF Used
<1> HIDE DEF U
<1>4. U \subseteq Nat
  <2>1. \A v \in V : L[v] \subseteq Nat BY <1>1 DEF kSubset
  <2> QED BY <1>3, <2>1
<1>5. \A c \in U : c > 0 => c - 1 \in U
  <2> SUFFICES ASSUME NEW c \in U, c > 0 PROVE c - 1 \in U OBVIOUS
  <2>1. PICK v \in V : c \in L[v] BY <1>3
  <2>2. PICK u \in 0..v : c - 1 \in L[u] BY <1>1, <2>1 DEF Precedes
  <2>3. u \in V OBVIOUS
  <2> QED BY <1>3, <2>2, <2>3
<1>6. ASSUME NEW c \in U PROVE c < m * n
  <2>1. c \in Nat BY <1>4
  <2> DEFINE Q == {k \in Nat : k <= c => c - k \in U}
  <2>2. 0 \in Q BY <2>1
  <2>3. ASSUME NEW k \in Nat, k \in Q PROVE k + 1 \in Q
    <3> SUFFICES ASSUME k + 1 <= c PROVE c - (k + 1) \in U OBVIOUS
    <3>1. c - k \in U /\ c - k > 0 BY <2>1, <2>3
    <3>2. (c - k) - 1 = c - (k + 1) BY <2>1
    <3>3. (c - k) - 1 \in U BY <1>5, <3>1
    <3> QED BY <3>2, <3>3
  <2> HIDE DEF Q
  <2>4. \A k \in Nat : k \in Q BY <2>2, <2>3, CountUp, Zenon
  <2>5. \A b \in 0..c : b \in U
    <3> SUFFICES ASSUME NEW b \in 0..c PROVE b \in U OBVIOUS
    <3>1. c - b \in Nat /\ c - b <= c /\ c - (c - b) = b BY <2>1
    <3>2. c - (c - b) \in U BY <2>4, <3>1 DEF Q
    <3> QED BY <3>1, <3>2
  <2>6. 0..c \in SUBSET U BY <2>5
  <2>7. Cardinality(0..c) <= Cardinality(U) BY <1>2, <2>6, FS_Subset
  <2>8. Cardinality(0..c) = c + 1 BY <2>1, FS_Interval
  <2>9. Cardinality(U) \in Nat BY <1>2, FS_CardinalityType
  <2>10. m * n \in Nat OBVIOUS
  <2> QED BY <1>2, <2>1, <2>7, <2>8, <2>9, <2>10
<1>7. \A v \in V : L[v] \in kSubset(f[v], 0..(m * n - 1))
  <2> SUFFICES ASSUME NEW v \in V PROVE L[v] \in kSubset(f[v], 0..(m * n - 1)) OBVIOUS
  <2>1. Cardinality(L[v]) = f[v] BY <1>1 DEF kSubset
  <2>2. \A c \in L[v] : c \in Nat /\ c < m * n BY <1>3, <1>4, <1>6
  <2>3. m * n \in Nat OBVIOUS
  <2>4. L[v] \subseteq 0..(m * n - 1) BY <2>2, <2>3
  <2> QED BY <2>1, <2>4 DEF kSubset
<1> QED BY <1>1, <1>7, ListsAt

\* A bad list that is verified refutes choosability on the complete palette.
LEMMA VerifiedIsBad ==
    ASSUME NEW g, IsGraph(g), NEW f, NEW p \in Int, NEW L \in Assignments(f, g.n, p), NEW m \in Nat,
           \A v \in 0..(g.n - 1) : f[v] \in Nat /\ f[v] <= m, VerifyBadList(g, L, f)
    PROVE  ~Choosable(g, f, m * g.n)
<1>1. g.n \in Nat BY DEF IsGraph
<1>2. L \in ListsOfSize(f, m * g.n, g.n) BY <1>1, AssignmentsAre, PaletteSuffices
<1>3. FindListColoring(g, L) = NoColoring BY DEF VerifyBadList
<1>4. NoColoring \notin ListColorings(g, L)
  <2> DEFINE c == NoColoring
  <2>1. DOMAIN c = {1} BY DEF NoColoring
  <2> HIDE DEF c
  <2>2. SUFFICES ASSUME c \in ListColorings(g, L) PROVE FALSE BY DEF c
  <2>3. c = [v \in 0..(g.n - 1) |-> c[v]] BY <1>1, <2>2, ColoringsAt DEF IsTable
  <2>4. DOMAIN c = 0..(g.n - 1) BY <2>3
  <2>5. 1 \in 0..(g.n - 1) => 0 \in 0..(g.n - 1) BY <1>1
  <2> QED BY <2>1, <2>4, <2>5
<1>5. ListColorings(g, L) = {} BY <1>3, <1>4 DEF FindListColoring
<1> QED BY <1>2, <1>5, ChoosableIs

LEMMA DegreeType == ASSUME NEW g, IsGraph(g), NEW v PROVE Degree(g, v) \in Nat
<1>1. g.n \in Nat BY DEF IsGraph
<1>2. IsFiniteSet(0..(g.n - 1)) BY <1>1, FS_Interval
<1>3. Neighbors(g, v) \in SUBSET (0..(g.n - 1)) BY DEF Neighbors, Vertices
<1>4. IsFiniteSet(Neighbors(g, v)) BY <1>2, <1>3, FS_Subset
<1> QED BY <1>4, FS_CardinalityType DEF Degree

\* A search that is not refused is for lists of at least one colour.
LEMMA SizesOf ==
    ASSUME NEW r \in Requests, r.tool \in Searching, Refused(r) = "none"
    PROVE  /\ IsGraph(r.g) /\ IsTable(ListSizes(r), r.g.n)
           /\ \A v \in Vertices(r.g) : ListSizes(r)[v] \in Nat /\ ListSizes(r)[v] >= 1
<1>0. IsRequest(r) BY RequestsType
<1>1. IsGraph(r.g) /\ r.g.n \in Nat BY <1>0 DEF IsRequest, Searching, IsGraph
<1> DEFINE f == ListSizes(r)
<1>2. CASE r.tool = "choosability_refute"
  <2>1. r.k \in Int BY <1>0, <1>2 DEF IsRequest
  <2>2. f = [v \in Vertices(r.g) |-> r.k] BY <1>2 DEF ListSizes, Constant
  <2>3. \A v \in Vertices(r.g) : ~(f[v] < 1)
    <3> HIDE DEF f
    <3>1. ~(\E v \in Vertices(r.g) : f[v] < 1 \/ f[v] > PaletteOf(r)) BY <1>2 DEF Refused, f
    <3> QED BY <3>1
  <2> HIDE DEF f
  <2>4. \A v \in Vertices(r.g) : f[v] = r.k BY <2>2
  <2>5. IsTable(f, r.g.n) BY <2>2, <2>4 DEF IsTable, Vertices
  <2>6. \A v \in Vertices(r.g) : f[v] \in Nat /\ f[v] >= 1 BY <2>1, <2>3, <2>4
  <2> QED BY <1>1, <2>5, <2>6 DEF f
<1>3. CASE r.tool = "list_critical"
  <2>1. r.m \in Int BY <1>0, <1>3 DEF IsRequest
  <2>2. f = [v \in Vertices(r.g) |-> r.m - 1] BY <1>3 DEF ListSizes, Constant
  <2>3. ~(r.m < 2) BY <1>3 DEF Refused, Guarded
  <2> HIDE DEF f
  <2>4. \A v \in Vertices(r.g) : f[v] = r.m - 1 BY <2>2
  <2>5. IsTable(f, r.g.n) BY <2>2, <2>4 DEF IsTable, Vertices
  <2>6. \A v \in Vertices(r.g) : f[v] \in Nat /\ f[v] >= 1 BY <2>1, <2>3, <2>4
  <2> QED BY <1>1, <2>5, <2>6 DEF f
<1>4. CASE r.tool = "reducible_configuration"
  <2>1. r.D \in Int /\ r.degrees \in [Vertices(r.g) -> Int] BY <1>0, <1>4 DEF IsRequest
  <2> DEFINE s(v) == IF r.D = 0 THEN Degree(r.g, v) ELSE (r.D - 1) - r.degrees[v] + Degree(r.g, v)
  <2>2. f = [v \in Vertices(r.g) |-> s(v)] BY <1>4 DEF ListSizes, SlackOf
  <2>3. \A v \in Vertices(r.g) : s(v) \in Int
    <3>1. \A v \in Vertices(r.g) : Degree(r.g, v) \in Int BY <1>1, DegreeType
    <3> QED BY <2>1, <3>1
  <2>4. \A v \in Vertices(r.g) : ~(f[v] <= 0)
    <3> HIDE DEF f
    <3>1. ~(\E v \in Vertices(r.g) : f[v] <= 0) BY <1>4 DEF Refused, f
    <3> QED BY <3>1
  <2> HIDE DEF f, s
  <2>5. \A v \in Vertices(r.g) : f[v] = s(v) BY <2>2
  <2>6. IsTable(f, r.g.n) BY <2>2, <2>5 DEF IsTable, Vertices
  <2>7. \A v \in Vertices(r.g) : f[v] \in Nat /\ f[v] >= 1 BY <2>3, <2>4, <2>5
  <2> QED BY <1>1, <2>6, <2>7 DEF f
<1> QED BY <1>2, <1>3, <1>4 DEF Searching

LEMMA LongestList ==
    ASSUME NEW f, NEW n \in Nat, n > 0, IsTable(f, n), \A v \in 0..(n - 1) : f[v] \in Nat
    PROVE  /\ Max(Range(f)) \in Nat
           /\ \A v \in 0..(n - 1) : f[v] <= Max(Range(f))
           /\ \E v \in 0..(n - 1) : f[v] = Max(Range(f))
<1> DEFINE V == 0..(n - 1)
           Q == {k \in Nat : k < n => \E v \in 0..k : \A u \in 0..k : f[u] <= f[v]}
<1>1. 0 \in Q BY SMT
<1>2. ASSUME NEW k \in Nat, k \in Q PROVE k + 1 \in Q
  <2> SUFFICES ASSUME k + 1 < n
               PROVE  \E v \in 0..(k + 1) : \A u \in 0..(k + 1) : f[u] <= f[v]
    OBVIOUS
  <2>1. PICK v \in 0..k : \A u \in 0..k : f[u] <= f[v] BY <1>2
  <2>2. 0..(k + 1) = 0..k \cup {k + 1} OBVIOUS
  <2>3. f[v] \in Nat /\ f[k + 1] \in Nat /\ \A u \in 0..k : f[u] \in Nat OBVIOUS
  <2>4. CASE f[k + 1] <= f[v] BY <2>1, <2>2, <2>4
  <2>5. CASE f[v] < f[k + 1]
    <3>1. \A u \in 0..k : f[u] <= f[k + 1] BY <2>1, <2>3, <2>5
    <3>2. f[k + 1] <= f[k + 1] BY <2>3
    <3> QED BY <2>2, <3>1, <3>2
  <2> QED BY <2>3, <2>4, <2>5
<1> HIDE DEF Q
<1>3. \A k \in Nat : k \in Q BY <1>1, <1>2, CountUp, Zenon
<1>4. n - 1 \in Q /\ n - 1 < n BY <1>3
<1>5. PICK v \in V : \A u \in V : f[u] <= f[v] BY <1>4 DEF Q
<1>6. Range(f) = {f[u] : u \in V}
  <2>1. DOMAIN f = V BY DEF IsTable
  <2> QED BY <2>1 DEF Range
<1>7. \E x \in Range(f) : \A y \in Range(f) : x >= y
  <2>1. \A u \in V : f[v] >= f[u] BY <1>5
  <2> QED BY <1>6, <2>1
<1> DEFINE m == Max(Range(f))
<1>8. m \in Range(f) /\ \A y \in Range(f) : m >= y BY <1>7 DEF Max
<1> HIDE DEF m
<1> QED BY <1>6, <1>8 DEF m

\* The complete palette: the longest list for each vertex.
LEMMA PaletteIs ==
    ASSUME NEW g, IsGraph(g), NEW f, IsTable(f, g.n), \A v \in Vertices(g) : f[v] \in Nat
    PROVE  \E m \in Nat : /\ CompletePalette(g, f) = m * g.n
                          /\ \A v \in 0..(g.n - 1) : f[v] <= m
<1>1. g.n \in Nat BY DEF IsGraph
<1>2. CASE g.n = 0
  <2>1. CompletePalette(g, f) = 0 * g.n /\ 0..(g.n - 1) = {} BY <1>2 DEF CompletePalette
  <2> QED BY <2>1
<1>3. CASE g.n # 0
  <2> DEFINE m == Max(Range(f))
  <2>1. m \in Nat /\ \A v \in 0..(g.n - 1) : f[v] <= m
    BY <1>1, <1>3, LongestList DEF Vertices
  <2>2. CompletePalette(g, f) = m * g.n BY <1>3 DEF CompletePalette
  <2> HIDE DEF m
  <2> QED BY <2>1, <2>2
<1> QED BY <1>2, <1>3

LEMMA ConstantPalette ==
    ASSUME NEW g, IsGraph(g), NEW k \in Nat
    PROVE  CompletePalette(g, Constant(g, k)) = k * g.n
<1> DEFINE f == Constant(g, k)
<1>1. g.n \in Nat BY DEF IsGraph
<1>2. f = [v \in 0..(g.n - 1) |-> k] BY DEF Constant, Vertices
<1> HIDE DEF f
<1>3. \A v \in 0..(g.n - 1) : f[v] = k BY <1>2
<1>4. IsTable(f, g.n) BY <1>2, <1>3 DEF IsTable
<1>5. CASE g.n = 0
  <2>1. k * g.n = 0 BY <1>5
  <2> QED BY <1>5, <2>1 DEF CompletePalette
<1>6. CASE g.n # 0
  <2>1. PICK v \in 0..(g.n - 1) : f[v] = Max(Range(f)) BY <1>1, <1>3, <1>4, <1>6, LongestList
  <2>2. Max(Range(f)) = k BY <1>3, <2>1
  <2> QED BY <1>6, <2>2 DEF CompletePalette, f
<1> QED BY <1>5, <1>6 DEF f

\* The exhaustive check fixes the first list: it is implied.
LEMMA FirstListFixed ==
    ASSUME NEW g, IsGraph(g), NEW k \in Nat, g.n > 0 => k > 0, Choosable(g, Constant(g, k), k * g.n)
    PROVE  IsKChoosable(g, k)
<1> DEFINE V == 0..(g.n - 1)
           f == Constant(g, k)
           lists == [v \in Vertices(g) |-> IF v = 0 THEN {0..(k - 1)} ELSE kSubset(k, 0..(k * g.n - 1))]
<1>1. g.n \in Nat BY DEF IsGraph
<1>2. CASE g.n = 0 BY <1>2 DEF IsKChoosable
<1>3. CASE g.n # 0
  <2>1. k > 0 /\ g.n >= 1 BY <1>1, <1>3
  <2>2. k <= k * g.n /\ k * g.n \in Nat BY <1>1, <2>1
  <2>3. \A v \in V : f[v] = k BY DEF Constant, Vertices
  <2>4. \A v \in V : lists[v] = IF v = 0 THEN {0..(k - 1)} ELSE kSubset(k, 0..(k * g.n - 1))
    BY DEF Vertices
  <2>5. 0..(k - 1) \in kSubset(k, 0..(k * g.n - 1))
    <3>1. Cardinality(0..(k - 1)) = k BY <2>1, FS_Interval
    <3>2. 0..(k - 1) \subseteq 0..(k * g.n - 1) BY <2>2
    <3> QED BY <3>1, <3>2 DEF kSubset
  <2> HIDE DEF f, lists
  <2>6. ASSUME NEW L \in Selections(lists, g.n) PROVE ListColorings(g, L) # {}
    <3>1. L \in Selected(lists, g.n) BY <1>1, SelectionsAre
    <3>2. IsTable(L, g.n) /\ \A v \in V : L[v] \in lists[v] BY <1>1, <3>1, SelectedAt DEF IsTable
    <3>3. \A v \in V : L[v] \in kSubset(f[v], 0..(k * g.n - 1)) BY <2>3, <2>4, <2>5, <3>2
    <3>4. L \in ListsOfSize(f, k * g.n, g.n) BY <1>1, <3>2, <3>3, ListsAt
    <3> QED BY <3>4, ChoosableIs DEF f
  <2> QED BY <2>1, <2>6 DEF IsKChoosable, lists
<1> QED BY <1>2, <1>3

\* What is known of the call of a search.
LEMMA PaletteType ==
    ASSUME NEW r \in Requests, r.tool \in Searching, Refused(r) = "none"
    PROVE  /\ PaletteOf(r) \in Int
           /\ \E m \in Nat : /\ CompletePalette(r.g, ListSizes(r)) = m * r.g.n
                             /\ \A v \in 0..(r.g.n - 1) : ListSizes(r)[v] <= m
<1>1. /\ IsGraph(r.g) /\ IsTable(ListSizes(r), r.g.n)
      /\ \A v \in Vertices(r.g) : ListSizes(r)[v] \in Nat
  BY SizesOf
<1>2. PICK m \in Nat : /\ CompletePalette(r.g, ListSizes(r)) = m * r.g.n
                       /\ \A v \in 0..(r.g.n - 1) : ListSizes(r)[v] <= m
  BY <1>1, PaletteIs
<1>3. m * r.g.n \in Nat BY <1>1 DEF IsGraph
<1>4. r.tool # "reducible_configuration" => r.palette \subseteq Int
  <2>1. IsRequest(r) BY RequestsType
  <2> QED BY <2>1 DEF IsRequest, IsPalette, Searching
<1>5. PaletteOf(r) \in Int BY <1>2, <1>3, <1>4 DEF PaletteOf
<1> QED BY <1>2, <1>5

LEMMA BadIsBad ==
    ASSUME SearchInv, phase = "search", BadFound
    PROVE  ~Choosable(job.graph, ListSizes(call), CompletePalette(call.g, ListSizes(call)))
<1> DEFINE f == ListSizes(call)
           p == PaletteOf(call)
<1>1. call \in Requests /\ call.tool \in Searching /\ Refused(call) = "none"
  BY DEF SearchInv, Called
<1>2. IsGraph(job.graph) /\ job.graph.n = call.g.n /\ Vertices(job.graph) = Vertices(call.g)
  BY GraphSearched DEF SearchInv
<1>3. PICK L \in job.cands : VerifyBadList(job.graph, L, f) BY DEF BadFound
<1>4. L \in Assignments(f, job.graph.n, p) BY <1>2 DEF SearchInv, SearchedGraph, AssignmentsOf
<1>5. \A v \in 0..(job.graph.n - 1) : f[v] \in Nat BY <1>1, <1>2, SizesOf DEF Vertices
<1>6. p \in Int BY <1>1, PaletteType
<1>7. PICK m \in Nat : /\ CompletePalette(call.g, f) = m * call.g.n
                       /\ \A v \in 0..(call.g.n - 1) : f[v] <= m
  BY <1>1, PaletteType
<1> HIDE DEF f, p
<1>8. ~Choosable(job.graph, f, m * job.graph.n)
  BY <1>2, <1>3, <1>4, <1>5, <1>6, <1>7, VerifiedIsBad
<1> QED BY <1>2, <1>7, <1>8 DEF f

LEMMA ExhaustedIsGood ==
    ASSUME SearchInv, phase = "search", Exhausted
    PROVE  Choosable(job.graph, ListSizes(call), PaletteOf(call))
<1>1. call \in Requests /\ call.tool \in Searching /\ Refused(call) = "none"
  BY DEF SearchInv, Called
<1>2. IsGraph(job.graph) BY GraphSearched DEF SearchInv
<1>3. PaletteOf(call) \in Int BY <1>1, PaletteType
<1>4. \A L \in Assignments(ListSizes(call), job.graph.n, PaletteOf(call)) :
        ListColorings(job.graph, L) # {}
  BY DEF SearchInv, NoBadListLost, Exhausted
<1> QED BY <1>2, <1>3, <1>4, ExhaustedIsChoosable

\* What the claims of the searches say.
LEMMA ClaimsSay ==
    ASSUME NEW r, NEW o
    PROVE  /\ o.says = "not choosable" =>
                (Holds(r, o) <=> ~Choosable(r.g, ListSizes(r), CompletePalette(r.g, ListSizes(r))))
           /\ o.says = "choosable" =>
                (Holds(r, o) <=> /\ Choosable(r.g, ListSizes(r), PaletteOf(r))
                                 /\ IsKChoosable(r.g, r.k))
           /\ o.says = "f-choosable" =>
                (Holds(r, o) <=> Choosable(r.g, ListSizes(r), PaletteOf(r)))
           /\ o.says = "critical" => (Holds(r, o) <=> Critically(r.g, r.m - 1))
           /\ o.says = "not critical" => (Holds(r, o) <=> ~Critically(r.g, r.m - 1))
<1>1. ASSUME o.says = "not choosable"
      PROVE  Holds(r, o) <=> ~Choosable(r.g, ListSizes(r), CompletePalette(r.g, ListSizes(r)))
  BY <1>1 DEF Holds
<1>2. ASSUME o.says = "choosable"
      PROVE  Holds(r, o) <=> Choosable(r.g, ListSizes(r), PaletteOf(r)) /\ IsKChoosable(r.g, r.k)
  BY <1>2 DEF Holds
<1>3. ASSUME o.says = "f-choosable"
      PROVE  Holds(r, o) <=> Choosable(r.g, ListSizes(r), PaletteOf(r))
  BY <1>3 DEF Holds
<1>4. ASSUME o.says = "critical" PROVE Holds(r, o) <=> Critically(r.g, r.m - 1)
  BY <1>4 DEF Holds
<1>5. ASSUME o.says = "not critical" PROVE Holds(r, o) <=> ~Critically(r.g, r.m - 1)
  BY <1>5 DEF Holds
<1> QED BY <1>1, <1>2, <1>3, <1>4, <1>5, Zenon

LEMMA CriticallyIs ==
    ASSUME NEW r \in Requests, r.tool = "list_critical", Refused(r) = "none"
    PROVE  LET f == ListSizes(r)
               p == CompletePalette(r.g, f)
           IN  Critically(r.g, r.m - 1) <=>
                 ~Choosable(r.g, f, p) /\ \A e \in r.g.edges : Choosable(DeleteEdge(r.g, e), f, p)
<1>1. IsRequest(r) BY RequestsType
<1>2. r.m \in Int /\ IsGraph(r.g) BY <1>1 DEF IsRequest
<1>3. ~(r.m < 2) BY DEF Refused, Guarded
<1>4. r.m - 1 \in Nat BY <1>2, <1>3
<1>5. ListSizes(r) = Constant(r.g, r.m - 1) BY DEF ListSizes
<1>6. CompletePalette(r.g, ListSizes(r)) = (r.m - 1) * r.g.n
  BY <1>2, <1>4, <1>5, ConstantPalette
<1>7. \A e : DeleteEdge(r.g, e).n = r.g.n BY <1>2, EdgeDeleted
<1> QED BY <1>5, <1>6 DEF Critically

\* What a complete palette decides holds on the palette of the definition.
LEMMA CompleteSuffices ==
    ASSUME NEW r \in Requests, r.tool \in Searching, Refused(r) = "none", Complete(r),
           NEW g, g.n = r.g.n, Choosable(g, ListSizes(r), PaletteOf(r))
    PROVE  Choosable(g, ListSizes(r), CompletePalette(r.g, ListSizes(r)))
<1> DEFINE p == PaletteOf(r)
           q == CompletePalette(r.g, ListSizes(r))
<1>1. r.g.n \in Nat BY SizesOf DEF IsGraph
<1>2. p \in Int /\ q \in Int
  <2>1. p \in Int BY PaletteType
  <2>2. PICK m \in Nat : q = m * r.g.n BY PaletteType
  <2>3. m * r.g.n \in Int BY <1>1
  <2> QED BY <2>1, <2>2, <2>3
<1>3. q <= p BY <1>2 DEF Complete
<1> HIDE DEF p, q
<1>4. Choosable(g, ListSizes(r), p) BY DEF p
<1> QED BY <1>1, <1>2, <1>3, <1>4, FewerColors DEF q

LEMMA VerdictHolds ==
    ASSUME NEW r \in Requests, r.tool \in Searching, Refused(r) = "none", NEW bad \in BOOLEAN,
           bad => ~Choosable(r.g, ListSizes(r), CompletePalette(r.g, ListSizes(r))),
           ~bad => Choosable(r.g, ListSizes(r), PaletteOf(r)), bad => Guarded(r)
    PROVE  Truthful(r, Verdict(r, bad))
<1> DEFINE o == Verdict(r, bad)
<1>1. CASE r.tool = "choosability_refute" /\ bad
  <2>1. o.says = "not choosable" BY <1>1 DEF Verdict, Certified, Claim
  <2> HIDE DEF o
  <2>2. Truthful(r, o) BY <1>1, <2>1, ClaimsSay DEF Truthful
  <2> QED BY <2>2 DEF o
<1>2. CASE r.tool = "choosability_refute" /\ ~bad
  <2>1. /\ o.exhaustive = Complete(r)
        /\ Complete(r) => o.says = "choosable"
    BY <1>2 DEF Verdict, Enumerated, Claim
  <2> HIDE DEF o
  <2>2. ASSUME Complete(r) PROVE IsKChoosable(r.g, r.k)
    <3>1. ListSizes(r) = Constant(r.g, r.k) BY <1>2 DEF ListSizes
    <3>2. /\ IsGraph(r.g) /\ r.g.n \in Nat
          /\ \A v \in Vertices(r.g) : Constant(r.g, r.k)[v] \in Nat /\ Constant(r.g, r.k)[v] >= 1
      BY <3>1, SizesOf DEF IsGraph
    <3>3. r.k \in Int
      <4>1. IsRequest(r) BY RequestsType
      <4> QED BY <1>2, <4>1 DEF IsRequest
    <3>4. Choosable(r.g, Constant(r.g, r.k), CompletePalette(r.g, Constant(r.g, r.k)))
      BY <1>2, <2>2, <3>1, CompleteSuffices
    <3>5. CASE r.g.n = 0 BY <3>5 DEF IsKChoosable
    <3>6. CASE r.g.n # 0
      <4>1. 0 \in Vertices(r.g) BY <3>2, <3>6 DEF Vertices
      <4>2. r.k \in Nat /\ r.k > 0 BY <3>2, <4>1 DEF Constant
      <4> QED BY <3>2, <3>4, <4>2, ConstantPalette, FirstListFixed
    <3> QED BY <3>5, <3>6
  <2>3. Truthful(r, o) BY <1>2, <2>1, <2>2, ClaimsSay DEF Truthful
  <2> QED BY <2>3 DEF o
<1>3. CASE r.tool = "reducible_configuration" /\ bad
  <2>1. o.kind = "inconclusive" BY <1>3 DEF Verdict, Unminted
  <2> QED BY <2>1 DEF Truthful
<1>4. CASE r.tool = "reducible_configuration" /\ ~bad
  <2>1. o.says = "f-choosable" BY <1>4 DEF Verdict, Enumerated, Claim
  <2> HIDE DEF o
  <2>2. Truthful(r, o) BY <1>4, <2>1, ClaimsSay DEF Truthful
  <2> QED BY <2>2 DEF o
<1>5. CASE r.tool = "list_critical" /\ ~bad
  <2>1. o.says = "not critical" /\ o.exhaustive = Complete(r)
    BY <1>5 DEF Verdict, Enumerated, Claim
  <2> HIDE DEF o
  <2>2. ASSUME Complete(r) PROVE ~Critically(r.g, r.m - 1)
    <3>1. Choosable(r.g, ListSizes(r), CompletePalette(r.g, ListSizes(r)))
      BY <1>5, <2>2, CompleteSuffices
    <3> QED BY <1>5, <3>1, CriticallyIs
  <2>3. Truthful(r, o) BY <2>1, <2>2, ClaimsSay DEF Truthful
  <2> QED BY <2>3 DEF o
<1> QED BY <1>1, <1>2, <1>3, <1>4, <1>5 DEF Searching, Guarded

(***************************************************************************)
(* The claims of the searches                                               *)
(***************************************************************************)
WholeIsBad == ~Choosable(call.g, ListSizes(call), CompletePalette(call.g, ListSizes(call)))
EdgeIsGood(e) == Choosable(DeleteEdge(call.g, e), ListSizes(call), PaletteOf(call))

\* A guarded search is of the whole graph; list_critical has found the whole graph bad,
\* and good without any of the edges it is done with.
Progress ==
    phase = "search" =>
      /\ Guarded(call) => job.graph = call.g
      /\ job.graph # call.g =>
           /\ WholeIsBad
           /\ \E e \in call.g.edges :
                /\ job.graph = DeleteEdge(call.g, e)
                /\ \A d \in call.g.edges : d \in job.edges \cup {e} \/ EdgeIsGood(d)

LeavesTruthful == phase = "leaving" => Truthful(call, last)
ClaimsInv == Progress /\ LeavesTruthful /\ SearchClaimsHold

LEMMA ClaimsBegin == Init => ClaimsInv
BY DEF Init, ClaimsInv, Progress, LeavesTruthful, SearchClaimsHold

\* A search that ends, found or exhausted.
LEMMA ClaimsEnd ==
    ASSUME SearchInv, ClaimsInv, NEW bad \in BOOLEAN, phase = "search",
           bad => BadFound, ~bad => Exhausted, SearchEnds(bad)
    PROVE  ClaimsInv'
<1> DEFINE f == ListSizes(call)
           p == PaletteOf(call)
           q == CompletePalette(call.g, f)
<1>0. call \in Requests /\ call.tool \in Searching /\ Refused(call) = "none"
  BY DEF SearchInv, Called
<1>1. bad => ~Choosable(job.graph, f, q) BY BadIsBad
<1>2. ~bad => Choosable(job.graph, f, p) BY ExhaustedIsGood
<1>3. CASE Leaving(bad)
  <2>1. job.graph = call.g /\ Guarded(call) BY <1>3 DEF Leaving, ClaimsInv, Progress
  <2>2. Truthful(call, Verdict(call, bad)) BY <1>0, <1>1, <1>2, <2>1, VerdictHolds
  <2>3. phase' = "leaving" /\ last' = Verdict(call, bad) /\ call' = call BY <1>3 DEF Leaving
  <2> QED BY <2>2, <2>3 DEF ClaimsInv, Progress, LeavesTruthful, SearchClaimsHold
<1>4. CASE ~Guarded(call)
           /\ Critical(bad, IF job.graph = call.g THEN call.g.edges ELSE job.edges)
  <2> DEFINE left == IF job.graph = call.g THEN call.g.edges ELSE job.edges
  <2>0. call.tool = "list_critical" BY <1>0, <1>4 DEF Guarded, Searching
  <2>1. \/ /\ bad <=> job.graph = call.g
           /\ left # {} /\ NextEdge(left)
        \/ /\ ~(left # {} /\ (bad <=> job.graph = call.g))
           /\ Finish(IF job.graph = call.g /\ ~bad THEN Verdict(call, FALSE)
                     ELSE IF bad /\ job.graph # call.g THEN Certified("not critical", call.m)
                     ELSE IF Complete(call) THEN Certified("critical", call.m)
                     ELSE Enumerated("critical", call.m, FALSE))
           /\ call' = call
    BY <1>4 DEF Critical
  <2>2. IsGraph(call.g) BY GraphSearched DEF SearchInv
  <2>3. job.graph # call.g =>
          /\ WholeIsBad
          /\ \E e \in call.g.edges :
               /\ job.graph = DeleteEdge(call.g, e)
               /\ \A d \in call.g.edges : d \in left \cup {e} \/ EdgeIsGood(d)
    BY DEF ClaimsInv, Progress
  <2>4. bad /\ job.graph = call.g => WholeIsBad BY <1>1 DEF WholeIsBad
  <2>5. CASE (bad <=> job.graph = call.g) /\ left # {} /\ NextEdge(left)
    <3>1. PICK e \in left :
            job' = [SearchOf(DeleteEdge(call.g, e), call) EXCEPT !.edges = left \ {e}]
      BY <2>5 DEF NextEdge
    <3>2. call' = call /\ phase' = phase BY <2>5 DEF NextEdge
    <3>3. job'.graph = DeleteEdge(call.g, e) /\ job'.edges = left \ {e}
      BY <3>1 DEF SearchOf
    <3>4. e \in call.g.edges BY <3>1 DEF SearchInv, SearchedGraph
    <3>5. WholeIsBad BY <2>3, <2>4, <2>5
    <3>6. \A d \in call.g.edges : d \in left \/ EdgeIsGood(d)
      <4>1. CASE job.graph = call.g BY <4>1
      <4>2. CASE job.graph # call.g
        <5>1. PICK e0 \in call.g.edges :
                /\ job.graph = DeleteEdge(call.g, e0)
                /\ \A d \in call.g.edges : d \in left \cup {e0} \/ EdgeIsGood(d)
          BY <2>3, <4>2
        <5>2. EdgeIsGood(e0) BY <1>2, <2>5, <4>2, <5>1 DEF EdgeIsGood
        <5> HIDE DEF left
        <5> QED BY <5>1, <5>2
      <4> QED BY <4>1, <4>2
    <3> HIDE DEF left
    <3>7. \A d \in call.g.edges : d \in job'.edges \cup {e} \/ EdgeIsGood(d) BY <3>3, <3>6
    <3>8. WholeIsBad' /\ \A d : EdgeIsGood(d) => EdgeIsGood(d)'
      BY <3>2, <3>5 DEF WholeIsBad, EdgeIsGood
    <3>9. Progress' BY <1>4, <3>2, <3>3, <3>4, <3>7, <3>8 DEF Progress, Guarded
    <3> QED BY <3>2, <3>9 DEF ClaimsInv, LeavesTruthful, SearchClaimsHold
  <2>6. ASSUME NEW o, Finish(o), call' = call, Truthful(call, o) PROVE ClaimsInv'
    <3>1. phase' = "done" /\ last' = o BY <2>6 DEF Finish
    <3> QED BY <2>6, <3>1 DEF ClaimsInv, Progress, LeavesTruthful, SearchClaimsHold
  <2>7. CASE job.graph = call.g /\ ~bad
    <3>1. Truthful(call, Verdict(call, FALSE)) BY <1>0, <1>2, <2>7, VerdictHolds
    <3> QED BY <2>1, <2>6, <2>7, <3>1
  <2>8. CASE bad /\ job.graph # call.g
    <3> DEFINE o == Certified("not critical", call.m)
    <3>1. o.says = "not critical" BY DEF Certified, Claim
    <3> HIDE DEF o
    <3>2. PICK e \in call.g.edges : job.graph = DeleteEdge(call.g, e) BY <2>3, <2>8
    <3>3. IsGraph(job.graph) /\ ~Choosable(DeleteEdge(call.g, e), f, q)
      BY <1>1, <2>2, <2>8, <3>2, EdgeDeleted
    <3>4. ~Critically(call.g, call.m - 1) BY <1>0, <2>0, <3>3, CriticallyIs
    <3>5. Truthful(call, o) BY <3>1, <3>4, ClaimsSay DEF Truthful
    <3>6. Finish(o) /\ call' = call BY <2>1, <2>8 DEF o
    <3> QED BY <2>6, <3>5, <3>6
  <2>9. CASE (bad <=> job.graph = call.g) /\ left = {}
    <3> DEFINE o == Certified("critical", call.m)
               o2 == Enumerated("critical", call.m, FALSE)
    <3>1. o.says = "critical" /\ ~o2.exhaustive BY DEF Certified, Enumerated, Claim
    <3>2. call' = call /\ Finish(IF Complete(call) THEN o ELSE o2) BY <2>1, <2>9
    <3> HIDE DEF o, o2
    <3>3. ASSUME Complete(call) PROVE Critically(call.g, call.m - 1)
      <4>1. WholeIsBad BY <2>3, <2>4, <2>9
      <4>2. \A d \in call.g.edges : EdgeIsGood(d)
        <5>1. CASE job.graph = call.g BY <2>9, <5>1
        <5>2. CASE job.graph # call.g
          <6>1. PICK e0 \in call.g.edges :
                  /\ job.graph = DeleteEdge(call.g, e0)
                  /\ \A d \in call.g.edges : d \in left \cup {e0} \/ EdgeIsGood(d)
            BY <2>3, <5>2
          <6>2. EdgeIsGood(e0) BY <1>2, <2>9, <5>2, <6>1 DEF EdgeIsGood
          <6> HIDE DEF left
          <6> QED BY <2>9, <6>1, <6>2
        <5> QED BY <5>1, <5>2
      <4>3. ASSUME NEW d \in call.g.edges PROVE Choosable(DeleteEdge(call.g, d), f, q)
        <5>1. Choosable(DeleteEdge(call.g, d), f, p) BY <4>2 DEF EdgeIsGood
        <5>2. DeleteEdge(call.g, d).n = call.g.n BY <2>2, EdgeDeleted
        <5> QED BY <1>0, <3>3, <5>1, <5>2, CompleteSuffices
      <4> QED BY <1>0, <2>0, <4>1, <4>3, CriticallyIs DEF WholeIsBad
    <3>4. Truthful(call, o2) BY <3>1 DEF Truthful
    <3>5. Complete(call) => Truthful(call, o) BY <3>1, <3>3, ClaimsSay DEF Truthful
    <3> QED BY <2>6, <3>2, <3>4, <3>5
  <2> QED BY <2>1, <2>5, <2>7, <2>8, <2>9
<1> QED BY <1>3, <1>4 DEF SearchEnds

\* The game and the census run for the tools they belong to.
OwnPhase ==
  /\ phase \in {"packing", "game"} => call.tool \in {"fixer_breaker", "mind"}
  /\ phase = "census" => call.tool = "reed_sweep"

LEMMA OwnPhaseStep == ASSUME OwnPhase, [Next]_vars PROVE OwnPhase'
<1>1. CASE UNCHANGED vars BY <1>1 DEF vars, OwnPhase
<1>2. ASSUME NEW r \in Requests, Answer(r) \/ Refuse(r) PROVE OwnPhase'
  BY <1>2 DEF Answer, Refuse, Finish, OwnPhase
<1>3. ASSUME NEW r \in Requests, Begin(r) PROVE OwnPhase' BY <1>3 DEF Begin, OwnPhase
<1>4. ASSUME NEW r \in Requests, Play(r) PROVE OwnPhase' BY <1>4 DEF Play, OwnPhase
<1>5. ASSUME NEW r \in Requests, AskFixable(r) PROVE OwnPhase'
  BY <1>5 DEF AskFixable, Finish, OwnPhase
<1>6. ASSUME NEW r \in Requests, Sweep(r) PROVE OwnPhase' BY <1>6 DEF Sweep, Finish, OwnPhase
<1>7. ASSUME FindBad \/ Exhaust PROVE OwnPhase'
  <2>1. phase' \in {"search", "leaving", "done"}
    BY <1>7 DEF FindBad, Exhaust, SearchEnds, Leaving, Critical, NextEdge, Finish
  <2> QED BY <2>1 DEF OwnPhase
<1>8. ASSUME Refine \/ Pack \/ Round PROVE OwnPhase' BY <1>8 DEF Refine, Pack, Round, OwnPhase
<1>9. ASSUME Leave \/ GameOver \/ SweepEnds \/ Alarm \/ Deliver PROVE OwnPhase'
  BY <1>9 DEF Leave, GameOver, SweepEnds, Alarm, Deliver, Finish, OwnPhase
<1>10. ASSUME SweepOne PROVE OwnPhase'
  <2>1. phase = "census" /\ (phase' = "done" \/ phase' = phase) /\ call' = call
    BY <1>10 DEF SweepOne, Finish
  <2> QED BY <2>1 DEF OwnPhase
<1>11. ASSUME Deal PROVE OwnPhase'
  <2>1. phase = "packing" /\ phase' \in {"game", "done"} /\ call' = call
    BY <1>11 DEF Deal, Finish
  <2> QED BY <2>1 DEF OwnPhase
<1> QED
  BY <1>1, <1>2, <1>3, <1>4, <1>5, <1>6, <1>7, <1>8, <1>9, <1>10, <1>11 DEF Next, Working

LEMMA ClaimsStep == ASSUME SearchInv, ClaimsInv, OwnPhase, [Next]_vars PROVE ClaimsInv'
<1>1. CASE UNCHANGED vars
  BY <1>1 DEF vars, ClaimsInv, Progress, WholeIsBad, EdgeIsGood, LeavesTruthful, SearchClaimsHold
<1>2. ASSUME phase' \notin {"search", "leaving"}, phase' = "done" => call'.tool \notin Searching
      PROVE  ClaimsInv'
  BY <1>2 DEF ClaimsInv, Progress, LeavesTruthful, SearchClaimsHold
<1>3. ASSUME phase' = "done", last'.kind # "claim" PROVE ClaimsInv'
  BY <1>3 DEF ClaimsInv, Progress, LeavesTruthful, SearchClaimsHold, Truthful
<1>4. ASSUME NEW r \in Requests, Answer(r) PROVE ClaimsInv'
  <2>1. phase' = "done" /\ call' = r /\ r.tool \in Immediate BY <1>4 DEF Answer, Finish
  <2>2. r.tool \notin Searching
    BY <2>1 DEF Immediate, Edits, Combinations, Searching
  <2> QED BY <1>2, <2>1, <2>2
<1>5. ASSUME NEW r \in Requests, Refuse(r) PROVE ClaimsInv'
  <2>1. phase' = "done" /\ last' = Unminted(IF Refused(r) = "out of scope" THEN "inconclusive"
                                            ELSE Refused(r))
    BY <1>5 DEF Refuse, Finish
  <2>2. Refused(r) # "claim" BY DEF Refused
  <2>3. last'.kind # "claim" BY <2>1, <2>2 DEF Unminted
  <2> QED BY <1>3, <2>1, <2>3
<1>6. ASSUME NEW r \in Requests, Begin(r) PROVE ClaimsInv'
  <2>1. phase' = "search" /\ call' = r /\ job'.graph = r.g BY <1>6 DEF Begin, SearchOf
  <2> QED BY <2>1 DEF ClaimsInv, Progress, LeavesTruthful, SearchClaimsHold
<1>7. ASSUME NEW r \in Requests, Play(r) PROVE ClaimsInv' BY <1>2, <1>7 DEF Play
<1>8. ASSUME NEW r \in Requests, AskFixable(r) PROVE ClaimsInv'
  <2>1. phase' = "done" /\ call'.tool = "is_fixable" BY <1>8 DEF AskFixable, Finish
  <2> QED BY <1>2, <2>1 DEF Searching
<1>9. ASSUME NEW r \in Requests, Sweep(r) PROVE ClaimsInv'
  <2>1. phase' \in {"done", "census"} /\ call'.tool = "reed_sweep" BY <1>9 DEF Sweep, Finish
  <2> QED BY <1>2, <2>1 DEF Searching
<1>10. ASSUME Refine PROVE ClaimsInv'
  <2>1. \E coloring : job' = [job EXCEPT !.cands = @ \ Blocked(@, coloring)]
    BY <1>10 DEF Refine
  <2>2. phase = "search" /\ phase' = "search" /\ call' = call BY <1>10 DEF Refine
  <2>3. job'.graph = job.graph /\ job'.edges = job.edges BY <2>1
  <2> QED
    BY <2>2, <2>3 DEF ClaimsInv, Progress, WholeIsBad, EdgeIsGood, LeavesTruthful, SearchClaimsHold
<1>11. ASSUME FindBad PROVE ClaimsInv'
  <2>1. phase = "search" /\ BadFound /\ SearchEnds(TRUE) BY <1>11 DEF FindBad
  <2> QED BY <2>1, ClaimsEnd
<1>12. ASSUME Exhaust PROVE ClaimsInv'
  <2>1. phase = "search" /\ Exhausted /\ SearchEnds(FALSE) BY <1>12 DEF Exhaust
  <2> QED BY <2>1, ClaimsEnd
<1>13. ASSUME Leave PROVE ClaimsInv'
  <2>1. phase = "leaving" /\ phase' = "done" /\ last' = last /\ call' = call
    BY <1>13 DEF Leave, Finish
  <2> QED BY <2>1 DEF ClaimsInv, Progress, LeavesTruthful, SearchClaimsHold
<1>14. ASSUME Alarm PROVE ClaimsInv'
  <2>1. phase' = "done" /\ (last' = Unminted("budget") \/ last' = Unminted("error"))
    BY <1>14 DEF Alarm, Finish
  <2>2. last'.kind # "claim" BY <2>1 DEF Unminted
  <2> QED BY <1>3, <2>1, <2>2
<1>15. ASSUME Pack \/ Round PROVE ClaimsInv' BY <1>2, <1>15 DEF Pack, Round
<1>16. ASSUME Deal \/ GameOver \/ SweepOne \/ SweepEnds PROVE ClaimsInv'
  <2>1. call' = call /\ phase' \in {"done", "game", "census"} /\ phase \in {"packing", "game", "census"}
    BY <1>16 DEF Deal, GameOver, SweepOne, SweepEnds, Finish
  <2>2. call.tool \notin Searching BY <2>1 DEF OwnPhase, Searching
  <2> QED BY <1>2, <2>1, <2>2
<1>17. ASSUME Deliver PROVE ClaimsInv' BY <1>2, <1>17 DEF Deliver
<1> QED
  BY <1>1, <1>4, <1>5, <1>6, <1>7, <1>8, <1>9, <1>10, <1>11, <1>12, <1>13, <1>14, <1>15, <1>16,
     <1>17 DEF Next, Working

\* Every claim that choosability_refute, reducible_configuration or list_critical mints with
\* an exhaustive stamp is true by definition, for all graphs, list sizes and palettes and in
\* whatever order the solver proposes its assignments: what is left out, the renamings of an
\* assignment and the colours beyond the complete palette, decides nothing (choosability.py).
THEOREM SearchClaimsTrue == Spec => []SearchClaimsHold
<1>1. Init => ClaimsInv /\ OwnPhase BY ClaimsBegin DEF Init, OwnPhase
<1>2. SearchInv /\ (ClaimsInv /\ OwnPhase) /\ [Next]_vars => (ClaimsInv /\ OwnPhase)'
  BY ClaimsStep, OwnPhaseStep
<1>3. ClaimsInv /\ OwnPhase => SearchClaimsHold BY DEF ClaimsInv
<1> QED BY <1>1, <1>2, <1>3, SearchAlways, PTL DEF Spec

(***************************************************************************)
(* The game against the definition                                         *)
(***************************************************************************)
LEMMA FiniteChoice ==
    ASSUME NEW L, NEW n \in Nat, \A v \in 0..(n - 1) : IsFiniteSet(L[v])
    PROVE  IsFiniteSet(Selected(L, n))
<1> DEFINE P == {k \in Nat : k <= n => IsFiniteSet(Selected(L, k))}
<1>1. 0 \in P BY NoChoice, FS_Singleton
<1>2. ASSUME NEW k \in Nat, k \in P PROVE k + 1 \in P
  <2> SUFFICES ASSUME k + 1 <= n PROVE IsFiniteSet(Selected(L, k + 1)) OBVIOUS
  <2> DEFINE S == Selected(L, k)
             T == Extended(S, L, k)
             h == [t \in L[k] \X S |-> Longer(t[2], k, t[1])]
  <2>1. IsFiniteSet(L[k]) /\ IsFiniteSet(S) BY <1>2
  <2> HIDE DEF S
  <2>2. IsFiniteSet(L[k] \X S) BY <2>1, FS_Product
  <2>3. \A x \in L[k], f \in S : h[<<x, f>>] = Longer(f, k, x) OBVIOUS
  <2>4. \A t \in L[k] \X S : \E x \in L[k], f \in S : t = <<x, f>> OBVIOUS
  <2>5. h = [t \in L[k] \X S |-> h[t]] OBVIOUS
  <2> HIDE DEF h
  <2>6. \A t \in L[k] \X S : h[t] \in T BY <2>3, <2>4 DEF Extended
  <2>7. \A y \in T : \E t \in L[k] \X S : h[t] = y
    <3> SUFFICES ASSUME NEW y \in T PROVE \E t \in L[k] \X S : h[t] = y OBVIOUS
    <3>1. PICK x \in L[k], f \in S : y = Longer(f, k, x) BY DEF Extended
    <3>2. h[<<x, f>>] = y /\ <<x, f>> \in L[k] \X S BY <2>3, <3>1
    <3> QED BY <3>2
  <2> HIDE DEF T
  <2>8. h \in Surjection(L[k] \X S, T) BY <2>5, <2>6, <2>7 DEF Surjection
  <2>9. IsFiniteSet(T) BY <2>2, <2>8, FS_Surjection
  <2> QED BY <2>9, OneMoreChoice DEF T, S
<1> HIDE DEF P
<1>3. \A k \in Nat : k \in P BY <1>1, <1>2, CountUp, Zenon
<1> QED BY <1>3 DEF P

LEMMA FiniteLists ==
    ASSUME NEW f, NEW n \in Nat, NEW p \in Int
    PROVE  IsFiniteSet(ListsOfSize(f, p, n))
<1> DEFINE lists == [v \in 0..(n - 1) |-> kSubset(f[v], 0..(p - 1))]
<1>1. \A v \in 0..(n - 1) : lists[v] = kSubset(f[v], 0..(p - 1)) OBVIOUS
<1>2. ListsOfSize(f, p, n) = Selections(lists, n) BY DEF ListsOfSize
<1> HIDE DEF lists
<1>3. \A v \in 0..(n - 1) : IsFiniteSet(lists[v])
  <2>1. IsFiniteSet(0..(p - 1)) BY FS_Interval
  <2>2. IsFiniteSet(SUBSET (0..(p - 1))) BY <2>1, FS_SUBSET
  <2>3. \A k : kSubset(k, 0..(p - 1)) \subseteq SUBSET (0..(p - 1)) BY DEF kSubset
  <2> QED BY <1>1, <2>2, <2>3, FS_Subset
<1> QED BY <1>2, <1>3, SelectionsAre, FiniteChoice

LEMMA CanFixGrows ==
    ASSUME NEW L, NEW p, NEW X, NEW Y, X \subseteq Y, CanFix(L, p, X)
    PROVE  CanFix(L, p, Y)
<1> DEFINE Fixes(a, b, X_) ==
             LET S == ExactlyOne(L, a, b)
             IN  /\ a < b /\ S # {}
                 /\ \A parts \in Partitions(S, Cardinality(S)) :
                      \E Q \in (SUBSET parts) \ {{}} : Swap(L, a, b, UNION Q) \in X_
<1>1. PICK a \in 0..(p - 1), b \in 0..(p - 1) : Fixes(a, b, X) BY DEF CanFix
<1>2. Fixes(a, b, Y) BY <1>1
<1> QED BY <1>1, <1>2 DEF CanFix

\* What the rounds add from good on ends at a set that nothing can be added to.
Added(all, p, good) == {L \in all \ good : CanFix(L, p, good)}
AddsOn(f, all, p) ==
    \A good \in SUBSET all :
      f[good] = IF good \cup Added(all, p, good) = good THEN good
                ELSE f[good \cup Added(all, p, good)]

LEMMA FixpointReached ==
    ASSUME NEW all, IsFiniteSet(all), NEW p, NEW f, AddsOn(f, all, p),
           NEW start \in SUBSET all
    PROVE  /\ start \subseteq f[start] /\ f[start] \subseteq all
           /\ \A L \in all : CanFix(L, p, f[start]) => L \in f[start]
<1> DEFINE Good(good) == /\ good \subseteq f[good] /\ f[good] \subseteq all
                         /\ \A L \in all : CanFix(L, p, f[good]) => L \in f[good]
           P == {k \in Nat : \A good \in SUBSET all : Cardinality(all \ good) <= k => Good(good)}
<1>1. \A good \in SUBSET all : IsFiniteSet(all \ good) /\ Cardinality(all \ good) \in Nat
  BY FS_Difference, FS_CardinalityType
<1>2. ASSUME NEW good \in SUBSET all, Added(all, p, good) = {} PROVE Good(good)
  <2>1. good \cup Added(all, p, good) = good BY <1>2
  <2>2. f[good] = good BY <2>1 DEF AddsOn
  <2> QED BY <1>2, <2>2 DEF Added
<1>3. ASSUME NEW good \in SUBSET all, Added(all, p, good) # {}
      PROVE  LET more == good \cup Added(all, p, good)
             IN  /\ more \in SUBSET all /\ f[good] = f[more]
                 /\ Cardinality(all \ more) < Cardinality(all \ good)
  <2> DEFINE more == good \cup Added(all, p, good)
  <2>1. more \in SUBSET all /\ more # good /\ good \subseteq more BY <1>3 DEF Added
  <2>2. f[good] = f[more] BY <2>1 DEF AddsOn
  <2>3. all \ more \in SUBSET (all \ good) /\ all \ more # all \ good BY <2>1
  <2> HIDE DEF more
  <2>4. /\ Cardinality(all \ more) <= Cardinality(all \ good)
        /\ Cardinality(all \ more) # Cardinality(all \ good)
    BY <1>1, <2>3, FS_Subset
  <2>5. Cardinality(all \ more) \in Nat /\ Cardinality(all \ good) \in Nat BY <1>1, <2>1
  <2>6. Cardinality(all \ more) < Cardinality(all \ good) BY <2>4, <2>5
  <2> QED BY <2>1, <2>2, <2>6 DEF more
<1>4. 0 \in P
  <2> SUFFICES ASSUME NEW good \in SUBSET all, Cardinality(all \ good) <= 0 PROVE Good(good)
    OBVIOUS
  <2>1. Cardinality(all \ good) = 0 BY <1>1
  <2>2. all \ good = {} BY <1>1, <2>1, FS_EmptySet
  <2>3. Added(all, p, good) = {} BY <2>2 DEF Added
  <2> HIDE DEF Good
  <2> QED BY <1>2, <2>3
<1>5. ASSUME NEW k \in Nat, k \in P PROVE k + 1 \in P
  <2> SUFFICES ASSUME NEW good \in SUBSET all, Cardinality(all \ good) <= k + 1 PROVE Good(good)
    OBVIOUS
  <2>1. CASE Added(all, p, good) = {}
    <3> HIDE DEF Good
    <3> QED BY <1>2, <2>1
  <2>2. CASE Added(all, p, good) # {}
    <3> DEFINE more == good \cup Added(all, p, good)
    <3>1. /\ more \in SUBSET all /\ f[good] = f[more]
          /\ Cardinality(all \ more) < Cardinality(all \ good)
      BY <1>3, <2>2
    <3>2. good \subseteq more OBVIOUS
    <3> HIDE DEF more
    <3>3. Cardinality(all \ more) \in Nat /\ Cardinality(all \ good) \in Nat BY <1>1, <3>1
    <3>4. Cardinality(all \ more) <= k BY <3>1, <3>3
    <3>5. Good(more) BY <1>5, <3>1, <3>4
    <3> QED BY <3>1, <3>2, <3>5
  <2> QED BY <2>1, <2>2
<1> HIDE DEF P
<1>6. \A k \in Nat : k \in P BY <1>4, <1>5, CountUp, Zenon
<1>7. Cardinality(all \ start) \in P /\ Cardinality(all \ start) <= Cardinality(all \ start)
  <2>1. Cardinality(all \ start) \in Nat BY <1>1
  <2> QED BY <1>6, <2>1
<1> HIDE DEF Good
<1>8. Good(start) BY <1>7 DEF P
<1> QED BY <1>8 DEF Good

\* The least set that the colourable assignments are in, and what can be fixed from it.
LEMMA FixableClosed ==
    ASSUME NEW g, g.n \in Nat, NEW f, NEW p \in Int
    PROVE  LET all == ListsOfSize(f, p, g.n)
               fixable == FixableByDefinition(g, f, p)
           IN  /\ \A L \in all : EdgeColorableFrom(g, L) => L \in fixable
               /\ \A L \in all : CanFix(L, p, fixable) => L \in fixable
<1> DEFINE all == ListsOfSize(f, p, g.n)
           Row(s, good) == LET more == good \cup {L \in all \ good : CanFix(L, p, good)}
                           IN  IF more = good THEN good ELSE s[more]
           Solves(s) == s = [good \in SUBSET all |-> Row(s, good)]
           Closed(X) == X \in SUBSET all /\ Added(all, p, X) = {}
           least == [good \in SUBSET all |->
                       {L \in all : \A X : Closed(X) /\ good \subseteq X => L \in X}]
           fixable == CHOOSE s : Solves(s)
           start == {L \in all : EdgeColorableFrom(g, L)}
<1>1. IsFiniteSet(all) BY FiniteLists
<1>2. \A s, good : Row(s, good) = LET more == good \cup Added(all, p, good)
                                  IN  IF more = good THEN good ELSE s[more]
  BY DEF Added
<1>3. FixableByDefinition(g, f, p) = fixable[start] BY DEF FixableByDefinition
<1> HIDE DEF all, Row
<1>4. ASSUME NEW good \in SUBSET all PROVE Row(least, good) = least[good]
  <2> DEFINE more == good \cup Added(all, p, good)
  <2>1. more \in SUBSET all BY DEF Added
  <2>2. least[good] = {L \in all : \A X : Closed(X) /\ good \subseteq X => L \in X} OBVIOUS
  <2>3. least[more] = {L \in all : \A X : Closed(X) /\ more \subseteq X => L \in X} BY <2>1
  <2> HIDE DEF least
  <2>4. CASE more = good
    <3>1. Added(all, p, good) = {} BY <2>4 DEF Added
    <3>2. Closed(good) BY <3>1
    <3>3. least[good] = good BY <2>2, <3>2
    <3> QED BY <1>2, <2>4, <3>3
  <2>5. CASE more # good
    <3>1. ASSUME NEW X, Closed(X), good \subseteq X PROVE more \subseteq X
      <4>1. \A L \in Added(all, p, good) : L \in all /\ CanFix(L, p, X)
        BY <3>1, CanFixGrows DEF Added
      <4> QED BY <3>1, <4>1 DEF Added
    <3>2. \A X : Closed(X) => (good \subseteq X <=> more \subseteq X) BY <3>1
    <3> HIDE DEF more, Closed
    <3>3. least[good] = least[more] BY <2>2, <2>3, <3>2
    <3> QED BY <1>2, <2>5, <3>3 DEF more
  <2> QED BY <2>4, <2>5
<1>5. Solves(least)
  <2>1. least = [good \in SUBSET all |-> least[good]] OBVIOUS
  <2> HIDE DEF least
  <2> QED BY <1>4, <2>1
<1>6. Solves(fixable)
  <2> HIDE DEF Solves
  <2> QED BY <1>5
<1> HIDE DEF least
<1>7. \A good \in SUBSET all : fixable[good] = Row(fixable, good)
  <2> HIDE DEF fixable
  <2> QED BY <1>6
<1> HIDE DEF fixable
<1>8. AddsOn(fixable, all, p) BY <1>2, <1>7 DEF AddsOn
<1>9. start \in SUBSET all OBVIOUS
<1> HIDE DEF start
<1>10. /\ start \subseteq fixable[start]
       /\ \A L \in all : CanFix(L, p, fixable[start]) => L \in fixable[start]
  BY <1>1, <1>8, <1>9, FixpointReached
<1> QED BY <1>3, <1>10 DEF all, start

(***************************************************************************)
(* Boards as counts of their classes                                       *)
(***************************************************************************)
Count(board, X) == IF X \in DOMAIN board THEN board[X] ELSE 0
IsBoard(board) ==
    /\ board = [X \in DOMAIN board |-> board[X]]
    /\ \A X \in DOMAIN board : board[X] \in Nat /\ board[X] > 0

LEMMA SameBoard ==
    ASSUME NEW B, NEW C, IsBoard(B), IsBoard(C), \A X : Count(B, X) = Count(C, X)
    PROVE  B = C
<1>1. \A X : X \in DOMAIN B <=> Count(B, X) # 0 BY DEF IsBoard, Count
<1>2. \A X : X \in DOMAIN C <=> Count(C, X) # 0 BY DEF IsBoard, Count
<1>3. DOMAIN B = DOMAIN C BY <1>1, <1>2
<1>4. \A X \in DOMAIN B : B[X] = C[X] BY <1>3 DEF Count
<1> QED BY <1>3, <1>4 DEF IsBoard

PotColors(p) == 0..(p - 1)
ColorsWith(L, p, X) == {c \in PotColors(p) : Class(L, c) = X}

LEMMA FiniteColors ==
    ASSUME NEW p \in Int, NEW C \in SUBSET PotColors(p)
    PROVE  IsFiniteSet(C) /\ Cardinality(C) \in Nat
<1>1. IsFiniteSet(PotColors(p)) BY FS_Interval DEF PotColors
<1> QED BY <1>1, FS_Subset, FS_CardinalityType

LEMMA BoardCounts ==
    ASSUME NEW L, NEW p \in Int
    PROVE  /\ IsBoard(BoardOf(L, p))
           /\ Count(BoardOf(L, p), {}) = 0
           /\ \A X : X # {} => Count(BoardOf(L, p), X) = Cardinality(ColorsWith(L, p, X))
<1> DEFINE used == {c \in 0..(p - 1) : Class(L, c) # {}}
           board == [S \in {Class(L, c) : c \in used} |-> Cardinality({c \in used : Class(L, c) = S})]
<1>1. BoardOf(L, p) = board BY DEF BoardOf
<1>2. DOMAIN board = {Class(L, c) : c \in used} OBVIOUS
<1>3. ASSUME NEW X, X # {} PROVE {c \in used : Class(L, c) = X} = ColorsWith(L, p, X)
  BY <1>3 DEF ColorsWith, PotColors
<1>4. \A c \in used : c \in PotColors(p) /\ Class(L, c) # {} BY DEF PotColors
<1>5. \A X \in DOMAIN board : X # {} /\ board[X] = Cardinality(ColorsWith(L, p, X))
  BY <1>2, <1>3
<1>6. \A X \in DOMAIN board : ColorsWith(L, p, X) # {} BY <1>2 DEF ColorsWith, PotColors
<1>7. \A X : ColorsWith(L, p, X) \in SUBSET PotColors(p) BY DEF ColorsWith
<1>8. \A X : /\ IsFiniteSet(ColorsWith(L, p, X)) /\ Cardinality(ColorsWith(L, p, X)) \in Nat
             /\ Cardinality(ColorsWith(L, p, X)) = 0 <=> ColorsWith(L, p, X) = {}
  BY <1>7, FiniteColors, FS_EmptySet
<1>9. \A X : X # {} /\ X \notin DOMAIN board => ColorsWith(L, p, X) = {}
  BY <1>2 DEF ColorsWith, PotColors
<1>10. board = [X \in DOMAIN board |-> board[X]] BY <1>2
<1> HIDE DEF board
<1>11. IsBoard(board) BY <1>5, <1>6, <1>8, <1>10 DEF IsBoard
<1>12. {} \notin DOMAIN board BY <1>5
<1>13. \A X : X # {} => Count(board, X) = Cardinality(ColorsWith(L, p, X))
  BY <1>5, <1>8, <1>9 DEF Count
<1> QED BY <1>1, <1>11, <1>12, <1>13 DEF Count

\* One more of S, unless it is empty.
LEMMA CountAdded ==
    ASSUME NEW B, IsBoard(B), NEW S
    PROVE  /\ IsBoard(AddClass(B, S))
           /\ \A X : Count(AddClass(B, S), X) = Count(B, X) + IF X = S /\ S # {} THEN 1 ELSE 0
<1> DEFINE E == SetToBag({S} \ {{}})
           C == B (+) E
<1>1. AddClass(B, S) = C BY DEF AddClass
<1>2. DOMAIN E = {S} \ {{}} /\ \A X \in DOMAIN E : E[X] = 1 BY DEF SetToBag
<1> HIDE DEF E
<1>3. /\ DOMAIN C = DOMAIN B \cup DOMAIN E
      /\ \A X \in DOMAIN C : C[X] = Count(B, X) + Count(E, X)
      /\ C = [X \in DOMAIN C |-> C[X]]
  BY DEF (+), Count
<1> HIDE DEF C
<1>4. \A X : Count(B, X) \in Nat /\ (X \in DOMAIN B <=> Count(B, X) > 0)
  BY DEF IsBoard, Count
<1>5. \A X : Count(E, X) = IF X = S /\ S # {} THEN 1 ELSE 0 BY <1>2 DEF Count
<1>6. \A X : X \in DOMAIN E <=> Count(E, X) > 0 BY <1>2 DEF Count
<1>7. \A X : Count(C, X) = Count(B, X) + Count(E, X)
  <2> SUFFICES ASSUME NEW X PROVE Count(C, X) = Count(B, X) + Count(E, X) OBVIOUS
  <2>1. CASE X \in DOMAIN C BY <1>3, <2>1 DEF Count
  <2>2. CASE X \notin DOMAIN C
    <3>1. Count(C, X) = 0 /\ Count(B, X) = 0 /\ Count(E, X) = 0 BY <1>3, <2>2 DEF Count
    <3> QED BY <3>1
  <2> QED BY <2>1, <2>2
<1>8. \A X \in DOMAIN C : C[X] \in Nat /\ C[X] > 0
  BY <1>3, <1>4, <1>5, <1>6
<1>9. IsBoard(C) BY <1>3, <1>8 DEF IsBoard
<1> QED BY <1>1, <1>5, <1>7, <1>9

\* One less of each of two classes it has.
LEMMA CountRemoved ==
    ASSUME NEW B, IsBoard(B), NEW S \in DOMAIN B, NEW T \in DOMAIN B, S # T
    PROVE  LET C == B (-) SetToBag({S, T})
           IN  /\ IsBoard(C)
               /\ \A X : Count(C, X) = Count(B, X) - IF X \in {S, T} THEN 1 ELSE 0
<1> DEFINE E == SetToBag({S, T})
           D == [e \in DOMAIN B |-> IF e \in DOMAIN E THEN B[e] - E[e] ELSE B[e]]
           C == [e \in {d \in DOMAIN D : D[d] > 0} |-> D[e]]
<1>1. B (-) E = C BY DEF (-)
<1>2. DOMAIN E = {S, T} /\ \A X \in {S, T} : E[X] = 1 BY DEF SetToBag
<1> HIDE DEF E
<1>3. /\ DOMAIN D = DOMAIN B
      /\ \A X \in DOMAIN B : D[X] = B[X] - IF X \in {S, T} THEN 1 ELSE 0
  BY <1>2 DEF IsBoard
<1>4. \A X \in DOMAIN B : B[X] \in Nat /\ B[X] > 0 BY DEF IsBoard
<1> HIDE DEF D
<1>5. /\ \A X : X \in DOMAIN C <=> X \in DOMAIN B /\ D[X] > 0
      /\ \A X \in DOMAIN C : C[X] = D[X]
      /\ C = [X \in DOMAIN C |-> C[X]]
  BY <1>3
<1> HIDE DEF C
<1>6. IsBoard(C) BY <1>3, <1>4, <1>5 DEF IsBoard
<1>7. ASSUME NEW X PROVE Count(C, X) = Count(B, X) - IF X \in {S, T} THEN 1 ELSE 0
  <2>1. CASE X \notin DOMAIN B
    <3>1. X \notin DOMAIN C /\ X \notin {S, T} BY <1>5, <2>1
    <3> QED BY <2>1, <3>1 DEF Count
  <2>2. CASE X \in DOMAIN B
    <3>1. Count(B, X) = B[X] /\ B[X] \in Nat /\ B[X] > 0 BY <1>4, <2>2 DEF Count
    <3>2. D[X] = B[X] - IF X \in {S, T} THEN 1 ELSE 0 BY <1>3, <2>2
    <3>3. D[X] \in Nat BY <3>1, <3>2
    <3>4. Count(C, X) = D[X] BY <1>5, <2>2, <3>3 DEF Count
    <3> QED BY <3>1, <3>2, <3>4
  <2> QED BY <2>1, <2>2
<1> QED BY <1>1, <1>6, <1>7 DEF E

LEMMA SwapCounts ==
    ASSUME NEW B, IsBoard(B), NEW S \in DOMAIN B, NEW T \in DOMAIN B, S # T, NEW R
    PROVE  /\ IsBoard(FromSwap(B, S, T, R))
           /\ \A X : Count(FromSwap(B, S, T, R), X) =
                       Count(B, X) - (IF X \in {S, T} THEN 1 ELSE 0)
                       + (IF X = SymmetricDifference(S, R) /\ X # {} THEN 1 ELSE 0)
                       + (IF X = SymmetricDifference(T, R) /\ X # {} THEN 1 ELSE 0)
<1> DEFINE C == B (-) SetToBag({S, T})
           D == AddClass(C, SymmetricDifference(S, R))
           E == AddClass(D, SymmetricDifference(T, R))
<1>1. FromSwap(B, S, T, R) = E BY DEF FromSwap
<1>2. IsBoard(C) /\ \A X : Count(C, X) = Count(B, X) - IF X \in {S, T} THEN 1 ELSE 0
  BY CountRemoved
<1> HIDE DEF C
<1>3. /\ IsBoard(D)
      /\ \A X : Count(D, X) = Count(C, X)
                              + IF X = SymmetricDifference(S, R) /\ SymmetricDifference(S, R) # {}
                                THEN 1 ELSE 0
  BY <1>2, CountAdded
<1> HIDE DEF D
<1>4. /\ IsBoard(E)
      /\ \A X : Count(E, X) = Count(D, X)
                              + IF X = SymmetricDifference(T, R) /\ SymmetricDifference(T, R) # {}
                                THEN 1 ELSE 0
  BY <1>3, CountAdded
<1> HIDE DEF E
<1> QED BY <1>1, <1>2, <1>3, <1>4

\* In one of the two classes and not in the other.
LEMMA ExactlyOneIs ==
    ASSUME NEW L, NEW a, NEW b, NEW v
    PROVE  v \in ExactlyOne(L, a, b) <=> v \in DOMAIN L /\ (a \in L[v] <=> b \notin L[v])
<1>1. CASE a \in L[v]
  <2>1. (a \in L[v]) = TRUE BY <1>1
  <2>2. CASE b \in L[v]
    <3>1. (b \in L[v]) = TRUE BY <2>2
    <3> QED BY <1>1, <2>1, <2>2, <3>1 DEF ExactlyOne
  <2>3. CASE b \notin L[v]
    <3>1. (b \in L[v]) = FALSE BY <2>3
    <3> QED BY <1>1, <2>1, <2>3, <3>1 DEF ExactlyOne
  <2> QED BY <2>2, <2>3
<1>2. CASE a \notin L[v]
  <2>1. (a \in L[v]) = FALSE BY <1>2
  <2>2. CASE b \in L[v]
    <3>1. (b \in L[v]) = TRUE BY <2>2
    <3> QED BY <1>2, <2>1, <2>2, <3>1 DEF ExactlyOne
  <2>3. CASE b \notin L[v]
    <3>1. (b \in L[v]) = FALSE BY <2>3
    <3> QED BY <1>2, <2>1, <2>3, <3>1 DEF ExactlyOne
  <2> QED BY <2>2, <2>3
<1> QED BY <1>1, <1>2

\* Swapping colours a and b on R moves R between their classes and touches no other.
LEMMA SwapClasses ==
    ASSUME NEW n \in Nat, NEW L, IsTable(L, n), NEW a, NEW b, a # b,
           NEW R \in SUBSET ExactlyOne(L, a, b)
    PROVE  LET M == Swap(L, a, b, R)
           IN  /\ IsTable(M, n)
               /\ Class(M, a) = SymmetricDifference(Class(L, a), R)
               /\ Class(M, b) = SymmetricDifference(Class(L, b), R)
               /\ \A c : c \notin {a, b} => Class(M, c) = Class(L, c)
<1> DEFINE M == Swap(L, a, b, R)
           V == 0..(n - 1)
<1>1. DOMAIN L = V BY DEF IsTable
<1>2. IsTable(M, n) /\ DOMAIN M = V BY <1>1 DEF Swap, IsTable
<1>3. /\ \A v \in V \ R : M[v] = L[v]
      /\ \A v \in R : v \in V /\ (a \in L[v] <=> b \notin L[v])
                      /\ M[v] = IF a \in L[v] THEN (L[v] \ {a}) \cup {b} ELSE (L[v] \ {b}) \cup {a}
  BY <1>1, ExactlyOneIs DEF Swap
<1> HIDE DEF M, V
<1>4. \A v \in R : v \in V BY <1>3
<1>5. \A v \in R : /\ a \in M[v] <=> a \notin L[v]
                   /\ b \in M[v] <=> b \notin L[v]
                   /\ \A c : c \notin {a, b} => (c \in M[v] <=> c \in L[v])
  BY <1>3
<1>6. Class(M, a) = SymmetricDifference(Class(L, a), R)
  <2>1. ASSUME NEW v
        PROVE  v \in Class(M, a) <=> (v \in R /\ a \notin L[v]) \/ (v \in V \ R /\ a \in L[v])
    <3>1. v \in Class(M, a) <=> v \in V /\ a \in M[v] BY <1>2 DEF Class
    <3>2. v \in R => (a \in M[v] <=> a \notin L[v]) BY <1>5
    <3>3. v \in V /\ v \notin R => M[v] = L[v] BY <1>3
    <3>4. v \in R => v \in V BY <1>4
    <3> QED BY <3>1, <3>2, <3>3, <3>4
  <2>2. ASSUME NEW v
        PROVE  v \in SymmetricDifference(Class(L, a), R)
               <=> (v \in R /\ a \notin L[v]) \/ (v \in V \ R /\ a \in L[v])
    BY <1>1, <1>4 DEF SymmetricDifference, Class
  <2>3. \A v : v \in Class(M, a) <=> v \in SymmetricDifference(Class(L, a), R)
    BY <2>1, <2>2
  <2> QED BY <2>3
<1>7. Class(M, b) = SymmetricDifference(Class(L, b), R)
  <2>1. ASSUME NEW v
        PROVE  v \in Class(M, b) <=> (v \in R /\ b \notin L[v]) \/ (v \in V \ R /\ b \in L[v])
    <3>1. v \in Class(M, b) <=> v \in V /\ b \in M[v] BY <1>2 DEF Class
    <3>2. v \in R => (b \in M[v] <=> b \notin L[v]) BY <1>5
    <3>3. v \in V /\ v \notin R => M[v] = L[v] BY <1>3
    <3>4. v \in R => v \in V BY <1>4
    <3> QED BY <3>1, <3>2, <3>3, <3>4
  <2>2. ASSUME NEW v
        PROVE  v \in SymmetricDifference(Class(L, b), R)
               <=> (v \in R /\ b \notin L[v]) \/ (v \in V \ R /\ b \in L[v])
    BY <1>1, <1>4 DEF SymmetricDifference, Class
  <2>3. \A v : v \in Class(M, b) <=> v \in SymmetricDifference(Class(L, b), R)
    BY <2>1, <2>2
  <2> QED BY <2>3
<1>8. ASSUME NEW c, c \notin {a, b} PROVE Class(M, c) = Class(L, c)
  <2>1. \A v : v \in Class(M, c) <=> v \in Class(L, c) BY <1>1, <1>2, <1>3, <1>5, <1>8 DEF Class
  <2>2. \A v \in Class(M, c) : v \in Class(L, c) BY <2>1
  <2> QED BY <2>1 DEF Class
<1> QED BY <1>2, <1>6, <1>7, <1>8 DEF M, V

\* The sizes of the lists and the pot stay.
LEMMA SwapKeepsSizes ==
    ASSUME NEW n \in Nat, NEW f, NEW p \in Int, NEW L \in ListsOfSize(f, p, n),
           NEW a \in PotColors(p), NEW b \in PotColors(p), a # b, NEW R \in SUBSET ExactlyOne(L, a, b)
    PROVE  Swap(L, a, b, R) \in ListsOfSize(f, p, n)
<1> DEFINE M == Swap(L, a, b, R)
           V == 0..(n - 1)
<1>1. IsTable(L, n) /\ \A v \in V : L[v] \in kSubset(f[v], PotColors(p)) BY ListsAt DEF PotColors
<1>2. IsTable(M, n) BY <1>1, SwapClasses
<1>3. DOMAIN L = V BY <1>1 DEF IsTable
<1>4. /\ \A v \in V \ R : M[v] = L[v]
      /\ \A v \in R : v \in V /\ (a \in L[v] <=> b \notin L[v])
                      /\ M[v] = IF a \in L[v] THEN (L[v] \ {a}) \cup {b} ELSE (L[v] \ {b}) \cup {a}
  BY <1>3, ExactlyOneIs DEF Swap
<1> HIDE DEF M
<1>5. ASSUME NEW X \in SUBSET PotColors(p), NEW c \in X, NEW d \in PotColors(p) \ X
      PROVE  LET Y == (X \ {c}) \cup {d} IN Y \in SUBSET PotColors(p) /\ Cardinality(Y) = Cardinality(X)
  <2>1. IsFiniteSet(X) /\ Cardinality(X) \in Nat BY FiniteColors
  <2>2. IsFiniteSet(X \ {c}) /\ Cardinality(X \ {c}) = Cardinality(X) - 1
    BY <2>1, FS_RemoveElement
  <2>3. d \notin X \ {c} OBVIOUS
  <2>4. Cardinality((X \ {c}) \cup {d}) = Cardinality(X \ {c}) + 1 BY <2>2, <2>3, FS_AddElement
  <2> QED BY <2>1, <2>2, <2>4
<1>6. ASSUME NEW v \in V PROVE M[v] \in kSubset(f[v], PotColors(p))
  <2>1. L[v] \in SUBSET PotColors(p) /\ Cardinality(L[v]) = f[v] BY <1>1 DEF kSubset
  <2>2. CASE v \notin R BY <1>1, <1>4, <2>2
  <2>3. CASE v \in R /\ a \in L[v]
    <3>1. b \in PotColors(p) \ L[v] /\ M[v] = (L[v] \ {a}) \cup {b} BY <1>4, <2>3
    <3>2. M[v] \in SUBSET PotColors(p) /\ Cardinality(M[v]) = Cardinality(L[v])
      BY <1>5, <2>1, <2>3, <3>1
    <3> QED BY <2>1, <3>2 DEF kSubset
  <2>4. CASE v \in R /\ a \notin L[v]
    <3>1. a \in PotColors(p) \ L[v] /\ b \in L[v] /\ M[v] = (L[v] \ {b}) \cup {a} BY <1>4, <2>4
    <3>2. M[v] \in SUBSET PotColors(p) /\ Cardinality(M[v]) = Cardinality(L[v])
      BY <1>5, <2>1, <3>1
    <3> QED BY <2>1, <3>2 DEF kSubset
  <2> QED BY <2>2, <2>3, <2>4
<1> QED BY <1>2, <1>6, ListsAt DEF M, PotColors

\* Z, and color when it has the class X too.
With(Z, color, class, X) == Z \cup IF class = X THEN {color} ELSE {}

LEMMA WithCount ==
    ASSUME NEW p \in Int, NEW Z \in SUBSET PotColors(p), NEW color \in PotColors(p) \ Z,
           NEW class, NEW X
    PROVE  /\ With(Z, color, class, X) \in SUBSET PotColors(p)
           /\ Cardinality(With(Z, color, class, X)) =
                Cardinality(Z) + IF class = X THEN 1 ELSE 0
<1>1. IsFiniteSet(Z) /\ Cardinality(Z) \in Nat BY FiniteColors
<1>2. CASE class = X
  <2>1. With(Z, color, class, X) = Z \cup {color} BY <1>2 DEF With
  <2>2. Cardinality(Z \cup {color}) = Cardinality(Z) + 1 BY <1>1, FS_AddElement
  <2> QED BY <1>2, <2>1, <2>2
<1>3. CASE class # X
  <2>1. With(Z, color, class, X) = Z BY <1>3 DEF With
  <2> QED BY <1>1, <1>3, <2>1
<1> QED BY <1>2, <1>3

\* What the swap makes of the board is what the game says it makes.
LEMMA SwapIsFromSwap ==
    ASSUME NEW n \in Nat, NEW L, IsTable(L, n), NEW p \in Int,
           NEW a \in PotColors(p), NEW b \in PotColors(p),
           NEW S, NEW T, S # T, S # {}, T # {}, Class(L, a) = S, Class(L, b) = T,
           NEW R \in SUBSET ExactlyOne(L, a, b)
    PROVE  BoardOf(Swap(L, a, b, R), p) = FromSwap(BoardOf(L, p), S, T, R)
<1> DEFINE M == Swap(L, a, b, R)
           B == BoardOf(L, p)
           C == BoardOf(M, p)
           D == FromSwap(B, S, T, R)
           U == SymmetricDifference(S, R)
           W == SymmetricDifference(T, R)
<1>1. a # b OBVIOUS
<1>2. /\ Class(M, a) = U /\ Class(M, b) = W
      /\ \A c : c \notin {a, b} => Class(M, c) = Class(L, c)
  BY <1>1, SwapClasses
<1>3. /\ IsBoard(B) /\ Count(B, {}) = 0
      /\ \A X : X # {} => Count(B, X) = Cardinality(ColorsWith(L, p, X))
  BY BoardCounts
<1>4. /\ IsBoard(C) /\ Count(C, {}) = 0
      /\ \A X : X # {} => Count(C, X) = Cardinality(ColorsWith(M, p, X))
  BY BoardCounts
<1>5. S \in DOMAIN B /\ T \in DOMAIN B BY DEF BoardOf, PotColors
<1>6. /\ IsBoard(D)
      /\ \A X : Count(D, X) = Count(B, X) - (IF X \in {S, T} THEN 1 ELSE 0)
                              + (IF X = U /\ X # {} THEN 1 ELSE 0)
                              + (IF X = W /\ X # {} THEN 1 ELSE 0)
  BY <1>3, <1>5, SwapCounts
<1> HIDE DEF M, B, C, D, U, W
<1>7. ASSUME NEW X PROVE Count(C, X) = Count(D, X)
  <2> DEFINE Z == {c \in PotColors(p) \ {a, b} : Class(L, c) = X}
             old == With(Z, a, S, X)
             new == With(Z, a, U, X)
  <2>1. CASE X = {}
    <3>1. Count(D, X) = 0 BY <1>3, <1>5, <1>6, <2>1
    <3> QED BY <1>4, <2>1, <3>1
  <2>2. CASE X # {}
    <3>1. ColorsWith(L, p, X) = With(old, b, T, X) BY DEF ColorsWith, With
    <3>2. ColorsWith(M, p, X) = With(new, b, W, X) BY <1>2 DEF ColorsWith, With
    <3>3. Z \in SUBSET PotColors(p) /\ a \notin Z /\ b \notin Z OBVIOUS
    <3> HIDE DEF Z
    <3>4. Cardinality(Z) \in Nat BY <3>3, FiniteColors
    <3>5. a \in PotColors(p) \ Z BY <3>3
    <3>6. b \notin old /\ b \notin new BY <1>1, <3>3 DEF With
    <3>7. /\ old \in SUBSET PotColors(p)
           /\ Cardinality(old) = Cardinality(Z) + IF S = X THEN 1 ELSE 0
      BY <3>3, <3>5, WithCount
    <3>8. /\ new \in SUBSET PotColors(p)
          /\ Cardinality(new) = Cardinality(Z) + IF U = X THEN 1 ELSE 0
      BY <3>3, <3>5, WithCount
    <3> HIDE DEF old, new
    <3>9. Cardinality(With(old, b, T, X)) = Cardinality(old) + IF T = X THEN 1 ELSE 0
      BY <3>6, <3>7, WithCount
    <3>10. Cardinality(With(new, b, W, X)) = Cardinality(new) + IF W = X THEN 1 ELSE 0
      BY <3>6, <3>8, WithCount
    <3>11. Count(B, X) = Cardinality(Z) + (IF S = X THEN 1 ELSE 0) + (IF T = X THEN 1 ELSE 0)
      BY <1>3, <2>2, <3>1, <3>4, <3>7, <3>9
    <3>12. Count(C, X) = Cardinality(Z) + (IF U = X THEN 1 ELSE 0) + (IF W = X THEN 1 ELSE 0)
      BY <1>4, <2>2, <3>2, <3>4, <3>8, <3>10
    <3>13. Count(D, X) = Count(B, X) - (IF X \in {S, T} THEN 1 ELSE 0)
                         + (IF X = U THEN 1 ELSE 0) + (IF X = W THEN 1 ELSE 0)
      BY <1>6, <2>2
    <3> QED BY <3>4, <3>11, <3>12, <3>13
  <2> QED BY <2>1, <2>2
<1>8. C = D BY <1>4, <1>6, <1>7, SameBoard
<1> QED BY <1>8 DEF C, D, M, B

\* A colouring of the edges by the colours of the board is one from the lists: the colours
\* of a class are numbered on both sides.
LEMMA ColorableBoard ==
    ASSUME NEW g, IsGraph(g), NEW L, IsTable(L, g.n), NEW p \in Int,
           EdgeColorable(g.edges, BoardOf(L, p))
    PROVE  EdgeColorableFrom(g, L)
<1> DEFINE B == BoardOf(L, p)
           V == 0..(g.n - 1)
           listed(S) == ColorsWith(L, p, S)
           name == [S \in DOMAIN B |-> CHOOSE f : f \in Bijection(1..B[S], listed(S))]
<1>1. DOMAIN L = V BY DEF IsTable
<1>2. \A e \in g.edges : e \subseteq V /\ e # {}
  <2> SUFFICES ASSUME NEW e \in g.edges PROVE e \subseteq V /\ e # {} OBVIOUS
  <2>1. e \subseteq V /\ Cardinality(e) = 2 BY DEF IsGraph, Pairs, kSubset, Vertices
  <2>2. e # {} BY <2>1, FS_EmptySet
  <2> QED BY <2>1, <2>2
<1>3. PICK color \in [g.edges -> ColorsOf(B)] :
        /\ \A e \in g.edges : e \subseteq color[e][1]
        /\ \A e, f \in g.edges : e # f /\ e \cap f # {} => color[e] # color[f]
  BY DEF EdgeColorable
<1>4. /\ IsBoard(B) /\ Count(B, {}) = 0
      /\ \A X \in DOMAIN B : X # {} => B[X] = Cardinality(listed(X))
  BY BoardCounts DEF Count
<1> HIDE DEF B
<1>5. \A X \in DOMAIN B : X # {} BY <1>4 DEF Count, IsBoard
<1>6. ASSUME NEW S \in DOMAIN B PROVE name[S] \in Bijection(1..B[S], listed(S))
  <2>1. listed(S) \in SUBSET PotColors(p) BY DEF ColorsWith
  <2>2. IsFiniteSet(listed(S)) BY <2>1, FiniteColors
  <2>3. ExistsBijection(1..Cardinality(listed(S)), listed(S)) BY <2>2, FS_CardinalityType
  <2>4. \E f : f \in Bijection(1..B[S], listed(S)) BY <1>4, <1>5, <2>3 DEF ExistsBijection
  <2> QED BY <2>4
<1> HIDE DEF name
<1> DEFINE own == [e \in g.edges |-> name[color[e][1]][color[e][2]]]
<1>7. ASSUME NEW e \in g.edges
      PROVE  /\ color[e] = <<color[e][1], color[e][2]>>
             /\ color[e][1] \in DOMAIN B /\ color[e][2] \in 1..B[color[e][1]]
             /\ own[e] \in PotColors(p) /\ Class(L, own[e]) = color[e][1]
             /\ own[e] = name[color[e][1]][color[e][2]]
  <2>1. PICK S \in DOMAIN B : color[e] \in {S} \X (1..B[S]) BY <1>3 DEF ColorsOf
  <2>2. color[e] = <<color[e][1], color[e][2]>> /\ color[e][1] = S /\ color[e][2] \in 1..B[S]
    BY <2>1
  <2>3. name[S] \in [1..B[S] -> listed(S)] BY <1>6 DEF Bijection, Injection
  <2>4. name[S][color[e][2]] \in listed(S) BY <2>2, <2>3
  <2>5. own[e] = name[S][color[e][2]] BY <2>2
  <2> HIDE DEF own
  <2>6. own[e] \in PotColors(p) /\ Class(L, own[e]) = S BY <2>4, <2>5 DEF ColorsWith
  <2> QED BY <2>2, <2>5, <2>6
<1>8. own = [e \in g.edges |-> own[e]] OBVIOUS
<1> HIDE DEF own
<1>9. \A e \in g.edges : \A v \in e : v \in DOMAIN L /\ own[e] \in L[v]
  BY <1>2, <1>3, <1>7 DEF Class
<1>10. own \in [g.edges -> UNION {L[v] : v \in DOMAIN L}]
  <2>1. \A e \in g.edges : own[e] \in UNION {L[v] : v \in DOMAIN L} BY <1>2, <1>9
  <2> QED BY <1>8, <2>1
<1>11. ASSUME NEW e \in g.edges, NEW f \in g.edges, e # f, e \cap f # {} PROVE own[e] # own[f]
  <2> SUFFICES ASSUME own[e] = own[f] PROVE FALSE OBVIOUS
  <2> DEFINE S == color[e][1]
  <2>1. color[f][1] = S BY <1>7
  <2>2. name[S][color[e][2]] = name[S][color[f][2]] BY <1>7, <2>1
  <2>3. S \in DOMAIN B /\ color[e][2] \in 1..B[S] /\ color[f][2] \in 1..B[S] BY <1>7, <2>1
  <2>4. name[S] \in Bijection(1..B[S], listed(S)) BY <1>6, <2>3
  <2>5. \A i, j \in 1..B[S] : name[S][i] = name[S][j] => i = j BY <2>4 DEF Bijection, Injection, IsInjective
  <2>6. color[e][2] = color[f][2] BY <2>2, <2>3, <2>5
  <2>7. color[e] = color[f] BY <1>7, <2>1, <2>6
  <2> QED BY <1>3, <1>11, <2>7
<1> QED BY <1>9, <1>10, <1>11 DEF EdgeColorableFrom

(***************************************************************************)
(* Breaker's pairings                                                       *)
(***************************************************************************)
Singles(parts) == {q \in parts : Cardinality(q) = 1}
IntoParts(S, parts) ==
    /\ parts \subseteq kSubset(1, S) \cup kSubset(2, S)
    /\ UNION parts = S
    /\ \A q, r \in parts : q # r => q \cap r = {}
\* Every part of the one is some parts of the other put together.
Coarser(coarse, parts) == \A q \in coarse : q = UNION {r \in parts : r \subseteq q}

IsPair(D, S) == \E x, y \in S : x # y /\ D = {x, y}
Joined(D, coarse) == coarse \cup {D}
\* No part is cut by D, and the parts D leaves alone.
Whole(D, parts) == \A q \in parts : q \subseteq D \/ q \cap D = {}
Outside(D, parts) == {q \in parts : q \cap D = {}}

LEMMA PartitionsAre ==
    ASSUME NEW S, NEW k, NEW parts
    PROVE  parts \in Partitions(S, k) <=> IntoParts(S, parts) /\ Cardinality(Singles(parts)) <= k
BY DEF Partitions, IntoParts, Singles

\* A part is one vertex or two.
LEMMA PartIs ==
    ASSUME NEW S, IsFiniteSet(S), NEW parts, IntoParts(S, parts), NEW q \in parts
    PROVE  \/ \E x \in S : q = {x}
           \/ \E x, y \in S : x # y /\ q = {x, y}
<1>1. q \in SUBSET S /\ (Cardinality(q) = 1 \/ Cardinality(q) = 2) BY DEF IntoParts, kSubset
<1>2. IsFiniteSet(q) BY <1>1, FS_Subset
<1>3. CASE Cardinality(q) = 1
  <2>1. \E x : q = {x} BY <1>2, <1>3, FS_Singleton
  <2> QED BY <1>1, <2>1
<1>4. CASE Cardinality(q) = 2
  <2>1. q # {} BY <1>4, FS_EmptySet
  <2>2. PICK x : x \in q BY <2>1
  <2>3. IsFiniteSet(q \ {x}) /\ Cardinality(q \ {x}) = 1 BY <1>2, <1>4, <2>2, FS_RemoveElement
  <2>4. PICK y : q \ {x} = {y} BY <2>3, FS_Singleton
  <2>5. q = {x, y} /\ x # y BY <2>2, <2>4
  <2> QED BY <1>1, <2>5
<1> QED BY <1>1, <1>3, <1>4

LEMMA PairSize == ASSUME NEW x, NEW y, x # y PROVE IsFiniteSet({x, y}) /\ Cardinality({x, y}) = 2
<1>1. IsFiniteSet({x}) /\ Cardinality({x}) = 1 BY FS_Singleton
<1>2. {x, y} = {x} \cup {y} OBVIOUS
<1>3. Cardinality({x} \cup {y}) = 1 + 1 /\ IsFiniteSet({x} \cup {y}) BY <1>1, FS_AddElement
<1> QED BY <1>2, <1>3

\* With two vertices or more there are two that a coarser partition can pair.
LEMMA PairToTake ==
    ASSUME NEW S, IsFiniteSet(S), Cardinality(S) >= 2, NEW parts, IntoParts(S, parts)
    PROVE  \E x, y \in S : x # y /\ Whole({x, y}, parts)
<1>1. CASE \E q \in parts : \E x, y \in S : x # y /\ q = {x, y}
  <2>1. PICK q \in parts, x \in S, y \in S : x # y /\ q = {x, y} BY <1>1
  <2>2. Whole(q, parts) BY <2>1 DEF IntoParts, Whole
  <2> QED BY <2>1, <2>2
<1>2. CASE ~\E q \in parts : \E x, y \in S : x # y /\ q = {x, y}
  <2>1. \A q \in parts : \E x \in S : q = {x} BY <1>2, PartIs
  <2>2. S # {} BY FS_EmptySet
  <2>3. PICK x : x \in S BY <2>2
  <2>4. S # {x}
    <3>1. Cardinality({x}) = 1 BY FS_Singleton
    <3> QED BY <3>1
  <2>5. PICK y \in S : y # x BY <2>3, <2>4
  <2>6. Whole({x, y}, parts) BY <2>1 DEF Whole
  <2> QED BY <2>3, <2>5, <2>6
<1> QED BY <1>1, <1>2

\* Taking the pair out leaves a partition of the rest.
LEMMA PartsWithout ==
    ASSUME NEW S, NEW parts, IntoParts(S, parts), NEW D, Whole(D, parts)
    PROVE  IntoParts(S \ D, Outside(D, parts))
<1> DEFINE rest == Outside(D, parts)
<1>1. \A q \in rest : q \in SUBSET (S \ D) /\ (Cardinality(q) = 1 \/ Cardinality(q) = 2)
  BY DEF IntoParts, kSubset, Whole, Outside
<1>2. rest \subseteq kSubset(1, S \ D) \cup kSubset(2, S \ D) BY <1>1 DEF kSubset
<1>3. \A x \in S \ D : \E q \in parts : x \in q BY DEF IntoParts
<1>4. \A x \in S \ D : \E q \in rest : x \in q BY <1>3 DEF Whole, Outside
<1>5. UNION rest = S \ D BY <1>1, <1>4
<1> QED BY <1>2, <1>5 DEF IntoParts, Outside

LEMMA MorePairs ==
    ASSUME NEW S, IsFiniteSet(S), NEW parts, IntoParts(S, parts), NEW D, IsPair(D, S),
           Whole(D, parts), NEW coarse, IntoParts(S \ D, coarse), Coarser(coarse, Outside(D, parts))
    PROVE  /\ IntoParts(S, Joined(D, coarse)) /\ Coarser(Joined(D, coarse), parts)
           /\ Singles(Joined(D, coarse)) = Singles(coarse)
<1> DEFINE all == Joined(D, coarse)
           rest == Outside(D, parts)
<1>1. Cardinality(D) = 2 /\ D \in SUBSET S BY PairSize DEF IsPair
<1>2. \A q : q \in all <=> q \in coarse \/ q = D BY DEF Joined
<1>3. UNION all = S
  <2>1. UNION coarse = S \ D BY DEF IntoParts
  <2>2. UNION all = (UNION coarse) \cup D BY DEF Joined
  <2> QED BY <1>1, <2>1, <2>2
<1> HIDE DEF all
<1>4. Singles(all) = Singles(coarse)
  <2>1. \A q : q \in Singles(all) <=> q \in Singles(coarse) BY <1>1, <1>2 DEF Singles
  <2> QED BY <2>1
<1>5. \A q \in coarse : /\ q \in SUBSET S /\ q \cap D = {}
                         /\ (Cardinality(q) = 1 \/ Cardinality(q) = 2)
  BY DEF IntoParts, kSubset
<1>6. \A q \in all : q \in SUBSET S /\ (Cardinality(q) = 1 \/ Cardinality(q) = 2)
  BY <1>1, <1>2, <1>5
<1>7. all \subseteq kSubset(1, S) \cup kSubset(2, S) BY <1>6 DEF kSubset
<1>8. \A q, r \in coarse : q # r => q \cap r = {} BY DEF IntoParts
<1>9. \A q, r \in all : q # r => q \cap r = {} BY <1>2, <1>5, <1>8
<1>10. IntoParts(S, all) BY <1>7, <1>3, <1>9 DEF IntoParts
<1>11. ASSUME NEW q \in coarse PROVE q = UNION {r \in parts : r \subseteq q}
  <2>1. q = UNION {r \in rest : r \subseteq q} BY DEF Coarser
  <2>2. \A r \in parts : r \subseteq q => r \in rest BY <1>5 DEF Outside
  <2>3. rest \subseteq parts BY DEF Outside
  <2>4. {r \in rest : r \subseteq q} = {r \in parts : r \subseteq q} BY <2>2, <2>3
  <2> QED BY <2>1, <2>4
<1>12. D = UNION {r \in parts : r \subseteq D}
  <2>1. \A v \in D : \E r \in parts : v \in r BY <1>1 DEF IntoParts
  <2>2. \A v \in D : \E r \in parts : v \in r /\ r \subseteq D BY <2>1 DEF Whole
  <2> QED BY <2>2
<1>13. Coarser(all, parts) BY <1>2, <1>11, <1>12 DEF Coarser
<1> QED BY <1>4, <1>10, <1>13 DEF all

\* Any partition into parts of at most two vertices is, parts put together, one of
\* breaker's: pairs, and one single when the number is odd.
LEMMA Coarsening ==
    ASSUME NEW S, IsFiniteSet(S), NEW parts, IntoParts(S, parts)
    PROVE  \E coarse : coarse \in BreakerChoices(S) /\ Coarser(coarse, parts)
<1> DEFINE Coarsens(S_, parts_) == \E coarse : coarse \in BreakerChoices(S_) /\ Coarser(coarse, parts_)
           P == {k \in Nat : \A T \in SUBSET S : \A ps \in SUBSET (SUBSET S) :
                   Cardinality(T) <= k /\ IntoParts(T, ps) => Coarsens(T, ps)}
<1>1. \A T \in SUBSET S : IsFiniteSet(T) /\ Cardinality(T) \in Nat BY FS_Subset, FS_CardinalityType
<1>2. ASSUME NEW T \in SUBSET S, NEW ps, IntoParts(T, ps), Cardinality(T) < 2 PROVE Coarsens(T, ps)
  <2>1. \A q \in ps : q \in SUBSET T /\ (Cardinality(q) = 1 \/ Cardinality(q) = 2)
    BY <1>2 DEF IntoParts, kSubset
  <2>2. Coarser(ps, ps)
    <3> SUFFICES ASSUME NEW q \in ps PROVE q = UNION {r \in ps : r \subseteq q} BY DEF Coarser
    <3> QED OBVIOUS
  <2>3. Cardinality(Singles(ps)) <= Cardinality(T) % 2
    <3>1. CASE Cardinality(T) = 0
      <4>1. T = {} BY <1>1, <3>1, FS_EmptySet
      <4>2. \A q \in ps : q = {} BY <2>1, <4>1
      <4>3. Cardinality({}) = 0 BY FS_EmptySet
      <4>4. \A q \in ps : FALSE BY <2>1, <4>2, <4>3
      <4>5. Singles(ps) = {} BY <4>4 DEF Singles
      <4>6. Cardinality(Singles(ps)) = 0 BY <4>5, FS_EmptySet
      <4> QED BY <3>1, <4>6
    <3>2. CASE Cardinality(T) = 1
      <4>1. PICK x : T = {x} BY <1>1, <3>2, FS_Singleton
      <4>2. Cardinality({}) = 0 BY FS_EmptySet
      <4>3. \A q \in Singles(ps) : q = {x} BY <2>1, <4>1, <4>2 DEF Singles
      <4>4. Singles(ps) \in SUBSET {{x}} BY <4>3
      <4>5. IsFiniteSet({{x}}) /\ Cardinality({{x}}) = 1 BY FS_Singleton
      <4>6. Cardinality(Singles(ps)) <= 1 BY <4>4, <4>5, FS_Subset
      <4> QED BY <3>2, <4>6
    <3> QED BY <1>1, <1>2, <3>1, <3>2
  <2>4. ps \in BreakerChoices(T) BY <1>2, <2>3, PartitionsAre DEF BreakerChoices
  <2> QED BY <2>2, <2>4
<1>3. 0 \in P
  <2> SUFFICES ASSUME NEW T \in SUBSET S, NEW ps \in SUBSET (SUBSET S), Cardinality(T) <= 0, IntoParts(T, ps)
               PROVE  Coarsens(T, ps)
    OBVIOUS
  <2>1. Cardinality(T) < 2 BY <1>1
  <2> HIDE DEF Coarsens
  <2> QED BY <1>2, <2>1
<1>4. ASSUME NEW k \in Nat, k \in P PROVE k + 1 \in P
  <2> SUFFICES ASSUME NEW T \in SUBSET S, NEW ps \in SUBSET (SUBSET S), Cardinality(T) <= k + 1, IntoParts(T, ps)
               PROVE  Coarsens(T, ps)
    OBVIOUS
  <2>1. CASE Cardinality(T) < 2
    <3> HIDE DEF Coarsens
    <3> QED BY <1>2, <2>1
  <2>2. CASE Cardinality(T) >= 2
    <3>1. IsFiniteSet(T) /\ Cardinality(T) \in Nat BY <1>1
    <3>2. PICK x \in T, y \in T : x # y /\ Whole({x, y}, ps)
      BY <2>2, <3>1, PairToTake
    <3> DEFINE D == {x, y}
               rest == Outside(D, ps)
    <3>3. IntoParts(T \ D, rest) BY <3>2, PartsWithout
    <3>4. IsFiniteSet(D) /\ Cardinality(D) = 2 BY <3>2, PairSize
    <3>5. Cardinality(T \ D) = Cardinality(T) - 2
      <4>1. Cardinality(T \ D) = Cardinality(T) - Cardinality(T \cap D) BY <3>1, FS_Difference
      <4>2. T \cap D = D OBVIOUS
      <4> QED BY <3>4, <4>1, <4>2
    <3>6. T \ D \in SUBSET S /\ rest \in SUBSET (SUBSET S) BY DEF Outside
    <3> HIDE DEF D, rest, Coarsens, P
    <3>7. Cardinality(T \ D) \in Nat /\ Cardinality(T \ D) <= k BY <1>1, <3>1, <3>5, <3>6
    <3>8. Coarsens(T \ D, rest) BY <1>4, <3>3, <3>6, <3>7 DEF P
    <3>9. PICK coarse : coarse \in BreakerChoices(T \ D) /\ Coarser(coarse, rest) BY <3>8 DEF Coarsens
    <3>10. IntoParts(T \ D, coarse) /\ Cardinality(Singles(coarse)) <= Cardinality(T \ D) % 2
      BY <3>9, PartitionsAre DEF BreakerChoices
    <3> DEFINE all == Joined(D, coarse)
    <3>11. IsPair(D, T) /\ Whole(D, ps) BY <3>2 DEF D, IsPair
    <3>12. Coarser(coarse, Outside(D, ps)) BY <3>9 DEF rest
    <3>13. IntoParts(T, all) /\ Coarser(all, ps) /\ Singles(all) = Singles(coarse)
      BY <3>1, <3>10, <3>11, <3>12, MorePairs
    <3>14. Cardinality(T) % 2 = Cardinality(T \ D) % 2 BY <3>1, <3>5, <3>7
    <3> HIDE DEF all
    <3>15. Cardinality(Singles(all)) <= Cardinality(T) % 2 BY <3>10, <3>13, <3>14
    <3>16. all \in BreakerChoices(T) BY <3>13, <3>15, PartitionsAre DEF BreakerChoices
    <3> QED BY <3>13, <3>16 DEF Coarsens
  <2>3. Cardinality(T) \in Nat BY <1>1
  <2> QED BY <2>1, <2>2, <2>3
<1> HIDE DEF P, Coarsens
<1>5. \A k \in Nat : k \in P BY <1>3, <1>4, CountUp, Zenon
<1>6. Cardinality(S) \in Nat /\ Cardinality(S) \in P BY <1>1, <1>5
<1>7. S \in SUBSET S /\ parts \in SUBSET (SUBSET S) BY DEF IntoParts
<1>8. Coarsens(S, parts) BY <1>6, <1>7 DEF P
<1> QED BY <1>8 DEF Coarsens

LEMMA ExactlyOneDiffers ==
    ASSUME NEW L, NEW a, NEW b
    PROVE  ExactlyOne(L, a, b) = SymmetricDifference(Class(L, a), Class(L, b))
<1>1. ASSUME NEW v
      PROVE  v \in ExactlyOne(L, a, b) <=> v \in SymmetricDifference(Class(L, a), Class(L, b))
  BY ExactlyOneIs DEF SymmetricDifference, Class
<1>2. ExactlyOne(L, a, b) \subseteq SymmetricDifference(Class(L, a), Class(L, b)) BY <1>1
<1>3. SymmetricDifference(Class(L, a), Class(L, b)) \subseteq ExactlyOne(L, a, b) BY <1>1
<1> QED BY <1>2, <1>3

\* Which of the two colours comes first makes no difference.
LEMMA SwapSymmetric ==
    ASSUME NEW L, NEW a, NEW b
    PROVE  /\ ExactlyOne(L, a, b) = ExactlyOne(L, b, a)
           /\ \A R : Swap(L, a, b, R) = Swap(L, b, a, R)
<1>1. ExactlyOne(L, a, b) = ExactlyOne(L, b, a)
  BY ExactlyOneDiffers DEF SymmetricDifference
<1>2. ASSUME NEW R PROVE Swap(L, a, b, R) = Swap(L, b, a, R)
  <2> DEFINE E == ExactlyOne(L, a, b)
             swapped(c, d) == [v \in DOMAIN L |->
                IF v \notin R \cap E THEN L[v]
                ELSE IF c \in L[v] THEN (L[v] \ {c}) \cup {d} ELSE (L[v] \ {d}) \cup {c}]
  <2>1. Swap(L, a, b, R) = swapped(a, b) /\ Swap(L, b, a, R) = swapped(b, a)
    BY <1>1 DEF Swap
  <2>2. \A v \in E : a \in L[v] <=> b \notin L[v] BY ExactlyOneIs
  <2> HIDE DEF E
  <2>3. swapped(a, b) = swapped(b, a) BY <2>2
  <2> QED BY <2>1, <2>3
<1> QED BY <1>1, <1>2

\* Whatever breaker may do to the two colours, parts can be swapped that lead to good.
Answered(L, a, b, good) ==
    \A parts \in Partitions(ExactlyOne(L, a, b), Cardinality(ExactlyOne(L, a, b))) :
      \E Q \in (SUBSET parts) \ {{}} : Swap(L, a, b, UNION Q) \in good

LEMMA AnsweredFixes ==
    ASSUME NEW L, NEW p \in Int, NEW a \in PotColors(p), NEW b \in PotColors(p), a # b,
           NEW good, ExactlyOne(L, a, b) # {}, Answered(L, a, b, good)
    PROVE  CanFix(L, p, good)
<1>1. a \in 0..(p - 1) /\ b \in 0..(p - 1) /\ (a < b \/ b < a) BY DEF PotColors
<1>2. CASE a < b BY <1>1, <1>2 DEF CanFix, Answered
<1>3. CASE b < a
  <2>1. ExactlyOne(L, a, b) = ExactlyOne(L, b, a) BY SwapSymmetric
  <2>2. \A R : Swap(L, a, b, R) = Swap(L, b, a, R) BY SwapSymmetric
  <2>3. ASSUME NEW parts \in Partitions(ExactlyOne(L, b, a), Cardinality(ExactlyOne(L, b, a)))
        PROVE  \E Q \in (SUBSET parts) \ {{}} : Swap(L, b, a, UNION Q) \in good
    <3>1. PICK Q \in (SUBSET parts) \ {{}} : Swap(L, a, b, UNION Q) \in good
      BY <2>1, <2>3 DEF Answered
    <3>2. Swap(L, b, a, UNION Q) \in good BY <2>2, <3>1
    <3> QED BY <3>2
  <2> QED BY <1>1, <1>3, <2>1, <2>3 DEF CanFix
<1> QED BY <1>1, <1>2, <1>3

\* A union of parts of a coarser partition is one of parts, and of some if it is not empty.
LEMMA UnionOfParts ==
    ASSUME NEW coarse, NEW parts, Coarser(coarse, parts), NEW Qc \in SUBSET coarse
    PROVE  UNION Qc = UNION {r \in parts : r \subseteq UNION Qc}
<1>1. ASSUME NEW v \in UNION Qc PROVE v \in UNION {r \in parts : r \subseteq UNION Qc}
  <2>1. PICK q \in Qc : v \in q OBVIOUS
  <2>2. q = UNION {r \in parts : r \subseteq q} BY DEF Coarser
  <2>3. PICK r \in parts : r \subseteq q /\ v \in r BY <2>1, <2>2
  <2>4. r \subseteq UNION Qc BY <2>3
  <2> QED BY <2>3, <2>4
<1> QED BY <1>1

\* A board fixer wins from won in a round is the board of an assignment that can be fixed,
\* when the boards of won are the boards of good assignments.
LEMMA RoundFixes ==
    ASSUME NEW n \in Nat, NEW f, NEW p \in Int, NEW L \in ListsOfSize(f, p, n),
           NEW won, NEW mode, NEW good, FixerWins(BoardOf(L, p), won, mode),
           \A M \in ListsOfSize(f, p, n) : BoardOf(M, p) \in won => M \in good
    PROVE  CanFix(L, p, good)
<1> DEFINE B == BoardOf(L, p)
           V == 0..(n - 1)
<1>1. IsTable(L, n) BY ListsAt
<1>2. PICK S \in DOMAIN B, T \in DOMAIN B :
        /\ S # T
        /\ \A parts \in BreakerChoices(SymmetricDifference(S, T)) :
             \E R \in FixerResponses(parts, mode) : FromSwap(B, S, T, R) \in won
  BY DEF FixerWins
<1>3. \A X \in DOMAIN B : X # {} /\ \E c \in PotColors(p) : Class(L, c) = X
  BY DEF BoardOf, PotColors
<1>4. PICK a \in PotColors(p) : Class(L, a) = S BY <1>3
<1>5. PICK b \in PotColors(p) : Class(L, b) = T BY <1>3
<1>6. S # {} /\ T # {} BY <1>3
<1> HIDE DEF B
<1> DEFINE D == SymmetricDifference(S, T)
<1>7. D = ExactlyOne(L, a, b) BY <1>4, <1>5, ExactlyOneDiffers
<1>8. a # b BY <1>2, <1>4, <1>5
<1>9. D # {} BY <1>2 DEF SymmetricDifference
<1>10. IsFiniteSet(D)
  <2>1. DOMAIN L = V BY <1>1 DEF IsTable
  <2>2. IsFiniteSet(V) BY FS_Interval
  <2>3. D \in SUBSET V BY <1>7, <2>1 DEF ExactlyOne
  <2> QED BY <2>2, <2>3, FS_Subset
<1>11. \A parts \in BreakerChoices(D) :
         \E R \in FixerResponses(parts, mode) : FromSwap(B, S, T, R) \in won
  BY <1>2
<1> HIDE DEF D
<1>12. ASSUME NEW parts \in Partitions(D, Cardinality(D))
       PROVE  \E Q \in (SUBSET parts) \ {{}} : Swap(L, a, b, UNION Q) \in good
  <2>1. IntoParts(D, parts) BY PartitionsAre
  <2>2. PICK coarse : coarse \in BreakerChoices(D) /\ Coarser(coarse, parts)
    BY <1>10, <2>1, Coarsening
  <2>3. PICK R \in FixerResponses(coarse, mode) : FromSwap(B, S, T, R) \in won
    BY <1>11, <2>2
  <2>4. PICK Qc \in (SUBSET coarse) \ {{}} : R = UNION Qc BY DEF FixerResponses
  <2>5. IntoParts(D, coarse) BY <2>2, PartitionsAre DEF BreakerChoices
  <2>6. R \in SUBSET D BY <2>4, <2>5 DEF IntoParts
  <2>7. R # {}
    <3>1. PICK q \in Qc : TRUE BY <2>4
    <3>2. Cardinality(q) = 1 \/ Cardinality(q) = 2 BY <2>4, <2>5, <3>1 DEF IntoParts, kSubset
    <3>3. Cardinality({}) = 0 BY FS_EmptySet
    <3>4. q # {} BY <3>2, <3>3
    <3> QED BY <2>4, <3>4
  <2> DEFINE Q == {r \in parts : r \subseteq R}
  <2>8. UNION Q = R
    <3>1. Qc \in SUBSET coarse BY <2>4
    <3>2. UNION Qc = UNION {r \in parts : r \subseteq UNION Qc} BY <2>2, <3>1, UnionOfParts
    <3> QED BY <2>4, <3>2
  <2>9. Q \in SUBSET parts /\ Q # {} BY <2>7, <2>8
  <2> HIDE DEF Q
  <2>10. R \in SUBSET ExactlyOne(L, a, b) BY <1>7, <2>6
  <2>11. BoardOf(Swap(L, a, b, R), p) = FromSwap(B, S, T, R)
    BY <1>1, <1>2, <1>4, <1>5, <1>6, <2>10, SwapIsFromSwap DEF B
  <2>12. Swap(L, a, b, R) \in ListsOfSize(f, p, n) BY <1>8, <2>10, SwapKeepsSizes
  <2>13. Swap(L, a, b, R) \in good BY <2>3, <2>11, <2>12
  <2> QED BY <2>8, <2>9, <2>13
<1>13. Answered(L, a, b, good) BY <1>7, <1>12 DEF Answered
<1> QED BY <1>7, <1>8, <1>9, <1>13, AnsweredFixes

(***************************************************************************)
(* The game                                                                 *)
(***************************************************************************)
Generated(r) == UNION {GenerateAssignments(Sizes(r), pot) : pot \in Pots(r)}
Fixable(r, pot) == FixableByDefinition(Listed(r), Sizes(r), pot)
ListsFor(r, pot) == ListsOfSize(Sizes(r), pot, Len(r.sizes))

WonAreFixable(r, won) ==
    /\ won \subseteq Generated(r)
    /\ \A pot \in Pots(r) : \A L \in ListsFor(r, pot) : BoardOf(L, pot) \in won => L \in Fixable(r, pot)

GameInv ==
    phase = "game" => /\ Generated(call) # {} => IsGraph(Listed(call))
                      /\ job.remaining \subseteq Generated(call)
                      /\ WonAreFixable(call, job.won)

LEMMA PotsAreInt == ASSUME NEW r, NEW pot \in Pots(r) PROVE pot \in Int
<1>1. \A a, b : \A i \in a..b : i \in Int OBVIOUS
<1>2. \E a, b : Pots(r) = a..b
  <2>1. CASE r.tool = "fixer_breaker"
    <3> DEFINE lo == Max(Range(r.sizes) \cup {0})
               hi == Min({lo, MapThenSumSet(LAMBDA v : Sizes(r)[v], DOMAIN Sizes(r))})
    <3>1. Pots(r) = lo..hi BY <2>1 DEF Pots
    <3> HIDE DEF lo, hi
    <3> QED BY <3>1
  <2>2. CASE r.tool # "fixer_breaker"
    <3> DEFINE lo == Max({r.min_pot, Max(Range(r.sizes) \cup {0})})
               hi == Min({r.max_pot, MapThenSumSet(LAMBDA v : Sizes(r)[v], DOMAIN Sizes(r))})
    <3>1. Pots(r) = lo..hi BY <2>2 DEF Pots
    <3> HIDE DEF lo, hi
    <3> QED BY <3>1
  <2> QED BY <2>1, <2>2
<1> QED BY <1>1, <1>2

LEMMA FixableIs ==
    ASSUME NEW r, IsGraph(Listed(r)), NEW pot \in Pots(r), NEW L \in ListsFor(r, pot)
    PROVE  /\ EdgeColorable(r.g.edges, BoardOf(L, pot)) => L \in Fixable(r, pot)
           /\ CanFix(L, pot, Fixable(r, pot)) => L \in Fixable(r, pot)
<1> DEFINE g == Listed(r)
<1>1. g.n = Len(r.sizes) /\ g.edges = r.g.edges BY DEF Listed
<1>2. IsGraph(g) /\ pot \in Int /\ g.n \in Nat BY PotsAreInt DEF IsGraph
<1> HIDE DEF g
<1>3. IsTable(L, g.n) BY <1>1, <1>2, ListsAt DEF ListsFor
<1>4. EdgeColorable(g.edges, BoardOf(L, pot)) => EdgeColorableFrom(g, L)
  BY <1>2, <1>3, ColorableBoard
<1>5. /\ \A M \in ListsFor(r, pot) : EdgeColorableFrom(g, M) => M \in Fixable(r, pot)
      /\ \A M \in ListsFor(r, pot) : CanFix(M, pot, Fixable(r, pot)) => M \in Fixable(r, pot)
  BY <1>1, <1>2, FixableClosed DEF ListsFor, Fixable, g
<1> QED BY <1>1, <1>4, <1>5

LEMMA GameBegins == ASSUME Deal PROVE GameInv'
<1> DEFINE boards == Generated(call)
           won == {b \in boards : EdgeColorable(call.g.edges, b)}
<1>1. /\ call' = call
      /\ IF boards # {} /\ ~IsGraph(Listed(call)) THEN Finish(Unminted("error"))
         ELSE job' = [graph |-> call.g, won |-> won, remaining |-> boards \ won]
  BY DEF Deal, Generated
<1>2. CASE boards # {} /\ ~IsGraph(Listed(call))
  <2>1. phase' = "done" BY <1>1, <1>2 DEF Finish
  <2> QED BY <2>1 DEF GameInv
<1>3. CASE ~(boards # {} /\ ~IsGraph(Listed(call)))
  <2>1. job'.won = won /\ job'.remaining \subseteq boards BY <1>1, <1>3
  <2>2. WonAreFixable(call, won)
    <3>1. ASSUME NEW pot \in Pots(call), NEW L \in ListsFor(call, pot), BoardOf(L, pot) \in won
          PROVE  L \in Fixable(call, pot)
      <4>1. boards # {} /\ EdgeColorable(call.g.edges, BoardOf(L, pot)) BY <3>1
      <4>2. IsGraph(Listed(call)) BY <1>3, <4>1
      <4> QED BY <4>1, <4>2, FixableIs
    <3> QED BY <3>1 DEF WonAreFixable
  <2> HIDE DEF won
  <2>3. /\ Generated(call') # {} => IsGraph(Listed(call'))
        /\ job'.remaining \subseteq Generated(call') /\ WonAreFixable(call', job'.won)
    BY <1>1, <1>3, <2>1, <2>2
  <2> QED BY <2>3 DEF GameInv
<1> QED BY <1>2, <1>3

LEMMA GameGoesOn ==
    ASSUME GameInv, Round
    PROVE  GameInv'
<1>1. phase = "game" /\ call' = call BY DEF Round
<1>2. /\ Generated(call) # {} => IsGraph(Listed(call))
      /\ job.remaining \subseteq Generated(call) /\ WonAreFixable(call, job.won)
  BY <1>1 DEF GameInv
<1>3. job'.won = job.won \cup WonThisRound /\ job'.remaining = job.remaining \ WonThisRound
  BY DEF Round
<1>4. WonAreFixable(call, job.won \cup WonThisRound)
  <2>1. job.won \cup WonThisRound \subseteq Generated(call) BY <1>2 DEF WonThisRound, WonAreFixable
  <2>2. ASSUME NEW pot \in Pots(call), NEW L \in ListsFor(call, pot), BoardOf(L, pot) \in WonThisRound
        PROVE  L \in Fixable(call, pot)
    <3>1. FixerWins(BoardOf(L, pot), job.won, SwapMode(call)) BY <2>2 DEF WonThisRound
    <3>2. IsGraph(Listed(call)) BY <1>2, <2>1, <2>2
    <3>3. pot \in Int /\ Len(call.sizes) \in Nat BY <3>2, PotsAreInt DEF IsGraph, Listed
    <3>4. \A M \in ListsFor(call, pot) : BoardOf(M, pot) \in job.won => M \in Fixable(call, pot)
      BY <1>2 DEF WonAreFixable
    <3>5. CanFix(L, pot, Fixable(call, pot)) BY <3>1, <3>3, <3>4, RoundFixes DEF ListsFor
    <3> QED BY <3>2, <3>5, FixableIs
  <2> QED BY <1>2, <2>1, <2>2 DEF WonAreFixable
<1>5. /\ Generated(call') # {} => IsGraph(Listed(call'))
      /\ job'.remaining \subseteq Generated(call') /\ WonAreFixable(call', job'.won)
  BY <1>1, <1>2, <1>3, <1>4
<1> QED BY <1>5 DEF GameInv

LEMMA GameStep == ASSUME GameInv, [Next]_vars PROVE GameInv'
<1>1. CASE UNCHANGED vars
  BY <1>1 DEF vars, GameInv
<1>2. ASSUME phase' # "game" PROVE GameInv' BY <1>2 DEF GameInv
<1>3. ASSUME NEW r \in Requests,
             Answer(r) \/ Refuse(r) \/ Begin(r) \/ Play(r) \/ AskFixable(r) \/ Sweep(r)
      PROVE  GameInv'
  <2>1. phase' # "game" BY <1>3 DEF Answer, Refuse, Begin, Play, AskFixable, Sweep, Finish
  <2> QED BY <1>2, <2>1
<1>4. ASSUME Refine \/ Leave \/ Pack \/ GameOver \/ SweepEnds \/ Deliver \/ Alarm PROVE GameInv'
  <2>1. phase' # "game"
    BY <1>4 DEF Refine, Leave, Pack, GameOver, SweepEnds, Deliver, Alarm, Finish
  <2> QED BY <1>2, <2>1
<1>5. ASSUME FindBad \/ Exhaust PROVE GameInv'
  <2>1. phase' \in {"search", "leaving", "done"}
    BY <1>5 DEF FindBad, Exhaust, SearchEnds, Leaving, Critical, NextEdge, Finish
  <2> QED BY <1>2, <2>1
<1>6. ASSUME SweepOne PROVE GameInv'
  <2>1. phase = "census" /\ (phase' = "done" \/ phase' = phase) BY <1>6 DEF SweepOne, Finish
  <2> QED BY <1>2, <2>1
<1> QED BY <1>1, <1>3, <1>4, <1>5, <1>6, GameBegins, GameGoesOn DEF Next, Working

LEMMA GameSays == ASSUME GameInv PROVE WonBoardsFixable
<1> SUFFICES ASSUME phase = "game", NEW board \in job.won
             PROVE  \E pot \in Pots(call) :
                      \E L \in FixableByDefinition(Listed(call), Sizes(call), pot) :
                        UsesAll(L, pot) /\ BoardOf(L, pot) = board
  BY DEF WonBoardsFixable
<1>1. WonAreFixable(call, job.won) /\ (Generated(call) # {} => IsGraph(Listed(call))) BY DEF GameInv
<1>2. PICK pot \in Pots(call) : board \in GenerateAssignments(Sizes(call), pot)
  BY <1>1 DEF WonAreFixable, Generated
<1>3. Cardinality(DOMAIN Sizes(call)) = Len(call.sizes)
  <2> DEFINE n == Len(call.sizes)
  <2>1. DOMAIN Sizes(call) = 0..(n - 1) BY DEF Sizes
  <2>2. IsGraph(Listed(call)) BY <1>1 DEF WonAreFixable
  <2>3. n \in Nat BY <2>2 DEF IsGraph, Listed
  <2> HIDE DEF n
  <2>4. Cardinality(0..(n - 1)) = n
    <3> DEFINE m == n - 1
    <3>1. m \in Int BY <2>3
    <3>2. n = (IF 0 > m THEN 0 ELSE m - 0 + 1) BY <2>3
    <3> HIDE DEF m
    <3>3. Cardinality(0..m) = IF 0 > m THEN 0 ELSE m - 0 + 1 BY <3>1, FS_Interval
    <3> QED BY <3>2, <3>3 DEF m
  <2> QED BY <2>1, <2>4 DEF n
<1>4. PICK L \in ListsFor(call, pot) : UsesAll(L, pot) /\ BoardOf(L, pot) = board
  <2>1. board \in {BoardOf(M, pot) : M \in {N \in ListsFor(call, pot) : UsesAll(N, pot)}}
    BY <1>2, <1>3 DEF GenerateAssignments, ListsFor
  <2> QED BY <2>1
<1>5. L \in Fixable(call, pot) BY <1>1, <1>4 DEF WonAreFixable
<1> QED BY <1>4, <1>5 DEF Fixable

\* Every board the game gives to fixer is fixable by the definition of the paper, whatever the
\* graph, the sizes of the lists, the pots and the swap mode (fixer_breaker.py:192): breaker's
\* pairings stand for all partitions into parts of at most two vertices, a board stands for
\* every assignment that has its classes, and a round won is a swap of the definition.
THEOREM GameIsSound == Spec => []WonBoardsFixable
<1>1. Init => GameInv BY DEF Init, GameInv
<1>2. GameInv /\ [Next]_vars => GameInv' BY GameStep
<1>3. GameInv => WonBoardsFixable BY GameSays
<1> QED BY <1>1, <1>2, <1>3, PTL DEF Spec

(***************************************************************************)
(* Cliques and colourings by number                                        *)
(***************************************************************************)
\* Max and Min of what has a bound.
LEMMA MaxIs ==
    ASSUME NEW S, S \subseteq Nat, S # {}, NEW n \in Nat, \A x \in S : x <= n
    PROVE  Max(S) \in S /\ \A x \in S : x <= Max(S)
<1> DEFINE T == {n - x : x \in S}
<1>0. \A x \in S : n - x \in Nat OBVIOUS
<1>1. T \subseteq Nat /\ T # {} BY <1>0
<1> HIDE DEF T
<1>2. PICK t \in T : \A y \in T : t <= y BY <1>1, LeastNumber
<1>3. PICK m \in S : t = n - m BY DEF T
<1>4. ASSUME NEW x \in S PROVE m >= x
  <2>1. n - x \in T BY DEF T
  <2>2. t <= n - x BY <1>2, <2>1
  <2>3. m \in Nat /\ x \in Nat OBVIOUS
  <2> QED BY <1>3, <2>2, <2>3
<1> DEFINE k == Max(S)
<1>5. k \in S /\ \A x \in S : k >= x BY <1>4 DEF Max
<1> HIDE DEF k
<1>6. \A x \in S : x <= k
  <2> SUFFICES ASSUME NEW x \in S PROVE x <= k OBVIOUS
  <2>1. x \in Nat /\ k \in Nat BY <1>5
  <2> QED BY <1>5, <2>1
<1> QED BY <1>5, <1>6 DEF k

LEMMA MinIs ==
    ASSUME NEW S, S \subseteq Nat, S # {}
    PROVE  Min(S) \in S /\ \A x \in S : Min(S) <= x
<1>1. \E x \in S : \A y \in S : x =< y BY LeastNumber
<1> QED BY <1>1 DEF Min

LEMMA VerticesFinite ==
    ASSUME NEW g, g.n \in Nat
    PROVE  IsFiniteSet(Vertices(g)) /\ Cardinality(Vertices(g)) = g.n
<1> DEFINE m == g.n - 1
<1>1. m \in Int /\ g.n = (IF 0 > m THEN 0 ELSE m - 0 + 1) BY SMT
<1> HIDE DEF m
<1>2. IsFiniteSet(0..m) /\ Cardinality(0..m) = IF 0 > m THEN 0 ELSE m - 0 + 1 BY <1>1, FS_Interval
<1> QED BY <1>1, <1>2 DEF Vertices, m

\* A pair is two ends that differ.
LEMMA PairsAre ==
    ASSUME NEW S, IsFiniteSet(S), NEW e
    PROVE  e \in Pairs(S) <=> \E x, y \in S : x # y /\ e = {x, y}
<1>1. ASSUME NEW x \in S, NEW y \in S, x # y, e = {x, y} PROVE e \in Pairs(S)
  BY <1>1, PairSize DEF Pairs, kSubset
<1>2. ASSUME e \in Pairs(S) PROVE \E x, y \in S : x # y /\ e = {x, y}
  <2>1. e \in SUBSET S /\ Cardinality(e) = 2 BY <1>2 DEF Pairs, kSubset
  <2>2. PICK x \in e : TRUE BY <2>1, FS_EmptySet
  <2>3. e # {x} BY <2>1, FS_Singleton
  <2>4. PICK y \in e : y # x BY <2>2, <2>3
  <2>5. IsFiniteSet({x, y}) /\ Cardinality({x, y}) = 2 BY <2>4, PairSize
  <2>6. IsFiniteSet(e) BY <2>1, FS_Subset
  <2>7. {x, y} \in SUBSET e BY <2>4
  <2>8. {x, y} = e BY <2>1, <2>5, <2>6, <2>7, FS_Subset
  <2> QED BY <2>1, <2>4, <2>8
<1> QED BY <1>1, <1>2

\* The largest set of vertices of a family that holds the empty set.
Sized(F) == {Cardinality(S) : S \in F}
LEMMA LargestOf ==
    ASSUME NEW V, IsFiniteSet(V), NEW F \in SUBSET SUBSET V, {} \in F
    PROVE  /\ Max(Sized(F)) \in Nat
           /\ \E S \in F : Cardinality(S) = Max(Sized(F))
           /\ \A S \in F : Cardinality(S) <= Max(Sized(F))
<1>1. \A S \in F : Cardinality(S) \in Nat /\ Cardinality(S) <= Cardinality(V)
  BY FS_Subset, FS_CardinalityType
<1>2. Cardinality(V) \in Nat BY FS_CardinalityType
<1>3. Sized(F) \subseteq Nat /\ Sized(F) # {} /\ \A x \in Sized(F) : x <= Cardinality(V)
  BY <1>1 DEF Sized
<1>4. Max(Sized(F)) \in Sized(F) /\ \A x \in Sized(F) : x <= Max(Sized(F)) BY <1>2, <1>3, MaxIs
<1> QED BY <1>3, <1>4 DEF Sized

CliquesOf(g) == {T \in SUBSET Vertices(g) : IsClique(g, T)}
IndependentIn(g) == {T \in SUBSET Vertices(g) : IsIndependent(g, T)}

LEMMA NumbersAre ==
    ASSUME NEW g
    PROVE  CliqueNumber(g) = Max(Sized(CliquesOf(g))) /\ Alpha(g) = Max(Sized(IndependentIn(g)))
BY DEF CliqueNumber, Alpha, Sized, CliquesOf, IndependentIn

LEMMA CliqueNumberIs ==
    ASSUME NEW g, IsGraph(g)
    PROVE  /\ CliqueNumber(g) \in Nat
           /\ \E S \in CliquesOf(g) : Cardinality(S) = CliqueNumber(g)
           /\ \A S \in CliquesOf(g) : Cardinality(S) <= CliqueNumber(g)
<1>1. IsFiniteSet(Vertices(g)) BY VerticesFinite DEF IsGraph
<1>2. {} \in CliquesOf(g)
  <2>1. Pairs({}) = {} BY FS_EmptySet, PairsAre
  <2> QED BY <2>1 DEF CliquesOf, IsClique
<1>3. CliquesOf(g) \in SUBSET SUBSET Vertices(g) BY DEF CliquesOf
<1> QED BY <1>1, <1>2, <1>3, LargestOf, NumbersAre

\* What is a clique of a graph is independent in its complement, and the other way round.
LEMMA ComplementTurns ==
    ASSUME NEW g, IsGraph(g)
    PROVE  /\ Alpha(Complement(g)) = CliqueNumber(g)
           /\ CliqueNumber(Complement(g)) = Alpha(g)
<1> DEFINE c == Complement(g)
<1>1. c.n = g.n /\ c.edges = Pairs(Vertices(g)) \ g.edges BY DEF Complement, IsGraph
<1>2. Vertices(c) = Vertices(g) BY <1>1 DEF Vertices
<1>3. \A T \in SUBSET Vertices(g) : Pairs(T) \subseteq Pairs(Vertices(g))
  BY DEF Pairs, kSubset
<1>4. g.edges \subseteq Pairs(Vertices(g)) BY DEF IsGraph
<1> HIDE DEF c
<1>5. IndependentIn(c) = CliquesOf(g)
  BY <1>1, <1>2, <1>3, <1>4 DEF IndependentIn, CliquesOf, IsIndependent, IsClique
<1>6. CliquesOf(c) = IndependentIn(g)
  BY <1>1, <1>2, <1>3, <1>4 DEF IndependentIn, CliquesOf, IsIndependent, IsClique
<1>7. Alpha(c) = CliqueNumber(g) /\ CliqueNumber(c) = Alpha(g) BY <1>5, <1>6, NumbersAre
<1> QED BY <1>7 DEF c

\* A finite set has a subset of every size up to its own.
LEMMA SubsetOfSize ==
    ASSUME NEW S, IsFiniteSet(S), NEW k \in Nat, k <= Cardinality(S)
    PROVE  \E T \in SUBSET S : Cardinality(T) = k
<1> DEFINE P == {j \in Nat : j <= Cardinality(S) => \E T \in SUBSET S : Cardinality(T) = Cardinality(S) - j}
<1>0. Cardinality(S) \in Nat BY FS_CardinalityType
<1>1. 0 \in P BY <1>0
<1>2. ASSUME NEW j \in Nat, j \in P PROVE j + 1 \in P
  <2> SUFFICES ASSUME j + 1 <= Cardinality(S)
               PROVE  \E T \in SUBSET S : Cardinality(T) = Cardinality(S) - (j + 1)
    OBVIOUS
  <2>1. PICK T \in SUBSET S : Cardinality(T) = Cardinality(S) - j BY <1>0, <1>2
  <2>2. IsFiniteSet(T) BY FS_Subset
  <2>3. T # {}
    <3>1. Cardinality(T) # 0 BY <1>0, <2>1
    <3> QED BY <3>1, FS_EmptySet
  <2>4. PICK x \in T : TRUE BY <2>3
  <2>5. Cardinality(T \ {x}) = Cardinality(T) - 1 BY <2>2, <2>4, FS_RemoveElement
  <2>6. Cardinality(T \ {x}) = Cardinality(S) - (j + 1) BY <1>0, <2>1, <2>5
  <2> QED BY <2>6
<1> HIDE DEF P
<1>3. \A j \in Nat : j \in P BY <1>1, <1>2, CountUp, Zenon
<1>4. Cardinality(S) - k \in Nat /\ Cardinality(S) - (Cardinality(S) - k) = k
      /\ Cardinality(S) - k <= Cardinality(S)
  BY <1>0
<1>5. Cardinality(S) - k \in P BY <1>3, <1>4
<1> QED BY <1>4, <1>5 DEF P

\* find_clique finds one of every size up to the clique number.
LEMMA CliqueFound ==
    ASSUME NEW g, IsGraph(g), NEW k \in Int
    PROVE  FindClique(g, k) # {} <=> CliqueNumber(g) >= k
<1>1. /\ CliqueNumber(g) \in Nat
      /\ \E S \in CliquesOf(g) : Cardinality(S) = CliqueNumber(g)
      /\ \A S \in CliquesOf(g) : Cardinality(S) <= CliqueNumber(g)
  BY CliqueNumberIs
<1>2. CASE k <= 0
  <2>1. FindClique(g, k) # {} BY <1>2 DEF FindClique
  <2>2. CliqueNumber(g) >= k BY <1>1, <1>2
  <2> QED BY <2>1, <2>2
<1>3. CASE ~(k <= 0)
  <2>1. FindClique(g, k) = {S \in CliquesOf(g) : Cardinality(S) = k}
    BY <1>3 DEF FindClique, CliquesOf, kSubset
  <2>2. ASSUME CliqueNumber(g) >= k PROVE \E S \in CliquesOf(g) : Cardinality(S) = k
    <3>1. PICK S \in CliquesOf(g) : Cardinality(S) = CliqueNumber(g) BY <1>1
    <3>2. IsFiniteSet(S)
      <4>1. IsFiniteSet(Vertices(g)) BY VerticesFinite DEF IsGraph
      <4> QED BY <4>1, FS_Subset DEF CliquesOf
    <3>3. k \in Nat /\ k <= Cardinality(S) BY <1>1, <1>3, <2>2, <3>1
    <3>4. PICK T \in SUBSET S : Cardinality(T) = k BY <3>2, <3>3, SubsetOfSize
    <3>5. Pairs(T) \subseteq Pairs(S) BY DEF Pairs, kSubset
    <3>6. T \in CliquesOf(g) BY <3>5 DEF CliquesOf, IsClique
    <3> QED BY <3>4, <3>6
  <2>3. ASSUME NEW S \in CliquesOf(g), Cardinality(S) = k PROVE CliqueNumber(g) >= k
    BY <1>1, <2>3
  <2> QED BY <2>1, <2>2, <2>3
<1> QED BY <1>2, <1>3

\* k colours are enough exactly when the backtracking finds a witness.
LEMMA WitnessFound ==
    ASSUME NEW g, IsGraph(g), NEW k
    PROVE  FindKColoring(g, k) # NoColoring <=> Colorable(g, k)
<1> DEFINE L == [v \in Vertices(g) |-> 0..(k - 1)]
           found == ListColorings(g, L)
<1>0. g.n \in Nat BY DEF IsGraph
<1>1. \A v \in 0..(g.n - 1) : L[v] = 0..(k - 1) BY DEF Vertices
<1>2. FindKColoring(g, k) = IF found = {} THEN NoColoring ELSE CHOOSE c \in found : TRUE
  BY DEF FindKColoring, FindListColoring
<1> HIDE DEF L
<1>3. \A c : c \in found <=> IsTable(c, g.n) /\ Proper(g, c) /\ \A v \in 0..(g.n - 1) : c[v] \in L[v]
  BY <1>0, ColoringsAt
<1> HIDE DEF found
<1>4. NoColoring \notin found
  <2> DEFINE c == NoColoring
  <2>1. DOMAIN c = {1} BY DEF NoColoring
  <2> HIDE DEF c
  <2>2. SUFFICES ASSUME c \in found PROVE FALSE BY DEF c
  <2>3. c = [v \in 0..(g.n - 1) |-> c[v]] BY <1>3, <2>2 DEF IsTable
  <2>4. DOMAIN c = 0..(g.n - 1) BY <2>3
  <2>5. 1 \in 0..(g.n - 1) => 0 \in 0..(g.n - 1) BY <1>0
  <2> QED BY <2>1, <2>4, <2>5
<1>5. FindKColoring(g, k) # NoColoring <=> found # {} BY <1>2, <1>4
<1>6. \A c : c \in [Vertices(g) -> 0..(k - 1)]
              <=> IsTable(c, g.n) /\ \A v \in 0..(g.n - 1) : c[v] \in 0..(k - 1)
  BY DEF IsTable, Vertices
<1>7. Colorable(g, k) <=> \E c : c \in found BY <1>1, <1>3, <1>6 DEF Colorable
<1> QED BY <1>5, <1>7

\* Whoever colours a graph gives the vertices of a clique different colours.
LEMMA CliqueNeedsColors ==
    ASSUME NEW g, IsGraph(g), NEW k \in Nat, Colorable(g, k)
    PROVE  CliqueNumber(g) <= k
<1>1. PICK c \in [Vertices(g) -> 0..(k - 1)] : Proper(g, c) BY DEF Colorable
<1>2. PICK S \in CliquesOf(g) : Cardinality(S) = CliqueNumber(g) BY CliqueNumberIs
<1>3. IsFiniteSet(S) /\ S \in SUBSET Vertices(g) /\ Pairs(S) \subseteq g.edges
  <2>1. IsFiniteSet(Vertices(g)) BY VerticesFinite DEF IsGraph
  <2> QED BY <2>1, FS_Subset DEF CliquesOf, IsClique
<1>4. IsFiniteSet(0..(k - 1)) /\ Cardinality(0..(k - 1)) = k
  <2> DEFINE m == k - 1
  <2>1. m \in Int /\ k = (IF 0 > m THEN 0 ELSE m - 0 + 1) BY SMT
  <2> HIDE DEF m
  <2>2. IsFiniteSet(0..m) /\ Cardinality(0..m) = IF 0 > m THEN 0 ELSE m - 0 + 1 BY <2>1, FS_Interval
  <2> QED BY <2>1, <2>2 DEF m
<1> SUFFICES ASSUME ~(CliqueNumber(g) <= k) PROVE FALSE OBVIOUS
<1>5. Cardinality(0..(k - 1)) < Cardinality(S)
  <2>1. CliqueNumber(g) \in Nat BY CliqueNumberIs
  <2> QED BY <1>2, <1>4, <2>1
<1> DEFINE d == [v \in S |-> c[v]]
<1>6. d \in [S -> 0..(k - 1)] BY <1>3
<1>7. \A v \in S : d[v] = c[v] OBVIOUS
<1> HIDE DEF d
<1>8. PICK x \in S, y \in S : x # y /\ d[x] = d[y] BY <1>3, <1>4, <1>5, <1>6, FS_PigeonHole
<1>9. {x, y} \in g.edges BY <1>3, <1>8, PairsAre
<1>10. c[x] # c[y] BY <1>1, <1>8, <1>9 DEF Proper
<1> QED BY <1>7, <1>8, <1>10

\* One colour for each vertex is enough.
LEMMA ColorsEnough == ASSUME NEW g, IsGraph(g) PROVE Colorable(g, g.n)
<1> DEFINE c == [v \in Vertices(g) |-> v]
<1>1. c \in [Vertices(g) -> 0..(g.n - 1)] BY DEF Vertices
<1>2. \A v \in Vertices(g) : c[v] = v OBVIOUS
<1> HIDE DEF c
<1>3. \A e \in g.edges : e \subseteq Vertices(g) BY DEF IsGraph, Pairs, kSubset
<1>4. Proper(g, c) BY <1>2, <1>3 DEF Proper
<1> QED BY <1>1, <1>4 DEF Colorable

LEMMA ChiType == ASSUME NEW g, IsGraph(g) PROVE Chi(g) \in Nat
<1> DEFINE S == {k \in 0..g.n : Colorable(g, k)}
<1>1. g.n \in Nat BY DEF IsGraph
<1>2. g.n \in S BY <1>1, ColorsEnough
<1>3. S \subseteq Nat BY <1>1
<1>4. Chi(g) = Min(S) BY DEF Chi
<1> HIDE DEF S
<1> QED BY <1>2, <1>3, <1>4, MinIs

\* The search upwards from the clique number finds the chromatic number.
LEMMA CertificatesFound ==
    ASSUME NEW g, IsGraph(g)
    PROVE  /\ ChromaticCertificates(g).chi = Chi(g)
           /\ ChromaticCertificates(g).omega = CliqueNumber(g)
<1> DEFINE S == {k \in 0..g.n : Colorable(g, k)}
           T == {k \in Max({CliqueNumber(g), 1})..g.n : FindKColoring(g, k) # NoColoring}
<1>0. g.n \in Nat /\ CliqueNumber(g) \in Nat BY CliqueNumberIs DEF IsGraph
<1>1. Chi(g) = Min(S) BY DEF Chi
<1>2. CASE g.n = 0
  <2>1. ChromaticCertificates(g).chi = 0 /\ ChromaticCertificates(g).omega = 0
    BY <1>2 DEF ChromaticCertificates
  <2>2. S \subseteq Nat /\ 0 \in S
    <3>1. Colorable(g, 0) BY <1>2, ColorsEnough
    <3> QED BY <1>2, <3>1
  <2> HIDE DEF S
  <2>3. Min(S) <= 0 /\ Min(S) \in Nat BY <2>2, MinIs
  <2>4. Min(S) = 0 BY <2>3
  <2>5. CliqueNumber(g) <= 0 BY <1>2, ColorsEnough, CliqueNeedsColors
  <2> QED BY <1>0, <1>1, <2>1, <2>4, <2>5
<1>3. CASE g.n > 0
  <2>1. ChromaticCertificates(g).chi = Min(T) /\ ChromaticCertificates(g).omega = CliqueNumber(g)
    BY <1>0, <1>3 DEF ChromaticCertificates
  <2> DEFINE m == Max({CliqueNumber(g), 1})
  <2>2. m \in {CliqueNumber(g), 1} /\ CliqueNumber(g) <= m /\ 1 <= m
    <3> DEFINE M == {CliqueNumber(g), 1}
    <3>1. M \subseteq Nat /\ M # {} /\ \A x \in M : x <= CliqueNumber(g) + 1 BY <1>0
    <3>2. CliqueNumber(g) + 1 \in Nat /\ CliqueNumber(g) \in M /\ 1 \in M BY <1>0
    <3> HIDE DEF M
    <3>3. Max(M) \in M /\ \A x \in M : x <= Max(M) BY <3>1, <3>2, MaxIs
    <3> QED BY <3>2, <3>3 DEF M
  <2>3. T = {k \in m..g.n : FindKColoring(g, k) # NoColoring} OBVIOUS
  <2> HIDE DEF m
  <2>4. ASSUME NEW k \in S PROVE k \in m..g.n
    <3>1. k \in Nat /\ k <= g.n /\ Colorable(g, k) BY <1>0
    <3>2. CliqueNumber(g) <= k BY <3>1, CliqueNeedsColors
    <3>3. k # 0
      <4> SUFFICES ASSUME k = 0 PROVE FALSE OBVIOUS
      <4>1. 0 \in Vertices(g) BY <1>0, <1>3 DEF Vertices
      <4>2. PICK c \in [Vertices(g) -> 0..(0 - 1)] : TRUE BY <3>1 DEF Colorable
      <4>3. c[0] \in 0..(0 - 1) BY <4>1, <4>2
      <4> QED BY <4>3
    <3> QED BY <1>0, <2>2, <3>1, <3>2, <3>3
  <2>5. \A k : FindKColoring(g, k) # NoColoring <=> Colorable(g, k) BY WitnessFound
  <2>6. m..g.n \subseteq 0..g.n BY <1>0, <2>2
  <2>7. S = T BY <2>3, <2>4, <2>5, <2>6
  <2> QED BY <1>1, <2>1, <2>7
<1> QED BY <1>0, <1>2, <1>3

(***************************************************************************)
(* Hitting sets                                                            *)
(***************************************************************************)
IsHit(cliques, S) == \A Q \in cliques : Q \cap S # {}
\* S is what can be made of the chosen by adding vertices with no neighbour in S.
Extends(g, chosen, S) == chosen \subseteq S /\ \A v \in S \ chosen : Neighbors(g, v) \cap S = {}
CanHit(g, cliques, chosen) ==
    \E S \in SUBSET Vertices(g) : Extends(g, chosen, S) /\ IsHit(cliques, S)

\* One turn of the backtracking, with h for the answers it gets.
OpenIn(cliques, chosen) == {Q \in cliques : Q \cap chosen = {}}
HitsNext(h, g, cliques, chosen) ==
    \/ OpenIn(cliques, chosen) = {}
    \/ \E v \in CHOOSE Q \in OpenIn(cliques, chosen) : TRUE :
         Neighbors(g, v) \cap chosen = {} /\ h[chosen \cup {v}]

LEMMA NeighborsTurn ==
    ASSUME NEW g, IsGraph(g), NEW v \in Vertices(g), NEW w
    PROVE  w \in Neighbors(g, v) => w # v /\ v \in Neighbors(g, w)
<1> SUFFICES ASSUME w \in Neighbors(g, v) PROVE w # v /\ v \in Neighbors(g, w) OBVIOUS
<1>1. {v, w} \in g.edges /\ {v, w} = {w, v} BY DEF Neighbors
<1>2. v \in Neighbors(g, w) BY <1>1 DEF Neighbors
<1>3. IsFiniteSet(Vertices(g)) BY VerticesFinite DEF IsGraph
<1>4. {v, w} \in Pairs(Vertices(g)) BY <1>1 DEF IsGraph
<1>5. PICK x \in Vertices(g), y \in Vertices(g) : x # y /\ {v, w} = {x, y} BY <1>3, <1>4, PairsAre
<1> QED BY <1>2, <1>5

\* One turn is right when the answers it gets are.
LEMMA HitsTurn ==
    ASSUME NEW g, IsGraph(g), NEW cliques \in SUBSET SUBSET Vertices(g),
           NEW chosen \in SUBSET Vertices(g), NEW h,
           \A v \in Vertices(g) \ chosen : h[chosen \cup {v}] <=> CanHit(g, cliques, chosen \cup {v})
    PROVE  HitsNext(h, g, cliques, chosen) <=> CanHit(g, cliques, chosen)
<1> DEFINE open == OpenIn(cliques, chosen)
           Q == CHOOSE Q \in open : TRUE
<1>1. CASE open = {}
  <2>1. IsHit(cliques, chosen) BY <1>1 DEF OpenIn, IsHit
  <2>2. Extends(g, chosen, chosen) BY DEF Extends
  <2>3. CanHit(g, cliques, chosen) BY <2>1, <2>2 DEF CanHit
  <2> QED BY <1>1, <2>3 DEF HitsNext
<1>2. CASE open # {}
  <2>1. Q \in open BY <1>2
  <2>2. HitsNext(h, g, cliques, chosen)
          <=> \E v \in Q : Neighbors(g, v) \cap chosen = {} /\ h[chosen \cup {v}]
    BY <1>2 DEF HitsNext
  <2> HIDE DEF Q
  <2>3. Q \in cliques /\ Q \cap chosen = {} /\ Q \subseteq Vertices(g) BY <2>1 DEF OpenIn
  <2>4. ASSUME CanHit(g, cliques, chosen)
        PROVE  \E v \in Q : Neighbors(g, v) \cap chosen = {} /\ h[chosen \cup {v}]
    <3>1. PICK S \in SUBSET Vertices(g) : Extends(g, chosen, S) /\ IsHit(cliques, S)
      BY <2>4 DEF CanHit
    <3>2. PICK v \in Q : v \in S BY <2>3, <3>1 DEF IsHit
    <3>3. v \in S \ chosen /\ v \in Vertices(g) \ chosen BY <2>3, <3>2
    <3>4. Neighbors(g, v) \cap chosen = {} BY <3>1, <3>3 DEF Extends
    <3>5. Extends(g, chosen \cup {v}, S) BY <3>1, <3>3 DEF Extends
    <3>6. h[chosen \cup {v}] BY <3>1, <3>3, <3>5 DEF CanHit
    <3> QED BY <3>4, <3>6
  <2>5. ASSUME NEW v \in Q, Neighbors(g, v) \cap chosen = {}, h[chosen \cup {v}]
        PROVE  CanHit(g, cliques, chosen)
    <3>1. v \in Vertices(g) \ chosen BY <2>3
    <3>2. CanHit(g, cliques, chosen \cup {v}) BY <2>5, <3>1
    <3>3. PICK S \in SUBSET Vertices(g) : Extends(g, chosen \cup {v}, S) /\ IsHit(cliques, S)
      BY <3>2 DEF CanHit
    <3>4. ASSUME NEW w \in S \ chosen, NEW u \in S, u \in Neighbors(g, w) PROVE FALSE
      <4>1. CASE w # v BY <3>3, <3>4, <4>1 DEF Extends
      <4>2. CASE w = v
        <5>1. u # v /\ v \in Neighbors(g, u) BY <3>1, <3>4, <4>2, NeighborsTurn
        <5>2. u \notin chosen BY <2>5, <3>4, <4>2
        <5>3. u \in S \ (chosen \cup {v}) /\ v \in S BY <3>3, <3>4, <5>1, <5>2 DEF Extends
        <5> QED BY <3>3, <5>1, <5>3 DEF Extends
      <4> QED BY <4>1, <4>2
    <3>5. Extends(g, chosen, S) BY <3>3, <3>4 DEF Extends
    <3> QED BY <3>3, <3>5 DEF CanHit
  <2> QED BY <2>2, <2>4, <2>5
<1> QED BY <1>1, <1>2

\* The backtracking finds a set of vertices without edges that meets every clique, if any does.
LEMMA HitsFinds ==
    ASSUME NEW g, IsGraph(g), NEW cliques \in SUBSET SUBSET Vertices(g)
    PROVE  Hits(g, cliques) <=> CanHit(g, cliques, {})
<1> DEFINE V == Vertices(g)
           Row(s, chosen) == \/ {Q \in cliques : Q \cap chosen = {}} = {}
                             \/ \E v \in CHOOSE Q \in {Q \in cliques : Q \cap chosen = {}} : TRUE :
                                  Neighbors(g, v) \cap chosen = {} /\ s[chosen \cup {v}]
           Solves(s) == s = [chosen \in SUBSET V |-> Row(s, chosen)]
           can == [chosen \in SUBSET V |-> CanHit(g, cliques, chosen)]
           hits == CHOOSE s : Solves(s)
<1>1. \A s, chosen : Row(s, chosen) <=> HitsNext(s, g, cliques, chosen) BY DEF HitsNext, OpenIn
<1>2. Hits(g, cliques) = hits[{}] BY DEF Hits
<1>3. \A s, chosen : Row(s, chosen) \in BOOLEAN OBVIOUS
<1> HIDE DEF Row
<1>4. ASSUME NEW chosen \in SUBSET V PROVE Row(can, chosen) <=> can[chosen]
  <2>1. \A S \in SUBSET V : can[S] <=> CanHit(g, cliques, S) OBVIOUS
  <2> HIDE DEF can
  <2>2. \A v \in V \ chosen : can[chosen \cup {v}] <=> CanHit(g, cliques, chosen \cup {v})
    BY <2>1
  <2>3. HitsNext(can, g, cliques, chosen) <=> CanHit(g, cliques, chosen) BY <2>2, HitsTurn
  <2> QED BY <1>1, <2>1, <2>3
<1>5. Solves(can)
  <2>1. can = [chosen \in SUBSET V |-> can[chosen]] OBVIOUS
  <2>2. \A chosen \in SUBSET V : can[chosen] \in BOOLEAN BY DEF CanHit
  <2> HIDE DEF can
  <2>3. \A chosen \in SUBSET V : Row(can, chosen) = can[chosen] BY <1>3, <1>4, <2>2
  <2> QED BY <2>1, <2>3
<1>6. Solves(hits)
  <2> HIDE DEF Solves
  <2> QED BY <1>5
<1>7. \A chosen \in SUBSET V : hits[chosen] <=> HitsNext(hits, g, cliques, chosen)
  <2> HIDE DEF hits
  <2>1. \A chosen \in SUBSET V : hits[chosen] = Row(hits, chosen) BY <1>6
  <2> QED BY <1>1, <2>1
<1> HIDE DEF hits
<1> DEFINE P == {k \in Nat : \A chosen \in SUBSET V :
                   Cardinality(V \ chosen) <= k => (hits[chosen] <=> CanHit(g, cliques, chosen))}
<1>8. IsFiniteSet(V) BY VerticesFinite DEF IsGraph
<1>9. \A chosen \in SUBSET V : IsFiniteSet(V \ chosen) /\ Cardinality(V \ chosen) \in Nat
  BY <1>8, FS_Difference, FS_CardinalityType
<1>10. 0 \in P
  <2> SUFFICES ASSUME NEW chosen \in SUBSET V, Cardinality(V \ chosen) <= 0
               PROVE  hits[chosen] <=> CanHit(g, cliques, chosen)
    OBVIOUS
  <2>1. Cardinality(V \ chosen) = 0 BY <1>9
  <2>2. V \ chosen = {} BY <1>9, <2>1, FS_EmptySet
  <2>3. HitsNext(hits, g, cliques, chosen) <=> CanHit(g, cliques, chosen) BY <2>2, HitsTurn
  <2> QED BY <1>7, <2>3
<1>11. ASSUME NEW k \in Nat, k \in P PROVE k + 1 \in P
  <2> SUFFICES ASSUME NEW chosen \in SUBSET V, Cardinality(V \ chosen) <= k + 1
               PROVE  hits[chosen] <=> CanHit(g, cliques, chosen)
    OBVIOUS
  <2>1. ASSUME NEW v \in V \ chosen
        PROVE  hits[chosen \cup {v}] <=> CanHit(g, cliques, chosen \cup {v})
    <3>1. chosen \cup {v} \in SUBSET V /\ V \ (chosen \cup {v}) = (V \ chosen) \ {v} OBVIOUS
    <3>2. IsFiniteSet(V \ chosen) /\ Cardinality(V \ chosen) \in Nat BY <1>9
    <3> DEFINE left == V \ chosen
    <3>3. left \ {v} = V \ (chosen \cup {v}) /\ v \in left OBVIOUS
    <3>4. IsFiniteSet(left) /\ Cardinality(left) \in Nat /\ Cardinality(left) <= k + 1 BY <3>2
    <3> HIDE DEF left
    <3>5. Cardinality(left \ {v}) = Cardinality(left) - 1 BY <3>3, <3>4, FS_RemoveElement
    <3>6. Cardinality(left \ {v}) <= k BY <3>4, <3>5
    <3> DEFINE rest == V \ (chosen \cup {v})
    <3>7. Cardinality(rest) <= k BY <3>3, <3>6
    <3> QED BY <1>11, <3>1, <3>7
  <2>2. HitsNext(hits, g, cliques, chosen) <=> CanHit(g, cliques, chosen) BY <2>1, HitsTurn
  <2> QED BY <1>7, <2>2
<1> HIDE DEF P
<1>12. \A k \in Nat : k \in P BY <1>10, <1>11, CountUp, Zenon
<1>13. Cardinality(V \ {}) \in P /\ Cardinality(V \ {}) <= Cardinality(V \ {})
  <2>1. Cardinality(V \ {}) \in Nat BY <1>9
  <2> QED BY <1>12, <2>1
<1>14. hits[{}] <=> CanHit(g, cliques, {}) BY <1>13 DEF P
<1> QED BY <1>2, <1>14

\* What the claim says: an independent set that meets every maximum clique.
MetBySome(g) == \E S \in SUBSET Vertices(g) :
                  /\ IsIndependent(g, S)
                  /\ \A Q \in MaximumCliques(g) : g.n > 0 => Q \cap S # {}

LEMMA HittingSetIs ==
    ASSUME NEW g, IsGraph(g)
    PROVE  HasHittingSet(g) <=> MetBySome(g)
<1>1. IsFiniteSet(Vertices(g)) /\ g.n \in Nat BY VerticesFinite DEF IsGraph
<1>2. ASSUME NEW S \in SUBSET Vertices(g) PROVE Extends(g, {}, S) <=> IsIndependent(g, S)
  <2>1. IsFiniteSet(S) BY <1>1, FS_Subset
  <2>2. ASSUME NEW v \in S, NEW w \in S, w \in Neighbors(g, v), IsIndependent(g, S) PROVE FALSE
    <3>1. w # v BY <2>2, NeighborsTurn
    <3>2. {v, w} \in Pairs(S) BY <2>1, <3>1, PairsAre
    <3> QED BY <2>2, <3>2 DEF IsIndependent, Neighbors
  <2>3. ASSUME NEW e \in Pairs(S), e \in g.edges, Extends(g, {}, S) PROVE FALSE
    <3>1. PICK x \in S, y \in S : x # y /\ e = {x, y} BY <2>1, PairsAre
    <3>2. y \in Neighbors(g, x) BY <2>3, <3>1 DEF Neighbors
    <3> QED BY <2>3, <3>1, <3>2 DEF Extends
  <2> QED BY <2>2, <2>3 DEF Extends, IsIndependent
<1>3. MaximumCliques(g) \in SUBSET SUBSET Vertices(g) BY DEF MaximumCliques, kSubset
<1>4. CASE g.n = 0
  <2>1. Pairs({}) = {} BY FS_EmptySet, PairsAre
  <2>2. IsIndependent(g, {}) BY <2>1 DEF IsIndependent
  <2> QED BY <1>4, <2>2 DEF HasHittingSet, MetBySome
<1>5. CASE g.n # 0
  <2>1. HasHittingSet(g) <=> CanHit(g, MaximumCliques(g), {})
    BY <1>3, <1>5, HitsFinds DEF HasHittingSet
  <2>2. g.n > 0 BY <1>1, <1>5
  <2> QED BY <1>2, <2>1, <2>2 DEF CanHit, IsHit, MetBySome
<1> QED BY <1>4, <1>5

(***************************************************************************)
(* The tools that answer with a number or a bound, and the census          *)
(***************************************************************************)
Numbers == {"decide_colorable", "chromatic_number", "clique_number", "independence_number",
            "contains_clique", "independent_hitting_set", "bk_predicate", "reed_predicate"}

LEMMA MaxDegreeType == ASSUME NEW g, IsGraph(g) PROVE MaxDegree(g) \in Nat
<1> DEFINE S == {Degree(g, v) : v \in Vertices(g)} \cup {0}
<1>1. g.n \in Nat /\ IsFiniteSet(Vertices(g)) /\ Cardinality(Vertices(g)) = g.n
  BY VerticesFinite DEF IsGraph
<1>2. \A v : Degree(g, v) \in Nat /\ Degree(g, v) <= g.n
  <2> SUFFICES ASSUME NEW v PROVE Degree(g, v) \in Nat /\ Degree(g, v) <= g.n OBVIOUS
  <2>1. Neighbors(g, v) \in SUBSET Vertices(g) BY DEF Neighbors
  <2>2. Cardinality(Neighbors(g, v)) <= g.n BY <1>1, <2>1, FS_Subset
  <2> QED BY <2>2, DegreeType DEF Degree
<1>3. S \subseteq Nat /\ S # {} /\ \A x \in S : x <= g.n BY <1>1, <1>2
<1>4. MaxDegree(g) = Max(S) BY DEF MaxDegree
<1> HIDE DEF S
<1>5. Max(S) \in S BY <1>1, <1>3, MaxIs
<1> QED BY <1>3, <1>4, <1>5

\* The bound rounds the mean up, and is reached at the two differences of the census.
LEMMA ReedIs ==
    ASSUME NEW g, IsGraph(g)
    PROVE  /\ Chi(g) <= ReedBound(g, CliqueNumber(g)) <=> SatisfiesReed(g)
           /\ Chi(g) = ReedBound(g, CliqueNumber(g))
                <=> 2 * Chi(g) - (MaxDegree(g) + CliqueNumber(g)) \in 1..2
           /\ Chi(g) > ReedBound(g, CliqueNumber(g)) <=> ~SatisfiesReed(g)
<1>1. Chi(g) \in Nat /\ MaxDegree(g) \in Nat /\ CliqueNumber(g) \in Nat
  BY ChiType, MaxDegreeType, CliqueNumberIs
<1>2. \A c, d, w \in Nat : /\ c <= (d + w + 2) \div 2 <=> 2 * c <= d + w + 2
                           /\ c = (d + w + 2) \div 2 <=> 2 * c - (d + w) \in 1..2
                           /\ c > (d + w + 2) \div 2 <=> ~(2 * c <= d + w + 2)
  BY SMT
<1>3. /\ ReedBound(g, CliqueNumber(g)) = (MaxDegree(g) + CliqueNumber(g) + 2) \div 2
      /\ SatisfiesReed(g) <=> 2 * Chi(g) <= MaxDegree(g) + CliqueNumber(g) + 2
  BY DEF ReedBound, SatisfiesReed
<1> QED BY <1>1, <1>2, <1>3

\* What the claims of these tools say.
LEMMA NumbersSay ==
    ASSUME NEW r, NEW o
    PROVE  /\ o.says = "colorable" => (Holds(r, o) <=> Colorable(r.g, o.value))
           /\ o.says = "not colorable" => (Holds(r, o) <=> ~Colorable(r.g, o.value))
           /\ o.says = "chi" => (Holds(r, o) <=> o.value = Chi(r.g))
           /\ o.says = "omega" => (Holds(r, o) <=> o.value = Alpha(Complement(r.g)))
           /\ o.says = "alpha" => (Holds(r, o) <=> o.value = Alpha(r.g))
           /\ o.says = "clique" =>
                (Holds(r, o) <=> ((o.value = 1) <=> Alpha(Complement(r.g)) >= r.k))
           /\ o.says = "hypothesis not met" => (Holds(r, o) <=> MaxDegree(r.g) < BK_DELTA)
           /\ o.says \in {"satisfies BK", "violates BK"} =>
                (Holds(r, o) <=> ((o.says = "satisfies BK")
                                    <=> Chi(r.g) <= Max({CliqueNumber(r.g), MaxDegree(r.g) - 1})))
           /\ o.says \in {"satisfies Reed", "violates Reed"} =>
                (Holds(r, o) <=> ((o.says = "satisfies Reed") <=> SatisfiesReed(r.g)))
<1>1. ASSUME o.says = "colorable" PROVE Holds(r, o) <=> Colorable(r.g, o.value) BY <1>1 DEF Holds
<1>2. ASSUME o.says = "not colorable" PROVE Holds(r, o) <=> ~Colorable(r.g, o.value)
  BY <1>2 DEF Holds
<1>3. ASSUME o.says = "chi" PROVE Holds(r, o) <=> o.value = Chi(r.g) BY <1>3 DEF Holds
<1>4. ASSUME o.says = "omega" PROVE Holds(r, o) <=> o.value = Alpha(Complement(r.g))
  BY <1>4 DEF Holds
<1>5. ASSUME o.says = "alpha" PROVE Holds(r, o) <=> o.value = Alpha(r.g) BY <1>5 DEF Holds
<1>6. ASSUME o.says = "clique"
      PROVE  Holds(r, o) <=> ((o.value = 1) <=> Alpha(Complement(r.g)) >= r.k)
  BY <1>6 DEF Holds
<1>7. ASSUME o.says = "hypothesis not met" PROVE Holds(r, o) <=> MaxDegree(r.g) < BK_DELTA
  BY <1>7 DEF Holds
<1>8. ASSUME o.says \in {"satisfies BK", "violates BK"}
      PROVE  Holds(r, o) <=> ((o.says = "satisfies BK")
                                <=> Chi(r.g) <= Max({CliqueNumber(r.g), MaxDegree(r.g) - 1}))
  BY <1>8 DEF Holds
<1>9. ASSUME o.says \in {"satisfies Reed", "violates Reed"}
      PROVE  Holds(r, o) <=> ((o.says = "satisfies Reed") <=> SatisfiesReed(r.g))
  BY <1>9 DEF Holds
<1> QED BY <1>1, <1>2, <1>3, <1>4, <1>5, <1>6, <1>7, <1>8, <1>9, Zenon

LEMMA HittingSetSays ==
    ASSUME NEW r, NEW o, o.says = "hitting set"
    PROVE  Holds(r, o) <=>
             ((o.value = 1) <=> MetBySome(r.g))
BY DEF Holds, MetBySome

LEMMA ClaimFields ==
    ASSUME NEW says, NEW value
    PROVE  /\ Certified(says, value).says = says /\ Certified(says, value).value = value
           /\ Enumerated(says, value, TRUE).says = says /\ Enumerated(says, value, TRUE).value = value
BY DEF Certified, Enumerated, Claim

\* Every answer of these tools is true.
LEMMA NumbersHold ==
    ASSUME NEW r \in Requests, r.tool \in Numbers
    PROVE  Truthful(r, AnswerTo(r))
<1> DEFINE o == AnswerTo(r)
           certs == ChromaticCertificates(r.g)
<1>0. IsRequest(r) BY RequestsType
<1>1. IsGraph(r.g) BY <1>0 DEF IsRequest, Numbers
<1>2. certs.chi = Chi(r.g) /\ certs.omega = CliqueNumber(r.g) BY <1>1, CertificatesFound
<1>3. Alpha(Complement(r.g)) = CliqueNumber(r.g) /\ CliqueNumber(Complement(r.g)) = Alpha(r.g)
  BY <1>1, ComplementTurns
<1>4. ASSUME NEW out, Truthful(r, out), o = Bundled(r.g, certs, out) PROVE Truthful(r, o)
  <2>1. Truthful(r, Unminted("error")) BY DEF Truthful, Unminted
  <2> HIDE DEF o, certs
  <2> QED BY <1>4, <2>1 DEF Bundled
<1>5. CASE r.tool = "decide_colorable"
  <2>1. o = DecideColorable(r.g, r.k) BY <1>5 DEF AnswerTo
  <2> HIDE DEF o
  <2>2. CASE FindKColoring(r.g, r.k) # NoColoring
    <3>1. o = Certified("colorable", r.k) BY <2>1, <2>2 DEF DecideColorable
    <3>2. o.says = "colorable" /\ o.value = r.k BY <3>1, ClaimFields
    <3>3. Colorable(r.g, r.k) BY <1>1, <2>2, WitnessFound
    <3>4. Holds(r, o) BY <3>2, <3>3, NumbersSay
    <3> QED BY <3>4 DEF Truthful, o
  <2>3. CASE FindKColoring(r.g, r.k) = NoColoring
    <3>1. o = Certified("not colorable", r.k) \/ o = Enumerated("not colorable", r.k, TRUE)
      BY <2>1, <2>3 DEF DecideColorable
    <3>2. o.says = "not colorable" /\ o.value = r.k
      <4>1. CASE o = Certified("not colorable", r.k) BY <4>1, ClaimFields
      <4>2. CASE o = Enumerated("not colorable", r.k, TRUE) BY <4>2, ClaimFields
      <4> QED BY <3>1, <4>1, <4>2
    <3>3. ~Colorable(r.g, r.k) BY <1>1, <2>3, WitnessFound
    <3>4. Holds(r, o) BY <3>2, <3>3, NumbersSay
    <3> QED BY <3>4 DEF Truthful, o
  <2> QED BY <2>2, <2>3 DEF o
<1>6. CASE r.tool = "chromatic_number"
  <2> DEFINE out == IF certs.lower = "unsat" THEN Enumerated("chi", certs.chi, TRUE)
                    ELSE Certified("chi", certs.chi)
  <2>1. o = Bundled(r.g, certs, out) BY <1>6 DEF AnswerTo, ChromaticNumber
  <2> HIDE DEF o, certs
  <2>2. out = Certified("chi", certs.chi) \/ out = Enumerated("chi", certs.chi, TRUE) OBVIOUS
  <2> HIDE DEF out
  <2>3. out.says = "chi" /\ out.value = certs.chi BY <2>2 DEF Certified, Enumerated, Claim
  <2>4. Holds(r, out) BY <1>2, <2>3, NumbersSay
  <2>5. Truthful(r, out) BY <2>4 DEF Truthful
  <2> QED BY <1>4, <2>1, <2>5 DEF o
<1>7. CASE r.tool = "clique_number"
  <2>1. o = Certified("omega", CliqueNumber(r.g)) BY <1>7 DEF AnswerTo
  <2> HIDE DEF o
  <2>2. o.says = "omega" /\ o.value = CliqueNumber(r.g) BY <2>1, ClaimFields
  <2>3. Holds(r, o) BY <1>3, <2>2, NumbersSay
  <2> QED BY <2>3 DEF Truthful, o
<1>8. CASE r.tool = "independence_number"
  <2>1. o = Certified("alpha", CliqueNumber(Complement(r.g)))
    BY <1>8 DEF AnswerTo, IndependenceNumber
  <2> HIDE DEF o
  <2>2. o.says = "alpha" /\ o.value = CliqueNumber(Complement(r.g)) BY <2>1, ClaimFields
  <2>3. Holds(r, o) BY <1>3, <2>2, NumbersSay
  <2> QED BY <2>3 DEF Truthful, o
<1>9. CASE r.tool = "contains_clique"
  <2>1. o = Relation("clique", FindClique(r.g, r.k) # {}) BY <1>9 DEF AnswerTo
  <2>2. r.k \in Int BY <1>0, <1>9 DEF IsRequest
  <2> HIDE DEF o
  <2>3. FindClique(r.g, r.k) # {} <=> CliqueNumber(r.g) >= r.k BY <1>1, <2>2, CliqueFound
  <2>4. o.says = "clique" /\ ((o.value = 1) <=> FindClique(r.g, r.k) # {})
    BY <2>1 DEF Relation, Certified, Enumerated, Claim
  <2>5. Holds(r, o) BY <1>3, <2>3, <2>4, NumbersSay
  <2> QED BY <2>5 DEF Truthful, o
<1>10. CASE r.tool = "independent_hitting_set"
  <2>1. o = HittingSetTool(r.g) BY <1>10 DEF AnswerTo
  <2> HIDE DEF o
  <2>2. o.says = "hitting set" /\ ((o.value = 1) <=> HasHittingSet(r.g))
    <3>1. CASE HasHittingSet(r.g)
      <4>1. o = Certified("hitting set", 1) BY <2>1, <3>1 DEF HittingSetTool
      <4> QED BY <3>1, <4>1, ClaimFields
    <3>2. CASE ~HasHittingSet(r.g)
      <4>1. o = Enumerated("hitting set", 0, TRUE) BY <2>1, <3>2 DEF HittingSetTool
      <4>2. o.says = "hitting set" /\ o.value = 0 BY <4>1, ClaimFields
      <4>3. 0 # 1 OBVIOUS
      <4> QED BY <3>2, <4>2, <4>3
    <3> QED BY <3>1, <3>2
  <2>3. Holds(r, o) BY <1>1, <2>2, HittingSetSays, HittingSetIs
  <2> QED BY <2>3 DEF Truthful, o
<1>11. CASE r.tool = "bk_predicate"
  <2>1. o = BkPredicate(r.g) BY <1>11 DEF AnswerTo
  <2>2. CASE MaxDegree(r.g) < BK_DELTA
    <3>1. o = Enumerated("hypothesis not met", MaxDegree(r.g), TRUE) BY <2>1, <2>2 DEF BkPredicate
    <3> HIDE DEF o
    <3>2. o.says = "hypothesis not met" BY <3>1, ClaimFields
    <3>3. Holds(r, o) BY <2>2, <3>2, NumbersSay
    <3> QED BY <3>3 DEF Truthful, o
  <2>3. CASE ~(MaxDegree(r.g) < BK_DELTA)
    <3> DEFINE holds == certs.chi <= Max({certs.omega, MaxDegree(r.g) - 1})
               out == IF holds THEN Certified("satisfies BK", certs.chi)
                      ELSE Certified("violates BK", certs.chi)
    <3>1. o = Bundled(r.g, certs, out) BY <2>1, <2>3 DEF BkPredicate
    <3>2. holds <=> Chi(r.g) <= Max({CliqueNumber(r.g), MaxDegree(r.g) - 1}) BY <1>2
    <3> HIDE DEF o, certs, holds
    <3>3. /\ out.says \in {"satisfies BK", "violates BK"}
          /\ (out.says = "satisfies BK") <=> holds
      BY DEF Certified, Claim
    <3> HIDE DEF out
    <3>4. Holds(r, out) BY <3>2, <3>3, NumbersSay
    <3>5. Truthful(r, out) BY <3>4 DEF Truthful
    <3> QED BY <1>4, <3>1, <3>5 DEF o
  <2> QED BY <2>2, <2>3
<1>12. CASE r.tool = "reed_predicate"
  <2> DEFINE holds == certs.chi <= ReedBound(r.g, certs.omega)
             out == IF holds THEN Certified("satisfies Reed", certs.chi)
                    ELSE Certified("violates Reed", certs.chi)
  <2>1. o = Bundled(r.g, certs, out) BY <1>12 DEF AnswerTo, ReedPredicate
  <2>2. holds <=> SatisfiesReed(r.g) BY <1>1, <1>2, ReedIs
  <2> HIDE DEF o, certs, holds
  <2>3. /\ out.says \in {"satisfies Reed", "violates Reed"}
        /\ (out.says = "satisfies Reed") <=> holds
    BY DEF Certified, Claim
  <2> HIDE DEF out
  <2>4. Holds(r, out) BY <2>2, <2>3, NumbersSay
  <2>5. Truthful(r, out) BY <2>4 DEF Truthful
  <2> QED BY <1>4, <2>1, <2>5 DEF o
<1> QED BY <1>5, <1>6, <1>7, <1>8, <1>9, <1>10, <1>11, <1>12 DEF Numbers

IsTight(g) == 2 * Chi(g) - (MaxDegree(g) + CliqueNumber(g)) \in 1..2
Seen(r, left) == Family(r) \ left
Censused(r) == r \in Requests /\ r.tool = "reed_sweep" /\ r.lo >= 1 /\ ~(r.hi < r.lo)

\* What has been seen satisfies Reed, and those of it that reach the bound are counted.
CensusSays(r, left, tight) ==
    /\ left \subseteq Family(r)
    /\ \A g \in Seen(r, left) : SatisfiesReed(g)
    /\ tight = Cardinality({g \in Seen(r, left) : IsTight(g)})

CensusInv ==
    phase = "census" => Censused(call) /\ CensusSays(call, job.left, job.tight)

Numbered == Numbers \cup {"reed_sweep"}
NumbersTruthful == phase = "done" /\ call.tool \in Numbered => Truthful(call, last)

LEMMA FamilyOf ==
    ASSUME NEW r, Censused(r)
    PROVE  IsFiniteSet(Family(r)) /\ \A g \in Family(r) : IsGraph(g)
<1> DEFINE F(n) == {g \in AllGraphs[n] : r.connected => IsConnected(g, Vertices(g))}
           N == r.lo..r.hi
<1>1. IsRequest(r) BY RequestsType DEF Censused
<1>2. r.lo \in Int /\ r.hi \in Int BY <1>1 DEF IsRequest, Censused
<1>3. N \subseteq DOMAIN AllGraphs BY CensusType DEF Censused
<1>4. IsFiniteSet(N) BY <1>2, FS_Interval
<1>5. \A n \in N : IsFiniteSet(F(n)) /\ \A g \in F(n) : IsGraph(g)
  <2> SUFFICES ASSUME NEW n \in N PROVE IsFiniteSet(F(n)) /\ \A g \in F(n) : IsGraph(g) OBVIOUS
  <2>1. IsFiniteSet(AllGraphs[n]) /\ \A g \in AllGraphs[n] : IsGraph(g) BY <1>3, AllGraphsType
  <2>2. F(n) \in SUBSET AllGraphs[n] OBVIOUS
  <2> HIDE DEF F
  <2> QED BY <2>1, <2>2, FS_Subset
<1>6. Family(r) = UNION {F(n) : n \in N} BY DEF Family
<1> HIDE DEF F, N
<1> DEFINE all == {F(n) : n \in N}
           h == [n \in N |-> F(n)]
<1>7. IsFiniteSet(all)
  <2>1. h \in Surjection(N, all)
    <3>1. h \in [N -> all] OBVIOUS
    <3>2. \A y \in all : \E n \in N : h[n] = y OBVIOUS
    <3> QED BY <3>1, <3>2 DEF Surjection
  <2> HIDE DEF h, all
  <2> QED BY <1>4, <2>1, FS_Surjection
<1>8. \A T \in all : IsFiniteSet(T) BY <1>5
<1>9. \A g \in UNION all : IsGraph(g) BY <1>5
<1> HIDE DEF all
<1>10. IsFiniteSet(UNION all) BY <1>7, <1>8, FS_UNION
<1> QED BY <1>6, <1>9, <1>10 DEF all

\* The next graph is one that is left.
LEMMA NextGraph ==
    ASSUME NEW r, Censused(r), NEW left, left \subseteq Family(r), left # {}
    PROVE  (CHOOSE h \in left : \A k \in left : h.n <= k.n) \in left
<1> DEFINE T == {h.n : h \in left}
<1>1. \A h \in left : h.n \in Nat BY FamilyOf DEF IsGraph
<1>2. T \subseteq Nat /\ T # {} BY <1>1
<1> HIDE DEF T
<1>3. PICK m \in T : \A y \in T : m <= y BY <1>2, LeastNumber
<1>4. PICK h \in left : h.n = m BY DEF T
<1>5. \A k \in left : k.n \in T BY DEF T
<1>6. \E h_1 \in left : \A k \in left : h_1.n <= k.n BY <1>3, <1>4, <1>5
<1> QED BY <1>6

\* A graph that satisfies Reed is seen, and counted when it reaches the bound.
LEMMA OneSeen ==
    ASSUME NEW r, Censused(r), NEW left, NEW tight, CensusSays(r, left, tight),
           NEW g \in left, SatisfiesReed(g)
    PROVE  CensusSays(r, left \ {g}, tight + IF IsTight(g) THEN 1 ELSE 0)
<1> DEFINE seen == Seen(r, left)
           more == Seen(r, left \ {g})
           T == {h \in seen : IsTight(h)}
           U == {h \in more : IsTight(h)}
<1>1. IsFiniteSet(Family(r)) BY FamilyOf
<1>2. left \subseteq Family(r) /\ g \in Family(r) BY DEF CensusSays
<1>3. more = seen \cup {g} /\ g \notin seen BY <1>2 DEF Seen
<1>4. \A h \in more : SatisfiesReed(h) BY <1>3 DEF CensusSays
<1>5. tight = Cardinality(T) BY DEF CensusSays
<1>6. T \in SUBSET Family(r) BY DEF Seen
<1>7. U = IF IsTight(g) THEN T \cup {g} ELSE T
  <2> HIDE DEF seen, more
  <2> QED BY <1>3
<1>8. g \notin T BY <1>3
<1> HIDE DEF T, U, seen, more
<1>9. IsFiniteSet(T) /\ Cardinality(T) \in Nat BY <1>1, <1>6, FS_Subset, FS_CardinalityType
<1>10. Cardinality(U) = tight + IF IsTight(g) THEN 1 ELSE 0
  <2>1. CASE IsTight(g)
    <3>1. Cardinality(T \cup {g}) = Cardinality(T) + 1 BY <1>8, <1>9, FS_AddElement
    <3> QED BY <1>5, <1>7, <2>1, <3>1
  <2>2. CASE ~IsTight(g) BY <1>5, <1>7, <1>9, <2>2
  <2> QED BY <2>1, <2>2
<1> QED BY <1>2, <1>4, <1>10 DEF CensusSays, U, more

LEMMA CensusBegins ==
    ASSUME NEW r, Censused(r)
    PROVE  CensusSays(r, Family(r), 0)
<1>1. Seen(r, Family(r)) = {} BY DEF Seen
<1>2. {g \in Seen(r, Family(r)) : IsTight(g)} = {} BY <1>1
<1>3. Cardinality({g \in Seen(r, Family(r)) : IsTight(g)}) = 0 BY <1>2, FS_EmptySet
<1> QED BY <1>1, <1>3 DEF CensusSays

\* What the claims of the census say.
LEMMA CensusClaims ==
    ASSUME NEW r, NEW o
    PROVE  /\ o.says = "Reed tight" =>
                (Holds(r, o) <=> /\ \A g \in Family(r) : SatisfiesReed(g)
                                 /\ o.value = Cardinality({g \in Family(r) : IsTight(g)}))
           /\ o.says = "violation" => (Holds(r, o) <=> \E g \in Family(r) : ~SatisfiesReed(g))
<1>1. ASSUME o.says = "Reed tight"
      PROVE  Holds(r, o) <=> /\ \A g \in Family(r) : SatisfiesReed(g)
                             /\ o.value = Cardinality({g \in Family(r) : IsTight(g)})
  BY <1>1 DEF Holds, IsTight
<1>2. ASSUME o.says = "violation" PROVE Holds(r, o) <=> \E g \in Family(r) : ~SatisfiesReed(g)
  BY <1>2 DEF Holds
<1> QED BY <1>1, <1>2, Zenon

CountsInv == CensusInv /\ NumbersTruthful

LEMMA CensusStep ==
    ASSUME CountsInv, SweepOne
    PROVE  CountsInv'
<1> DEFINE g == CHOOSE h \in job.left : \A k \in job.left : h.n <= k.n
           certs == ChromaticCertificates(g)
<1>1. phase = "census" /\ job.left # {} /\ call' = call BY DEF SweepOne
<1>2. Censused(call) /\ CensusSays(call, job.left, job.tight) BY <1>1 DEF CountsInv, CensusInv
<1>3. call.tool \in Numbered BY <1>2 DEF Censused, Numbered
<1>4. g \in job.left BY <1>1, <1>2, NextGraph DEF CensusSays
<1>5. g \in Family(call) /\ IsGraph(g) BY <1>2, <1>4, FamilyOf DEF CensusSays
<1>6. \/ Finish(Unminted("error"))
      \/ certs.chi > ReedBound(g, certs.omega) /\ Finish(Certified("violation", g.n))
      \/ /\ ~(certs.chi > ReedBound(g, certs.omega))
         /\ job' = [left |-> job.left \ {g},
                    tight |-> job.tight + IF certs.chi = ReedBound(g, certs.omega) THEN 1 ELSE 0]
         /\ UNCHANGED <<phase, last>>
  BY DEF SweepOne
<1>7. /\ certs.chi > ReedBound(g, certs.omega) <=> ~SatisfiesReed(g)
      /\ certs.chi = ReedBound(g, certs.omega) <=> IsTight(g)
  BY <1>5, CertificatesFound, ReedIs DEF IsTight
<1> HIDE DEF g, certs
<1>8. CASE Finish(Unminted("error"))
  <2>1. phase' = "done" /\ last'.kind # "claim" BY <1>8 DEF Finish, Unminted
  <2> QED BY <2>1 DEF CountsInv, CensusInv, NumbersTruthful, Truthful
<1>9. CASE certs.chi > ReedBound(g, certs.omega) /\ Finish(Certified("violation", g.n))
  <2>1. phase' = "done" /\ last' = Certified("violation", g.n) BY <1>9 DEF Finish
  <2>2. last'.says = "violation" BY <2>1, ClaimFields
  <2>3. \E h \in Family(call) : ~SatisfiesReed(h) BY <1>5, <1>7, <1>9
  <2>4. Holds(call, last') BY <2>2, <2>3, CensusClaims
  <2> QED BY <1>1, <2>1, <2>4 DEF CountsInv, CensusInv, NumbersTruthful, Truthful
<1>10. CASE /\ ~(certs.chi > ReedBound(g, certs.omega))
            /\ job' = [left |-> job.left \ {g},
                       tight |-> job.tight + IF certs.chi = ReedBound(g, certs.omega) THEN 1 ELSE 0]
            /\ UNCHANGED <<phase, last>>
  <2>1. job'.left = job.left \ {g} /\ job'.tight = job.tight + IF IsTight(g) THEN 1 ELSE 0
    BY <1>7, <1>10
  <2>2. CensusSays(call, job'.left, job'.tight) BY <1>2, <1>4, <1>7, <1>10, <2>1, OneSeen
  <2> QED BY <1>1, <1>2, <1>10, <2>2 DEF CountsInv, CensusInv, NumbersTruthful
<1> QED BY <1>6, <1>8, <1>9, <1>10

LEMMA CensusEnds ==
    ASSUME CountsInv, SweepEnds
    PROVE  CountsInv'
<1>1. /\ phase = "census" /\ job.left = {} /\ call' = call /\ phase' = "done"
      /\ last' = Enumerated("Reed tight", job.tight, TRUE)
  BY DEF SweepEnds, Finish
<1>2. CensusSays(call, {}, job.tight) BY <1>1 DEF CountsInv, CensusInv
<1>3. Seen(call, {}) = Family(call) BY DEF Seen
<1>4. last'.says = "Reed tight" /\ last'.value = job.tight BY <1>1 DEF Enumerated, Claim
<1>5. /\ \A g \in Family(call) : SatisfiesReed(g)
      /\ job.tight = Cardinality({g \in Family(call) : IsTight(g)})
  BY <1>2, <1>3 DEF CensusSays
<1>6. Holds(call, last') BY <1>4, <1>5, CensusClaims
<1> QED BY <1>1, <1>6 DEF CountsInv, CensusInv, NumbersTruthful, Truthful

LEMMA CountsStep == ASSUME SearchInv, OwnPhase, CountsInv, [Next]_vars PROVE CountsInv'
<1>1. CASE UNCHANGED vars
  BY <1>1 DEF vars, CountsInv, CensusInv, NumbersTruthful
<1>2. ASSUME phase' # "census", phase' = "done" => call'.tool \notin Numbered PROVE CountsInv'
  BY <1>2 DEF CountsInv, CensusInv, NumbersTruthful
<1>3. ASSUME phase' = "done", last'.kind # "claim" PROVE CountsInv'
  BY <1>3 DEF CountsInv, CensusInv, NumbersTruthful, Truthful
<1>4. ASSUME NEW r \in Requests, Answer(r) PROVE CountsInv'
  <2>1. phase' = "done" /\ call' = r /\ r.tool \in Immediate /\ last' = AnswerTo(r)
    BY <1>4 DEF Answer, Finish
  <2>2. CASE r.tool \in Numbers
    <3>1. Truthful(r, AnswerTo(r)) BY <2>2, NumbersHold
    <3> QED BY <2>1, <3>1 DEF CountsInv, CensusInv, NumbersTruthful, Truthful
  <2>3. CASE r.tool \notin Numbers
    <3>1. r.tool # "reed_sweep" BY <2>1 DEF Immediate, Edits, Combinations
    <3> QED BY <1>2, <2>1, <2>3, <3>1 DEF Numbered
  <2> QED BY <2>2, <2>3
<1>5. \A tool \in Searching \cup {"fixer_breaker", "mind", "is_fixable"} : tool \notin Numbered
  BY DEF Searching, Numbered, Numbers
<1>6. ASSUME NEW r \in Requests, Refuse(r) PROVE CountsInv'
  <2>1. phase' = "done" /\ call' = r /\ r.tool \in Searching BY <1>6 DEF Refuse, Finish
  <2> QED BY <1>2, <1>5, <2>1
<1>7. ASSUME NEW r \in Requests, Begin(r) \/ Play(r) PROVE CountsInv'
  <2>1. phase' \in {"search", "packing"} BY <1>7 DEF Begin, Play
  <2> QED BY <1>2, <2>1
<1>8. ASSUME NEW r \in Requests, AskFixable(r) PROVE CountsInv'
  <2>1. phase' = "done" /\ call'.tool = "is_fixable" BY <1>8 DEF AskFixable, Finish
  <2> QED BY <1>2, <1>5, <2>1
<1>9. ASSUME NEW r \in Requests, Sweep(r) PROVE CountsInv'
  <2>1. r.tool = "reed_sweep" /\ call' = r BY <1>9 DEF Sweep
  <2>2. r.lo \in Int /\ r.hi \in Int
    <3>1. IsRequest(r) BY RequestsType
    <3> QED BY <2>1, <3>1 DEF IsRequest
  <2>3. CASE r.lo < 1 \/ r.hi < r.lo
    <3>1. phase' = "done" /\ last' = Unminted("error") BY <1>9, <2>3 DEF Sweep, Finish
    <3>2. last'.kind # "claim" BY <3>1 DEF Unminted
    <3> QED BY <1>3, <3>1, <3>2
  <2>4. CASE ~(r.lo < 1 \/ r.hi < r.lo)
    <3>1. phase' = "census" /\ job'.left = Family(r) /\ job'.tight = 0
      BY <1>9, <2>4 DEF Sweep
    <3>2. Censused(r) BY <2>1, <2>2, <2>4 DEF Censused
    <3>3. CensusSays(r, Family(r), 0) BY <3>2, CensusBegins
    <3>4. Censused(call') /\ CensusSays(call', job'.left, job'.tight) BY <2>1, <3>1, <3>2, <3>3
    <3> QED BY <3>1, <3>4 DEF CountsInv, CensusInv, NumbersTruthful
  <2> QED BY <2>3, <2>4
<1>10. ASSUME Refine \/ Pack \/ Round \/ Deliver PROVE CountsInv'
  <2>1. phase' \in {"search", "packing", "game", "idle"} BY <1>10 DEF Refine, Pack, Round, Deliver
  <2> QED BY <1>2, <2>1
<1>11. ASSUME FindBad \/ Exhaust \/ Leave PROVE CountsInv'
  <2>1. phase' \in {"search", "leaving", "done"} /\ call' = call /\ phase \in {"search", "leaving"}
    BY <1>11 DEF FindBad, Exhaust, SearchEnds, Leaving, Critical, NextEdge, Finish, Leave
  <2>2. call.tool \in Searching BY <2>1 DEF SearchInv, Called
  <2> QED BY <1>2, <1>5, <2>1, <2>2
<1>12. ASSUME Deal \/ GameOver PROVE CountsInv'
  <2>1. phase \in {"packing", "game"} /\ phase' \in {"game", "done"} /\ call' = call
    BY <1>12 DEF Deal, GameOver, Finish
  <2>2. call.tool \in {"fixer_breaker", "mind"} BY <2>1 DEF OwnPhase
  <2> QED BY <1>2, <1>5, <2>1, <2>2
<1>13. ASSUME Alarm PROVE CountsInv'
  <2>1. phase' = "done" /\ (last' = Unminted("budget") \/ last' = Unminted("error"))
    BY <1>13 DEF Alarm, Finish
  <2>2. last'.kind # "claim" BY <2>1 DEF Unminted
  <2> QED BY <1>3, <2>1, <2>2
<1> QED
  BY <1>1, <1>4, <1>6, <1>7, <1>8, <1>9, <1>10, <1>11, <1>12, <1>13, CensusStep, CensusEnds
     DEF Next, Working

\* Every claim about the colourings, cliques and independent sets of a graph is true by
\* definition, whichever of the roots of trust it is stamped with: decide_colorable,
\* chromatic_number, clique_number, independence_number, contains_clique, bk_predicate,
\* reed_predicate and independent_hitting_set, and the count or the counterexample that
\* reed_sweep ends with (list_checks.py, hitting_set.py, reed_sweep). For every graph, and
\* every list of graphs that geng may give.
THEOREM NumbersAreTrue == Spec => []NumbersTruthful
<1>1. Init => CountsInv /\ OwnPhase BY DEF Init, CountsInv, CensusInv, NumbersTruthful, OwnPhase
<1>2. SearchInv /\ (CountsInv /\ OwnPhase) /\ [Next]_vars => (CountsInv /\ OwnPhase)'
  BY CountsStep, OwnPhaseStep
<1>3. CountsInv /\ OwnPhase => NumbersTruthful BY DEF CountsInv
<1> QED BY <1>1, <1>2, <1>3, SearchAlways, PTL DEF Spec
==============================================================================
