------------------------------ MODULE Referee ------------------------------
(***************************************************************************)
(* The referee of a claim (referee.py): six heuristic checks over the text  *)
(* of the claim, an adversarial pass by a model, and the merge of the two   *)
(* into one report.                                                         *)
(*                                                                          *)
(* A text is the set of the phrases the checks look for in it; joining two  *)
(* texts is their union, and the empty set is a text that is missing.       *)
(* "triangle-free" stands for the spellings both searches know,             *)
(* "TriangleFree" for the one only the regular expression matches and       *)
(* "triangle_free" for the one only the cross-check looks for.              *)
(***************************************************************************)
EXTENDS FiniteSets, Naturals

Phrases == {"bespoke", "standard notion", "bridge", "bipartite", "hit", "max clique",
            "triangle-free", "TriangleFree", "triangle_free", "marker", "for all",
            "universal", "binder", "=> False", "witness", "vacuous", "trivial",
            "where False", "n <=", "2/3 vs 3/4"}

Kinds == {"definition", "empirical", "necessity", "vacuity", "scope", "significance"}
Verdicts == {"pass", "fail", "minor", "na"}
Recommendations == {"accept", "no-automated-issues", "unavailable", "minor", "major", "reject"}

\* The graphs the two cross-checks build: K3[K2], that is K6, and the cycle C5.
CompleteGraph(n) == {e \in SUBSET (1..n) : Cardinality(e) = 2}
Cycle(n) == {{i, (i % n) + 1} : i \in 1..n}

Independent(S, E) == \A e \in E : ~ e \subseteq S
Clique(S, E) == \A u, v \in S : u # v => {u, v} \in E
MaxCliques(V, E) ==
  LET cliques == {S \in SUBSET V : Clique(S, E)}
  IN  {S \in cliques : \A T \in cliques : Cardinality(T) <= Cardinality(S)}
HittingHolds(V, E) ==
  \E S \in SUBSET V : Independent(S, E) /\ \A K \in MaxCliques(V, E) : S \cap K # {}
BlowUpHolds == HittingHolds(1..6, CompleteGraph(6))
CycleHolds == HittingHolds(1..5, Cycle(5))

(***************************************************************************)
(* The checks. Each returns its verdict.                                    *)
(***************************************************************************)
Has(text, phrases) == text \cap phrases # {}
OrElse(text, other) == IF text = {} THEN other ELSE text
TriangleFreeRegex == {"triangle-free", "TriangleFree"}

Definition(stmt, type) ==
  LET text == stmt \cup type
  IN  IF "bespoke" \notin text THEN "na"
      ELSE IF "standard notion" \in text /\ "bridge" \notin text THEN "fail" ELSE "pass"

\* The hitting claim is compared with the graph K3[K2]: no verdict unless the text
\* speaks of bipartite graphs and of hitting cliques.
CrossCheck(text) ==
  IF ~("bipartite" \in text /\ Has(text, {"hit", "max clique"})) THEN "na"
  ELSE IF Has(text, {"triangle-free", "triangle_free"}) /\ BlowUpHolds THEN "pass" ELSE "fail"

Necessity(stmt, type) ==
  LET text == OrElse(type, stmt)
      missing == /\ "bipartite" \in text /\ Has(text, {"hit", "max clique"})
                 /\ ~Has(text, TriangleFreeRegex)
                 /\ CrossCheck(stmt) = "fail"
      conditional == Has(text, {"marker", "bipartite", "for all", "binder"} \cup TriangleFreeRegex)
      loadBearing == /\ Has(text, TriangleFreeRegex)
                     /\ CrossCheck(text \ TriangleFreeRegex) = "fail"
      unconditional == /\ Has(text, {"for all", "universal"})
                       /\ "hit" \in text /\ "bipartite" \notin text
                       /\ ~CycleHolds
  IN  CASE missing       -> "fail"
        [] ~missing /\ ~conditional -> "na"
        [] ~missing /\ conditional /\ loadBearing -> "pass"
        [] OTHER -> IF unconditional THEN "fail" ELSE "pass"

Vacuity(stmt, type, notes) ==
  LET claim == stmt \cup type
  IN  IF \/ "=> False" \in claim /\ "witness" \notin claim \cup notes
         \/ Has(claim, {"vacuous", "trivial"})
         \/ {"for all", "where False"} \subseteq claim
      THEN "fail" ELSE "pass"

ScopeCreep(stmt, ledgerSweeps) ==
  IF \/ "2/3 vs 3/4" \in stmt
     \/ "for all" \in stmt /\ (ledgerSweeps \/ "n <=" \in stmt)
  THEN "fail" ELSE "pass"

Significance(searchWorks) == IF searchWorks THEN "pass" ELSE "na"

\* The significance check never fails, so whether the search works decides nothing here.
Checks(stmt, type, notes, ledgerSweeps, searchWorks) ==
  [k \in Kinds |->
     CASE k = "definition"   -> Definition(stmt, type)
       [] k = "empirical"    -> CrossCheck(stmt)
       [] k = "necessity"    -> Necessity(stmt, type)
       [] k = "vacuity"      -> Vacuity(stmt, type, notes)
       [] k = "scope"        -> ScopeCreep(stmt, ledgerSweeps)
       [] k = "significance" -> Significance(searchWorks)]

(***************************************************************************)
(* Reports. Issues are kept as "is there one".                              *)
(***************************************************************************)
Report(rec, major, minor, ran) == [rec |-> rec, major |-> major, minor |-> minor, ran |-> ran]
Reports == [rec : Recommendations, major : BOOLEAN, minor : BOOLEAN, ran : BOOLEAN]

AllowsPromotion(r) == r.rec = "accept" /\ r.ran /\ ~r.major

MajorKinds == {"definition", "empirical", "necessity", "vacuity"}
MajorFrom(checks) == \E k \in MajorKinds : checks[k] = "fail"
MinorFrom(checks) == \/ \E k \in Kinds \ MajorKinds : checks[k] = "fail"
                     \/ \E k \in Kinds : checks[k] = "minor"

(***************************************************************************)
(* What a turn of the referee model comes to: it raises, it has no text, it *)
(* has no JSON report in it, or it holds a report; an unknown               *)
(* recommendation is read as a rejection, and any report the model wrote    *)
(* counts as an adversarial review.                                         *)
(***************************************************************************)
Answers == [kind : {"raises", "blank", "prose", "report"},
            rec : Recommendations \cup {"other"}, major : BOOLEAN, minor : BOOLEAN]
Unavailable == Report("unavailable", FALSE, FALSE, FALSE)
Parse(answer) ==
  Report(IF answer.rec \in Recommendations THEN answer.rec ELSE "reject",
         answer.major, answer.minor, TRUE)

\* The agent run, and when it ends without a report one forced turn without tools.
Deciding(first, forced) == IF first.kind \in {"blank", "prose"} THEN forced ELSE first
AdversarialPass(first, forced) ==
  LET answer == Deciding(first, forced)
  IN  IF answer.kind = "report" THEN Parse(answer) ELSE Unavailable

MergeUnavailable(checks) ==
  Report("unavailable", MajorFrom(checks), MinorFrom(checks), FALSE)
MergeHeuristic(checks) ==
  Report(IF MajorFrom(checks) THEN "major" ELSE IF MinorFrom(checks) THEN "minor"
         ELSE "no-automated-issues",
         MajorFrom(checks), MinorFrom(checks), FALSE)
\* Mutant: the model has the last word.
MergeModel_Trusting(checks, model) == Report(model.rec, model.major, model.minor, TRUE)

MergeModel(checks, model) ==
  LET major == MajorFrom(checks) \/ model.major
  IN  Report(IF major THEN "major"
             ELSE IF model.rec \in {"minor", "major", "reject"} THEN model.rec
             ELSE "accept",
             major, MinorFrom(checks) \/ model.minor, TRUE)

(***************************************************************************)
(* run_referee: "live" is whether a model is given.                         *)
(***************************************************************************)
RunReferee(checks, live, first, forced) ==
  IF ~live THEN MergeHeuristic(checks)
  ELSE LET pass == AdversarialPass(first, forced)
       IN  IF ~pass.ran THEN MergeUnavailable(checks)
           ELSE MergeModel(checks, pass)
=============================================================================
