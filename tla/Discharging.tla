---------------------------- MODULE Discharging ----------------------------
(***************************************************************************)
(* The discharging verifier of version 1 (discharging/engine.py) and the    *)
(* covers of the catalog (discharging/catalog.py): an argument is an        *)
(* initial charge on the degrees D-1 and D, transfer rules between          *)
(* neighbours and a list of forbidden cores; it is verified on the degree   *)
(* signatures of closed neighbourhoods.                                     *)
(*                                                                          *)
(* V1_D is 9 in the code, and everything is written in terms of it. A core  *)
(* is the name of a graph (its graph6 string).                              *)
(***************************************************************************)
EXTENDS Integers, FiniteSets, FiniteSetsExt, Sequences, SequencesExt

CONSTANTS
    V1_D,
    MAX_FORBIDDEN,
    Graph6,        \* the graph6 strings in play, in the order a set of them is traversed
    Graph,         \* what parse_graph6 makes of each: [n, edges]
    Catalog        \* the catalog, by name: [core, proof]

ASSUME DegreeType == V1_D \in Nat /\ V1_D >= 2
ASSUME CapType == MAX_FORBIDDEN \in Nat

Degrees == {V1_D - 1, V1_D}
Patterns == {"low", "high", "any"}

\* Each graph6 string is in play once, and reads as a graph; the catalog's cores are in play.
Cores == ToSet(Graph6)
ASSUME Graph6Type == Graph6 \in Seq(Cores) /\ IsInjective(Graph6)
ASSUME GraphType == \A c \in Cores : Graph[c].n \in Nat
ASSUME CatalogType == Catalog \in Seq([core : Cores, proof : BOOLEAN])

\* The members of a finite set in order, given what stands before each of them: the one at
\* place i has i - 1 before it.
InOrder(S, before) ==
  [i \in 1..Cardinality(S) |-> CHOOSE s \in S : Cardinality(before[s]) = i - 1]

Ascending(places) == InOrder(places, [i \in places |-> {j \in places : j < i}])

\* The order of tuples.
LexLess(p, q) == \E i \in DOMAIN p : p[i] < q[i] /\ \A j \in 1..(i - 1) : p[j] = q[j]

\* A set of cores, in the order of their strings.
Listed(S) ==
  LET places == Ascending({i \in DOMAIN Graph6 : Graph6[i] \in S})
  IN  [k \in DOMAIN places |-> Graph6[places[k]]]

(***************************************************************************)
(* Local types, patterns and cores.                                         *)
(***************************************************************************)
\* The closed neighbourhoods by degree: the centre, its high and its low neighbours.
LocalTypes == {t \in [center : Degrees, high : 0..V1_D, low : 0..V1_D] :
                 t.high + t.low = t.center}

Matching(t, pattern) == CASE pattern = "low"  -> t.low
                          [] pattern = "high" -> t.high
                          [] pattern = "any"  -> t.center
                          [] OTHER -> 0

MatchesDegree(pattern, d) == \/ pattern = "any"
                             \/ pattern = "low" /\ d = V1_D - 1
                             \/ pattern = "high" /\ d = V1_D

Degree(g, v) == Cardinality({e \in g.edges : v \in e})
HasDominatingVertex(g) == g.n <= 1 \/ \E v \in 1..g.n : Degree(g, v) = g.n - 1

\* core_forced_in_type
Forced(g, t) ==
  \/ g.n <= 1
  \/ g.n = 2 /\ g.edges # {} /\ t.center >= 1
  \/ HasDominatingVertex(g) /\ g.n = t.center + 1

(***************************************************************************)
(* An argument has whole charges and rules of whole amounts. What is        *)
(* refused: a rule by its own shape, then the whole argument, each in the   *)
(* order of the code's checks.                                              *)
(***************************************************************************)
\* A text that is no pattern is "other".
Rules == [from : Int, to : Patterns \cup {"other"}, amount : Int, radius : Int]
IsArgument(a) == a.mu \in [DOMAIN a.mu -> Int] /\ a.rules \in Seq(Rules)

RuleRefusal(r, mu) ==
  CASE r.radius > 1 -> "radius"
    [] r.radius < 1 \/ r.amount <= 0 \/ r.to \notin Patterns
         \/ r.from \notin Degrees \cap DOMAIN mu -> "non-conserving"
    [] OTHER -> "none"

Refusal(arg, reducible) ==
  LET bad == {i \in DOMAIN arg.rules : RuleRefusal(arg.rules[i], arg.mu) # "none"}
  IN  IF Len(arg.forbidden) > MAX_FORBIDDEN THEN "too many"
      ELSE IF ~(ToSet(arg.forbidden) \subseteq reducible) THEN "coupling"
      ELSE IF bad # {} THEN RuleRefusal(arg.rules[Min(bad)], arg.mu)
      ELSE IF ~(Degrees \subseteq DOMAIN arg.mu) THEN "mu" ELSE "none"

OverBudget(refusal) == refusal \in {"radius", "too many"}

(***************************************************************************)
(* Signs: 0 stands for None.                                                *)
(***************************************************************************)
Sign(x) == IF x > 0 THEN 1 ELSE IF x < 0 THEN -1 ELSE 0

GlobalSign(mu) ==
  LET low == mu[V1_D - 1]
      high == mu[V1_D]
  IN  IF Sign(low) \in {0, Sign(high)} THEN Sign(high) ELSE 0

IntendedSign(mu) ==
  IF mu[V1_D] # 0 THEN Sign(mu[V1_D]) ELSE Sign(mu[V1_D - 1])

Deficit(charge, sign) == IF sign < 0 THEN Max({0, -charge}) ELSE Max({0, charge})

\* What one rule changes in the charge of the centre of a type.
Senders(t, r) == IF r.from = V1_D - 1 THEN t.low
                 ELSE IF r.from = V1_D THEN t.high ELSE 0
Sent(t, r) == IF r.from = t.center THEN r.amount * Matching(t, r.to) ELSE 0

\* Mutant: a rule between two degrees pays only those of the other degree.
Received_OtherDegree(t, r) ==
  IF MatchesDegree(r.to, t.center) /\ r.from # t.center THEN r.amount * Senders(t, r) ELSE 0

Received(t, r) == IF MatchesDegree(r.to, t.center) THEN r.amount * Senders(t, r) ELSE 0

FinalCharge(t, arg) ==
  LET charge[i \in 0..Len(arg.rules)] ==
        IF i = 0 THEN arg.mu[t.center]
        ELSE charge[i - 1] + (Received(t, arg.rules[i]) - Sent(t, arg.rules[i]))
  IN  charge[Len(arg.rules)]

(***************************************************************************)
(* verify_unavoidable. The survivors are ranked by deficit, centre and      *)
(* number of high neighbours.                                               *)
(***************************************************************************)
Residual(t, arg) ==
  [type |-> t, deficit |-> Deficit(FinalCharge(t, arg), IntendedSign(arg.mu))]

Surviving(arg) ==
  {s \in {Residual(t, arg) : t \in LocalTypes} :
     /\ IntendedSign(arg.mu) # 0 /\ s.deficit > 0
     /\ \A c \in ToSet(arg.forbidden) : ~Forced(Graph[c], s.type)}

ResidualRank(s) == <<s.deficit, s.type.center, s.type.high>>
Survivors(arg) ==
  LET all == Surviving(arg)
  IN  InOrder(all, [s \in all |-> {o \in all : LexLess(ResidualRank(o), ResidualRank(s))}])

Result(kind, refusal, forced, ranked) ==
  [kind |-> kind, refusal |-> refusal, forced |-> forced, ranked |-> ranked]

VerifyUnavoidable(arg, reducible) ==
  LET refusal == Refusal(arg, reducible)
      forced == GlobalSign(arg.mu) # 0
      ranked == Survivors(arg)
  IN  IF refusal # "none" THEN Result("refused", refusal, FALSE, <<>>)
      ELSE Result(IF forced /\ ranked = <<>> THEN "hit" ELSE "miss", refusal, forced, ranked)

(***************************************************************************)
(* Covers: the cores a catalog has for a type. entries_from_cores gives the *)
(* ledger's cores proof grade; proof grade comes before the rest, then      *)
(* minted, then small, then by name, where "ledger" is before all others    *)
(* and the ledger's own come in the order of their set.                     *)
(***************************************************************************)
None == "none"

Entries(minted) ==
  {[core |-> Graph6[i], proof |-> TRUE, from |-> 0, index |-> i] :
       i \in {j \in DOMAIN Graph6 : Graph6[j] \in minted}}
    \cup {[core |-> Catalog[i].core, proof |-> Catalog[i].proof, from |-> 1, index |-> i] :
            i \in DOMAIN Catalog}

Rank(e, minted) == <<IF e.proof THEN 0 ELSE 1, IF e.core \in minted THEN 0 ELSE 1,
                     Graph[e.core].n, e.from, e.index>>

CoversForType(t, minted) ==
  {e \in Entries(minted) : Graph[e.core].n <= t.center + 1 /\ Forced(Graph[e.core], t)}

CoverType(t, minted, mintedOnly) ==
  LET hits == {e \in CoversForType(t, minted) : mintedOnly => e.core \in minted}
  IN  IF hits = {} THEN None
      ELSE InOrder(hits, [h \in hits |->
                            {o \in hits : LexLess(Rank(o, minted), Rank(h, minted))}])[1].core

(***************************************************************************)
(* _add_covers: for each survivor in turn, a minted cover joins the list    *)
(* and an unminted one is noted, until the list is full.                    *)
(***************************************************************************)
\* The survivors whose minted cover is not on the list, nor the cover of one before.
Uncovered(ranked, forbidden, minted) ==
  LET cover(i) == CoverType(ranked[i].type, minted, TRUE)
  IN  {i \in DOMAIN ranked : /\ cover(i) \notin ToSet(forbidden) \cup {None}
                             /\ \A j \in 1..(i - 1) : cover(j) # cover(i)}

AddCovers(ranked, forbidden, unminted, minted) ==
  LET new == Uncovered(ranked, forbidden, minted)
      room == MAX_FORBIDDEN - Cardinality(ToSet(forbidden))
      reached == {i \in DOMAIN ranked : Cardinality({j \in new : j < i}) < room}
      added == Ascending(new \cap reached)
      hint(i) == CoverType(ranked[i].type, minted, FALSE)
  IN  [forbidden |-> forbidden
                       \o [k \in DOMAIN added |-> CoverType(ranked[added[k]].type, minted, TRUE)],
       unminted  |-> unminted \cup ({hint(i) : i \in reached \ new} \ (minted \cup {None}))]

(***************************************************************************)
(* The moves of the search: a charge one up or down, a rule of amount one   *)
(* that is not there, the first rule one up. They are tried in the order    *)
(* "at" gives.                                                              *)
(***************************************************************************)
Bump(mu, d, by) == [mu EXCEPT ![d] = @ + by]
NewRule(from, to) == [from |-> from, to |-> to, amount |-> 1, radius |-> 1]
Lacks(rules, r) == \A i \in DOMAIN rules :
                     <<rules[i].from, rules[i].to, rules[i].amount>> # <<r.from, r.to, r.amount>>

Move(at, mu, rules) == [at |-> at, mu |-> mu, rules |-> rules]

MutateArguments(mu, rules) ==
  LET low == V1_D - 1
      new == <<NewRule(low, "low"), NewRule(low, "high"),
               NewRule(V1_D, "low"), NewRule(V1_D, "high")>>
  IN  {Move(1, Bump(mu, low, 1), rules), Move(2, Bump(mu, low, -1), rules),
       Move(3, Bump(mu, V1_D, 1), rules), Move(4, Bump(mu, V1_D, -1), rules)}
        \cup {Move(4 + i, mu, Append(rules, new[i])) : i \in {j \in 1..4 : Lacks(rules, new[j])}}
        \cup IF rules = <<>> THEN {} ELSE {Move(9, mu, [rules EXCEPT ![1].amount = @ + 1])}

\* Lexicographic: a hit, a forced sign, few survivors, little deficit.
Score(result) ==
  IF result.kind = "hit" THEN <<0, 0, 0>>
  ELSE <<IF result.forced THEN 1 ELSE 2, Len(result.ranked),
         MapThenSumSet(LAMBDA i : result.ranked[i].deficit, DOMAIN result.ranked)>>
=============================================================================
