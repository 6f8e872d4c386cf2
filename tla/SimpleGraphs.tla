---------------------------- MODULE SimpleGraphs ----------------------------
(***************************************************************************)
(* The shared graph object (core/graph.py) and what the fundamentals do     *)
(* with it: structural operations, containment, minors, degeneracy and      *)
(* Rabern's hitting sets. A graph is [n, edges], its vertices are           *)
(* 0..n-1 and an edge is the set of its two ends.                           *)
(***************************************************************************)
EXTENDS Integers, FiniteSets, FiniteSetsExt, Sequences, SequencesExt, Functions, TLC

Vertices(g) == 0..(g.n - 1)
Neighbors(g, v) == {w \in Vertices(g) : {v, w} \in g.edges}
Degree(g, v) == Cardinality(Neighbors(g, v))
MaxDegree(g) == Max({Degree(g, v) : v \in Vertices(g)} \cup {0})
Pairs(S) == kSubset(2, S)
\* Graph.of refuses loops and ends that are no vertices.
IsGraph(g) == g = [n |-> g.n, edges |-> g.edges] /\ g.n \in Nat /\ g.edges \subseteq Pairs(Vertices(g))
IsClique(g, S) == Pairs(S) \subseteq g.edges
IsIndependent(g, S) == Pairs(S) \cap g.edges = {}

\* What can be walked to inside S.
Reach(g, S, from) ==
  LET reach[seen \in SUBSET S] ==
        LET next == seen \cup {w \in S : \E v \in seen : {v, w} \in g.edges}
        IN  IF next = seen THEN seen ELSE reach[next]
  IN  reach[from]
IsConnected(g, S) == \A v \in S : Reach(g, S, {v}) = S

\* A function on 0..n-1, and x at n.
Longer(f, n, x) == [v \in 0..n |-> IF v = n THEN x ELSE f[v]]
\* What gives each v below n a member of L[v], and the lists of sizes[v] of the colours 0..pot-1.
Selections(L, n) ==
  LET selections[k \in 0..n] ==
        IF k = 0 THEN {<<>>}
        ELSE LET shorter == selections[k - 1]
             IN  {Longer(f, k - 1, x) : x \in L[k - 1], f \in shorter}
  IN  selections[n]
ListsOfSize(sizes, pot, n) ==
  Selections([v \in 0..(n - 1) |-> kSubset(sizes[v], 0..(pot - 1))], n)

(***************************************************************************)
(* Structural operations. networkx keeps the old names of the vertices;     *)
(* from_nx renames them to 0..n-1 in their order.                           *)
(***************************************************************************)
FromNx(names, edges) ==
  [n |-> Cardinality(names),
   edges |-> {{Cardinality({a \in names : a < v}) : v \in e} : e \in edges}]

InducedSubgraph(g, S) == FromNx(S, {e \in g.edges : e \subseteq S})
DeleteVertices(g, S) == InducedSubgraph(g, Vertices(g) \ S)
DeleteEdge(g, e) == [g EXCEPT !.edges = @ \ {e}]
AddEdge(g, e) == [g EXCEPT !.edges = @ \cup {e}]
AddVertex(g) == [g EXCEPT !.n = @ + 1]

ContractEdge(g, u, v) ==
  FromNx(Vertices(g) \ {v},
         {IF v \in e THEN (e \ {v}) \cup {u} ELSE e : e \in g.edges \ {{u, v}}})

Complement(g) == [g EXCEPT !.edges = Pairs(Vertices(g)) \ @]

\* An edge uv with u < v sorts to u * n + v.
LineGraph(g) ==
  LET name(e) == Min(e) * g.n + Max(e)
      meeting == {p \in Pairs(g.edges) : \A e, f \in p : e \cap f # {}}
  IN  FromNx({name(e) : e \in g.edges}, {{name(e) : e \in p} : p \in meeting})

\* All the vertices of subgraphs of minimum degree k.
KCore(g, k) ==
  LET dense(S) == \A v \in S : Cardinality(Neighbors(g, v) \cap S) >= k
  IN  InducedSubgraph(g, UNION {S \in SUBSET Vertices(g) : dense(S)})

\* The second graph is shifted past the first; Zykov's join adds all edges across.
DisjointUnion(g, h) ==
  [n |-> g.n + h.n, edges |-> g.edges \cup {{g.n + v : v \in e} : e \in h.edges}]

Join(g, h) ==
  [DisjointUnion(g, h) EXCEPT
     !.edges = @ \cup {{u, g.n + v} : u \in Vertices(g), v \in Vertices(h)}]

Overlay(g, h) == [g EXCEPT !.edges = @ \cup h.edges]

\* The products: the pair <<u, v>> sorts to u * h.n + v.
OnPairs(g, h, joined(_, _, _, _)) ==
  [n |-> g.n * h.n,
   edges |-> {p \in Pairs(0..(g.n * h.n - 1)) :
                \E a, b \in p : joined(a \div h.n, b \div h.n, a % h.n, b % h.n)}]

CartesianProduct(g, h) ==
  OnPairs(g, h, LAMBDA u, x, v, y : (u = x /\ {v, y} \in h.edges) \/ ({u, x} \in g.edges /\ v = y))
TensorProduct(g, h) ==
  OnPairs(g, h, LAMBDA u, x, v, y : {u, x} \in g.edges /\ {v, y} \in h.edges)

\* Lexicographic product with a complete or an empty graph on r vertices.
BlowUp(g, r, clique) ==
  OnPairs(g, [n |-> r, edges |-> IF clique THEN Pairs(0..(r - 1)) ELSE {}],
          LAMBDA u, x, v, y : {u, x} \in g.edges \/ (clique /\ u = x /\ v # y))

\* The copy of v is n + v, the apex 2n.
Mycielskian(g) ==
  [n |-> 2 * g.n + 1,
   edges |-> g.edges \cup UNION {{{v, g.n + w} : w \in Neighbors(g, v)} : v \in Vertices(g)}
                     \cup {{g.n + v, 2 * g.n} : v \in Vertices(g)}]

(***************************************************************************)
(* Degeneracy: the elimination order takes a vertex of least degree, the    *)
(* first of them, until none is left.                                       *)
(***************************************************************************)
EliminationOrder(g) ==
  LET degreeIn(S, v) == Cardinality(Neighbors(g, v) \cap S)
      least(S) == Min({v \in S : \A w \in S : degreeIn(S, v) <= degreeIn(S, w)})
      order[S \in SUBSET Vertices(g)] ==
        IF S = {} THEN <<>> ELSE <<least(S)>> \o order[S \ {least(S)}]
  IN  order[Vertices(g)]

\* networkx.core_number: the largest k with a nonempty subgraph of minimum degree k.
CoreNumber(g) ==
  Max({0} \cup {k \in 0..MaxDegree(g) : \E S \in (SUBSET Vertices(g)) \ {{}} :
                  \A v \in S : Cardinality(Neighbors(g, v) \cap S) >= k})

(***************************************************************************)
(* Containment. An embedding is a function from the vertices of the         *)
(* pattern. GraphMatcher.subgraph_isomorphisms_iter of networkx enumerates  *)
(* the embeddings onto induced subgraphs.                                   *)
(***************************************************************************)
Injections(S, T) == {f \in [S -> T] : IsInjective(f)}
InducedEmbeddings(host, pattern) ==
  {f \in Injections(Vertices(pattern), Vertices(host)) :
     \A p \in Pairs(Vertices(pattern)) :
       p \in pattern.edges <=> {f[v] : v \in p} \in host.edges}

IsSubgraph(host, pattern) ==
  /\ pattern.n <= host.n
  /\ Cardinality(pattern.edges) <= Cardinality(host.edges)
  /\ InducedEmbeddings(host, pattern) # {}

IsInducedSubgraph(host, pattern) ==
  pattern.n <= host.n /\ InducedEmbeddings(host, pattern) # {}

IsIsomorphic(g, h) == g.n = h.n /\ InducedEmbeddings(g, h) # {}

\* The fast check: order, size, degrees, components.
Components(g) == {Reach(g, Vertices(g), {v}) : v \in Vertices(g)}
DegreeCount(g) == [d \in 0..g.n |-> Cardinality({v \in Vertices(g) : Degree(g, v) = d})]
CouldBeIsomorphic(g, h) ==
  /\ g.n = h.n /\ DegreeCount(g) = DegreeCount(h)
  /\ Cardinality(Components(g)) = Cardinality(Components(h))

\* Depth-first over simple paths, from every vertex.
LongerPaths(g, length) ==
  LET paths[k \in 0..length] ==
        IF k = 0 THEN {<<v>> : v \in Vertices(g)}
        ELSE UNION {{Append(p, v) : v \in Neighbors(g, Last(p)) \ ToSet(p)} : p \in paths[k - 1]}
  IN  paths[length]
ContainsPath(g, length) == length \in 0..(g.n - 1) /\ LongerPaths(g, length) # {}

\* verify_minor_model: disjoint connected branch sets, joined where the pattern has an edge.
VerifyMinorModel(host, pattern, branch) ==
  /\ \A p \in Vertices(pattern) : branch[p] # {} /\ IsConnected(host, branch[p])
  /\ \A p, q \in Vertices(pattern) : p # q => branch[p] \cap branch[q] = {}
  /\ \A e \in pattern.edges : \E p, q \in e :
       p # q /\ \E u \in branch[p], v \in branch[q] : {u, v} \in host.edges

\* Mutant: the branch sets must use up the whole host.
ContainsMinor_Spanning(host, pattern) ==
  /\ pattern.n <= host.n
  /\ \E owner \in [Vertices(host) -> Vertices(pattern)] :
       VerifyMinorModel(host, pattern,
         [p \in Vertices(pattern) |-> {v \in Vertices(host) : owner[v] = p}])

\* The search over branch sets; a vertex of the host may be left out (-1).
ContainsMinor(host, pattern) ==
  /\ pattern.n <= host.n
  /\ \E owner \in [Vertices(host) -> Vertices(pattern) \cup {-1}] :
       VerifyMinorModel(host, pattern,
         [p \in Vertices(pattern) |-> {v \in Vertices(host) : owner[v] = p}])

(***************************************************************************)
(* Rabern's property: an independent set that meets every maximum clique.   *)
(***************************************************************************)
CliqueNumber(g) == Max({Cardinality(S) : S \in {T \in SUBSET Vertices(g) : IsClique(g, T)}})
MaximumCliques(g) == {S \in kSubset(CliqueNumber(g), Vertices(g)) : IsClique(g, S)}

\* Backtracking: one vertex of each maximum clique not yet hit, kept independent.
Hits(g, cliques) ==
  LET open(chosen) == {Q \in cliques : Q \cap chosen = {}}
      hits[chosen \in SUBSET Vertices(g)] ==
        \/ open(chosen) = {}
        \/ \E v \in CHOOSE Q \in open(chosen) : TRUE :
             Neighbors(g, v) \cap chosen = {} /\ hits[chosen \cup {v}]
  IN  hits[{}]

\* The empty graph has no maximum clique but the empty one, and is hit by nothing.
HasHittingSet(g) == g.n = 0 \/ Hits(g, MaximumCliques(g))
=============================================================================
