---------------------------- MODULE ListColoring ----------------------------
(***************************************************************************)
(* List colouring and choosability (coloring/list_checks.py,                *)
(* coloring/choosability.py): witnesses and obstructions for ordinary       *)
(* colouring, the certificates of the chromatic number, and the parts of    *)
(* the counterexample-guided search for a bad list assignment. The SAT      *)
(* solver is any source of assignments that satisfy the clauses.            *)
(***************************************************************************)
EXTENDS SimpleGraphs

NoColoring == <<-1>>

Proper(g, c) == \A e \in g.edges : \A u, v \in e : u # v => c[u] # c[v]

ListColorings(g, L) == {c \in Selections(L, g.n) : Proper(g, c)}
\* find_list_coloring: a witness, or NoColoring when the backtracking fails.
FindListColoring(g, L) ==
  LET found == ListColorings(g, L) IN IF found = {} THEN NoColoring ELSE CHOOSE c \in found : TRUE

FindKColoring(g, k) == FindListColoring(g, [v \in Vertices(g) |-> 0..(k - 1)])

\* find_clique over the combinations in order.
FindClique(g, size) ==
  IF size <= 0 THEN {{}} ELSE {S \in kSubset(size, Vertices(g)) : IsClique(g, S)}

(***************************************************************************)
(* The odd cycle: a depth-first colouring from every uncoloured vertex; an  *)
(* edge inside a colour class closes a cycle through the tree.              *)
(***************************************************************************)
Ancestors(parent, v) ==
  LET up[w \in {v} \cup Range(parent)] ==
        <<w>> \o (IF w \in DOMAIN parent THEN up[parent[w]] ELSE <<>>)
  IN  up[v]

OddCycleThrough(u, v, parent) ==
  LET pu == Ancestors(parent, u)
      pv == Ancestors(parent, v)
      meets == {i \in DOMAIN pu : pu[i] \in ToSet(pv)}
      i == Min(meets)
      j == CHOOSE j \in DOMAIN pv : pv[j] = pu[i]
  IN  IF meets = {} THEN <<>> ELSE SubSeq(pu, 1, i) \o Reverse(SubSeq(pv, 1, j - 1))

VerifyOddCycle(g, cycle) ==
  LET n == Len(cycle)
  IN  /\ n >= 3 /\ n % 2 = 1 /\ IsInjective(cycle)
      /\ \A i \in 1..n : {cycle[i], cycle[(i % n) + 1]} \in g.edges

\* The neighbours of u in order: colour and push the uncoloured, stop at a cycle.
Meet(g, s, u, v) ==
  LET cycle == OddCycleThrough(u, v, s.parent)
      closes == /\ v \in DOMAIN s.color /\ s.color[v] = s.color[u]
                /\ (u \in DOMAIN s.parent => s.parent[u] # v)
  IN  IF s.cycle # <<>> THEN s
      ELSE IF v \notin DOMAIN s.color
      THEN [s EXCEPT !.color = (v :> 1 - s.color[u]) @@ @, !.parent = (v :> u) @@ @,
                     !.stack = Append(@, v)]
      ELSE IF closes /\ VerifyOddCycle(g, cycle) THEN [s EXCEPT !.cycle = cycle] ELSE s

Visit(g, u, s) ==
  LET ordered == SetToSortSeq(Neighbors(g, u), <)
      visit[i \in 0..Len(ordered)] ==
        IF i = 0 THEN [s EXCEPT !.stack = Front(@)]
        ELSE LET t == visit[i - 1] IN Meet(g, t, u, ordered[i])
  IN  visit[Len(ordered)]

\* One turn of the loops: the next of the stack, or the next root.
OddStep(g, s) ==
  LET uncolored == Vertices(g) \ DOMAIN s.color
  IN  IF s.cycle # <<>> THEN s
      ELSE IF s.stack # <<>> THEN Visit(g, Last(s.stack), s)
      ELSE IF uncolored = {} THEN s
      ELSE [s EXCEPT !.color = (Min(uncolored) :> 0) @@ @, !.stack = <<Min(uncolored)>>]

\* Each vertex is on the stack once, and at most once a root.
FindOddCycle(g) ==
  LET search[turn \in 0..(2 * g.n)] ==
        IF turn = 0 THEN [color |-> <<>>, parent |-> <<>>, stack |-> <<>>, cycle |-> <<>>]
        ELSE LET s == search[turn - 1] IN OddStep(g, s)
  IN  search[2 * g.n].cycle

(***************************************************************************)
(* Obstructions and the certificates of the chromatic number.               *)
(***************************************************************************)
\* A clique K_{k+1}, an odd cycle when k = 2, or nothing.
Obstruction(g, k) ==
  CASE k >= 0 /\ FindClique(g, k + 1) # {} -> "clique"
    [] k = 2 /\ FindClique(g, 3) = {} /\ FindOddCycle(g) # <<>> -> "odd_cycle"
    [] OTHER -> "none"

\* The search starts at the clique number.
ChromaticCertificates(g) ==
  LET omega == CliqueNumber(g)
      chi == Min({k \in Max({omega, 1})..g.n : FindKColoring(g, k) # NoColoring})
  IN  IF g.n = 0 THEN [chi |-> 0, coloring |-> <<>>, omega |-> 0, lower |-> "none"]
      ELSE [chi |-> chi, coloring |-> FindKColoring(g, chi), omega |-> omega,
            lower |-> IF chi <= 1 THEN "none"
                      ELSE IF Obstruction(g, chi - 1) # "none" THEN Obstruction(g, chi - 1)
                      ELSE "unsat"]

VerifyBundle(g, certs) ==
  /\ FindClique(g, certs.omega) # {}
  /\ g.n > 0 => /\ \A v \in Vertices(g) : certs.coloring[v] \in 0..(certs.chi - 1)
                /\ Proper(g, certs.coloring)
  /\ certs.chi > 1 =>
       CASE certs.lower = "clique" -> FindClique(g, certs.chi) # {}
         [] certs.lower = "odd_cycle" -> FindOddCycle(g) # <<>> /\ certs.chi = 3
         [] certs.lower = "unsat" -> FindKColoring(g, certs.chi - 1) = NoColoring
         [] OTHER -> TRUE

(***************************************************************************)
(* Choosability. With the colours interchangeable, only assignments in      *)
(* value precedence are asked for: a colour may be listed at a vertex only  *)
(* when its predecessor is listed there or earlier.                         *)
(***************************************************************************)
CompletePalette(g, f) == IF g.n = 0 THEN 0 ELSE Max(Range(f)) * g.n

\* Mutant: the predecessor must be listed at an earlier vertex.
Precedes_Strictly(L, v) ==
  \A c \in L[v] : c > 0 => \E u \in 0..(v - 1) : c - 1 \in L[u]

Precedes(L, v) ==
  \A c \in L[v] : c > 0 => \E u \in 0..v : c - 1 \in L[u]

Assignments(f, n, palette) ==
  LET assignments[k \in 0..n] ==
        IF k = 0 THEN {<<>>}
        ELSE LET shorter == assignments[k - 1]
                 longer == {Longer(L, k - 1, S) : S \in kSubset(f[k - 1], 0..(palette - 1)),
                                                 L \in shorter}
             IN  {L \in longer : Precedes(L, k - 1)}
  IN  assignments[n]

\* A colouring rules out every assignment it colours: one literal for each vertex.
Colors(coloring, L) == \A v \in DOMAIN coloring : coloring[v] \in L[v]

\* Mutant: the loop stops short of the last vertex.
Blocked_LastVertex(cands, coloring) ==
  {L \in cands : \A v \in DOMAIN coloring : v + 1 \in DOMAIN coloring => coloring[v] \in L[v]}

\* Mutant: the clause is in the variables of the next colour.
Blocked_NextColor(cands, coloring) ==
  {L \in cands : \A v \in DOMAIN coloring : coloring[v] + 1 \in L[v]}

Blocked(cands, coloring) == {L \in cands : Colors(coloring, L)}

VerifyBadList(g, L, f) ==
  /\ \A v \in Vertices(g) : Cardinality(L[v]) = f[v]
  /\ FindListColoring(g, L) = NoColoring

\* is_k_choosable: every assignment, with the list of vertex 0 fixed to 0..k-1.
IsKChoosable(g, k) ==
  LET lists == [v \in Vertices(g) |-> IF v = 0 THEN {0..(k - 1)} ELSE kSubset(k, 0..(k * g.n - 1))]
  IN  g.n = 0 \/ (k > 0 /\ \A L \in Selections(lists, g.n) : ListColorings(g, L) # {})
=============================================================================
