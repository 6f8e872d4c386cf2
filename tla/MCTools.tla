------------------------------ MODULE MCTools ------------------------------
(* Every tool on graphs of at most four vertices, and on the smallest graphs that
   make a case happen: the five-cycle (an odd cycle, and past the degree bound),
   the wheel on it (a chromatic number no clique and no odd cycle shows). *)
EXTENDS Tools

G(n, edges) == [n |-> n, edges |-> edges]
Cycle(n) == G(n, {{v, (v + 1) % n} : v \in 0..(n - 1)})
Path(n) == G(n, {{v, v + 1} : v \in 0..(n - 2)})
K(n) == G(n, Pairs(0..(n - 1)))
Empty(n) == G(n, {})
Star == G(4, {{0, 1}, {0, 2}, {0, 3}})
Paw == G(4, {{0, 1}, {1, 2}, {0, 2}, {2, 3}})
Wheel == Join(Empty(1), Cycle(5))
Relabeled == G(4, {{0, 2}, {2, 1}, {1, 3}})
TriangleTail == G(5, {{0, 1}, {1, 2}, {2, 3}, {3, 4}, {2, 4}})

\* Up to four vertices the degrees tell a graph up to isomorphism.
Representatives(n) ==
  LET graphs == {G(n, E) : E \in SUBSET Pairs(0..(n - 1))}
  IN  {CHOOSE g \in graphs : DegreeCount(g) = d : d \in {DegreeCount(h) : h \in graphs}}
MCAllGraphs == (1 :> Representatives(1)) @@ (2 :> Representatives(2))
               @@ (3 :> Representatives(3)) @@ (4 :> Representatives(4))

Small == Representatives(4) \cup Representatives(3) \cup {Empty(0), K(1)}
Wide == Small \cup {Cycle(5), TriangleTail}

One(tools, graphs) == {[tool |-> t, g |-> g] : t \in tools, g \in graphs}
Two(t, graphs, others) == {[tool |-> t, g |-> g, h |-> h] : g \in graphs, h \in others}

Invariants ==
  One({"chromatic_number", "clique_number", "bk_predicate", "reed_predicate",
       "independent_hitting_set", "independence_number", "degeneracy"}, Wide)
  \cup One({"chromatic_number", "reed_predicate", "independence_number"}, {Wheel})
  \cup One({"alon_tarsi"}, Small)
  \cup {[tool |-> "decide_colorable", g |-> g, k |-> k] : g \in Wide, k \in 0..3}
  \cup {[tool |-> "decide_colorable", g |-> Wheel, k |-> 3]}

Structures ==
  One({"complement", "mycielskian", "add_vertex"}, Representatives(3))
  \cup One({"line_graph"}, Small)
  \cup UNION {Two(t, Representatives(3), {K(1), K(2)}) :
                t \in {"join", "disjoint_union", "union", "cartesian_product", "tensor_product"}}
  \cup {[tool |-> "blow_up", g |-> g, k |-> k, clique |-> c] :
          g \in {K(2), Path(3)}, k \in {0, 2}, c \in BOOLEAN}
  \cup {[tool |-> "k_core", g |-> g, k |-> k] : g \in Small, k \in 0..3}
  \cup {[tool |-> "delete_vertices", g |-> g, drop |-> S] :
          g \in Representatives(3) \cup Representatives(4), S \in {{0}, {1}, {0, 2}, {0, 7}}}
  \cup {[tool |-> "induced_subgraph", g |-> Paw, keep |-> S] : S \in SUBSET (0..4)}
  \cup {[tool |-> t, g |-> g, edge |-> e] :
          t \in {"delete_edge", "add_edge", "contract_edge"}, g \in Small, e \in {{0, 1}, {1, 2}, {0, 3}}}

Relations ==
  UNION {Two(t, Representatives(4), Representatives(3)) : t \in {"is_subgraph", "is_induced_subgraph"}}
  \cup UNION {Two(t, {Path(4), Star, Cycle(4), Relabeled}, Representatives(4)) :
                t \in {"is_isomorphic", "could_be_isomorphic"}}
  \cup Two("could_be_isomorphic", {TriangleTail}, {TriangleTail, Cycle(5)})
  \cup {[tool |-> t, g |-> g, k |-> k] : t \in {"contains_clique", "contains_path"}, g \in Wide, k \in 0..4}
  \cup Two("contains_minor", Representatives(4) \cup {Cycle(5)}, {K(3), Path(3), Star, Empty(2)})
  \cup Two("contains_minor", {Path(6), Cycle(5)}, {Cycle(5)})

Lists ==
  {[tool |-> "choosability_refute", g |-> g, k |-> k, palette |-> {}] :
     g \in Representatives(3) \cup {K(2)}, k \in 1..2}
  \cup {[tool |-> "choosability_refute", g |-> g, k |-> 2, palette |-> {p}] :
          g \in {K(3), Path(3)}, p \in {0, 1, 3}}
  \cup {[tool |-> "choosability_refute", g |-> g, k |-> k, palette |-> {}] :
          g \in {K(4), Empty(0)}, k \in 0..1}
  \cup {[tool |-> "list_critical", g |-> g, m |-> m, palette |-> {}] :
          g \in {K(2), K(3), Path(3)}, m \in 1..3}
  \cup {[tool |-> "list_critical", g |-> g, m |-> 3, palette |-> {3}] : g \in {K(3), Cycle(4)}}

Core(g, degrees, D) == [tool |-> "reducible_configuration", g |-> g, D |-> D,
                        degrees |-> [v \in Vertices(g) |-> degrees[v + 1]]]
Configurations ==
  {Core(Path(3), <<8, 8, 8>>, 9), Core(Path(3), <<8, 7, 8>>, 9), Core(K(2), <<8, 7>>, 9),
   Core(K(2), <<9, 8>>, 9), Core(K(2), <<1, 8>>, 80), Core(K(2), <<0, 8>>, 9),
   Core(K(2), <<2, 2>>, 0), Core(K(2), <<2, 3>>, 0), Core(K(3), <<8, 8, 7>>, 9),
   Core(K(4), <<8, 8, 8, 8>>, 9)}

\* Lists of a length of their own, of zeros and with a negative size are legal calls.
Boards ==
  {[tool |-> "fixer_breaker", g |-> g, sizes |-> s] :
     g \in {Path(3), K(3)}, s \in {<<1, 1, 1>>, <<1, 2, 1>>, <<2, 2, 1>>, <<2, 2, 2>>, <<2, 3, 2>>,
                                      <<>>, <<0, 0, 0>>, <<1, 0, 1>>, <<2, -1>>, <<-1, -1, -1>>,
                                      <<2, 2, -1>>, <<1, 2>>, <<2, 2, 1, 1>>}}
  \cup {[tool |-> "mind", g |-> g, sizes |-> s, min_pot |-> 1, max_pot |-> 3,
         mode |-> mode, nearly |-> nearly] :
          g \in {Path(3)}, s \in {<<1, 2, 1>>, <<2, 2, 1>>},
          mode \in {"single_swap", "multi_swap"}, nearly \in BOOLEAN}
  \cup {[tool |-> "mind", g |-> Path(3), sizes |-> <<2, 3, 2>>, min_pot |-> 1, max_pot |-> 4,
         mode |-> mode, nearly |-> nearly] :
          mode \in {"single_swap", "multi_swap"}, nearly \in BOOLEAN}
  \cup {[tool |-> "mind", g |-> Path(4), sizes |-> <<1, 2, 2, 1>>, min_pot |-> 1, max_pot |-> 3,
         mode |-> mode, nearly |-> FALSE] : mode \in {"single_swap", "multi_swap"}}

Assigned ==
  {[tool |-> "is_fixable", g |-> g, sizes |-> s, pot |-> pot] :
     g \in {Path(3), K(3)}, s \in {<<1, 2, 1>>, <<2, 2, 1>>}, pot \in 2..3}
  \cup {[tool |-> "is_fixable", g |-> Path(3), sizes |-> <<2, 3, 2>>, pot |-> 4]}

Censuses ==
  {[tool |-> "reed_sweep", lo |-> lo, hi |-> hi, connected |-> c] :
     lo \in {1, 3}, hi \in {2, 4}, c \in BOOLEAN}

MCRequests == Invariants \cup Structures \cup Relations \cup Lists \cup Configurations
              \cup Boards \cup Assigned \cup Censuses
=============================================================================
