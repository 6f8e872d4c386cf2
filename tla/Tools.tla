------------------------------- MODULE Tools -------------------------------
(***************************************************************************)
(* The empirical tools (tools/empirical_tools.py and the fundamentals of    *)
(* tools/fundamentals_tools.py): what each makes of the verdict of its      *)
(* engine, which claim it mints under which root of trust, and what only    *)
(* ends in a result, a refusal or an error. The searches take steps: the    *)
(* loop of the choosability search under its wall-clock alarm, the rounds   *)
(* of the fixer-breaker game, the census of Reed's bound.                   *)
(*                                                                          *)
(* A request is a validated call [tool, ...arguments]; graphs stand for     *)
(* their graph6 strings. A claim says a kind and a value of its request.    *)
(***************************************************************************)
EXTENDS ListColoring, AlonTarsi, FixerBreaker

CONSTANTS
    Requests,             \* the calls the model makes
    AllGraphs,            \* all_graphs: the graphs on n vertices up to isomorphism, by n
    CHOOSABILITY_MAX_N,   \* KONIGSBERG_CHOOSABILITY_MAX_N, 0 for no cap
    MAX_CORE_VERTICES,
    MAX_PALETTE,
    MINOR_HOST_MAX,       \* _MINOR_HOST_MAX, _MINOR_PATTERN_MAX: the largest graphs of a minor search
    MINOR_PATTERN_MAX,
    BK_DELTA              \* the least maximum degree of Borodin and Kostochka: 9

ASSUME CapsType ==
  {CHOOSABILITY_MAX_N, MAX_CORE_VERTICES, MAX_PALETTE, MINOR_HOST_MAX, MINOR_PATTERN_MAX, BK_DELTA}
    \subseteq Nat

\* What the parsers of the tools let through: a palette is a set of at most one number;
\* 0 stands for a D not given.
IsPalette(p) == p \subseteq Int /\ \A c, d \in p : c = d
IsRequest(r) ==
  /\ r.tool # "reed_sweep" => IsGraph(r.g)
  /\ r.tool = "choosability_refute" => r.k \in Int /\ IsPalette(r.palette)
  /\ r.tool = "list_critical" => r.m \in Int /\ IsPalette(r.palette)
  /\ r.tool = "reducible_configuration" => r.D \in Int /\ r.degrees \in [Vertices(r.g) -> Int]
  /\ r.tool \in {"fixer_breaker", "mind"} => r.sizes \in Seq(Int)
  /\ r.tool = "mind" => r.min_pot \in Nat /\ r.max_pot \in Int
  /\ r.tool = "is_fixable" => r.sizes \in [1..r.g.n -> Int]
  /\ r.tool \in {"decide_colorable", "contains_clique"} => r.k \in Int
  /\ r.tool = "reed_sweep" => {r.lo, r.hi} \subseteq Int
ASSUME RequestsType == \A r \in Requests : IsRequest(r)

\* geng lists finitely many graphs, of the order asked for.
ASSUME AllGraphsType ==
  \A n \in DOMAIN AllGraphs : IsFiniteSet(AllGraphs[n]) /\ \A g \in AllGraphs[n] : IsGraph(g)
ASSUME CensusType ==
  \A r \in Requests : r.tool = "reed_sweep" /\ r.lo >= 1 => r.lo..r.hi \subseteq DOMAIN AllGraphs

VARIABLES
    call,      \* the request in progress
    phase,     \* idle, search, leaving, packing, game, census, done
    job,       \* what the search in progress works on
    last,      \* how it ended
    timer,     \* the interval timer of the alarm is running
    handler    \* what SIGALRM is bound to

vars == <<call, phase, job, last, timer, handler>>

(***************************************************************************)
(* Outcomes.                                                                *)
(***************************************************************************)
Claim(says, value, root, exhaustive) ==
  [kind |-> "claim", says |-> says, value |-> value, root |-> root, exhaustive |-> exhaustive]
Certified(says, value) == Claim(says, value, "certificate", TRUE)
Enumerated(says, value, exhaustive) == Claim(says, value, "enumeration", exhaustive)
\* Mutant: the claim carries no root of trust.
Solved_Unstamped(says, value) == Claim(says, value, "none", TRUE)

Solved(says, value) == Claim(says, value, "solver", TRUE)
Unminted(kind) == [kind |-> kind, says |-> "nothing", value |-> 0, root |-> "none",
                   exhaustive |-> FALSE]

(***************************************************************************)
(* The tools that answer in one step.                                       *)
(***************************************************************************)
DecideColorable(g, k) ==
  IF FindKColoring(g, k) # NoColoring THEN Certified("colorable", k)
  ELSE IF Obstruction(g, k) # "none" THEN Certified("not colorable", k)
  ELSE Enumerated("not colorable", k, TRUE)

\* chromatic_number, bk_predicate, reed_predicate: what needs a verified bundle.
Bundled(g, certs, outcome) == IF VerifyBundle(g, certs) THEN outcome ELSE Unminted("error")

ChromaticNumber(g) ==
  LET certs == ChromaticCertificates(g)
  IN  Bundled(g, certs, IF certs.lower = "unsat" THEN Enumerated("chi", certs.chi, TRUE)
                        ELSE Certified("chi", certs.chi))

BkPredicate(g) ==
  LET certs == ChromaticCertificates(g)
  IN  IF MaxDegree(g) < BK_DELTA THEN Enumerated("hypothesis not met", MaxDegree(g), TRUE)
      ELSE Bundled(g, certs,
             IF certs.chi <= Max({certs.omega, MaxDegree(g) - 1})
             THEN Certified("satisfies BK", certs.chi) ELSE Certified("violates BK", certs.chi))

\* Mutant: the mean is rounded down.
ReedBound_Floor(g, omega) == (MaxDegree(g) + omega + 1) \div 2

ReedBound(g, omega) == (MaxDegree(g) + omega + 2) \div 2
ReedPredicate(g) ==
  LET certs == ChromaticCertificates(g)
  IN  Bundled(g, certs, IF certs.chi <= ReedBound(g, certs.omega)
                        THEN Certified("satisfies Reed", certs.chi)
                        ELSE Certified("violates Reed", certs.chi))

\* Two counts that disagree raise; a miss is stamped by the solver.
AlonTarsiTool(g) ==
  LET cert == Certificate(g)
  IN  IF cert # NoCertificate /\ cert.even = cert.odd THEN Unminted("error")
      ELSE IF cert # NoCertificate /\ VerifyCertificate(g, cert)
           THEN Certified("Alon-Tarsi", 1 + Max({Out(cert.arcs, v) : v \in Vertices(g)} \cup {0}))
      ELSE Solved("no certificate", 0)

HittingSetTool(g) == IF HasHittingSet(g) THEN Certified("hitting set", 1)
                     ELSE Enumerated("hitting set", 0, TRUE)

\* independence_number runs the clique search on the complement.
IndependenceNumber(g) == Certified("alpha", CliqueNumber(Complement(g)))

Degeneracy(g) == Certified("degeneracy", CoreNumber(g))

\* The structural operations return the handle of a new graph.
Edited(r) ==
  CASE r.tool = "complement" -> Complement(r.g)
    [] r.tool = "induced_subgraph" -> InducedSubgraph(r.g, r.keep)
    [] r.tool = "delete_vertices" -> DeleteVertices(r.g, r.drop)
    [] r.tool = "delete_edge" -> DeleteEdge(r.g, r.edge)
    [] r.tool = "add_edge" -> AddEdge(r.g, r.edge)
    [] r.tool = "add_vertex" -> AddVertex(r.g)
    [] r.tool = "contract_edge" -> ContractEdge(r.g, Min(r.edge), Max(r.edge))
    [] r.tool = "line_graph" -> LineGraph(r.g)
Edits == {"complement", "induced_subgraph", "delete_vertices", "delete_edge", "add_edge",
          "add_vertex", "contract_edge", "line_graph"}

Combined(r) ==
  CASE r.tool = "mycielskian" -> Mycielskian(r.g)
    [] r.tool = "blow_up" -> BlowUp(r.g, r.k, r.clique)
    [] r.tool = "disjoint_union" -> DisjointUnion(r.g, r.h)
    [] r.tool = "union" -> Overlay(r.g, r.h)
    [] r.tool = "join" -> Join(r.g, r.h)
    [] r.tool = "cartesian_product" -> CartesianProduct(r.g, r.h)
    [] r.tool = "tensor_product" -> TensorProduct(r.g, r.h)
    [] r.tool = "k_core" -> KCore(r.g, r.k)
Combinations == {"mycielskian", "blow_up", "disjoint_union", "union", "join",
                 "cartesian_product", "tensor_product", "k_core"}

\* What an operation raises on; deleting what is not there is no error.
Impossible(r) ==
  \/ r.tool = "induced_subgraph" /\ ~(r.keep \subseteq Vertices(r.g))
  \/ r.tool = "add_edge" /\ r.edge \notin Pairs(Vertices(r.g))
  \/ r.tool = "contract_edge" /\ r.edge \notin r.g.edges
  \/ r.tool = "union" /\ r.g.n # r.h.n
  \/ r.tool = "blow_up" /\ r.k < 1

Structure(r) ==
  IF Impossible(r) THEN Unminted("error")
  ELSE Enumerated("graph", IF r.tool \in Edits THEN Edited(r) ELSE Combined(r), TRUE)

\* A witness is certified, its absence enumerated; what has no witness is enumerated.
Relation(says, holds) == IF holds THEN Certified(says, 1) ELSE Enumerated(says, 0, TRUE)
Decided(says, holds) == Enumerated(says, IF holds THEN 1 ELSE 0, TRUE)

\* A minor search that would be exhaustive on too large a graph raises.
TooLarge(r) ==
  /\ r.h.n > 0 /\ r.h.n <= r.g.n
  /\ r.g.n > MINOR_HOST_MAX \/ r.h.n > MINOR_PATTERN_MAX

Immediate == {"decide_colorable", "chromatic_number", "clique_number", "bk_predicate",
              "reed_predicate", "alon_tarsi", "independent_hitting_set",
              "independence_number", "degeneracy", "is_subgraph", "is_induced_subgraph",
              "is_isomorphic", "could_be_isomorphic", "contains_clique", "contains_path",
              "contains_minor"} \cup Edits \cup Combinations

AnswerTo(r) ==
  CASE r.tool = "decide_colorable" -> DecideColorable(r.g, r.k)
    [] r.tool = "chromatic_number" -> ChromaticNumber(r.g)
    [] r.tool = "clique_number" -> Certified("omega", CliqueNumber(r.g))
    [] r.tool = "bk_predicate" -> BkPredicate(r.g)
    [] r.tool = "reed_predicate" -> ReedPredicate(r.g)
    [] r.tool = "alon_tarsi" -> AlonTarsiTool(r.g)
    [] r.tool = "independent_hitting_set" -> HittingSetTool(r.g)
    [] r.tool = "independence_number" -> IndependenceNumber(r.g)
    [] r.tool = "degeneracy" -> Degeneracy(r.g)
    [] r.tool = "is_subgraph" -> Relation("subgraph", IsSubgraph(r.g, r.h))
    [] r.tool = "is_induced_subgraph" -> Relation("induced subgraph", IsInducedSubgraph(r.g, r.h))
    [] r.tool = "is_isomorphic" -> Decided("isomorphic", IsIsomorphic(r.g, r.h))
    [] r.tool = "could_be_isomorphic" -> Decided("could be isomorphic", CouldBeIsomorphic(r.g, r.h))
    [] r.tool = "contains_clique" -> Relation("clique", FindClique(r.g, r.k) # {})
    [] r.tool = "contains_path" -> Relation("path", ContainsPath(r.g, r.k))
    [] r.tool = "contains_minor" ->
         IF TooLarge(r) THEN Unminted("error") ELSE Relation("minor", ContainsMinor(r.g, r.h))
    [] OTHER -> Structure(r)

(***************************************************************************)
(* The choosability search. D = 0 stands for no D: all degrees equal.       *)
(***************************************************************************)
SlackOf(r) ==
  [v \in Vertices(r.g) |->
     IF r.D = 0 THEN Degree(r.g, v) ELSE (r.D - 1) - r.degrees[v] + Degree(r.g, v)]

ListSizes(r) ==
  CASE r.tool = "choosability_refute" -> Constant(r.g, r.k)
    [] r.tool = "list_critical" -> Constant(r.g, r.m - 1)
    [] r.tool = "reducible_configuration" -> SlackOf(r)

Searching == {"choosability_refute", "list_critical", "reducible_configuration"}
Guarded(r) == r.tool \in {"choosability_refute", "reducible_configuration"}

PaletteOf(r) ==
  IF r.tool = "reducible_configuration" \/ r.palette = {}
  THEN CompletePalette(r.g, ListSizes(r)) ELSE CHOOSE c \in r.palette : TRUE
Complete(r) == PaletteOf(r) >= CompletePalette(r.g, ListSizes(r))

\* build_configuration
BadDegrees(r) ==
  IF r.D = 0 THEN Cardinality(Range(r.degrees)) # 1
  ELSE \E v \in Vertices(r.g) : r.degrees[v] \notin Degree(r.g, v)..r.D

\* What ends the call before the search starts, in the order of the checks.
Refused(r) ==
  LET f == ListSizes(r)
  IN  IF Guarded(r) /\ CHOOSABILITY_MAX_N > 0 /\ r.g.n > CHOOSABILITY_MAX_N THEN "budget"
      ELSE IF r.tool = "reducible_configuration"
      THEN IF BadDegrees(r) THEN "error"
           ELSE IF r.g.n > MAX_CORE_VERTICES THEN "budget"
           ELSE IF \E v \in Vertices(r.g) : f[v] <= 0 THEN "out of scope"
           ELSE IF PaletteOf(r) > MAX_PALETTE THEN "budget" ELSE "none"
      ELSE IF r.tool = "list_critical" /\ r.m < 2 THEN "error"
      ELSE IF r.tool = "choosability_refute" /\ r.k < 1 THEN "error"
      ELSE IF \E v \in Vertices(r.g) : f[v] < 1 \/ f[v] > PaletteOf(r) THEN "error" ELSE "none"

NoJob == [graph |-> [n |-> 0, edges |-> {}], cands |-> {}, edges |-> {}, prev |-> "previous"]

SearchOf(g, r) ==
  [graph |-> g, cands |-> Assignments(ListSizes(r), g.n, PaletteOf(r)),
   edges |-> {}, prev |-> handler]

\* What the tool mints when the search of G itself ends.
Verdict(r, bad) ==
  CASE r.tool = "choosability_refute" ->
         IF bad THEN Certified("not choosable", r.k)
         ELSE Enumerated(IF Complete(r) THEN "choosable" ELSE "no bad list", r.k, Complete(r))
    [] r.tool = "reducible_configuration" ->
         IF bad THEN Unminted("inconclusive") ELSE Enumerated("f-choosable", 0, TRUE)
    [] OTHER -> Enumerated("not critical", r.m, Complete(r))

(***************************************************************************)
(* Calls.                                                                   *)
(***************************************************************************)
Finish(outcome) == phase' = "done" /\ job' = NoJob /\ last' = outcome
NoCall == [tool |-> "none"]

\* dispatch hands the result, or the message of what was raised, to the agent.
Deliver ==
  /\ phase = "done"
  /\ phase' = "idle" /\ call' = NoCall /\ last' = Unminted("none")
  /\ UNCHANGED <<job, timer, handler>>

Answer(r) ==
  /\ phase = "idle" /\ r.tool \in Immediate
  /\ call' = r
  /\ Finish(AnswerTo(r))
  /\ UNCHANGED <<timer, handler>>

Refuse(r) ==
  /\ phase = "idle" /\ r.tool \in Searching /\ Refused(r) # "none"
  /\ call' = r
  /\ Finish(Unminted(IF Refused(r) = "out of scope" THEN "inconclusive" ELSE Refused(r)))
  /\ UNCHANGED <<timer, handler>>

\* choosability_deadline remembers the handler, binds its own and arms the timer.
Begin(r) ==
  /\ phase = "idle" /\ r.tool \in Searching /\ Refused(r) = "none"
  /\ call' = r /\ phase' = "search" /\ job' = SearchOf(r.g, r)
  /\ timer' = Guarded(r) /\ handler' = IF Guarded(r) THEN "deadline" ELSE handler
  /\ UNCHANGED last

\* One iteration: the solver's assignment can be coloured, and its clause is added.
Refine ==
  /\ phase = "search"
  /\ \E L \in job.cands : \E coloring \in {FindListColoring(job.graph, L)} :
       /\ coloring # NoColoring
       /\ job' = [job EXCEPT !.cands = @ \ Blocked(@, coloring)]
  /\ UNCHANGED <<call, phase, last, timer, handler>>

BadFound == \E L \in job.cands : VerifyBadList(job.graph, L, ListSizes(call))
Exhausted == job.cands = {}

\* A guarded search leaves through the finally clause of its deadline.
Leaving(bad) ==
  /\ Guarded(call)
  /\ phase' = "leaving" /\ job' = [job EXCEPT !.cands = {}]
  /\ last' = Verdict(call, bad)
  /\ UNCHANGED <<call, timer, handler>>

\* list_critical: a bad list of G sends it through the edges, in any of their orders.
NextEdge(left) ==
  \E e \in left :
    /\ job' = [SearchOf(DeleteEdge(call.g, e), call) EXCEPT !.edges = left \ {e}]
    /\ UNCHANGED <<call, phase, last, timer, handler>>

Critical(bad, left) ==
  CASE bad /\ job.graph = call.g /\ left # {} -> NextEdge(left)
    [] ~bad /\ job.graph # call.g /\ left # {} -> NextEdge(left)
    [] OTHER ->
         /\ Finish(IF job.graph = call.g /\ ~bad THEN Verdict(call, FALSE)
                   ELSE IF bad /\ job.graph # call.g THEN Certified("not critical", call.m)
                   ELSE IF Complete(call) THEN Certified("critical", call.m)
                   ELSE Enumerated("critical", call.m, FALSE))
         /\ UNCHANGED <<call, timer, handler>>

SearchEnds(bad) ==
  \/ Leaving(bad)
  \/ ~Guarded(call) /\ Critical(bad, IF job.graph = call.g THEN call.g.edges ELSE job.edges)

FindBad == phase = "search" /\ BadFound /\ SearchEnds(TRUE)
Exhaust == phase = "search" /\ Exhausted /\ SearchEnds(FALSE)

\* Mutant: the timer is left running.
Leave_Armed ==
  /\ phase = "leaving"
  /\ Finish(last)
  /\ handler' = job.prev /\ UNCHANGED <<call, timer>>

Leave ==
  /\ phase = "leaving"
  /\ Finish(last)
  /\ timer' = FALSE /\ handler' = job.prev /\ UNCHANGED call

\* The alarm ends the search; one that fires in the finally clause itself escapes
\* as the deadline's own exception, and the handler stays bound.
Alarm ==
  /\ timer
  /\ timer' = FALSE
  /\ \/ phase = "search" /\ Finish(Unminted("budget")) /\ handler' = job.prev
     \/ phase = "leaving" /\ Finish(Unminted("error")) /\ UNCHANGED handler
  /\ UNCHANGED call

(***************************************************************************)
(* The fixer-breaker game (SuperSlimMind.analyze). solve plays on the pot   *)
(* of the largest list; an engine request gives the pots, the swap mode and *)
(* whether only nearly colourable boards count.                             *)
(***************************************************************************)
Sizes(r) == [v \in 0..(Len(r.sizes) - 1) |-> r.sizes[v + 1]]
Pots(r) ==
  LET total == MapThenSumSet(LAMBDA v : Sizes(r)[v], DOMAIN Sizes(r))
      largest == Max(Range(r.sizes) \cup {0})
  IN  IF r.tool = "fixer_breaker" THEN largest..Min({largest, total})
      ELSE Max({r.min_pot, largest})..Min({r.max_pot, total})
SwapMode(r) == IF r.tool = "fixer_breaker" THEN "single_swap" ELSE r.mode

\* The graph on the vertices that have a size: the list may be of any length.
Listed(r) == [n |-> Len(r.sizes), edges |-> r.g.edges]

Play(r) ==
  /\ phase = "idle" /\ r.tool \in {"fixer_breaker", "mind"}
  /\ call' = r /\ phase' = "packing" /\ job' = [left |-> Sizes(r)]
  /\ UNCHANGED <<last, timer, handler>>

\* The boards of a pot are made from the bits of the sizes, one bit of each at a time until
\* all are zero. Half of -1, rounded down, is -1: a negative size is never done.
Unpacked == ~(Pots(call) \subseteq {0}) /\ \E v \in DOMAIN job.left : job.left[v] # 0
Pack ==
  /\ phase = "packing" /\ Unpacked
  /\ job' = [job EXCEPT !.left = [v \in DOMAIN @ |-> @[v] \div 2]]
  /\ UNCHANGED <<call, phase, last, timer, handler>>

\* A board has no list at an edge's end that is past the sizes: an IndexError.
Deal ==
  /\ phase = "packing" /\ ~Unpacked
  /\ LET boards == UNION {GenerateAssignments(Sizes(call), pot) : pot \in Pots(call)}
         won == {b \in boards : EdgeColorable(call.g.edges, b)}
     IN  IF boards # {} /\ ~IsGraph(Listed(call)) THEN Finish(Unminted("error"))
         ELSE /\ job' = [graph |-> call.g, won |-> won, remaining |-> boards \ won]
              /\ phase' = "game" /\ UNCHANGED last
  /\ UNCHANGED <<call, timer, handler>>

WonThisRound == {b \in job.remaining : FixerWins(b, job.won, SwapMode(call))}

Round ==
  /\ phase = "game" /\ WonThisRound # {}
  /\ job' = [job EXCEPT !.won = @ \cup WonThisRound, !.remaining = @ \ WonThisRound]
  /\ UNCHANGED <<call, phase, last, timer, handler>>

GameOver ==
  /\ phase = "game" /\ WonThisRound = {}
  /\ LET nearly == call.tool = "mind" /\ call.nearly
         leftover == {b \in job.remaining : nearly => NearlyColorable(call.g, b)}
         wins == IF leftover = {} THEN 1 ELSE 0
     IN  Finish(IF call.tool = "mind" THEN [Unminted("verdict") EXCEPT !.value = wins]
                ELSE Solved("fixer wins", wins))
  /\ UNCHANGED <<call, timer, handler>>

\* The clean-room recursion, asked of one assignment.
AskFixable(r) ==
  /\ phase = "idle" /\ r.tool = "is_fixable"
  /\ \E L \in ListsOfSize(Sizes(r), r.pot, r.g.n) :
       LET yes == IsFixable(r.g, Sizes(r), r.pot, L)
       IN  /\ call' = [tool |-> "is_fixable", g |-> r.g, sizes |-> r.sizes, pot |-> r.pot,
                       lists |-> L]
           /\ Finish([Unminted("verdict") EXCEPT !.value = IF yes THEN 1 ELSE 0])
  /\ UNCHANGED <<timer, handler>>

(***************************************************************************)
(* reed_sweep: every graph of lo..hi vertices, up to the first violation.   *)
(***************************************************************************)
Family(r) ==
  UNION {{g \in AllGraphs[n] : r.connected => IsConnected(g, Vertices(g))} : n \in r.lo..r.hi}

Sweep(r) ==
  /\ phase = "idle" /\ r.tool = "reed_sweep"
  /\ call' = r
  /\ IF r.lo < 1 \/ r.hi < r.lo
     THEN Finish(Unminted("error"))
     ELSE phase' = "census" /\ job' = [left |-> Family(r), tight |-> 0] /\ UNCHANGED last
  /\ UNCHANGED <<timer, handler>>

SweepOne ==
  /\ phase = "census" /\ job.left # {}
  /\ \E g \in {CHOOSE h \in job.left : \A k \in job.left : h.n <= k.n} :
     \E certs \in {ChromaticCertificates(g)} :
       IF ~VerifyBundle(g, certs) THEN Finish(Unminted("error"))
       ELSE IF certs.chi > ReedBound(g, certs.omega) THEN Finish(Certified("violation", g.n))
       ELSE /\ job' = [left |-> job.left \ {g},
                       tight |-> job.tight + IF certs.chi = ReedBound(g, certs.omega) THEN 1 ELSE 0]
            /\ UNCHANGED <<phase, last>>
  /\ UNCHANGED <<call, timer, handler>>

SweepEnds ==
  /\ phase = "census" /\ job.left = {}
  /\ Finish(Enumerated("Reed tight", job.tight, TRUE))
  /\ UNCHANGED <<call, timer, handler>>

(***************************************************************************)
(* The specification. A call in progress keeps running.                     *)
(***************************************************************************)
Init ==
  /\ call = NoCall /\ phase = "idle" /\ job = NoJob
  /\ last = Unminted("none") /\ timer = FALSE /\ handler = "previous"

Working ==
  \/ Refine \/ FindBad \/ Exhaust \/ Leave
  \/ Pack \/ Deal \/ Round \/ GameOver
  \/ SweepOne \/ SweepEnds \/ Deliver

Next ==
  \/ \E r \in Requests : Answer(r) \/ Refuse(r) \/ Begin(r) \/ Play(r) \/ AskFixable(r) \/ Sweep(r)
  \/ Working
  \/ Alarm

Spec == Init /\ [][Next]_vars /\ WF_vars(Working)

(***************************************************************************)
(* What the claims say, by definition and without the engines.              *)
(***************************************************************************)
Colorable(g, k) == \E c \in [Vertices(g) -> 0..(k - 1)] : Proper(g, c)
Chi(g) == Min({k \in 0..g.n : Colorable(g, k)})
Alpha(g) == Max({Cardinality(S) : S \in {T \in SUBSET Vertices(g) : IsIndependent(g, T)}})
Choosable(g, f, palette) ==
  \A L \in ListsOfSize(f, palette, g.n) : \E c \in Selections(L, g.n) : Proper(g, c)

Monomorphic(host, pattern) ==
  \E f \in Injections(Vertices(pattern), Vertices(host)) :
    \A e \in pattern.edges : {f[v] : v \in e} \in host.edges

\* A minor is what deletions and contractions lead to.
Minors(g) ==
  LET smaller(h) == {DeleteVertices(h, {v}) : v \in Vertices(h)}
                    \cup {DeleteEdge(h, e) : e \in h.edges}
                    \cup {ContractEdge(h, Min(e), Max(e)) : e \in h.edges}
      graphs == UNION {[n : {m}, edges : SUBSET Pairs(0..(m - 1))] : m \in 0..g.n}
      minors[found \in SUBSET graphs] ==
        LET more == found \cup UNION {smaller(h) : h \in found}
        IN  IF more = found THEN found ELSE minors[more]
  IN  minors[{g}]

\* The elimination order witnesses the degeneracy: value is the most neighbours left.
OrderWitnesses(g, d) ==
  LET order == EliminationOrder(g)
      later(i) == Cardinality(Neighbors(g, order[i]) \cap ToSet(SubSeq(order, i + 1, g.n)))
  IN  d = Max({later(i) : i \in DOMAIN order} \cup {0})

\* What each operation is known to do to the invariants.
MatchingNumber(g) ==
  Max({Cardinality(M) : M \in {N \in SUBSET g.edges : \A e, f \in N : e # f => e \cap f = {}}})
Same(g, h) == \E f \in Injections(Vertices(h), Vertices(g)) :
                 g.n = h.n /\ g.edges = {{f[v] : v \in e} : e \in h.edges}

EditHolds(r, made) ==
  CASE r.tool = "complement" -> CliqueNumber(made) = Alpha(r.g)
    [] r.tool \in {"induced_subgraph", "delete_vertices"} ->
         LET kept == IF r.tool = "induced_subgraph" THEN r.keep ELSE Vertices(r.g) \ r.drop
         IN  /\ made.n = Cardinality(kept)
             /\ Cardinality(made.edges) = Cardinality({e \in r.g.edges : e \subseteq kept})
             /\ InducedEmbeddings(r.g, made) # {}
    [] r.tool = "delete_edge" -> Chi(r.g) - Chi(made) \in 0..1
    [] r.tool = "add_edge" -> Chi(made) - Chi(r.g) \in 0..1
    [] r.tool = "add_vertex" -> Alpha(made) = Alpha(r.g) + 1
    [] r.tool = "contract_edge" -> made.n = r.g.n - 1 /\ ContainsMinor(r.g, made)
    [] r.tool = "line_graph" -> made.n = Cardinality(r.g.edges) /\ Alpha(made) = MatchingNumber(r.g)

CombinationHolds(r, made) ==
  CASE r.tool = "mycielskian" ->
         r.g.edges # {} => Chi(made) = Chi(r.g) + 1 /\ CliqueNumber(made) = CliqueNumber(r.g)
    [] r.tool = "blow_up" ->
         /\ CliqueNumber(made) = CliqueNumber(r.g) * IF r.clique THEN r.k ELSE 1
         /\ Alpha(made) = Alpha(r.g) * IF r.clique THEN 1 ELSE r.k
    [] r.tool = "disjoint_union" -> Alpha(made) = Alpha(r.g) + Alpha(r.h)
    [] r.tool = "union" -> Chi(made) <= Chi(r.g) * Chi(r.h)
    [] r.tool = "join" -> Chi(made) = Chi(r.g) + Chi(r.h)
    [] r.tool = "cartesian_product" -> Chi(made) = Max({Chi(r.g), Chi(r.h)})
    [] r.tool = "tensor_product" -> CliqueNumber(made) = Min({CliqueNumber(r.g), CliqueNumber(r.h)})
    [] r.tool = "k_core" ->
         /\ \A v \in Vertices(made) : Degree(made, v) >= r.k
         /\ made.n > 0 <=> r.g.n > 0 /\ CoreNumber(r.g) >= r.k

Critically(g, k) ==
  LET palette == k * g.n
  IN  /\ ~Choosable(g, Constant(g, k), palette)
      /\ \A e \in g.edges : Choosable(DeleteEdge(g, e), Constant(g, k), palette)

SatisfiesReed(g) == 2 * Chi(g) <= MaxDegree(g) + CliqueNumber(g) + 2

Holds(r, o) ==
  CASE o.says = "colorable" -> Colorable(r.g, o.value)
    [] o.says = "not colorable" -> ~Colorable(r.g, o.value)
    [] o.says = "chi" -> o.value = Chi(r.g)
    [] o.says = "omega" -> o.value = Alpha(Complement(r.g))
    [] o.says = "alpha" -> o.value = Alpha(r.g)
    [] o.says = "degeneracy" -> OrderWitnesses(r.g, o.value)
    [] o.says = "hypothesis not met" -> MaxDegree(r.g) < BK_DELTA
    [] o.says \in {"satisfies BK", "violates BK"} ->
         (o.says = "satisfies BK") <=> Chi(r.g) <= Max({CliqueNumber(r.g), MaxDegree(r.g) - 1})
    [] o.says \in {"satisfies Reed", "violates Reed"} ->
         (o.says = "satisfies Reed") <=> SatisfiesReed(r.g)
    [] o.says = "Alon-Tarsi" -> Choosable(r.g, Constant(r.g, o.value), Max({r.g.n, o.value}))
    [] o.says = "hitting set" ->
         (o.value = 1) <=> \E S \in SUBSET Vertices(r.g) :
                             /\ IsIndependent(r.g, S)
                             /\ \A Q \in MaximumCliques(r.g) : r.g.n > 0 => Q \cap S # {}
    [] o.says = "subgraph" -> (o.value = 1) <=> Monomorphic(r.g, r.h)
    [] o.says = "minor" -> (o.value = 1) <=> \E m \in Minors(r.g) : IsIsomorphic(m, r.h)
    [] o.says = "induced subgraph" ->
         (o.value = 1) <=> \E S \in SUBSET Vertices(r.g) : Same(InducedSubgraph(r.g, S), r.h)
    [] o.says = "isomorphic" -> (o.value = 1) <=> Same(r.g, r.h)
    [] o.says = "could be isomorphic" -> Same(r.g, r.h) => o.value = 1
    [] o.says = "clique" -> (o.value = 1) <=> Alpha(Complement(r.g)) >= r.k
    [] o.says = "path" ->
         (o.value = 1) <=> Monomorphic(r.g, [n |-> r.k + 1, edges |-> {{v, v + 1} : v \in 0..(r.k - 1)}])
    [] o.says = "graph" ->
         IF r.tool \in Edits THEN EditHolds(r, o.value) ELSE CombinationHolds(r, o.value)
    [] o.says = "not choosable" -> ~Choosable(r.g, ListSizes(r), CompletePalette(r.g, ListSizes(r)))
    [] o.says = "choosable" -> Choosable(r.g, ListSizes(r), PaletteOf(r)) /\ IsKChoosable(r.g, r.k)
    [] o.says = "f-choosable" -> Choosable(r.g, ListSizes(r), PaletteOf(r))
    [] o.says = "critical" -> Critically(r.g, r.m - 1)
    [] o.says = "not critical" -> ~Critically(r.g, r.m - 1)
    [] o.says = "Reed tight" ->
         /\ \A g \in Family(r) : SatisfiesReed(g)
         /\ o.value = Cardinality({g \in Family(r) :
              2 * Chi(g) - (MaxDegree(g) + CliqueNumber(g)) \in 1..2})
    [] o.says = "violation" -> \E g \in Family(r) : ~SatisfiesReed(g)

(***************************************************************************)
(* Properties.                                                              *)
(***************************************************************************)
TypeOK ==
  /\ phase \in {"idle", "search", "leaving", "packing", "game", "census", "done"}
  /\ last.kind \in {"none", "claim", "verdict", "inconclusive", "budget", "error"}
  /\ last.root \in {"none", "certificate", "enumeration", "solver"}
  /\ (last.kind = "claim") <=> (last.root # "none")
  /\ timer \in BOOLEAN /\ handler \in {"previous", "deadline"}

\* Every claim that a tool answers in one step, or the census, and stamps certificate-checked
\* is true (empirical_tools.py, mint_certificate).
CertifiedHolds ==
  phase = "done" /\ call.tool \notin Searching /\ last.root = "certificate" => Holds(call, last)

\* Every such claim stamped as an exhaustive decision is true; of is_subgraph see below.
DecidedHolds ==
  phase = "done" /\ call.tool \notin Searching /\ last.root = "enumeration" /\ last.exhaustive
    /\ last.says # "subgraph" => Holds(call, last)

\* Every claim of a choosability search is true, but for one it stamps as not exhaustive
\* (a palette given too small), in whatever order the solver proposed its assignments: a bad
\* list that is found refutes choosability; that a graph is choosable rests on the clauses
\* having lost no bad assignment, up to the renaming of colours, and on the palette being
\* large enough; and list_critical has seen each of the edges.
Truthful(r, o) == o.kind = "claim" /\ o.exhaustive => Holds(r, o)
SearchClaimsHold == phase = "done" /\ call.tool \in Searching => Truthful(call, last)

\* A bad list assignment is never ruled out by a clause while the search goes on.
NoBadListLost ==
  phase = "search" =>
    \A L \in Assignments(ListSizes(call), job.graph.n, PaletteOf(call)) :
      ListColorings(job.graph, L) = {} => L \in job.cands

\* The wall-clock alarm can go off inside the search it was armed for and nowhere
\* else: not in a later tool, nor in the agent.
AlarmContained == timer => phase \in {"search", "leaving"} /\ Guarded(call)

\* Every board the game gives to fixer is fixable by the definition of the paper,
\* though fixer may swap at most two vertices and breaker only makes pairs.
WonBoardsFixable ==
  phase = "game" =>
    \A board \in job.won :
      \E pot \in Pots(call) :
        \E L \in FixableByDefinition(Listed(call), Sizes(call), pot) :
          UsesAll(L, pot) /\ BoardOf(L, pot) = board

\* The recursion with its memo answers as the definition: what it remembers from an
\* assignment that was still being computed is never wrong.
MemoAgrees ==
  phase = "done" /\ call.tool = "is_fixable" =>
    (last.value = 1) <=> call.lists \in FixableByDefinition(call.g, Sizes(call), call.pot)

\* Every call is answered: each clause removes at least the assignment it came from, each
\* round of the game but the last gives fixer a board. The one exception is a fixer-breaker
\* call with a negative size and a pot to deal from, whose packing does not end
\* (bit_assignments.py:31).
EndlessPacking == phase = "packing" /\ Unpacked /\ \E v \in DOMAIN job.left : job.left[v] < 0
EveryCallAnswers == (phase # "idle") ~> (phase = "idle" \/ EndlessPacking)

\* "Pattern embeds as (not necessarily induced) subgraph of host"
\* (fundamentals/relations.py:35): the claim of is_subgraph is true.
SubgraphHolds == phase = "done" /\ last.says = "subgraph" => Holds(call, last)
=============================================================================
