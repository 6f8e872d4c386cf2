---------------------------- MODULE FixerBreaker ----------------------------
(***************************************************************************)
(* The fixer-breaker game (coloring/fixer_breaker.py) and the definition it *)
(* was adjudicated against (coloring/fixability.py). A board says which     *)
(* vertices have each colour in their list; colours are interchangeable, so *)
(* a board is a bag of nonempty colour classes (the code keeps it as a      *)
(* sorted sequence of bit masks).                                           *)
(***************************************************************************)
EXTENDS SimpleGraphs, Bags

(***************************************************************************)
(* Boards: every way to give vertex v sizes[v] of pot colours, each colour  *)
(* used, once up to renaming; a pot of 0 has none                           *)
(* (coloring/bit_assignments.py).                                           *)
(***************************************************************************)
Class(L, c) == {v \in DOMAIN L : c \in L[v]}
BoardOf(L, pot) ==
  LET used == {c \in 0..(pot - 1) : Class(L, c) # {}}
  IN  [S \in {Class(L, c) : c \in used} |-> Cardinality({c \in used : Class(L, c) = S})]

UsesAll(L, pot) == \A c \in 0..(pot - 1) : Class(L, c) # {}
\* With a negative size and a colour in the pot there is no answer: see Pack in Tools.
GenerateAssignments(sizes, pot) ==
  LET lists == ListsOfSize(sizes, pot, Cardinality(DOMAIN sizes))
  IN  IF pot <= 0 THEN {} ELSE {BoardOf(L, pot) : L \in {M \in lists : UsesAll(M, pot)}}

(***************************************************************************)
(* Colourable boards: the edges get distinct colours that both ends list,   *)
(* edges at a common vertex different ones.                                 *)
(***************************************************************************)
ColorsOf(board) == UNION {{S} \X (1..board[S]) : S \in DOMAIN board}
EdgeList(board, e) == {c \in ColorsOf(board) : e \subseteq c[1]}

EdgeColorable(edges, board) ==
  \E color \in [edges -> ColorsOf(board)] :
    /\ \A e \in edges : e \subseteq color[e][1]
    /\ \A e, f \in edges : e # f /\ e \cap f # {} => color[e] # color[f]

NearlyColorable(g, board) ==
  /\ \A e \in g.edges : EdgeList(board, e) # {}
  /\ \E e \in g.edges : EdgeColorable(g.edges \ {e}, board)

(***************************************************************************)
(* A round: fixer picks two colours, breaker pairs up the vertices that     *)
(* have exactly one of them (one is left alone when their number is odd),   *)
(* fixer swaps the colours on some of the parts. In single-swap mode a      *)
(* response has at most two vertices.                                       *)
(***************************************************************************)
SymmetricDifference(S, T) == (S \ T) \cup (T \ S)

\* The partitions of S into pairs and at most so many singles.
Partitions(S, singles) ==
  {parts \in SUBSET (kSubset(1, S) \cup kSubset(2, S)) :
     /\ UNION parts = S
     /\ \A p, q \in parts : p # q => p \cap q = {}
     /\ Cardinality({p \in parts : Cardinality(p) = 1}) <= singles}

BreakerChoices(S) == Partitions(S, Cardinality(S) % 2)

\* Mutant: fixer may answer with a single vertex of a part.
FixerResponses_SplitsParts(parts, mode) ==
  {R \in (SUBSET UNION parts) \ {{}} : mode = "single_swap" => Cardinality(R) <= 2}

FixerResponses(parts, mode) ==
  {R \in {UNION Q : Q \in (SUBSET parts) \ {{}}} : mode = "single_swap" => Cardinality(R) <= 2}

\* A colour with no vertex left goes.
AddClass(board, S) == board (+) SetToBag({S} \ {{}})
FromSwap(board, S, T, R) ==
  AddClass(AddClass(board (-) SetToBag({S, T}), SymmetricDifference(S, R)),
           SymmetricDifference(T, R))

\* Two colours of the same class leave breaker nothing to pair and fixer no response.
FixerWins(board, won, mode) ==
  \E S, T \in DOMAIN board :
    /\ S # T
    /\ \A parts \in BreakerChoices(SymmetricDifference(S, T)) :
         \E R \in FixerResponses(parts, mode) : FromSwap(board, S, T, R) \in won

(***************************************************************************)
(* Fixability by its definition: an assignment on a fixed pot is fixable    *)
(* when it is colourable, or for two colours of the pot, used or not, every *)
(* partition into parts of at most two vertices has parts to swap that lead *)
(* to a fixable one. The least such set.                                    *)
(***************************************************************************)
EdgeColorableFrom(g, L) ==
  \E color \in [g.edges -> UNION {L[v] : v \in DOMAIN L}] :
    /\ \A e \in g.edges : \A v \in e : color[e] \in L[v]
    /\ \A e, f \in g.edges : e # f /\ e \cap f # {} => color[e] # color[f]

ExactlyOne(L, a, b) == {v \in DOMAIN L : (a \in L[v]) # (b \in L[v])}
Swap(L, a, b, S) ==
  [v \in DOMAIN L |->
     IF v \notin S \cap ExactlyOne(L, a, b) THEN L[v]
     ELSE IF a \in L[v] THEN (L[v] \ {a}) \cup {b} ELSE (L[v] \ {b}) \cup {a}]

CanFix(L, pot, good) ==
  \E a, b \in 0..(pot - 1) :
    LET S == ExactlyOne(L, a, b)
    IN  /\ a < b /\ S # {}
        /\ \A parts \in Partitions(S, Cardinality(S)) :
             \E Q \in (SUBSET parts) \ {{}} : Swap(L, a, b, UNION Q) \in good

FixableByDefinition(g, sizes, pot) ==
  LET all == ListsOfSize(sizes, pot, g.n)
      fixable[good \in SUBSET all] ==
        LET more == good \cup {L \in all \ good : CanFix(L, pot, good)}
        IN  IF more = good THEN good ELSE fixable[more]
  IN  fixable[{L \in all : EdgeColorableFrom(g, L)}]

(***************************************************************************)
(* is_fixable: the recursion with a memo. An assignment met again while it  *)
(* is being computed counts as not fixable, and what follows from that is   *)
(* remembered. Pairs, partitions and subsets are tried in the code's order. *)
(***************************************************************************)
ColorPairs(pot) ==
  FlattenSeq([a \in 1..pot |-> [i \in 1..(pot - a) |-> <<a - 1, a - 1 + i>>]])

PartitionsInOrder(S) ==
  LET with(part, rest) == [i \in DOMAIN rest |-> <<part>> \o rest[i]]
      ordered[T \in SUBSET S] ==
        LET v == Min(T)
            others == SetToSortSeq(T \ {v}, <)
        IN  IF T = {} THEN << <<>> >>
            ELSE with({v}, ordered[T \ {v}])
                 \o FlattenSeq([i \in DOMAIN others |->
                                  with({v, others[i]}, ordered[T \ {v, others[i]}])])
  IN  ordered[S]

\* The unions of parts, by the number whose bits choose them; 0 is skipped.
SubsetsInOrder(parts) ==
  Tail(FoldLeft(LAMBDA unions, part : unions \o [i \in DOMAIN unions |-> unions[i] \cup part],
                << {} >>, parts))

\* Mutant: one that is being computed counts as fixable.
Remembered_Computing(memo, L) == memo[L] # "no"

Remembered(memo, L) == memo[L] = "yes"

\* The answer of the recursion; each answer comes with what is remembered by then.
IsFixable(g, sizes, pot, asked) ==
  LET lists == ListsOfSize(sizes, pot, g.n)
      Memos == [lists -> {"new", "computing", "yes", "no"}]
      Answers == [yes : BOOLEAN, memo : Memos]
      Says(yes, memo) == [yes |-> yes, memo |-> memo]
      fixable[L \in lists, known \in Memos] ==
        LET \* Some pair, such that whatever the partition, some of its parts to swap.
            SomeSwap(a, b, responses, memo) ==
              LET from[i \in Nat, s \in Answers] ==
                    IF s.yes \/ i > Len(responses) THEN s
                    ELSE from[i + 1, fixable[Swap(L, a, b, responses[i]), s.memo]]
              IN  from[1, Says(FALSE, memo)]
            EveryPartition(a, b, partitions, memo) ==
              LET from[i \in Nat, s \in Answers] ==
                    IF ~s.yes \/ i > Len(partitions) THEN s
                    ELSE from[i + 1, SomeSwap(a, b, SubsetsInOrder(partitions[i]), s.memo)]
              IN  from[1, Says(TRUE, memo)]
            SomePair(pairs, memo) ==
              LET from[i \in Nat, s \in Answers] ==
                    IF s.yes \/ i > Len(pairs) THEN s
                    ELSE from[i + 1, EveryPartition(pairs[i][1], pairs[i][2],
                           PartitionsInOrder(ExactlyOne(L, pairs[i][1], pairs[i][2])), s.memo)]
              IN  from[1, Says(FALSE, memo)]
            Settled(s) == Says(s.yes, [s.memo EXCEPT ![L] = IF s.yes THEN "yes" ELSE "no"])
            differing == SelectSeq(ColorPairs(pot), LAMBDA c : ExactlyOne(L, c[1], c[2]) # {})
        IN  IF known[L] # "new" THEN Says(Remembered(known, L), known)
            ELSE IF EdgeColorableFrom(g, L) THEN Settled(Says(TRUE, known))
            ELSE Settled(SomePair(differing, [known EXCEPT ![L] = "computing"]))
  IN  fixable[asked, [L \in lists |-> "new"]].yes
=============================================================================
