--------------------------- MODULE AgentLoopSafety ---------------------------
(***************************************************************************)
(* Proofs about AgentLoop, for every value of its constants: what an       *)
(* interrupt may still let through, when a forever hunt halts, and that    *)
(* calls keep their results. They stand on the invariant of               *)
(* AgentLoopProofs, which gives the types and that the file is the session.*)
(***************************************************************************)
EXTENDS AgentLoopProofs, FiniteSetTheorems

-----------------------------------------------------------------------------
(***************************************************************************)
(* The invariants                                                          *)
(***************************************************************************)
\* What began under an interrupt is the last of its kind: the stages that begin more
\* are not reached before the interrupt has ended the step.
LateStages == {"continue", "head", "record", "flush", "result", "settle", "check",
               "after", "idle"}
AsideStages == {"forceInject", "respond", "continue", "head", "record", "flush", "check",
                "after", "idle"}
LateIsLast ==
    /\ run.late # 0 => run.late = 1 /\ interrupt /\ run.stage \in LateStages
    /\ run.aside # 0 => run.aside = 1 /\ interrupt /\ run.stage \in AsideStages

\* A hit is found within a turn, and the turn ends with it.
HitInTurn ==
    run.hit => run.stage \in {"dispatch", "result", "settle", "check", "flush"}

\* A claim on the ledger settles the conjecture.
SettledOn(ledger) == \E k \in 1..Len(ledger) : Settles(ledger[k])
HitSettled ==
    run.mode = "forever" /\ (run.outcome = "final" \/ run.hit) => SettledOn(mem.ledger)

\* The call at i has one result among the first n items.
AnsweredAt(h, i, n) ==
    \E x \in (i + 1)..n :
        \A y \in (i + 1)..n : (h[y].id = h[i].id /\ SameGroup(h, i, y)) <=> y = x
Answered(h, n) == \A i \in 1..n : h[i].kind = "call" => AnsweredAt(h, i, n)

\* The transcript ends in a turn of which n calls and r results are recorded.
Turn(h, b, n, r) ==
    /\ Len(h) = b + n + r
    /\ \A k \in 1..n : h[b + k] = CallItem(k)
    /\ \A k \in 1..r : h[b + n + k] = ResultItem(k)
    /\ Answered(h, b)

TurnStages == {"record", "dispatch", "result", "settle", "check", "flush"}

\* What the transcript looks like at each stage, if the program was not killed.
Shape(h, r) ==
    /\ r.stage # "down"
    /\ r.stage \notin TurnStages => Answered(h, Len(h))
    /\ r.stage \in TurnStages => r.i \in 1..r.calls
    /\ r.stage = "record" => \E b \in Nat : Turn(h, b, r.i - 1, 0)
    /\ r.stage \in {"dispatch", "result"} => \E b \in Nat : Turn(h, b, r.calls, r.i - 1)
    /\ r.stage \in {"settle", "check"} => \E b \in Nat : Turn(h, b, r.calls, r.i)
    /\ r.stage = "flush" => \E b \in Nat, n \in 1..r.calls : Turn(h, b, n, r.i - 1)
Grouped == used.crashes = 0 => Shape(mem.hist, run)

\* A program that is down knows no session.
DownKnowsNothing == At("down") => mem = NewSession

SafetyInv == LateIsLast /\ HitInTurn /\ HitSettled /\ Grouped /\ DownKnowsNothing

-----------------------------------------------------------------------------
(***************************************************************************)
(* Groups of calls and results                                             *)
(***************************************************************************)
\* A group depends on its items only.
LEMMA SameItems ==
    ASSUME NEW h, NEW g, NEW n \in Nat, \A x \in 1..n : g[x] = h[x],
           Answered(h, n)
    PROVE  Answered(g, n)
<1> SUFFICES ASSUME NEW i \in 1..n, g[i].kind = "call"
             PROVE  AnsweredAt(g, i, n)
  BY DEF Answered
<1>1. AnsweredAt(h, i, n) BY DEF Answered
<1>2. ASSUME NEW y \in (i + 1)..n
      PROVE  SameGroup(g, i, y) <=> SameGroup(h, i, y)
  <2>1. \A x \in i..y : x \in 1..n OBVIOUS
  <2>2. \A m \in i..(y - 1) : (\A x \in i..m : x \in i..y) /\ (\A x \in (m + 1)..y : x \in i..y)
    OBVIOUS
  <2> QED BY <2>1, <2>2 DEF SameGroup
<1>3. \A y \in (i + 1)..n : g[y] = h[y] /\ g[i] = h[i] OBVIOUS
<1> QED BY <1>1, <1>2, <1>3 DEF AnsweredAt

\* In an answered transcript a call is not the last item.
LEMMA CallsGoOn ==
    ASSUME NEW h, NEW n \in Nat, Answered(h, n), NEW i \in 1..n, h[i].kind = "call"
    PROVE  i < n
BY DEF Answered, AnsweredAt

\* An item that is no result answers nothing: the calls before it keep their results.
LEMMA AnotherItem ==
    ASSUME NEW h, NEW n \in Nat, Answered(h, n), h[n + 1].kind \notin {"call", "result"}
    PROVE  Answered(h, n + 1)
<1> SUFFICES ASSUME NEW i \in 1..(n + 1), h[i].kind = "call"
             PROVE  AnsweredAt(h, i, n + 1)
  BY DEF Answered
<1>1. i \in 1..n OBVIOUS
<1>2. PICK x \in (i + 1)..n :
        \A y \in (i + 1)..n : (h[y].id = h[i].id /\ SameGroup(h, i, y)) <=> y = x
  BY <1>1 DEF Answered, AnsweredAt
<1>3. ~SameGroup(h, i, n + 1)
  <2> SUFFICES ASSUME NEW m \in i..n, \A z \in (m + 1)..(n + 1) : h[z].kind = "result"
               PROVE  FALSE
    BY DEF SameGroup
  <2>1. n + 1 \in (m + 1)..(n + 1) BY <1>1
  <2> QED BY <2>1
<1>4. \A y \in (i + 1)..(n + 1) : (h[y].id = h[i].id /\ SameGroup(h, i, y)) <=> y = x
  <2> TAKE y \in (i + 1)..(n + 1)
  <2>1. CASE y = n + 1 BY <1>3, <2>1
  <2>2. CASE y # n + 1
    <3>1. y \in (i + 1)..n BY <2>2
    <3> QED BY <1>2, <3>1
  <2> QED BY <2>1, <2>2
<1>5. x \in (i + 1)..(n + 1) OBVIOUS
<1> QED BY <1>4, <1>5 DEF AnsweredAt

\* A turn whose calls all have their results closes: a result that the recorded calls did
\* not ask for (after an interrupt while they were recorded) answers none of them.
LEMMA TurnCloses ==
    ASSUME NEW h, NEW b \in Nat, NEW n \in Nat \ {0}, NEW r \in Nat, n <= r, Turn(h, b, n, r)
    PROVE  Answered(h, b + n + r)
<1> DEFINE N == b + n + r
<1>1. /\ \A k \in 1..n : h[b + k].kind = "call" /\ h[b + k].id = k
      /\ \A k \in 1..r : h[b + n + k].kind = "result" /\ h[b + n + k].id = k
  <2>1. /\ \A k \in 1..n : h[b + k] = CallItem(k)
        /\ \A k \in 1..r : h[b + n + k] = ResultItem(k)
    BY DEF Turn
  <2>2. \A k : /\ CallItem(k).kind = "call" /\ CallItem(k).id = k
               /\ ResultItem(k).kind = "result" /\ ResultItem(k).id = k
    BY DEF CallItem, ResultItem
  <2> HIDE DEF N
  <2> QED BY <2>1, <2>2
<1>2. /\ \A x \in (b + 1)..(b + n) : h[x].kind = "call" /\ h[x].id = x - b
      /\ \A x \in (b + n + 1)..N : h[x].kind = "result" /\ h[x].id = x - b - n
  <2>1. ASSUME NEW x \in (b + 1)..(b + n) PROVE h[x].kind = "call" /\ h[x].id = x - b
    <3>1. x - b \in 1..n /\ b + (x - b) = x OBVIOUS
    <3> QED BY <1>1, <3>1
  <2>2. ASSUME NEW x \in (b + n + 1)..N PROVE h[x].kind = "result" /\ h[x].id = x - b - n
    <3>1. x - b - n \in 1..r /\ b + n + (x - b - n) = x OBVIOUS
    <3> QED BY <1>1, <3>1
  <2> QED BY <2>1, <2>2
<1>3. Answered(h, b) BY DEF Turn
<1> SUFFICES ASSUME NEW i \in 1..N, h[i].kind = "call"
             PROVE  AnsweredAt(h, i, N)
  BY DEF Answered
<1>4. CASE i \in 1..b
  <2>1. PICK x \in (i + 1)..b :
          \A y \in (i + 1)..b : (h[y].id = h[i].id /\ SameGroup(h, i, y)) <=> y = x
    BY <1>3, <1>4 DEF Answered, AnsweredAt
  <2>2. ASSUME NEW y \in (b + 1)..N, SameGroup(h, i, y) PROVE FALSE
    <3>1. PICK m \in i..(y - 1) : /\ \A z \in i..m : h[z].kind = "call"
                                  /\ \A z \in (m + 1)..y : h[z].kind = "result"
      BY <2>2 DEF SameGroup
    <3>2. h[b + 1].kind = "call" /\ b + 1 \in i..y BY <1>2, <1>4
    <3>3. b + 1 \notin (m + 1)..y BY <3>1, <3>2
    <3>4. b \in i..m BY <1>4, <3>2, <3>3
    <3>5. h[b].kind = "call" /\ b \in 1..b BY <1>4, <3>1, <3>4
    <3> QED BY <1>3, <3>5, CallsGoOn
  <2>3. \A y \in (i + 1)..N : (h[y].id = h[i].id /\ SameGroup(h, i, y)) <=> y = x
    <3> TAKE y \in (i + 1)..N
    <3>1. CASE y \in (b + 1)..N BY <1>4, <2>1, <2>2, <3>1
    <3>2. CASE y \in (i + 1)..b BY <2>1, <3>2
    <3> QED BY <1>4, <3>1, <3>2
  <2>4. x \in (i + 1)..N BY <1>4
  <2> QED BY <2>3, <2>4 DEF AnsweredAt
<1>5. CASE i \in (b + 1)..(b + n)
  <2> DEFINE x == i + n
  <2>1. x \in (i + 1)..N /\ x \in (b + n + 1)..N BY <1>5
  <2>2. h[i].id = i - b /\ h[x].id = i - b
    <3>1. x - b - n = i - b BY <1>5
    <3> QED BY <1>2, <1>5, <2>1, <3>1
  <2>3. SameGroup(h, i, x)
    <3>1. b + n \in i..(x - 1) BY <1>5
    <3>2. \A z \in i..(b + n) : h[z].kind = "call" BY <1>2, <1>5
    <3>3. \A z \in (b + n + 1)..x : h[z].kind = "result" BY <1>2, <2>1
    <3> QED BY <3>1, <3>2, <3>3 DEF SameGroup
  <2>4. ASSUME NEW y \in (i + 1)..N, h[y].id = h[i].id, SameGroup(h, i, y)
        PROVE  y = x
    <3>1. PICK m \in i..(y - 1) : \A z \in (m + 1)..y : h[z].kind = "result"
      BY <2>4 DEF SameGroup
    <3>2. y \in (m + 1)..y BY <1>5
    <3>3. h[y].kind = "result" BY <3>1, <3>2
    <3>4. y \in (b + n + 1)..N
      <4>1. y \notin (b + 1)..(b + n) BY <1>2, <3>3
      <4> QED BY <1>5, <4>1
    <3>5. y - b - n = i - b BY <1>2, <2>2, <2>4, <3>4
    <3> QED BY <1>5, <3>4, <3>5
  <2>5. \A y \in (i + 1)..N : (h[y].id = h[i].id /\ SameGroup(h, i, y)) <=> y = x
    BY <2>2, <2>3, <2>4
  <2> QED BY <2>1, <2>5 DEF AnsweredAt
<1>6. i \notin (b + n + 1)..N BY <1>2
<1> QED BY <1>4, <1>5, <1>6

-----------------------------------------------------------------------------
(***************************************************************************)
(* Groups and compaction                                                   *)
(***************************************************************************)
\* The result at j answers one call.
AskedAt(h, j) ==
    \E i \in 1..(j - 1) :
        \A k \in 1..(j - 1) : (h[k].id = h[j].id /\ SameGroup(h, k, j)) <=> k = i

\* A set of a transcript's places has one element, or not.
LEMMA OnePlace ==
    ASSUME NEW a \in Int, NEW c \in Int, NEW S, S \subseteq a..c
    PROVE  Cardinality(S) = 1 <=> \E x \in a..c : S = {x}
<1>1. IsFiniteSet(S) BY FS_Interval, FS_Subset
<1> QED BY <1>1, FS_Singleton

\* The properties of AgentLoop, place by place.
LEMMA PlaceByPlace ==
    ASSUME NEW h, Len(h) \in Nat
    PROVE  /\ AllAnswered(h) <=> Answered(h, Len(h))
           /\ AllAsked(h) <=> \A j \in 1..Len(h) : h[j].kind = "result" => AskedAt(h, j)
<1>1. ASSUME NEW i \in 1..Len(h)
      PROVE  Cardinality(Answers(h, i)) = 1 <=> AnsweredAt(h, i, Len(h))
  <2>1. Answers(h, i) \subseteq (i + 1)..Len(h) BY DEF Answers
  <2>2. Cardinality(Answers(h, i)) = 1 <=> \E x \in (i + 1)..Len(h) : Answers(h, i) = {x}
    BY <2>1, OnePlace
  <2>3. ASSUME NEW x \in (i + 1)..Len(h)
        PROVE  Answers(h, i) = {x} <=>
                 \A y \in (i + 1)..Len(h) : (h[y].id = h[i].id /\ SameGroup(h, i, y)) <=> y = x
    BY DEF Answers
  <2> QED BY <2>2, <2>3 DEF AnsweredAt
<1>2. ASSUME NEW j \in 1..Len(h)
      PROVE  Cardinality(Asked(h, j)) = 1 <=> AskedAt(h, j)
  <2>1. Asked(h, j) \subseteq 1..(j - 1) BY DEF Asked
  <2>2. Cardinality(Asked(h, j)) = 1 <=> \E x \in 1..(j - 1) : Asked(h, j) = {x}
    BY <2>1, OnePlace
  <2>3. ASSUME NEW x \in 1..(j - 1)
        PROVE  Asked(h, j) = {x} <=>
                 \A y \in 1..(j - 1) : (h[y].id = h[j].id /\ SameGroup(h, y, j)) <=> y = x
    BY DEF Asked
  <2> QED BY <2>2, <2>3 DEF AskedAt
<1>3. AllAnswered(h) <=> Answered(h, Len(h)) BY <1>1 DEF AllAnswered, Answered
<1>4. AllAsked(h) <=> \A j \in 1..Len(h) : h[j].kind = "result" => AskedAt(h, j)
  BY <1>2 DEF AllAsked
<1> QED BY <1>3, <1>4

\* What a compaction that keeps the items from s on makes of a transcript.
Compacted(g, h, s) ==
    /\ Len(g) = Len(h) - s + 2
    /\ g[1].kind = "summary"
    /\ \A x \in 2..Len(g) : g[x] = h[x + s - 2]

\* compact (compaction.py) makes such a transcript: the summary, then what it keeps in order.
LEMMA CompactedFacts ==
    ASSUME NEW h \in Seq(Item), NEW s \in 2..Len(h)
    PROVE  Compacted(<<Message("summary")>> \o SubSeq(h, s, Len(h)), h, s)
<1> DEFINE m == Message("summary")
           kept == SubSeq(h, s, Len(h))
           g == <<m>> \o kept
<1>1. Len(h) \in Nat /\ \A x \in s..Len(h) : h[x] \in Item BY ElementOfSeq
<1>2. /\ kept \in Seq(Item) /\ Len(kept) = Len(h) - s + 1
      /\ \A x \in 1..(Len(h) - s + 1) : kept[x] = h[s + x - 1]
  BY <1>1, SubSeqProperties
<1>3. m \in Item /\ m.kind = "summary" BY DEF Message, Item, Kinds
<1> HIDE DEF m, kept
<1>4. <<m>> \in Seq(Item) /\ Len(<<m>>) = 1 /\ <<m>>[1] = m BY <1>3
<1>5. /\ Len(g) = 1 + Len(kept)
      /\ \A x \in 1..(1 + Len(kept)) : g[x] = IF x <= 1 THEN <<m>>[x] ELSE kept[x - 1]
  <2> DEFINE one == <<m>>
  <2> HIDE DEF one
  <2>1. one \in Seq(Item) /\ Len(one) = 1 BY <1>4 DEF one
  <2>2. /\ Len(one \o kept) = Len(one) + Len(kept)
        /\ \A x \in 1..(Len(one) + Len(kept)) :
             (one \o kept)[x] = IF x <= Len(one) THEN one[x] ELSE kept[x - Len(one)]
    BY <1>2, <2>1, ConcatProperties
  <2> QED BY <2>1, <2>2 DEF one
<1> HIDE DEF g
<1>6. Len(g) = Len(h) - s + 2 BY <1>1, <1>2, <1>5
<1>7. g[1].kind = "summary"
  <2>1. 1 \in 1..(1 + Len(kept)) BY <1>1, <1>2
  <2> QED BY <1>3, <1>4, <1>5, <2>1
<1>8. ASSUME NEW x \in 2..Len(g) PROVE g[x] = h[x + s - 2]
  <2>1. x \in 1..(1 + Len(kept)) /\ ~(x <= 1) BY <1>1, <1>2, <1>5
  <2>2. g[x] = kept[x - 1] BY <1>5, <2>1
  <2>3. x - 1 \in 1..(Len(h) - s + 1) BY <1>1, <1>6
  <2>4. s + (x - 1) - 1 = x + s - 2 BY <1>1
  <2> QED BY <1>2, <2>2, <2>3, <2>4
<1> QED BY <1>6, <1>7, <1>8 DEF Compacted, g, m, kept

\* The groups in the window stay.
LEMMA GroupsShift ==
    ASSUME NEW h, NEW g, Len(h) \in Nat, NEW s \in 2..Len(h), Compacted(g, h, s),
           NEW i \in 2..Len(g), NEW j \in 2..Len(g)
    PROVE  SameGroup(g, i, j) <=> SameGroup(h, i + s - 2, j + s - 2)
<1> DEFINE d == s - 2
           p == i + d
           q == j + d
<1>1. /\ d \in Nat /\ Len(g) = Len(h) - d
      /\ \A x \in 2..Len(g) : g[x] = h[x + d]
  BY DEF Compacted
<1>2. i + s - 2 = p /\ j + s - 2 = q OBVIOUS
<1>3. p \in Int /\ q \in Int /\ p - d = i /\ q - d = j BY <1>1
<1> HIDE DEF d, p, q
<1>4. ASSUME SameGroup(g, i, j) PROVE SameGroup(h, p, q)
  <2>1. PICK m \in i..(j - 1) : /\ \A x \in i..m : g[x].kind = "call"
                                /\ \A x \in (m + 1)..j : g[x].kind = "result"
    BY <1>4 DEF SameGroup
  <2>2. m + d \in p..(q - 1) BY <1>1, <1>3
  <2>3. ASSUME NEW x \in p..(m + d) PROVE h[x].kind = "call"
    <3>1. x - d \in i..m /\ x - d \in 2..Len(g) /\ (x - d) + d = x BY <1>1, <1>3
    <3> QED BY <1>1, <2>1, <3>1
  <2>4. ASSUME NEW x \in (m + d + 1)..q PROVE h[x].kind = "result"
    <3>1. x - d \in (m + 1)..j /\ x - d \in 2..Len(g) /\ (x - d) + d = x BY <1>1, <1>3
    <3> QED BY <1>1, <2>1, <3>1
  <2> QED BY <2>2, <2>3, <2>4 DEF SameGroup
<1>5. ASSUME SameGroup(h, p, q) PROVE SameGroup(g, i, j)
  <2>1. PICK m \in p..(q - 1) : /\ \A x \in p..m : h[x].kind = "call"
                                /\ \A x \in (m + 1)..q : h[x].kind = "result"
    BY <1>5 DEF SameGroup
  <2>2. m - d \in i..(j - 1) BY <1>1, <1>3
  <2>3. ASSUME NEW x \in i..(m - d) PROVE g[x].kind = "call"
    <3>1. x \in 2..Len(g) /\ x + d \in p..m BY <1>1, <1>3
    <3> QED BY <1>1, <2>1, <3>1
  <2>4. ASSUME NEW x \in (m - d + 1)..j PROVE g[x].kind = "result"
    <3>1. x \in 2..Len(g) /\ x + d \in (m + 1)..q BY <1>1, <1>3
    <3> QED BY <1>1, <2>1, <3>1
  <2> QED BY <2>2, <2>3, <2>4 DEF SameGroup
<1> QED BY <1>2, <1>4, <1>5

\* A compaction leaves every call its result: what it cuts off lies before.
LEMMA CompactionAnswers ==
    ASSUME NEW h, NEW g, Len(h) \in Nat, NEW s \in 2..Len(h), Compacted(g, h, s),
           Answered(h, Len(h))
    PROVE  Answered(g, Len(g))
<1>1. Len(g) = Len(h) - s + 2 /\ Len(g) \in Nat /\ \A x \in 2..Len(g) : g[x] = h[x + s - 2]
  BY DEF Compacted
<1> SUFFICES ASSUME NEW i \in 1..Len(g), g[i].kind = "call"
             PROVE  AnsweredAt(g, i, Len(g))
  BY DEF Answered
<1>2. i \in 2..Len(g) BY <1>1 DEF Compacted
<1> DEFINE at == i + s - 2
<1>3. at \in 1..Len(h) /\ h[at] = g[i] /\ at >= s BY <1>1, <1>2
<1>4. PICK x \in (at + 1)..Len(h) :
        \A y \in (at + 1)..Len(h) : (h[y].id = h[at].id /\ SameGroup(h, at, y)) <=> y = x
  BY <1>3 DEF Answered, AnsweredAt
<1>5. x - s + 2 \in (i + 1)..Len(g) BY <1>1, <1>3
<1>6. ASSUME NEW y \in (i + 1)..Len(g)
      PROVE  (g[y].id = g[i].id /\ SameGroup(g, i, y)) <=> y = x - s + 2
  <2>1. y \in 2..Len(g) /\ y + s - 2 \in (at + 1)..Len(h) BY <1>1, <1>2
  <2>2. g[y] = h[y + s - 2] BY <1>1, <2>1
  <2>3. SameGroup(g, i, y) <=> SameGroup(h, at, y + s - 2) BY <1>2, <2>1, GroupsShift
  <2>4. (h[y + s - 2].id = h[at].id /\ SameGroup(h, at, y + s - 2)) <=> y + s - 2 = x
    BY <1>4, <2>1
  <2>5. y + s - 2 = x <=> y = x - s + 2 BY <2>1
  <2> HIDE DEF at
  <2> QED BY <1>3, <2>2, <2>3, <2>4, <2>5
<1> QED BY <1>5, <1>6 DEF AnsweredAt

\* The window begins with no part of a group (_kept_window): no group lies across its edge.
LEMMA WindowCutsNoGroup ==
    ASSUME NEW h, Len(h) \in Nat, NEW s \in 2..Len(h), Opens(h, s),
           NEW i \in 1..(s - 1), NEW j \in s..Len(h), SameGroup(h, i, j)
    PROVE  FALSE
<1>1. PICK r \in s..(Len(h) - KeepRecent + 1) :
        /\ r = 1 \/ h[r].kind # "result"
        /\ \A x \in s..(r - 1) : h[x].kind = "call"
        /\ s = 1 \/ h[s - 1].kind # "call"
  BY DEF Opens
<1>2. PICK m \in i..(j - 1) : /\ \A x \in i..m : h[x].kind = "call"
                              /\ \A x \in (m + 1)..j : h[x].kind = "result"
  BY DEF SameGroup
<1>3. s - 1 \in i..(j - 1) /\ h[s - 1].kind # "call" BY <1>1
<1>4. s - 1 \notin i..m BY <1>2, <1>3
<1>5. s \in (m + 1)..j BY <1>3, <1>4
<1>6. h[s].kind = "result" BY <1>2, <1>5
<1>7. CASE r = s BY <1>1, <1>6, <1>7
<1>8. CASE r > s
  <2>1. s \in s..(r - 1) BY <1>8, KeepRecentType
  <2> QED BY <1>1, <1>6, <2>1
<1> QED BY <1>7, <1>8, KeepRecentType

\* So a compaction leaves every result its call.
LEMMA CompactionAsks ==
    ASSUME NEW h, NEW g, Len(h) \in Nat, NEW s \in 2..Len(h), Compacted(g, h, s), Opens(h, s),
           \A j \in 1..Len(h) : h[j].kind = "result" => AskedAt(h, j)
    PROVE  \A j \in 1..Len(g) : g[j].kind = "result" => AskedAt(g, j)
<1>1. /\ Len(g) = Len(h) - s + 2 /\ Len(g) \in Nat /\ g[1].kind = "summary"
      /\ \A x \in 2..Len(g) : g[x] = h[x + s - 2]
  BY DEF Compacted
<1> SUFFICES ASSUME NEW j \in 1..Len(g), g[j].kind = "result"
             PROVE  AskedAt(g, j)
  OBVIOUS
<1>2. j \in 2..Len(g) BY <1>1
<1> DEFINE at == j + s - 2
<1>3. at \in s..Len(h) /\ at \in 1..Len(h) /\ h[at] = g[j] BY <1>1, <1>2
<1>4. PICK i \in 1..(at - 1) :
        \A k \in 1..(at - 1) : (h[k].id = h[at].id /\ SameGroup(h, k, at)) <=> k = i
  BY <1>3 DEF AskedAt
<1>5. i \in s..(at - 1)
  <2>1. SameGroup(h, i, at) BY <1>4
  <2>2. i \notin 1..(s - 1) BY <1>3, <2>1, WindowCutsNoGroup
  <2> QED BY <1>3, <2>2
<1>6. i - s + 2 \in 1..(j - 1) BY <1>5
<1>7. ASSUME NEW k \in 1..(j - 1)
      PROVE  (g[k].id = g[j].id /\ SameGroup(g, k, j)) <=> k = i - s + 2
  <2>1. CASE k = 1
    <3>1. ~SameGroup(g, 1, j)
      <4> SUFFICES ASSUME NEW m \in 1..(j - 1), \A x \in 1..m : g[x].kind = "call"
                   PROVE  FALSE
        BY DEF SameGroup
      <4> QED BY <1>1
    <3> QED BY <1>5, <2>1, <3>1
  <2>2. CASE k # 1
    <3>1. k \in 2..Len(g) /\ k + s - 2 \in 1..(at - 1) BY <1>1, <1>2, <2>2
    <3>2. g[k] = h[k + s - 2] BY <1>1, <3>1
    <3>3. SameGroup(g, k, j) <=> SameGroup(h, k + s - 2, at) BY <1>2, <3>1, GroupsShift
    <3>4. (h[k + s - 2].id = h[at].id /\ SameGroup(h, k + s - 2, at)) <=> k + s - 2 = i
      BY <1>4, <3>1
    <3>5. k + s - 2 = i <=> k = i - s + 2 BY <3>1, <1>5
    <3> HIDE DEF at
    <3> QED BY <1>3, <3>2, <3>3, <3>4, <3>5
  <2> QED BY <2>1, <2>2
<1> QED BY <1>6, <1>7 DEF AskedAt

-----------------------------------------------------------------------------
(***************************************************************************)
(* The steps                                                               *)
(***************************************************************************)
\* The fields of a run that has just begun, went down or was resumed.
LEMMA ReadyFields ==
    /\ Ready.late = 0 /\ Ready.aside = 0 /\ Ready.hit = FALSE /\ Ready.outcome = "none" /\ Ready.mode = "chat"
    /\ \A mode : LET begun == [Ready EXCEPT !.stage = "start", !.mode = mode] IN
         /\ begun.stage = "start" /\ begun.mode = mode
         /\ begun.late = 0 /\ begun.aside = 0 /\ begun.hit = FALSE /\ begun.outcome = "none"
    /\ LET down == [Ready EXCEPT !.stage = "down"] IN
         /\ down.stage = "down" /\ down.mode = "chat" /\ down.hit = FALSE
         /\ down.late = 0 /\ down.aside = 0
    /\ LET resumed == [Ready EXCEPT !.outcome = run.outcome] IN
         /\ resumed.stage = "idle" /\ resumed.mode = "chat"
         /\ resumed.late = 0 /\ resumed.aside = 0 /\ resumed.hit = FALSE
BY DEF Ready

\* The generator returns or raises.
Returns(stage, outcome) ==
    /\ run'.stage = stage /\ run'.mode = run.mode /\ run'.outcome = outcome
    /\ run'.hit = FALSE

\* It does, whether or not the work it ends with is counted.
LEMMA EndReturns ==
    ASSUME NEW stage, NEW outcome,
           \/ run' = Ended(stage, outcome)
           \/ run' = [Ended(stage, outcome) EXCEPT !.late = Begun(@)]
           \/ run' = [Ended(stage, outcome) EXCEPT !.aside = Begun(@)]
    PROVE  Returns(stage, outcome)
<1>1. CASE run' = Ended(stage, outcome) BY <1>1 DEF Ended, Ready, Returns
<1>2. CASE run' = [Ended(stage, outcome) EXCEPT !.late = Begun(@)]
  BY <1>2 DEF Ended, Ready, Returns
<1>3. CASE run' = [Ended(stage, outcome) EXCEPT !.aside = Begun(@)]
  BY <1>3 DEF Ended, Ready, Returns
<1> QED BY <1>1, <1>2, <1>3

\* No more than one turn or call of the model, and one call of the loop's own, begins
\* under an interrupt.
LEMMA LateStep ==
    ASSUME IInv, LateIsLast, [Next]_vars
    PROVE  LateIsLast'
<1>1. run \in Run /\ interrupt \in BOOLEAN /\ run.late \in Nat /\ run.aside \in Nat
  BY DEF IInv, TypeOK, Run
<1>2. ASSUME run'.late = 0, run'.aside = 0 PROVE LateIsLast' BY <1>2 DEF LateIsLast
<1>3. ASSUME run'.late = run.late, run'.aside = run.aside, interrupt => interrupt',
             run'.late # 0 => run'.stage \in LateStages,
             run'.aside # 0 => run'.stage \in AsideStages
      PROVE  LateIsLast'
  BY <1>3 DEF LateIsLast
<1>4. ASSUME NEW stage \in {"after", "idle"}, NEW outcome, run' = Ended(stage, outcome),
             interrupt' = interrupt
      PROVE  LateIsLast'
  <2>1. run'.late = run.late /\ run'.aside = run.aside /\ run'.stage = stage
    BY <1>4 DEF Ended, Ready
  <2> QED BY <1>3, <1>4, <2>1 DEF LateStages, AsideStages
<1>5. ASSUME run.late = 0, run'.late = Begun(run.late), run'.aside = run.aside,
             interrupt' = interrupt, run'.stage \in LateStages,
             run.aside # 0 => run'.stage \in AsideStages
      PROVE  LateIsLast'
  BY <1>1, <1>5 DEF LateIsLast, Begun
<1>6. ASSUME run.aside = 0, run'.aside = Begun(run.aside), run'.late = run.late,
             interrupt' = interrupt, run'.stage \in AsideStages,
             run.late # 0 => run'.stage \in LateStages
      PROVE  LateIsLast'
  BY <1>1, <1>6 DEF LateIsLast, Begun
<1>7. ASSUME NEW mode \in Modes, Prompt(mode) PROVE LateIsLast'
  BY <1>2, <1>7, ReadyFields DEF Prompt
<1>8. CASE StepBegins
  <2>1. run.late = 0 /\ run.aside = 0
    BY <1>8 DEF StepBegins, At, LateIsLast, LateStages, AsideStages
  <2>2. run'.late = run.late /\ run'.aside = run.aside BY <1>1, <1>8 DEF StepBegins, Go, Run
  <2> QED BY <1>2, <2>1, <2>2
<1>9. CASE NextRound
  <2>1. CASE interrupt BY <1>4, <1>9, <2>1 DEF NextRound, Return
  <2>2. CASE ~interrupt /\ run.rounds >= Cap BY <1>4, <1>9, <2>2 DEF NextRound, Return
  <2>3. CASE ~interrupt /\ ~(run.rounds >= Cap)
    <3>1. run.late = 0 /\ run.aside = 0 BY <2>3 DEF LateIsLast
    <3>2. run'.late = run.late /\ run'.aside = run.aside
      BY <1>1, <1>9, <2>3 DEF NextRound, Run
    <3> QED BY <1>2, <3>1, <3>2
  <2> QED BY <2>1, <2>2, <2>3
<1>10. CASE HuntCompaction
  <2>1. run.late = 0 /\ run.aside = 0 /\ interrupt' = interrupt
    BY <1>10 DEF HuntCompaction, At, LateIsLast, LateStages, AsideStages
  <2>2. ASSUME NEW stage, Go(stage) PROVE LateIsLast'
    <3>1. run'.late = 0 /\ run'.aside = 0 BY <1>1, <2>1, <2>2 DEF Go, Run
    <3> QED BY <1>2, <3>1
  <2>3. CASE run' = [run EXCEPT !.stage = "forceInject", !.aside = Begun(@)]
    <3>1. /\ run'.aside = Begun(run.aside) /\ run'.late = run.late
          /\ run'.stage = "forceInject"
      BY <1>1, <2>3 DEF Run
    <3> QED BY <1>6, <2>1, <3>1 DEF AsideStages
  <2>4. ASSUME NEW outcome, run' = [Ended("idle", outcome) EXCEPT !.aside = Begun(@)]
        PROVE  LateIsLast'
    <3>1. /\ run'.aside = Begun(run.aside) /\ run'.late = run.late /\ run'.stage = "idle"
      BY <2>4 DEF Ended, Ready
    <3> QED BY <1>6, <2>1, <3>1 DEF AsideStages
  <2> QED BY <1>10, <2>2, <2>3, <2>4 DEF HuntCompaction
<1>11. CASE Inject
  <2>1. run.late = 0 /\ interrupt' = interrupt
    BY <1>11 DEF Inject, LateIsLast, LateStages
  <2>2. run'.late = run.late /\ run'.aside = run.aside /\ run'.stage = "respond"
    BY <1>1, <1>11 DEF Inject, Go, Run
  <2> QED BY <1>3, <2>1, <2>2 DEF AsideStages
<1>12. CASE RespondText
  <2>1. run.late = 0 /\ interrupt' = interrupt
    BY <1>12 DEF RespondText, At, LateIsLast, LateStages
  <2>2. /\ run'.late = Begun(run.late) /\ run'.aside = run.aside
        /\ run'.stage \in {"continue", "after"}
    <3>1. CASE run' = [run EXCEPT !.stage = "continue", !.late = Begun(@)]
      BY <1>1, <3>1 DEF Run
    <3>2. CASE run' = [Ended("after", "final") EXCEPT !.late = Begun(@)]
      BY <3>2 DEF Ended, Ready
    <3> QED BY <1>12, <3>1, <3>2 DEF RespondText
  <2> QED BY <1>5, <2>1, <2>2 DEF LateStages, AsideStages
<1>13. CASE RespondError
  <2>1. run.late = 0 /\ interrupt' = interrupt
    BY <1>13 DEF RespondError, At, LateIsLast, LateStages
  <2>2. PICK outcome : run' = [Ended("idle", outcome) EXCEPT !.late = Begun(@)]
    BY <1>13 DEF RespondError
  <2>3. run'.late = Begun(run.late) /\ run'.aside = run.aside /\ run'.stage = "idle"
    BY <2>2 DEF Ended, Ready
  <2> QED BY <1>5, <2>1, <2>3 DEF LateStages, AsideStages
<1>14. CASE RespondCalls
  <2>1. run.late = 0 /\ interrupt' = interrupt
    BY <1>14 DEF RespondCalls, At, LateIsLast, LateStages
  <2>2. PICK n : run' = [run EXCEPT !.stage = "record", !.calls = n, !.i = 1,
                                    !.late = Begun(@)]
    BY <1>14 DEF RespondCalls
  <2>3. run'.late = Begun(run.late) /\ run'.aside = run.aside /\ run'.stage = "record"
    BY <1>1, <2>2 DEF Run
  <2> QED BY <1>5, <2>1, <2>3 DEF LateStages, AsideStages
<1>15. CASE Nudge \/ AutoCompact
  <2>1. interrupt' = interrupt BY <1>15 DEF Nudge, AutoCompact
  <2>2. run'.late = run.late /\ run'.aside = run.aside /\ run'.stage \in {"head", "idle"}
    BY <1>1, <1>15 DEF Nudge, AutoCompact, Go, Run
  <2> QED BY <1>3, <2>1, <2>2 DEF LateStages, AsideStages
<1>16. CASE RecordCall
  <2>1. /\ run'.late = run.late /\ run'.aside = run.aside /\ interrupt' = interrupt
        /\ interrupt => run'.stage = "flush"
    BY <1>1, <1>16 DEF RecordCall, Run
  <2>2. CASE interrupt BY <1>3, <2>1, <2>2 DEF LateStages, AsideStages
  <2>3. CASE ~interrupt BY <1>2, <2>1, <2>3 DEF LateIsLast
  <2> QED BY <2>2, <2>3
<1>17. CASE DispatchPlain
  <2>1. run.late = 0 /\ run.aside = 0 /\ interrupt' = interrupt
    BY <1>17 DEF DispatchPlain, At, LateIsLast, LateStages, AsideStages
  <2>2. run' = [run EXCEPT !.stage = "check", !.late = Begun(@)] BY <1>17 DEF DispatchPlain
  <2>3. run'.late = Begun(run.late) /\ run'.aside = run.aside /\ run'.stage = "check"
    BY <1>1, <2>2 DEF Run
  <2> QED BY <1>5, <2>1, <2>3 DEF LateStages, AsideStages
<1>18. CASE DispatchClaim
  <2>1. run.late = 0 /\ run.aside = 0 /\ interrupt' = interrupt
    BY <1>18 DEF DispatchClaim, At, LateIsLast, LateStages, AsideStages
  <2>2. PICK c : run' = [run EXCEPT !.stage = "result", !.claim = c, !.late = Begun(@)]
    BY <1>18 DEF DispatchClaim
  <2>3. run'.late = Begun(run.late) /\ run'.aside = run.aside /\ run'.stage = "result"
    BY <1>1, <2>2 DEF Run
  <2> QED BY <1>5, <2>1, <2>3 DEF LateStages
<1>19. CASE RecordResult
  <2>1. run.aside = 0 /\ interrupt' = interrupt
    BY <1>19 DEF RecordResult, At, LateIsLast, AsideStages
  <2>2. run'.late = run.late /\ run'.aside = run.aside /\ run'.stage = "settle"
    BY <1>1, <1>19 DEF RecordResult, Go, Run
  <2> QED BY <1>3, <2>1, <2>2 DEF LateStages
<1>20. CASE Settle
  <2>1. run.aside = 0 /\ interrupt' = interrupt
    BY <1>20 DEF Settle, At, LateIsLast, AsideStages
  <2> DEFINE aside == IF AsksKernel(run.claim) THEN Begun(run.aside) ELSE run.aside
  <2>2. PICK h : run' = [run EXCEPT !.stage = "check", !.claim = NoClaim, !.hit = @ \/ h,
                                    !.aside = aside]
    BY <1>20 DEF Settle
  <2>3. aside = run.aside \/ aside = Begun(run.aside) OBVIOUS
  <2> HIDE DEF aside
  <2>4. run'.late = run.late /\ run'.aside = aside /\ run'.stage = "check"
    BY <1>1, <2>2 DEF Run
  <2>5. CASE aside = run.aside BY <1>3, <2>1, <2>4, <2>5 DEF LateStages, AsideStages
  <2>6. CASE aside = Begun(run.aside) BY <1>6, <2>1, <2>4, <2>6 DEF LateStages, AsideStages
  <2> QED BY <2>3, <2>5, <2>6
<1>21. CASE CheckInterrupt
  <2>1. CASE ~interrupt
    <3>1. run.late = 0 /\ run.aside = 0 BY <2>1 DEF LateIsLast
    <3>2. CASE run' = Ended("after", "final")
      <4>1. interrupt' = interrupt BY <1>21 DEF CheckInterrupt
      <4> QED BY <1>4, <3>2, <4>1
    <3>3. CASE run'.late = run.late /\ run'.aside = run.aside BY <1>2, <3>1, <3>3
    <3> QED BY <1>1, <1>21, <2>1, <3>2, <3>3 DEF CheckInterrupt, Return, Run
  <2>2. CASE interrupt
    <3>1. interrupt' = interrupt BY <1>21 DEF CheckInterrupt
    <3>2. CASE run.i < run.calls
      <4>1. run' = [run EXCEPT !.stage = "flush", !.i = @ + 1]
        BY <1>21, <2>2, <3>2 DEF CheckInterrupt
      <4>2. run'.late = run.late /\ run'.aside = run.aside /\ run'.stage = "flush"
        BY <1>1, <4>1 DEF Run
      <4> QED BY <1>3, <3>1, <4>2 DEF LateStages, AsideStages
    <3>3. CASE ~(run.i < run.calls)
      <4>1. run' = Ended("after", "interrupted")
        BY <1>21, <2>2, <3>3 DEF CheckInterrupt, Return
      <4> QED BY <1>4, <3>1, <4>1
    <3> QED BY <3>2, <3>3
  <2> QED BY <1>1, <2>1, <2>2
<1>22. CASE Flush
  <2>1. interrupt' = interrupt BY <1>22 DEF Flush
  <2>2. CASE run.i < run.calls
    <3>1. /\ run'.late = run.late /\ run'.aside = run.aside /\ run'.stage = "flush"
      BY <1>1, <1>22, <2>2 DEF Flush, At, Run
    <3> QED BY <1>3, <2>1, <3>1 DEF LateStages, AsideStages
  <2>3. CASE ~(run.i < run.calls) BY <1>4, <1>22, <2>1, <2>3 DEF Flush, Return
  <2> QED BY <2>2, <2>3
<1>23. CASE SlashCompact BY <1>23 DEF SlashCompact, LateIsLast
<1>24. CASE Interrupt BY <1>24 DEF Interrupt, LateIsLast
<1>25. CASE Resume BY <1>2, <1>25, ReadyFields DEF Resume
<1>26. CASE Crash BY <1>2, <1>26, ReadyFields DEF Crash
<1>27. CASE UNCHANGED vars BY <1>27 DEF vars, LateIsLast
<1> QED
  BY <1>7, <1>8, <1>9, <1>10, <1>11, <1>12, <1>13, <1>14, <1>15, <1>16, <1>17, <1>18, <1>19,
     <1>20, <1>21, <1>22, <1>23, <1>24, <1>25, <1>26, <1>27
  DEF Next, Loop, User

\* A ledger that settles the conjecture goes on doing so: the claims of TrustLog stay.
LEMMA SettledStays ==
    ASSUME IInv, [Next]_vars, ~At("down"), ~(At("down")'), SettledOn(mem.ledger)
    PROVE  SettledOn(mem'.ledger)
<1>1. Current = mem /\ Current' = mem' BY DEF Current
<1>2. mem.ledger \in Seq(Claim) BY DEF IInv, TypeOK, Session
<1>3. TrustStep BY StepKeeps
<1>4. mem'.ledger = mem.ledger \/ \E c \in Minted : mem'.ledger = Append(mem.ledger, c)
  <2>1. CASE Trust!Mint BY <1>1, <2>1 DEF Trust!Mint
  <2>2. CASE Trust!LockLemma BY <1>1, <2>2 DEF Trust!LockLemma
  <2>3. CASE Trust!trust' = Trust!trust BY <1>1, <2>3, Mapping
  <2> QED BY <1>3, <2>1, <2>2, <2>3 DEF TrustStep
<1>5. ASSUME NEW c \in Minted, mem'.ledger = Append(mem.ledger, c)
      PROVE  SettledOn(mem'.ledger)
  <2>1. c \in Claim BY MintedType
  <2>2. PICK k \in 1..Len(mem.ledger) : Settles(mem.ledger[k]) BY DEF SettledOn
  <2>3. /\ Len(mem'.ledger) = Len(mem.ledger) + 1 /\ Len(mem.ledger) \in Nat
        /\ mem'.ledger[k] = mem.ledger[k]
    BY <1>2, <1>5, <2>1, AppendProperties
  <2>4. k \in 1..Len(mem'.ledger) BY <2>3
  <2> QED BY <2>2, <2>3, <2>4 DEF SettledOn
<1> QED BY <1>4, <1>5

\* A hit is found in a turn and ends it, and is on the ledger.
LEMMA HitStep ==
    ASSUME IInv, HitInTurn, HitSettled, [Next]_vars
    PROVE  HitInTurn' /\ HitSettled'
<1> DEFINE Kept == run'.mode = run.mode /\ run'.hit = run.hit /\ run'.outcome = run.outcome
<1>1. run \in Run /\ run.hit \in BOOLEAN BY DEF IInv, TypeOK, Run
<1>2. ASSUME run'.hit = FALSE, run'.outcome # "final" \/ run'.mode # "forever"
      PROVE  HitInTurn' /\ HitSettled'
  BY <1>2 DEF HitInTurn, HitSettled
<1>3. ASSUME NEW stage, NEW outcome, Returns(stage, outcome),
             outcome # "final" \/ run.mode # "forever"
      PROVE  HitInTurn' /\ HitSettled'
  BY <1>2, <1>3 DEF Returns
<1>4. ASSUME Kept, ~At("down"), ~(At("down")') PROVE HitSettled'
  <2> SUFFICES ASSUME run'.mode = "forever", run'.outcome = "final" \/ run'.hit
               PROVE  SettledOn(mem'.ledger)
    BY DEF HitSettled
  <2>1. SettledOn(mem.ledger) BY <1>4 DEF HitSettled
  <2> QED BY <1>4, <2>1, SettledStays
<1>5. ASSUME NEW mode \in Modes, Prompt(mode) PROVE HitInTurn' /\ HitSettled'
  BY <1>2, <1>5, ReadyFields DEF Prompt
<1>6. CASE StepBegins \/ Nudge \/ AutoCompact \/ Inject
  <2>1. /\ run.stage \in {"start", "continue", "after", "inject", "forceInject"}
        /\ \E stage \in {"head", "idle", "respond"} : Go(stage)
    BY <1>6 DEF StepBegins, Nudge, AutoCompact, Inject, At
  <2>2. Kept /\ run'.stage \in {"head", "idle", "respond"} BY <1>1, <2>1 DEF Go, Run
  <2>3. run.hit = FALSE BY <1>1, <2>1 DEF HitInTurn
  <2> QED BY <1>4, <2>1, <2>2, <2>3 DEF At, HitInTurn
<1>7. CASE NextRound
  <2>1. CASE \E outcome \in {"interrupted", "cap"} : run' = Ended("after", outcome)
    BY <1>3, <2>1, EndReturns
  <2>2. CASE \E stage \in {"compact", "inject"} :
               run' = [run EXCEPT !.stage = stage, !.rounds = @ + 1]
    <3>1. Kept /\ run'.stage \in {"compact", "inject"} /\ run.stage = "head"
      BY <1>1, <1>7, <2>2 DEF Run, NextRound, At
    <3>2. run.hit = FALSE BY <1>1, <3>1 DEF HitInTurn
    <3> QED BY <1>4, <3>1, <3>2 DEF At, HitInTurn
  <2> QED BY <1>7, <2>1, <2>2 DEF NextRound, Return
<1>8. CASE HuntCompaction
  <2>1. run.stage = "compact" BY <1>8 DEF HuntCompaction, At
  <2>2. CASE \/ \E stage \in {"inject", "forceInject"} : Go(stage)
             \/ run' = [run EXCEPT !.stage = "forceInject", !.aside = Begun(@)]
    <3>1. Kept /\ run'.stage \in {"inject", "forceInject"} BY <1>1, <2>2 DEF Go, Run
    <3>2. run.hit = FALSE BY <1>1, <2>1 DEF HitInTurn
    <3> QED BY <1>4, <2>1, <3>1, <3>2 DEF At, HitInTurn
  <2>3. CASE \E outcome \in {"timeout", "error"} :
               run' = [Ended("idle", outcome) EXCEPT !.aside = Begun(@)]
    BY <1>3, <2>3, EndReturns
  <2> QED BY <1>8, <2>2, <2>3 DEF HuntCompaction
<1>9. CASE RespondText
  <2>1. run.stage = "respond" BY <1>9 DEF RespondText, At
  <2>2. CASE Hunting
    <3>1. run' = [run EXCEPT !.stage = "continue", !.late = Begun(@)]
      BY <1>9, <2>2 DEF RespondText
    <3>2. Kept /\ run'.stage = "continue" BY <1>1, <3>1 DEF Run
    <3>3. run.hit = FALSE BY <1>1, <2>1 DEF HitInTurn
    <3> QED BY <1>4, <2>1, <3>2, <3>3 DEF At, HitInTurn
  <2>3. CASE ~Hunting
    <3>1. /\ run' = [Ended("after", "final") EXCEPT !.late = Begun(@)]
          /\ run.mode # "forever"
      BY <1>9, <2>3 DEF RespondText, Hunting
    <3> QED BY <1>3, <3>1, EndReturns
  <2> QED BY <2>2, <2>3
<1>10. CASE RespondError
  <2>1. PICK outcome \in {"timeout", "error"} :
          run' = [Ended("idle", outcome) EXCEPT !.late = Begun(@)]
    BY <1>10 DEF RespondError
  <2>2. Returns("idle", outcome) BY <2>1, EndReturns
  <2> QED BY <1>3, <2>2
<1>11. CASE RespondCalls
  <2>1. PICK n : run' = [run EXCEPT !.stage = "record", !.calls = n, !.i = 1, !.late = Begun(@)]
    BY <1>11 DEF RespondCalls
  <2>2. Kept /\ run'.stage = "record" /\ run.stage = "respond"
    BY <1>1, <1>11, <2>1 DEF Run, RespondCalls, At
  <2>3. run.hit = FALSE BY <1>1, <2>2 DEF HitInTurn
  <2> QED BY <1>4, <2>2, <2>3 DEF At, HitInTurn
<1>12. CASE RecordCall
  <2>1. run.stage = "record" BY <1>12 DEF RecordCall, At
  <2>2. Kept /\ run'.stage \in {"record", "flush", "dispatch"}
    <3>1. CASE run' = [run EXCEPT !.stage = "flush", !.i = 1] BY <1>1, <3>1 DEF Run
    <3>2. CASE run' = [run EXCEPT !.i = @ + 1] BY <1>1, <2>1, <3>2 DEF Run
    <3>3. CASE run' = [run EXCEPT !.stage = "dispatch", !.i = 1] BY <1>1, <3>3 DEF Run
    <3> QED BY <1>12, <3>1, <3>2, <3>3 DEF RecordCall
  <2>3. run.hit = FALSE BY <1>1, <2>1 DEF HitInTurn
  <2> QED BY <1>4, <2>1, <2>2, <2>3 DEF At, HitInTurn
<1>13. CASE DispatchPlain \/ DispatchClaim \/ RecordResult
  <2>1. /\ run.stage \in {"dispatch", "result"} /\ Kept
        /\ run'.stage \in {"check", "result", "settle"}
    <3>1. CASE DispatchPlain BY <1>1, <3>1 DEF DispatchPlain, At, Run
    <3>2. CASE DispatchClaim BY <1>1, <3>2 DEF DispatchClaim, At, Run
    <3>3. CASE RecordResult BY <1>1, <3>3 DEF RecordResult, At, Go, Run
    <3> QED BY <1>13, <3>1, <3>2, <3>3
  <2> QED BY <1>4, <2>1 DEF At, HitInTurn
<1>14. CASE Settle
  <2> DEFINE aside == IF AsksKernel(run.claim) THEN Begun(run.aside) ELSE run.aside
  <2>1. PICK h \in Hits(run.claim) :
          run' = [run EXCEPT !.stage = "check", !.claim = NoClaim, !.hit = @ \/ h,
                             !.aside = aside]
    BY <1>14 DEF Settle
  <2> HIDE DEF aside
  <2>2. /\ run.stage = "settle" /\ run'.stage = "check"
        /\ run'.mode = run.mode /\ run'.outcome = run.outcome /\ run'.hit = (run.hit \/ h)
    BY <1>1, <1>14, <2>1 DEF Settle, At, Run
  <2>3. ~At("down") /\ ~(At("down")') BY <2>2 DEF At
  <2>4. ASSUME run.mode = "forever", h PROVE SettledOn(mem.ledger)
    <3>1. CampaignSettled(run.claim)
      <4>1. CASE ~CampaignSettled(run.claim)
        <5>1. h \in {FALSE} BY <2>1, <2>4, <4>1 DEF Hits
        <5> QED BY <2>4, <5>1
      <4> QED BY <4>1
    <3>2. Settles(run.claim) BY <3>1 DEF CampaignSettled, Settles
    <3> QED BY <2>2, <3>2 DEF IInv, ClaimRecorded, SettledOn
  <2>5. HitSettled'
    <3> SUFFICES ASSUME run'.mode = "forever", run'.outcome = "final" \/ run'.hit
                 PROVE  SettledOn(mem'.ledger)
      BY DEF HitSettled
    <3>1. SettledOn(mem.ledger)
      <4>1. CASE h BY <2>2, <2>4, <4>1
      <4>2. CASE ~h BY <2>2, <4>2 DEF HitSettled
      <4> QED BY <4>1, <4>2
    <3> QED BY <2>3, <3>1, SettledStays
  <2> QED BY <2>2, <2>5 DEF HitInTurn
<1>15. CASE CheckInterrupt
  <2>1. run.stage = "check" /\ UNCHANGED mem BY <1>15 DEF CheckInterrupt, At
  <2>2. CASE run' = Ended("after", "interrupted") BY <1>3, <2>2, EndReturns
  <2>3. CASE run' = Ended("after", "final") /\ run.hit
    <3>1. run'.mode = run.mode /\ run'.hit = FALSE BY <2>3, EndReturns DEF Returns
    <3> QED BY <2>1, <2>3, <3>1 DEF HitInTurn, HitSettled
  <2>4. CASE \E stage \in {"flush", "dispatch"} : run' = [run EXCEPT !.stage = stage, !.i = @ + 1]
    <3>1. Kept /\ run'.stage \in {"flush", "dispatch"} BY <1>1, <2>4 DEF Run
    <3> QED BY <1>4, <2>1, <3>1 DEF At, HitInTurn
  <2>5. CASE run' = [run EXCEPT !.stage = "head", !.calls = 0, !.i = 0] /\ ~run.hit
    <3>1. Kept /\ run'.stage = "head" BY <1>1, <2>5 DEF Run
    <3> QED BY <1>4, <2>1, <2>5, <3>1 DEF At, HitInTurn
  <2> QED BY <1>15, <2>2, <2>3, <2>4, <2>5 DEF CheckInterrupt, Return
<1>16. CASE Flush
  <2>1. run.stage = "flush" BY <1>16 DEF Flush, At
  <2>2. CASE run' = Ended("after", "interrupted") BY <1>3, <2>2, EndReturns
  <2>3. CASE run' = [run EXCEPT !.i = @ + 1]
    <3>1. Kept /\ run'.stage = "flush" BY <1>1, <2>1, <2>3 DEF Run
    <3> QED BY <1>4, <2>1, <3>1 DEF At, HitInTurn
  <2> QED BY <1>16, <2>2, <2>3 DEF Flush, Return
<1>17. CASE SlashCompact \/ Interrupt
  <2>1. Kept /\ ~At("down") /\ ~(At("down")') /\ UNCHANGED run
    BY <1>17 DEF SlashCompact, Interrupt, At
  <2> QED BY <1>4, <2>1 DEF HitInTurn
<1>18. CASE Resume BY <1>2, <1>18, ReadyFields DEF Resume
<1>19. CASE Crash BY <1>2, <1>19, ReadyFields DEF Crash
<1>20. CASE UNCHANGED vars BY <1>20 DEF vars, HitInTurn, HitSettled
<1> QED
  BY <1>5, <1>6, <1>7, <1>8, <1>9, <1>10, <1>11, <1>12, <1>13, <1>14, <1>15, <1>16, <1>17,
     <1>18, <1>19, <1>20
  DEF Next, Loop, User

\* A transcript with another item.
Extended(g, h, item) ==
    /\ Len(h) \in Nat /\ Len(g) = Len(h) + 1 /\ g[Len(h) + 1] = item
    /\ \A x \in 1..Len(h) : g[x] = h[x]

\* Appending to a transcript extends it.
LEMMA Appended ==
    ASSUME NEW h \in Seq(Item), NEW item \in Item
    PROVE  Extended(Append(h, item), h, item)
BY AppendProperties DEF Extended

\* A message closes no group and opens none.
LEMMA MessageAppended ==
    ASSUME NEW h, NEW item, NEW g, Extended(g, h, item),
           item.kind \notin {"call", "result"}, Answered(h, Len(h))
    PROVE  Answered(g, Len(g))
<1>1. /\ Len(h) \in Nat /\ Len(g) = Len(h) + 1 /\ g[Len(h) + 1] = item
      /\ \A x \in 1..Len(h) : g[x] = h[x]
  BY DEF Extended
<1>2. Answered(g, Len(h)) BY <1>1, SameItems
<1> QED BY <1>1, <1>2, AnotherItem

\* What is appended to a turn leaves what is recorded of it.
LEMMA TurnKept ==
    ASSUME NEW h, NEW b \in Nat, NEW n \in Nat, NEW r \in Nat, Turn(h, b, n, r),
           NEW item, NEW g, Extended(g, h, item)
    PROVE  /\ Len(g) = b + n + r + 1 /\ g[b + n + r + 1] = item
           /\ \A k \in 1..n : g[b + k] = CallItem(k)
           /\ \A k \in 1..r : g[b + n + k] = ResultItem(k)
           /\ Answered(g, b)
<1>1. /\ Len(h) = b + n + r
      /\ \A k \in 1..n : h[b + k] = CallItem(k)
      /\ \A k \in 1..r : h[b + n + k] = ResultItem(k)
      /\ Answered(h, b)
  BY DEF Turn
<1>2. /\ Len(g) = Len(h) + 1 /\ g[Len(h) + 1] = item
      /\ \A x \in 1..Len(h) : g[x] = h[x]
  BY DEF Extended
<1>3. ASSUME NEW k \in 1..n PROVE g[b + k] = CallItem(k)
  <2>1. b + k \in 1..Len(h) BY <1>1
  <2> QED BY <1>1, <1>2, <2>1
<1>4. ASSUME NEW k \in 1..r PROVE g[b + n + k] = ResultItem(k)
  <2>1. b + n + k \in 1..Len(h) BY <1>1
  <2> QED BY <1>1, <1>2, <2>1
<1>5. Answered(g, b)
  <2>1. \A x \in 1..b : x \in 1..Len(h) BY <1>1
  <2> QED BY <1>1, <1>2, <2>1, SameItems
<1> QED BY <1>1, <1>2, <1>3, <1>4, <1>5

\* Another call of the turn is recorded.
LEMMA CallRecorded ==
    ASSUME NEW h, NEW b \in Nat, NEW n \in Nat, NEW r \in Nat, Turn(h, b, n, r), NEW g
    PROVE  r = 0 /\ Extended(g, h, CallItem(n + 1)) => Turn(g, b, n + 1, r)
<1>1. ASSUME Extended(g, h, CallItem(n + 1))
      PROVE  /\ Len(g) = b + n + r + 1 /\ g[b + n + r + 1] = CallItem(n + 1)
             /\ \A k \in 1..n : g[b + k] = CallItem(k)
             /\ Answered(g, b)
  <2> DEFINE item == CallItem(n + 1)
  <2>1. Extended(g, h, item) BY <1>1
  <2> HIDE DEF item
  <2>2. /\ Len(g) = b + n + r + 1 /\ g[b + n + r + 1] = item
        /\ \A k \in 1..n : g[b + k] = CallItem(k)
        /\ \A k \in 1..r : g[b + n + k] = ResultItem(k)
        /\ Answered(g, b)
    BY <2>1, TurnKept
  <2> QED BY <2>2 DEF item
<1>2. ASSUME r = 0, Extended(g, h, CallItem(n + 1)), NEW k \in 1..(n + 1)
      PROVE  g[b + k] = CallItem(k)
  <2>1. CASE k = n + 1
    <3>1. b + k = b + n + r + 1 BY <1>2, <2>1
    <3> QED BY <1>1, <1>2, <2>1, <3>1
  <2>2. CASE k \in 1..n BY <1>1, <1>2, <2>2
  <2> QED BY <2>1, <2>2
<1>3. ASSUME r = 0, Extended(g, h, CallItem(n + 1)) PROVE Len(g) = b + (n + 1) + r
  BY <1>1, <1>3
<1>4. r = 0 => \A k \in 1..r : g[b + (n + 1) + k] = ResultItem(k) OBVIOUS
<1> QED BY <1>1, <1>2, <1>3, <1>4 DEF Turn

\* Another result is recorded.
LEMMA ResultRecorded ==
    ASSUME NEW h, NEW b \in Nat, NEW n \in Nat, NEW r \in Nat, Turn(h, b, n, r), NEW g
    PROVE  Extended(g, h, ResultItem(r + 1)) => Turn(g, b, n, r + 1)
<1>1. ASSUME Extended(g, h, ResultItem(r + 1))
      PROVE  /\ Len(g) = b + n + r + 1 /\ g[b + n + r + 1] = ResultItem(r + 1)
             /\ \A k \in 1..n : g[b + k] = CallItem(k)
             /\ \A k \in 1..r : g[b + n + k] = ResultItem(k)
             /\ Answered(g, b)
  <2> DEFINE item == ResultItem(r + 1)
  <2>1. Extended(g, h, item) BY <1>1
  <2> HIDE DEF item
  <2>2. /\ Len(g) = b + n + r + 1 /\ g[b + n + r + 1] = item
        /\ \A k \in 1..n : g[b + k] = CallItem(k)
        /\ \A k \in 1..r : g[b + n + k] = ResultItem(k)
        /\ Answered(g, b)
    BY <2>1, TurnKept
  <2> QED BY <2>2 DEF item
<1>2. ASSUME Extended(g, h, ResultItem(r + 1)), NEW k \in 1..(r + 1)
      PROVE  g[b + n + k] = ResultItem(k)
  <2>1. CASE k = r + 1
    <3>1. b + n + k = b + n + r + 1 BY <2>1
    <3> QED BY <1>1, <1>2, <2>1, <3>1
  <2>2. CASE k \in 1..r BY <1>1, <1>2, <2>2
  <2> QED BY <2>1, <2>2
<1>3. ASSUME Extended(g, h, ResultItem(r + 1)) PROVE Len(g) = b + n + (r + 1)
  BY <1>1, <1>3
<1> QED BY <1>1, <1>2, <1>3 DEF Turn

\* What log_history_item does to the transcript.
LEMMA HistExtended ==
    ASSUME mem \in Session, NEW item \in Item, LogItem(item)
    PROVE  Extended(mem'.hist, mem.hist, item)
<1>1. mem.hist \in Seq(Item) /\ mem'.hist = Append(mem.hist, item) BY DEF LogItem, Session
<1> QED BY <1>1, Appended

\* A step that is not a crash brings no program down, and counts no crash.
LEMMA StaysUp ==
    ASSUME IInv, Next, ~Crash
    PROVE  run'.stage # "down" /\ used'.crashes = used.crashes
<1>1. run \in Run /\ used \in Counters BY RunTypes
<1>2. ASSUME NEW stage \in Stages \ {"down"}, Go(stage) PROVE run'.stage # "down"
  BY <1>1, <1>2 DEF Go, Run
<1>3. ASSUME NEW stage \in Stages \ {"down"}, NEW outcome,
             \/ run' = Ended(stage, outcome)
             \/ run' = [Ended(stage, outcome) EXCEPT !.late = Begun(@)]
             \/ run' = [Ended(stage, outcome) EXCEPT !.aside = Begun(@)]
      PROVE  run'.stage # "down"
  BY <1>3, EndReturns DEF Returns
<1>4. ASSUME NEW mode \in Modes, Prompt(mode)
      PROVE  run'.stage # "down" /\ used'.crashes = used.crashes
  BY <1>1, <1>4 DEF Prompt, Counters, Ready
<1>5. CASE StepBegins \/ Nudge \/ Inject \/ AutoCompact \/ RecordResult
  BY <1>2, <1>5 DEF StepBegins, Nudge, Inject, AutoCompact, RecordResult, Stages
<1>6. CASE NextRound BY <1>1, <1>3, <1>6 DEF NextRound, Return, Stages, Run
<1>7. CASE HuntCompaction BY <1>1, <1>2, <1>3, <1>7 DEF HuntCompaction, Stages, Run
<1>8. CASE RespondText
  <2>1. used'.crashes = used.crashes BY <1>1, <1>8 DEF RespondText, Counters
  <2> QED BY <1>1, <1>3, <1>8, <2>1 DEF RespondText, Stages, Run
<1>9. CASE RespondError BY <1>3, <1>9 DEF RespondError, Stages
<1>10. CASE RespondCalls
  <2>1. PICK n : /\ used' = [used EXCEPT !.turns = @ + 1, !.calls = @ + n]
                 /\ run' = [run EXCEPT !.stage = "record", !.calls = n, !.i = 1, !.late = Begun(@)]
    BY <1>10 DEF RespondCalls
  <2> QED BY <1>1, <2>1 DEF Run, Counters
<1>11. CASE RecordCall BY <1>1, <1>11 DEF RecordCall, At, Run
<1>12. CASE DispatchPlain \/ DispatchClaim
  BY <1>1, <1>12 DEF DispatchPlain, DispatchClaim, Run
<1>13. CASE Settle BY <1>1, <1>13 DEF Settle, Run
<1>14. CASE CheckInterrupt BY <1>1, <1>3, <1>14 DEF CheckInterrupt, Return, Stages, Run
<1>15. CASE Flush BY <1>1, <1>3, <1>15 DEF Flush, Return, At, Stages, Run
<1>16. CASE SlashCompact \/ Interrupt BY <1>16 DEF SlashCompact, Interrupt, At
<1>17. CASE Resume BY <1>17, ReadyFields DEF Resume
<1> QED
  BY <1>4, <1>5, <1>6, <1>7, <1>8, <1>9, <1>10, <1>11, <1>12, <1>13, <1>14, <1>15, <1>16,
     <1>17
  DEF Next, Loop, User, At

\* Groups stay whole: a turn closes before the transcript is used again.
LEMMA GroupedStep ==
    ASSUME IInv, Grouped, [Next]_vars
    PROVE  Grouped'
<1> SUFFICES ASSUME used'.crashes = 0
             PROVE  Shape(mem'.hist, run')
  BY DEF Grouped
<1> DEFINE h == mem.hist
           g == mem'.hist
<1>1. /\ run \in Run /\ used \in Counters /\ mem \in Session
      /\ h \in Seq(Item) /\ Len(h) \in Nat
      /\ run.i \in Nat /\ run.calls \in Nat
  BY DEF IInv, TypeOK, Session, Run, Counters
<1>2. CASE UNCHANGED vars BY <1>2 DEF vars, Grouped, Shape
<1>3. CASE Crash
  <2>1. used'.crashes = used.crashes + 1 /\ used.crashes \in Nat
    BY <1>1, <1>3 DEF Crash, Counters
  <2> QED BY <2>1
<1> SUFFICES ASSUME Next, ~Crash
             PROVE  Shape(g, run')
  BY <1>2, <1>3
<1>4. run'.stage # "down" /\ used.crashes = 0 BY StaysUp
<1>5. Shape(h, run) BY <1>4 DEF Grouped
<1>6. ASSUME Answered(g, Len(g)), run'.stage \notin TurnStages PROVE Shape(g, run')
  BY <1>4, <1>6 DEF Shape, TurnStages
<1>7. ASSUME NEW kind \in Kinds \ {"call", "result"}, LogItem(Message(kind)),
             run.stage \notin TurnStages, run'.stage \notin TurnStages
      PROVE  Shape(g, run')
  <2>1. Message(kind) \in Item /\ Message(kind).kind \notin {"call", "result"}
    BY ItemType DEF Message, Kinds
  <2>2. Extended(g, h, Message(kind)) BY <1>1, <1>7, <2>1, HistExtended
  <2>3. Answered(h, Len(h)) BY <1>5, <1>7 DEF Shape
  <2> QED BY <1>1, <1>6, <1>7, <2>1, <2>2, <2>3, MessageAppended
<1>8. ASSUME UNCHANGED mem, run.stage \notin TurnStages, run'.stage \notin TurnStages
      PROVE  Shape(g, run')
  BY <1>5, <1>6, <1>8 DEF Shape
<1>9. ASSUME Compacts, run.stage \notin TurnStages, run'.stage \notin TurnStages
      PROVE  Shape(g, run')
  <2>1. PICK s \in 2..Len(h) : LogCompaction(SubSeq(h, s, Len(h))) BY <1>9 DEF Compacts
  <2>2. g = <<Message("summary")>> \o SubSeq(h, s, Len(h))
    BY <1>1, <2>1 DEF LogCompaction, Session
  <2>3. Compacted(g, h, s) BY <1>1, <2>2, CompactedFacts
  <2>4. Answered(h, Len(h)) BY <1>5, <1>9 DEF Shape
  <2> QED BY <1>1, <1>6, <1>9, <2>3, <2>4, CompactionAnswers
<1>10. ASSUME NEW stage \in Stages \ TurnStages, Go(stage) PROVE run'.stage \notin TurnStages
  BY <1>1, <1>10 DEF Go, Run
<1>11. ASSUME NEW stage \in {"after", "idle"}, NEW outcome,
              \/ run' = Ended(stage, outcome)
              \/ run' = [Ended(stage, outcome) EXCEPT !.late = Begun(@)]
              \/ run' = [Ended(stage, outcome) EXCEPT !.aside = Begun(@)]
       PROVE  run'.stage \notin TurnStages
  BY <1>11, EndReturns DEF Returns, TurnStages
<1>12. ASSUME NEW mode \in Modes, Prompt(mode) PROVE Shape(g, run')
  <2>1. run.stage \notin TurnStages /\ run'.stage \notin TurnStages
    BY <1>12, ReadyFields DEF Prompt, At, TurnStages
  <2>2. LogItem(Message("user")) BY <1>12 DEF Prompt
  <2> QED BY <1>7, <2>1, <2>2 DEF Kinds
<1>13. CASE StepBegins
  <2>1. run.stage \notin TurnStages /\ UNCHANGED mem BY <1>13 DEF StepBegins, At, TurnStages
  <2>2. run'.stage \notin TurnStages BY <1>10, <1>13 DEF StepBegins, Stages, TurnStages
  <2> QED BY <1>8, <2>1, <2>2
<1>14. CASE NextRound
  <2>1. run.stage \notin TurnStages /\ UNCHANGED mem BY <1>14 DEF NextRound, At, TurnStages
  <2>2. run'.stage \notin TurnStages
    <3>1. CASE \E outcome : run' = Ended("after", outcome) BY <1>11, <3>1
    <3>2. CASE \E stage \in {"compact", "inject"} :
                 run' = [run EXCEPT !.stage = stage, !.rounds = @ + 1]
      BY <1>1, <3>2 DEF Run, TurnStages
    <3> QED BY <1>14, <3>1, <3>2 DEF NextRound, Return
  <2> QED BY <1>8, <2>1, <2>2
<1>15. CASE HuntCompaction
  <2>1. run.stage \notin TurnStages BY <1>15 DEF HuntCompaction, At, TurnStages
  <2>2. run'.stage \notin TurnStages
    <3>1. CASE \E outcome \in {"timeout", "error"} :
                 run' = [Ended("idle", outcome) EXCEPT !.aside = Begun(@)]
      BY <1>11, <3>1
    <3>2. CASE \E stage \in {"inject", "forceInject"} : Go(stage)
      BY <1>10, <3>2 DEF Stages, TurnStages
    <3>3. CASE run' = [run EXCEPT !.stage = "forceInject", !.aside = Begun(@)]
      BY <1>1, <3>3 DEF Run, TurnStages
    <3> QED BY <1>15, <3>1, <3>2, <3>3 DEF HuntCompaction
  <2> QED BY <1>8, <1>9, <1>15, <2>1, <2>2 DEF HuntCompaction
<1>16. CASE Inject
  <2>1. run.stage \notin TurnStages BY <1>16 DEF Inject, TurnStages
  <2>2. run'.stage \notin TurnStages BY <1>10, <1>16 DEF Inject, Stages, TurnStages
  <2>3. LogItem(Message("staircase")) \/ UNCHANGED mem BY <1>16 DEF Inject
  <2> QED BY <1>7, <1>8, <2>1, <2>2, <2>3 DEF Kinds
<1>17. CASE RespondText
  <2>1. run.stage \notin TurnStages /\ LogItem(Message("assistant"))
    BY <1>17 DEF RespondText, At, TurnStages
  <2>2. run'.stage \notin TurnStages
    <3>1. CASE run' = [Ended("after", "final") EXCEPT !.late = Begun(@)] BY <1>11, <3>1
    <3>2. CASE run' = [run EXCEPT !.stage = "continue", !.late = Begun(@)]
      BY <1>1, <3>2 DEF Run, TurnStages
    <3> QED BY <1>17, <3>1, <3>2 DEF RespondText
  <2> QED BY <1>7, <2>1, <2>2 DEF Kinds
<1>18. CASE RespondError
  <2>1. run.stage \notin TurnStages /\ UNCHANGED mem
    BY <1>18 DEF RespondError, At, TurnStages
  <2>2. run'.stage \notin TurnStages BY <1>11, <1>18 DEF RespondError
  <2> QED BY <1>8, <2>1, <2>2
<1>19. CASE RespondCalls
  <2>1. PICK n \in 1..TurnCalls :
          run' = [run EXCEPT !.stage = "record", !.calls = n, !.i = 1, !.late = Begun(@)]
    BY <1>19 DEF RespondCalls
  <2>2. run'.stage = "record" /\ run'.i = 1 /\ run'.calls = n BY <1>1, <2>1 DEF Run
  <2>3. g = h /\ run.stage \notin TurnStages BY <1>19 DEF RespondCalls, At, TurnStages
  <2>4. Answered(h, Len(h)) BY <1>5, <2>3 DEF Shape
  <2>5. Turn(h, Len(h), 0, 0) BY <1>1, <2>4 DEF Turn
  <2>6. run'.i \in 1..run'.calls BY <2>2, BoundsType
  <2> QED BY <1>1, <1>4, <2>2, <2>3, <2>5, <2>6 DEF Shape, TurnStages
<1>20. CASE Nudge
  <2>1. run.stage \notin TurnStages BY <1>20 DEF Nudge, At, TurnStages
  <2>2. run'.stage \notin TurnStages BY <1>10, <1>20 DEF Nudge, Stages, TurnStages
  <2>3. \E kind \in {"staircase", "user"} : LogItem(Message(kind)) BY <1>20 DEF Nudge
  <2> QED BY <1>7, <2>1, <2>2, <2>3 DEF Kinds
<1>21. CASE RecordCall
  <2>1. run.stage = "record" /\ LogItem(CallItem(run.i)) BY <1>21 DEF RecordCall, At
  <2>2. run.i \in 1..run.calls BY <1>5, <2>1 DEF Shape, TurnStages
  <2>3. PICK b \in Nat : Turn(h, b, run.i - 1, 0) BY <1>5, <2>1 DEF Shape
  <2>4. Extended(g, h, CallItem(run.i)) BY <1>1, <2>1, HistExtended, ItemType DEF Kinds
  <2>5. Turn(g, b, run.i, 0)
    <3> DEFINE before == run.i - 1
               none == 0
    <3>1. before \in Nat /\ before + 1 = run.i /\ none \in Nat /\ none = 0 BY <1>1, <2>2
    <3>2. Turn(h, b, before, none) BY <2>3
    <3> HIDE DEF before, none
    <3>3. Extended(g, h, CallItem(before + 1)) BY <2>4, <3>1
    <3>4. Turn(g, b, before + 1, none) BY <1>1, <3>1, <3>2, <3>3, CallRecorded
    <3> QED BY <3>1, <3>4
  <2>6. CASE run' = [run EXCEPT !.stage = "flush", !.i = 1]
    <3>1. run'.stage = "flush" /\ run'.i = 1 /\ run'.calls = run.calls
      BY <1>1, <2>6 DEF Run
    <3>2. run'.i \in 1..run'.calls /\ run'.i - 1 = 0 /\ run.i \in 1..run'.calls
      BY <1>1, <2>2, <3>1
    <3> QED BY <2>5, <3>1, <3>2 DEF Shape, TurnStages
  <2>7. CASE run' = [run EXCEPT !.i = @ + 1] /\ run.i < run.calls
    <3>1. run'.stage = "record" /\ run'.i = run.i + 1 /\ run'.calls = run.calls
      BY <1>1, <2>1, <2>7 DEF Run
    <3>2. run'.i \in 1..run'.calls /\ run'.i - 1 = run.i BY <1>1, <2>2, <2>7, <3>1
    <3> QED BY <2>5, <3>1, <3>2 DEF Shape, TurnStages
  <2>8. CASE run' = [run EXCEPT !.stage = "dispatch", !.i = 1] /\ ~(run.i < run.calls)
    <3>1. run'.stage = "dispatch" /\ run'.i = 1 /\ run'.calls = run.calls
      BY <1>1, <2>8 DEF Run
    <3>2. run'.i \in 1..run'.calls /\ run'.i - 1 = 0 /\ run.i = run'.calls
      BY <1>1, <2>2, <2>8, <3>1
    <3> QED BY <2>5, <3>1, <3>2 DEF Shape, TurnStages
  <2> QED BY <1>21, <2>6, <2>7, <2>8 DEF RecordCall
<1>22. CASE DispatchPlain \/ RecordResult
  <2>1. /\ run.stage \in {"dispatch", "result"} /\ LogItem(ResultItem(run.i))
        /\ run'.stage \in {"check", "settle"} /\ run'.i = run.i /\ run'.calls = run.calls
    BY <1>1, <1>22 DEF DispatchPlain, RecordResult, At, Go, Run
  <2>2. run.i \in 1..run.calls BY <1>5, <2>1 DEF Shape, TurnStages
  <2>3. PICK b \in Nat : Turn(h, b, run.calls, run.i - 1) BY <1>5, <2>1 DEF Shape
  <2>4. Extended(g, h, ResultItem(run.i)) BY <1>1, <2>1, HistExtended, ItemType DEF Kinds
  <2>5. Turn(g, b, run.calls, run.i)
    <3>1. run.i - 1 \in Nat /\ (run.i - 1) + 1 = run.i BY <1>1, <2>2
    <3> QED BY <1>1, <2>3, <2>4, <3>1, ResultRecorded
  <2> QED BY <2>1, <2>2, <2>5 DEF Shape, TurnStages
<1>23. CASE DispatchClaim
  <2>1. /\ run.stage = "dispatch" /\ run'.stage = "result"
        /\ run'.i = run.i /\ run'.calls = run.calls
    BY <1>1, <1>23 DEF DispatchClaim, At, Run
  <2>2. g = h BY <1>1, <1>23 DEF DispatchClaim, LogClaim, Session
  <2> QED BY <1>5, <2>1, <2>2 DEF Shape, TurnStages
<1>24. CASE Settle
  <2>1. /\ run.stage = "settle" /\ run'.stage = "check"
        /\ run'.i = run.i /\ run'.calls = run.calls
    BY <1>1, <1>24 DEF Settle, At, Run
  <2>2. g = h BY <1>1, <1>24 DEF Settle, LogLemma, Session
  <2> QED BY <1>5, <2>1, <2>2 DEF Shape, TurnStages
<1>25. CASE CheckInterrupt
  <2>1. run.stage = "check" /\ g = h BY <1>25 DEF CheckInterrupt, At
  <2>2. run.i \in 1..run.calls BY <1>5, <2>1 DEF Shape, TurnStages
  <2>3. PICK b \in Nat : Turn(h, b, run.calls, run.i) BY <1>5, <2>1 DEF Shape
  <2>4. CASE run.i < run.calls /\ \E stage \in {"flush", "dispatch"} :
               run' = [run EXCEPT !.stage = stage, !.i = @ + 1]
    <3>1. /\ run'.stage \in {"flush", "dispatch"}
          /\ run'.i = run.i + 1 /\ run'.calls = run.calls
      BY <1>1, <2>4 DEF Run
    <3>2. run'.i \in 1..run'.calls /\ run'.i - 1 = run.i /\ run.calls \in 1..run'.calls
      BY <1>1, <2>2, <2>4, <3>1
    <3> QED BY <2>1, <2>3, <3>1, <3>2 DEF Shape, TurnStages
  <2>5. CASE ~(run.i < run.calls)
    <3>1. run.i = run.calls /\ run.calls # 0 BY <1>1, <2>2, <2>5
    <3>2. Answered(h, b + run.calls + run.i) BY <1>1, <2>3, <3>1, TurnCloses
    <3>3. Answered(g, Len(g)) BY <2>1, <2>3, <3>2 DEF Turn
    <3>4. run'.stage \notin TurnStages
      <4>1. CASE \E outcome : run' = Ended("after", outcome) BY <1>11, <4>1
      <4>2. CASE run' = [run EXCEPT !.stage = "head", !.calls = 0, !.i = 0]
        BY <1>1, <4>2 DEF Run, TurnStages
      <4> QED BY <1>25, <2>5, <4>1, <4>2 DEF CheckInterrupt, Return
    <3> QED BY <1>6, <3>3, <3>4
  <2> QED BY <1>25, <2>4, <2>5 DEF CheckInterrupt
<1>26. CASE Flush
  <2>1. run.stage = "flush" /\ LogItem(ResultItem(run.i)) BY <1>26 DEF Flush, At
  <2>2. run.i \in 1..run.calls BY <1>5, <2>1 DEF Shape, TurnStages
  <2>3. PICK b \in Nat, n \in 1..run.calls : Turn(h, b, n, run.i - 1)
    BY <1>5, <2>1 DEF Shape
  <2>4. Extended(g, h, ResultItem(run.i)) BY <1>1, <2>1, HistExtended, ItemType DEF Kinds
  <2>5. Turn(g, b, n, run.i)
    <3>1. run.i - 1 \in Nat /\ (run.i - 1) + 1 = run.i /\ n \in Nat BY <1>1, <2>2
    <3> QED BY <1>1, <2>3, <2>4, <3>1, ResultRecorded
  <2>6. CASE run.i < run.calls
    <3>1. run'.stage = "flush" /\ run'.i = run.i + 1 /\ run'.calls = run.calls
      BY <1>1, <1>26, <2>1, <2>6 DEF Flush, Run
    <3>2. run'.i \in 1..run'.calls /\ run'.i - 1 = run.i /\ n \in 1..run'.calls
      BY <1>1, <2>2, <2>6, <3>1
    <3> QED BY <2>5, <3>1, <3>2 DEF Shape, TurnStages
  <2>7. CASE ~(run.i < run.calls)
    <3>1. n <= run.i /\ n \in Nat \ {0} BY <1>1, <2>2, <2>7
    <3>2. Answered(g, b + n + run.i) BY <1>1, <2>5, <3>1, TurnCloses
    <3>3. Answered(g, Len(g)) BY <2>5, <3>2 DEF Turn
    <3>4. run'.stage \notin TurnStages BY <1>11, <1>26, <2>7 DEF Flush, Return
    <3> QED BY <1>6, <3>3, <3>4
  <2> QED BY <2>6, <2>7
<1>27. CASE AutoCompact
  <2>1. run.stage \notin TurnStages BY <1>27 DEF AutoCompact, At, TurnStages
  <2>2. run'.stage \notin TurnStages BY <1>10, <1>27 DEF AutoCompact, Stages, TurnStages
  <2> QED BY <1>8, <1>9, <1>27, <2>1, <2>2 DEF AutoCompact
<1>28. CASE SlashCompact
  <2>1. run.stage \notin TurnStages /\ run'.stage \notin TurnStages
    BY <1>28 DEF SlashCompact, At, TurnStages
  <2> QED BY <1>9, <1>28, <2>1 DEF SlashCompact
<1>29. CASE Interrupt BY <1>5, <1>29 DEF Interrupt
<1>30. CASE Resume
  <2>1. run.stage = "idle" BY <1>5, <1>30 DEF Resume, Shape
  <2>2. disk.said = mem BY <2>1 DEF IInv, ReloadsAsIs, At
  <2>3. run.stage \notin TurnStages /\ run'.stage \notin TurnStages
    BY <1>30, <2>1, ReadyFields DEF Resume, TurnStages
  <2> QED BY <1>8, <1>30, <2>2, <2>3 DEF Resume
<1> QED
  BY <1>12, <1>13, <1>14, <1>15, <1>16, <1>17, <1>18, <1>19, <1>20, <1>21, <1>22, <1>23,
     <1>24, <1>25, <1>26, <1>27, <1>28, <1>29, <1>30
  DEF Next, Loop, User

\* A program that is down was killed, and starts with nothing.
LEMMA DownStep ==
    ASSUME IInv, DownKnowsNothing, [Next]_vars
    PROVE  DownKnowsNothing'
<1>1. CASE Crash BY <1>1 DEF Crash, DownKnowsNothing
<1>2. CASE Next /\ ~Crash BY <1>2, StaysUp DEF DownKnowsNothing, At
<1>3. CASE UNCHANGED vars BY <1>3 DEF vars, DownKnowsNothing, At
<1> QED BY <1>1, <1>2, <1>3

\* The program begins with an empty transcript and no run.
LEMMA SafetyBegins == Init => SafetyInv
<1> SUFFICES ASSUME Init PROVE SafetyInv
  OBVIOUS
<1>1. mem.hist = << >> /\ run = Ready /\ run.stage = "idle"
  BY DEF Init, NewSession, Ready
<1>2. Len(mem.hist) = 0 BY <1>1
<1>3. Answered(mem.hist, Len(mem.hist)) BY <1>2 DEF Answered
<1>4. Shape(mem.hist, run) BY <1>1, <1>3 DEF Shape, TurnStages
<1> QED
  BY <1>1, <1>4, ReadyFields
  DEF SafetyInv, LateIsLast, HitInTurn, HitSettled, Grouped, DownKnowsNothing, At

-----------------------------------------------------------------------------
(***************************************************************************)
(* The theorems                                                            *)
(***************************************************************************)
\* The invariants hold in every reachable state.
THEOREM SafetyInvariance == Spec => []SafetyInv
<1>1. Init => SafetyInv BY SafetyBegins
<1>2. IInv /\ SafetyInv /\ [Next]_vars => SafetyInv'
  BY LateStep, HitStep, GroupedStep, DownStep DEF SafetyInv
<1> QED BY <1>1, <1>2, Invariance, PTL DEF Spec

\* agent.py 581-590, for every number of calls, rounds and prompts: once an interrupt is
\* pending, at most one more turn or tool call of the model begins, and at most one call of
\* the loop's own, the summary of a compaction or the kernel check of a settlement.
THEOREM InterruptIsBounded == Spec => []InterruptBoundsWork
<1>1. SafetyInv => InterruptBoundsWork
  BY DEF SafetyInv, LateIsLast, InterruptBoundsWork
<1> QED BY <1>1, SafetyInvariance, PTL

\* agent.py 420-470, 863-921: a forever hunt ends by itself only with a claim on the ledger
\* that settles the conjecture, and begins no round after it.
THEOREM HuntHaltsWhenSettled == Spec => []HaltsWhenSettled
<1>1. SafetyInv => HaltsWhenSettled
  BY DEF SafetyInv, HitInTurn, HitSettled, SettledOn, HaltsWhenSettled
<1> QED BY <1>1, SafetyInvariance, PTL

\* agent.py 773-923: between turns every call in the transcript has one result, for every
\* number of calls in a turn, wherever it was interrupted, and whatever was compacted.
THEOREM EveryCallAnswered == Spec => []CallsAnswered
<1>1. IInv /\ SafetyInv => CallsAnswered
  <2> SUFFICES ASSUME IInv, SafetyInv, used.crashes = 0, BetweenTurns
               PROVE  AllAnswered(mem.hist)
    BY DEF CallsAnswered
  <2>1. Len(mem.hist) \in Nat BY DEF IInv, TypeOK, Session
  <2>2. run.stage \notin TurnStages BY DEF BetweenTurns, TurnStages
  <2>3. Answered(mem.hist, Len(mem.hist)) BY <2>2 DEF SafetyInv, Grouped, Shape
  <2> QED BY <2>1, <2>3, PlaceByPlace
<1> QED BY <1>1, Invariance, SafetyInvariance, PTL

\* compaction.py 49-60: whatever keep_recent is, the window opens at no place that would cut
\* calls from their results.
THEOREM CompactionCutsNoGroup == Spec => CompactionKeepsGroups
<1> DEFINE Keeps ==
      mem'.hist # mem.hist /\ Len(mem'.hist) <= Len(mem.hist)
        /\ AllAnswered(mem.hist) /\ AllAsked(mem.hist)
        => AllAnswered(mem'.hist) /\ AllAsked(mem'.hist)
<1>1. ASSUME IInv, SafetyInv, [Next]_vars PROVE [Keeps]_vars
  <2> SUFFICES ASSUME mem'.hist # mem.hist, Len(mem'.hist) <= Len(mem.hist),
                      AllAnswered(mem.hist), AllAsked(mem.hist)
               PROVE  AllAnswered(mem'.hist) /\ AllAsked(mem'.hist)
    OBVIOUS
  <2>1. mem \in Session /\ mem.hist \in Seq(Item) /\ Len(mem.hist) \in Nat
    BY <1>1 DEF IInv, TypeOK, Session
  <2>2. Next BY <1>1 DEF vars
  <2>3. CASE Compacts
    <3>1. PICK s \in 2..Len(mem.hist) :
            Opens(mem.hist, s) /\ LogCompaction(SubSeq(mem.hist, s, Len(mem.hist)))
      BY <2>3 DEF Compacts
    <3>2. mem'.hist = <<Message("summary")>> \o SubSeq(mem.hist, s, Len(mem.hist))
      BY <2>1, <3>1 DEF LogCompaction, Session
    <3>3. Compacted(mem'.hist, mem.hist, s) BY <2>1, <3>2, CompactedFacts
    <3>4. Len(mem'.hist) \in Nat BY <2>1, <3>3 DEF Compacted
    <3>5. /\ Answered(mem.hist, Len(mem.hist))
          /\ \A j \in 1..Len(mem.hist) :
               mem.hist[j].kind = "result" => AskedAt(mem.hist, j)
      BY <2>1, PlaceByPlace
    <3>6. Answered(mem'.hist, Len(mem'.hist)) BY <2>1, <3>3, <3>5, CompactionAnswers
    <3>7. \A j \in 1..Len(mem'.hist) :
            mem'.hist[j].kind = "result" => AskedAt(mem'.hist, j)
      BY <2>1, <3>1, <3>3, <3>5, CompactionAsks
    <3> QED BY <3>4, <3>6, <3>7, PlaceByPlace
  <2>4. CASE \E item \in Item : LogItem(item)
    <3>1. PICK item \in Item : LogItem(item) BY <2>4
    <3>2. Len(mem'.hist) = Len(mem.hist) + 1 BY <2>1, <3>1, HistExtended DEF Extended
    <3> QED BY <2>1, <3>2
  <2>5. CASE Crash
    <3>1. mem'.hist = << >> BY <2>5 DEF Crash, NewSession
    <3> QED BY <3>1 DEF AllAnswered, AllAsked
  <2>6. CASE Resume
    <3>1. CASE At("down")
      <4>1. mem.hist = << >> BY <1>1, <3>1 DEF SafetyInv, DownKnowsNothing, NewSession
      <4>2. mem'.hist \in Seq(Item) BY <1>1, <2>6 DEF IInv, TypeOK, File, Session, Resume
      <4>3. Len(mem'.hist) <= 0 BY <4>1
      <4>4. mem'.hist = << >> BY <4>2, <4>3, EmptySeq
      <4> QED BY <4>1, <4>4
    <3>2. CASE ~At("down") BY <1>1, <2>6, <3>2 DEF Resume, IInv, ReloadsAsIs
    <3> QED BY <3>1, <3>2
  <2>7. CASE mem'.hist = mem.hist BY <2>7
  <2>8. Compacts \/ (\E item \in Item : LogItem(item)) \/ Crash \/ Resume
          \/ mem'.hist = mem.hist
    <3>1. run.i \in Nat BY <1>1 DEF IInv, TypeOK, Run
    <3>2. /\ \A kind \in Kinds : Message(kind) \in Item
          /\ CallItem(run.i) \in Item /\ ResultItem(run.i) \in Item
      BY <3>1, ItemType DEF Kinds
    <3>3. CASE ItemActions
      BY <3>2, <3>3
      DEF ItemActions, Prompt, Inject, RespondText, Nudge, RecordCall, DispatchPlain,
          RecordResult, Flush, Kinds
    <3>4. CASE StillActions \/ Interrupt
      BY <3>4 DEF StillActions, StepBegins, NextRound, RespondError, RespondCalls,
                  CheckInterrupt, Interrupt
    <3>5. CASE HuntCompaction \/ AutoCompact \/ SlashCompact
      BY <3>5 DEF HuntCompaction, AutoCompact, SlashCompact
    <3>6. CASE DispatchClaim BY <2>1, <3>6 DEF DispatchClaim, LogClaim, Session
    <3>7. CASE Settle BY <2>1, <3>7 DEF Settle, LogLemma, Session
    <3> QED
      BY <2>2, <3>3, <3>4, <3>5, <3>6, <3>7 DEF Next, Loop, User, ItemActions, StillActions
  <2> QED BY <2>3, <2>4, <2>5, <2>6, <2>7, <2>8
<1> QED BY <1>1, Invariance, SafetyInvariance, PTL DEF Spec, CompactionKeepsGroups

=============================================================================
