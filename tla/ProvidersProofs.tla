--------------------------- MODULE ProvidersProofs ---------------------------
(***************************************************************************)
(* Proofs about Providers: whatever was interrupted, compacted or resumed, *)
(* and whatever the lengths of the turns and of the window, a request has  *)
(* a result for every call where either provider looks for it.             *)
(***************************************************************************)
EXTENDS Providers, AgentLoopSafety, WellFoundedInduction

-----------------------------------------------------------------------------
(***************************************************************************)
(* Runs of items                                                           *)
(***************************************************************************)
\* A set of places has a first one.
LEMMA FirstPlace ==
    ASSUME NEW T, T \subseteq Nat, T # {}
    PROVE  \E x \in T : \A y \in T : x <= y
<1>1. \E x \in T : \A y \in T : <<y, x>> \notin OpToRel(<, Nat)
  BY NatLessThanWellFounded, WFMin, Zenon
<1>2. PICK x \in T : \A y \in T : <<y, x>> \notin OpToRel(<, Nat) BY <1>1
<1>3. \A y \in T : ~(y < x) BY <1>2 DEF OpToRel
<1> QED BY <1>3

\* Where each item is of the kind of the one before it, all are of one kind.
LEMMA OneKind ==
    ASSUME NEW h, NEW a \in Nat, NEW b \in Nat,
           \A i \in (a + 1)..b : h[i].kind = h[i - 1].kind, NEW i \in a..b
    PROVE  h[i].kind = h[a].kind
<1> DEFINE T == {j \in a..b : h[j].kind # h[a].kind}
<1> SUFFICES ASSUME T # {} PROVE FALSE OBVIOUS
<1>1. T \subseteq Nat OBVIOUS
<1> HIDE DEF T
<1>2. PICK j \in T : \A y \in T : j <= y BY <1>1, FirstPlace
<1>3. j \in a..b /\ h[j].kind # h[a].kind BY DEF T
<1>4. j \in (a + 1)..b /\ j - 1 \in a..b BY <1>3
<1>5. j - 1 \notin T BY <1>2, <1>3
<1>6. h[j - 1].kind = h[a].kind BY <1>4, <1>5 DEF T
<1> QED BY <1>3, <1>4, <1>6

\* A run of items of one kind ends: at the last item or before one of another kind.
RunTo(h, n, a, e) ==
    /\ e \in a..n
    /\ \A x \in a..e : h[x].kind = h[a].kind
    /\ e < n => h[e + 1].kind # h[a].kind

\* Every run has its end.
LEMMA RunEnds ==
    ASSUME NEW h, NEW n \in Nat, NEW a \in 1..n
    PROVE  \E e : RunTo(h, n, a, e)
<1> DEFINE T == {k \in (a + 1)..(n + 1) : k = n + 1 \/ h[k].kind # h[a].kind}
<1>1. T \subseteq Nat /\ n + 1 \in T OBVIOUS
<1> HIDE DEF T
<1>2. PICK k \in T : \A y \in T : k <= y BY <1>1, FirstPlace
<1>3. k \in (a + 1)..(n + 1) /\ (k = n + 1 \/ h[k].kind # h[a].kind) BY DEF T
<1>4. ASSUME NEW x \in a..(k - 1) PROVE h[x].kind = h[a].kind
  <2>1. x = a \/ x \in (a + 1)..(n + 1) BY <1>3
  <2>2. x \notin T /\ x # n + 1 BY <1>2, <1>3
  <2> QED BY <2>1, <2>2 DEF T
<1>5. k - 1 \in a..n /\ (k - 1) + 1 = k BY <1>3
<1> QED BY <1>3, <1>4, <1>5 DEF RunTo

-----------------------------------------------------------------------------
(***************************************************************************)
(* Messages                                                                *)
(***************************************************************************)
\* The items of a message of more than one are of one kind, and the message ends where
\* they end.
LEMMA MessageOfOneKind ==
    ASSUME NEW h, Len(h) \in Nat, NEW shared, NEW m \in Messages(h, shared)
    PROVE  /\ m[1] \in 1..Len(h) /\ m[2] \in m[1]..Len(h)
           /\ \A i \in m[1]..m[2] : h[i].kind = h[m[1]].kind
           /\ m[2] # m[1] => h[m[1]].kind \in shared
           /\ m[2] < Len(h) /\ h[m[1]].kind \in shared => h[m[2] + 1].kind # h[m[1]].kind
<1>1. /\ m[1] \in 1..Len(h) /\ m[2] \in 1..Len(h) /\ m[1] <= m[2]
      /\ \A i \in m[1]..m[2] : Shares(h, i, shared) <=> i # m[1]
      /\ m[2] < Len(h) => ~Shares(h, m[2] + 1, shared)
  BY DEF Messages
<1> DEFINE a == m[1]
           b == m[2]
<1> HIDE DEF a, b
<1>2. a \in 1..Len(h) /\ b \in a..Len(h) BY <1>1 DEF a, b
<1>3. \A i \in (a + 1)..b : h[i].kind = h[i - 1].kind /\ h[i].kind \in shared
  BY <1>1, <1>2 DEF Shares, a, b
<1>4. \A i \in a..b : h[i].kind = h[a].kind
  <2>1. a \in Nat /\ b \in Nat /\ \A i \in (a + 1)..b : h[i].kind = h[i - 1].kind
    BY <1>2, <1>3
  <2> QED BY <2>1, OneKind
<1>5. b # a => h[a].kind \in shared
  <2> SUFFICES ASSUME b # a PROVE h[a].kind \in shared OBVIOUS
  <2>1. a + 1 \in (a + 1)..b /\ a + 1 \in a..b BY <1>2
  <2> QED BY <1>3, <1>4, <2>1
<1>6. b < Len(h) /\ h[a].kind \in shared => h[b + 1].kind # h[a].kind
  <2> SUFFICES ASSUME b < Len(h), h[a].kind \in shared, h[b + 1].kind = h[a].kind
               PROVE  FALSE
    OBVIOUS
  <2>1. ~Shares(h, b + 1, shared) BY <1>1 DEF b
  <2>2. b + 1 > 1 /\ (b + 1) - 1 = b /\ h[b].kind = h[a].kind BY <1>2, <1>4
  <2> QED BY <2>1, <2>2 DEF Shares
<1> QED BY <1>2, <1>4, <1>5, <1>6 DEF a, b

\* A message begins with every item that does not go into the one before it.
LEMMA MessageBegins ==
    ASSUME NEW h, Len(h) \in Nat, NEW shared, NEW j \in 1..Len(h), ~Shares(h, j, shared)
    PROVE  \E m \in Messages(h, shared) : m[1] = j
<1>1. CASE h[j].kind \in shared
  <2>1. PICK e : RunTo(h, Len(h), j, e)
    <3>1. \A n \in Nat : j \in 1..n => \E e : RunTo(h, n, j, e) BY RunEnds
    <3> QED BY <3>1
  <2>2. /\ e \in j..Len(h) /\ \A x \in j..e : h[x].kind = h[j].kind
        /\ e < Len(h) => h[e + 1].kind # h[j].kind
    BY <2>1 DEF RunTo
  <2>3. ASSUME NEW i \in j..e PROVE Shares(h, i, shared) <=> i # j
    <3>1. CASE i = j BY <3>1
    <3>2. CASE i # j
      <4>1. i - 1 \in j..e /\ i > 1 BY <2>2, <3>2
      <4> QED BY <1>1, <2>2, <3>2, <4>1 DEF Shares
    <3> QED BY <3>1, <3>2
  <2>4. e < Len(h) => ~Shares(h, e + 1, shared)
    <3>1. e \in j..e /\ (e + 1) - 1 = e BY <2>2
    <3> QED BY <2>2, <3>1 DEF Shares
  <2>5. <<j, e>> \in Messages(h, shared) BY <2>2, <2>3, <2>4 DEF Messages
  <2> QED BY <2>5
<1>2. CASE h[j].kind \notin shared
  <2>1. j < Len(h) => ~Shares(h, j + 1, shared)
    <3>1. (j + 1) - 1 = j OBVIOUS
    <3> QED BY <1>2, <3>1 DEF Shares
  <2>2. \A i \in j..j : i = j OBVIOUS
  <2>3. <<j, j>> \in Messages(h, shared) BY <2>1, <2>2 DEF Messages
  <2> QED BY <2>3
<1> QED BY <1>1, <1>2

-----------------------------------------------------------------------------
(***************************************************************************)
(* Calls and their results                                                 *)
(***************************************************************************)
\* Of the results that follow the item b at once, x is the one with this id.
AnswerAfter(h, b, id, x) ==
    /\ x \in (b + 1)..Len(h) /\ h[x].id = id
    /\ \A z \in (b + 1)..x : h[z].kind = "result"
    /\ \A y \in (b + 1)..Len(h) :
          h[y].id = id /\ (\A z \in (b + 1)..y : h[z].kind = "result") => y = x

\* A message with a call holds only calls, and the one result of each comes after it.
LEMMA CallsThenResults ==
    ASSUME NEW h, Len(h) \in Nat, Answered(h, Len(h)), NEW shared, "call" \in shared,
           NEW m \in Messages(h, shared), NEW id \in CallIds(h, m)
    PROVE  /\ m[1] \in 1..Len(h) /\ m[2] \in m[1]..Len(h)
           /\ \A k \in m[1]..m[2] : h[k].kind = "call"
           /\ \E x : AnswerAfter(h, m[2], id, x)
<1>1. PICK i \in m[1]..m[2] : h[i].kind = "call" /\ h[i].id = id BY DEF CallIds
<1>2. /\ m[1] \in 1..Len(h) /\ m[2] \in m[1]..Len(h)
      /\ \A k \in m[1]..m[2] : h[k].kind = h[m[1]].kind
      /\ m[2] < Len(h) /\ h[m[1]].kind \in shared => h[m[2] + 1].kind # h[m[1]].kind
  BY MessageOfOneKind
<1> DEFINE a == m[1]
           b == m[2]
<1>3. /\ a \in 1..Len(h) /\ b \in a..Len(h) /\ i \in a..b
      /\ \A k \in a..b : h[k].kind = "call"
      /\ b < Len(h) => h[b + 1].kind # "call"
  BY <1>1, <1>2
<1> HIDE DEF a, b
<1>4. i \in 1..Len(h) BY <1>3
<1>5. PICK x \in (i + 1)..Len(h) :
        \A y \in (i + 1)..Len(h) : (h[y].id = h[i].id /\ SameGroup(h, i, y)) <=> y = x
  BY <1>1, <1>4 DEF Answered, AnsweredAt
<1>6. ASSUME NEW y \in (i + 1)..Len(h), SameGroup(h, i, y)
      PROVE  y \in (b + 1)..Len(h) /\ \A z \in (b + 1)..y : h[z].kind = "result"
  <2>1. PICK n \in i..(y - 1) : /\ \A z \in i..n : h[z].kind = "call"
                                /\ \A z \in (n + 1)..y : h[z].kind = "result"
    BY <1>6 DEF SameGroup
  <2>2. n >= b
    <3> SUFFICES ASSUME n < b PROVE FALSE BY <1>3, <1>4
    <3>1. n + 1 \in (n + 1)..y /\ n + 1 \in a..b BY <1>3, <1>4
    <3> QED BY <1>3, <2>1, <3>1
  <2>3. n <= b
    <3> SUFFICES ASSUME n > b PROVE FALSE BY <1>3, <1>4
    <3>1. b + 1 \in i..n /\ b < Len(h) BY <1>3, <1>4
    <3> QED BY <1>3, <2>1, <3>1
  <2>4. n = b BY <1>3, <1>4, <2>2, <2>3
  <2> QED BY <1>3, <1>4, <2>1, <2>4
<1>7. ASSUME NEW y \in (b + 1)..Len(h), \A z \in (b + 1)..y : h[z].kind = "result"
      PROVE  y \in (i + 1)..Len(h) /\ SameGroup(h, i, y)
  <2>1. b \in i..(y - 1) /\ \A z \in i..b : h[z].kind = "call" BY <1>3
  <2>2. SameGroup(h, i, y) BY <1>7, <2>1 DEF SameGroup
  <2>3. y \in (i + 1)..Len(h) BY <1>3, <1>4
  <2> QED BY <2>2, <2>3
<1>8. x \in (b + 1)..Len(h) /\ h[x].id = id /\ \A z \in (b + 1)..x : h[z].kind = "result"
  BY <1>1, <1>5, <1>6
<1>9. ASSUME NEW y \in (b + 1)..Len(h), h[y].id = id,
             \A z \in (b + 1)..y : h[z].kind = "result"
      PROVE  y = x
  BY <1>1, <1>5, <1>7, <1>9
<1>10. AnswerAfter(h, b, id, x) BY <1>8, <1>9 DEF AnswerAfter
<1> QED BY <1>3, <1>10 DEF a, b

\* Such a result is the item that a result of the call with this id is.
LEMMA ItIsItsResult ==
    ASSUME NEW h \in Seq(Item), NEW x \in 1..Len(h), h[x].kind = "result", NEW id
    PROVE  h[x].id = id <=> h[x] = ResultItem(id)
<1>1. h[x] \in Item BY ElementOfSeq
<1> QED BY <1>1 DEF Item, ResultItem

\* Anthropic takes what is answered: the results of a turn are the message after its calls.
LEMMA AnthropicTakes ==
    ASSUME NEW h \in Seq(Item), h # << >>, h[1].kind \in {"user", "summary"},
           Answered(h, Len(h))
    PROVE  AnthropicAccepts(h)
<1> DEFINE shared == {"call", "result"}
<1>1. Len(h) \in Nat /\ "call" \in shared OBVIOUS
<1> SUFFICES ASSUME NEW m \in Messages(h, shared), NEW id \in CallIds(h, m)
             PROVE  \E next \in Messages(h, shared) :
                       next[1] = m[2] + 1 /\ Cardinality(ResultsFor(h, next, id)) = 1
  BY DEF AnthropicAccepts, AnthropicMessages, AnthropicRole
<1> HIDE DEF shared
<1>2. /\ m[1] \in 1..Len(h) /\ m[2] \in m[1]..Len(h)
      /\ \A k \in m[1]..m[2] : h[k].kind = "call"
      /\ \E x : AnswerAfter(h, m[2], id, x)
  BY <1>1, CallsThenResults
<1> DEFINE b == m[2]
<1>3. PICK x : AnswerAfter(h, b, id, x) BY <1>2
<1>4. b \in 1..Len(h) /\ h[b].kind = "call" BY <1>2
<1> HIDE DEF b
<1>5. /\ x \in (b + 1)..Len(h) /\ h[x].id = id
      /\ \A z \in (b + 1)..x : h[z].kind = "result"
      /\ \A y \in (b + 1)..Len(h) :
            h[y].id = id /\ (\A z \in (b + 1)..y : h[z].kind = "result") => y = x
  BY <1>3 DEF AnswerAfter
<1>6. b + 1 \in 1..Len(h) /\ h[b + 1].kind = "result" /\ (b + 1) - 1 = b BY <1>4, <1>5
<1>7. ~Shares(h, b + 1, shared) BY <1>4, <1>6 DEF Shares
<1>8. PICK next \in Messages(h, shared) : next[1] = b + 1 BY <1>1, <1>6, <1>7, MessageBegins
<1>9. /\ next[2] \in (b + 1)..Len(h)
      /\ \A z \in (b + 1)..next[2] : h[z].kind = "result"
      /\ next[2] < Len(h) => h[next[2] + 1].kind # "result"
  <2>1. h[next[1]].kind \in shared BY <1>6, <1>8 DEF shared
  <2> QED BY <1>1, <1>6, <1>8, <2>1, MessageOfOneKind
<1> DEFINE e == next[2]
           S == ResultsFor(h, next, id)
<1>10. S = {y \in (b + 1)..e : h[y] = ResultItem(id)} BY <1>8 DEF ResultsFor
<1>11. /\ e \in (b + 1)..Len(h) /\ \A z \in (b + 1)..e : h[z].kind = "result"
       /\ e < Len(h) => h[e + 1].kind # "result"
  BY <1>9
<1> HIDE DEF e, S
<1>12. x <= e
  <2> SUFFICES ASSUME e < x PROVE FALSE BY <1>4, <1>5, <1>11
  <2>1. e + 1 \in (b + 1)..x /\ e < Len(h) BY <1>4, <1>5, <1>11
  <2> QED BY <1>5, <1>11, <2>1
<1>13. x \in S
  <2>1. x \in 1..Len(h) /\ x \in (b + 1)..x BY <1>4, <1>5
  <2>2. h[x] = ResultItem(id) BY <1>5, <2>1, ItIsItsResult
  <2> QED BY <1>4, <1>5, <1>10, <1>12, <2>2
<1>14. ASSUME NEW y \in S PROVE y = x
  <2>1. y \in (b + 1)..e /\ h[y] = ResultItem(id) BY <1>10
  <2>2. h[y].id = id BY <2>1 DEF ResultItem
  <2>3. y \in (b + 1)..Len(h) /\ \A z \in (b + 1)..y : h[z].kind = "result"
    BY <1>4, <1>11, <2>1
  <2> QED BY <1>5, <2>2, <2>3
<1>15. S = {x} BY <1>13, <1>14
<1>16. Cardinality(S) = 1 BY <1>15, FS_Singleton
<1> QED BY <1>8, <1>16 DEF S, b

\* For OpenAI every result is a message of its own.
LEMMA ResultsAlone ==
    ASSUME NEW h, Len(h) \in Nat
    PROVE  /\ \A j \in 1..Len(h) : h[j].kind = "result" => <<j, j>> \in OpenAIMessages(h)
           /\ \A m \in OpenAIMessages(h) :
                 h[m[1]].kind = "result" => m = <<m[1], m[1]>> /\ m[1] \in 1..Len(h)
<1>1. ASSUME NEW j \in 1..Len(h), h[j].kind = "result"
      PROVE  <<j, j>> \in OpenAIMessages(h)
  <2>1. ~Shares(h, j, {"call"}) BY <1>1 DEF Shares
  <2>2. ~Shares(h, j + 1, {"call"})
    <3>1. (j + 1) - 1 = j OBVIOUS
    <3> QED BY <1>1, <3>1 DEF Shares
  <2>3. \A i \in j..j : i = j OBVIOUS
  <2> QED BY <2>1, <2>2, <2>3 DEF OpenAIMessages, Messages
<1>2. ASSUME NEW m \in OpenAIMessages(h), h[m[1]].kind = "result"
      PROVE  m = <<m[1], m[1]>> /\ m[1] \in 1..Len(h)
  <2> DEFINE shared == {"call"}
  <2>1. m \in Messages(h, shared) BY DEF OpenAIMessages
  <2>2. h[m[1]].kind \notin shared BY <1>2
  <2> HIDE DEF shared
  <2>3. m[2] = m[1] /\ m[1] \in 1..Len(h) BY <2>1, <2>2, MessageOfOneKind
  <2>4. m = <<m[1], m[2]>> BY <2>1 DEF Messages
  <2> QED BY <2>3, <2>4
<1> QED BY <1>1, <1>2

\* OpenAI takes it too: the result is among the tool messages right after the calls.
LEMMA OpenAITakes ==
    ASSUME NEW h \in Seq(Item), Answered(h, Len(h))
    PROVE  OpenAIAccepts(h)
<1>1. Len(h) \in Nat OBVIOUS
<1> SUFFICES ASSUME NEW m \in OpenAIMessages(h), NEW id \in CallIds(h, m)
             PROVE  Cardinality({X \in ToolMessagesAfter(h, m) : ResultsFor(h, X, id) # {}}) = 1
  BY DEF OpenAIAccepts
<1> DEFINE b == m[2]
           S == {X \in ToolMessagesAfter(h, m) : ResultsFor(h, X, id) # {}}
           shared == {"call"}
<1>2. m \in Messages(h, shared) /\ "call" \in shared BY DEF OpenAIMessages
<1> HIDE DEF shared
<1>3. /\ m[1] \in 1..Len(h) /\ b \in m[1]..Len(h)
      /\ \E x : AnswerAfter(h, b, id, x)
  BY <1>1, <1>2, CallsThenResults
<1>4. PICK x : AnswerAfter(h, b, id, x) BY <1>3
<1>5. b \in 1..Len(h) BY <1>3
<1> HIDE DEF b
<1>6. /\ x \in (b + 1)..Len(h) /\ h[x].id = id
      /\ \A z \in (b + 1)..x : h[z].kind = "result"
      /\ \A y \in (b + 1)..Len(h) :
            h[y].id = id /\ (\A z \in (b + 1)..y : h[z].kind = "result") => y = x
  BY <1>4 DEF AnswerAfter
<1>7. x \in 1..Len(h) /\ h[x].kind = "result" /\ b + 1 \in 1..Len(h)
      /\ b + 1 \in (b + 1)..x
  BY <1>5, <1>6
<1>8. \A kind : OpenAIRole(kind) = "tool" <=> kind = "result"
  BY DEF OpenAIRole, AnthropicRole
<1>9. <<x, x>> \in S
  <2>1. <<x, x>> \in OpenAIMessages(h) BY <1>1, <1>7, ResultsAlone
  <2>2. \A y \in OpenAIMessages(h) :
          y[1] \in (b + 1)..x => OpenAIRole(h[y[1]].kind) = "tool"
    BY <1>6, <1>8
  <2>3. <<x, x>>[1] = x /\ <<x, x>>[2] = x /\ x > b BY <1>5, <1>6
  <2>4. <<x, x>> \in ToolMessagesAfter(h, m)
    BY <2>1, <2>2, <2>3 DEF ToolMessagesAfter, b
  <2>5. h[x] = ResultItem(id) BY <1>6, <1>7, ItIsItsResult
  <2>6. x \in ResultsFor(h, <<x, x>>, id)
    <3>1. x \in x..x BY <1>7
    <3> QED BY <2>3, <2>5, <3>1 DEF ResultsFor
  <2> QED BY <2>4, <2>6
<1>10. ASSUME NEW X \in S PROVE X = <<x, x>>
  <2>1. /\ X \in OpenAIMessages(h) /\ X[1] > b
        /\ \A y \in OpenAIMessages(h) :
              y[1] \in (b + 1)..X[1] => OpenAIRole(h[y[1]].kind) = "tool"
    BY DEF ToolMessagesAfter, b
  <2>2. X[1] \in 1..Len(h) BY <2>1 DEF OpenAIMessages, Messages
  <2>3. X[1] \in (b + 1)..X[1] BY <1>5, <2>1, <2>2
  <2>4. h[X[1]].kind = "result" BY <1>8, <2>1, <2>3
  <2> DEFINE p == X[1]
  <2>5. X = <<p, p>> /\ p \in (b + 1)..Len(h)
    BY <1>1, <1>5, <2>1, <2>2, <2>4, ResultsAlone
  <2>6. h[p].id = id
    <3>1. PICK y \in X[1]..X[2] : h[y] = ResultItem(id) BY DEF ResultsFor
    <3>2. X[1] = p /\ X[2] = p BY <2>5
    <3>3. y = p BY <2>5, <3>1, <3>2
    <3> QED BY <3>1, <3>3 DEF ResultItem
  <2>7. \A y \in OpenAIMessages(h) :
          y[1] \in (b + 1)..p => OpenAIRole(h[y[1]].kind) = "tool"
    BY <2>1
  <2> HIDE DEF p
  <2>8. ASSUME NEW z \in (b + 1)..p PROVE h[z].kind = "result"
    <3> DEFINE T == {k \in (b + 1)..p : h[k].kind # "result"}
    <3> SUFFICES ASSUME T # {} PROVE FALSE BY <2>8
    <3>1. T \subseteq Nat BY <1>5, <2>5
    <3> HIDE DEF T
    <3>2. PICK k \in T : \A y \in T : k <= y BY <3>1, FirstPlace
    <3>3. k \in (b + 1)..p /\ h[k].kind # "result" BY DEF T
    <3>4. k # b + 1 BY <1>6, <1>7, <3>3
    <3>5. k - 1 \in (b + 1)..p /\ k \in 1..Len(h) BY <1>5, <2>5, <3>3, <3>4
    <3>6. k - 1 \notin T BY <3>2, <3>3, <3>5
    <3>7. h[k - 1].kind = "result" BY <3>5, <3>6 DEF T
    <3>8. ~Shares(h, k, shared) BY <3>7 DEF Shares, shared
    <3>9. PICK y \in Messages(h, shared) : y[1] = k BY <1>1, <3>5, <3>8, MessageBegins
    <3>10. OpenAIRole(h[k].kind) = "tool"
      BY <2>7, <3>3, <3>9 DEF OpenAIMessages, shared
    <3> QED BY <1>8, <3>3, <3>10
  <2> QED BY <1>6, <2>5, <2>6, <2>8
<1>11. S = {<<x, x>>} BY <1>9, <1>10
<1> HIDE DEF S
<1>12. Cardinality(S) = 1 BY <1>11, FS_Singleton
<1> QED BY <1>12 DEF S

-----------------------------------------------------------------------------
(***************************************************************************)
(* The first item                                                          *)
(***************************************************************************)
\* The transcript begins with the user or with a summary, and a step of the agent begins
\* with a line of the user in it. Of the file, which is left when the program is killed.
Begins(h) == h # << >> => h[1].kind \in {"user", "summary"}
FirstInv ==
    /\ Begins(disk.said.hist)
    /\ run.stage \notin {"idle", "down"} => disk.said.hist # << >>

\* An item that is logged is the first only where a line of the user is.
LEMMA ItemBegins ==
    ASSUME disk \in File, Begins(disk.said.hist), NEW item \in Item, LogItem(item),
           disk.said.hist # << >> \/ item.kind = "user"
    PROVE  Begins(disk'.said.hist) /\ disk'.said.hist # << >>
<1>1. disk.said.hist \in Seq(Item) /\ disk'.said.hist = Append(disk.said.hist, item)
  BY DEF LogItem, WriteEvent, Reread, ItemLine, File, Session
<1>2. Extended(disk'.said.hist, disk.said.hist, item) BY <1>1, Appended
<1>3. disk'.said.hist # << >> BY <1>1
<1>4. CASE disk.said.hist = << >> BY <1>2, <1>4 DEF Extended, Begins
<1>5. CASE disk.said.hist # << >>
  <2>1. 1 \in 1..Len(disk.said.hist) BY <1>1, <1>5
  <2> QED BY <1>2, <1>5, <2>1 DEF Extended, Begins
<1> QED BY <1>3, <1>4, <1>5

\* After a compaction the summary is.
LEMMA CompactionBegins ==
    ASSUME mem \in Session, disk.said = mem, Compacts
    PROVE  Begins(disk'.said.hist) /\ disk'.said.hist # << >>
<1>1. PICK s \in 2..Len(mem.hist) : LogCompaction(SubSeq(mem.hist, s, Len(mem.hist)))
  BY DEF Compacts
<1>2. /\ mem.hist \in Seq(Item) /\ disk'.said = mem'
      /\ mem'.hist = <<Message("summary")>> \o SubSeq(mem.hist, s, Len(mem.hist))
  BY <1>1 DEF LogCompaction, WriteEvent, Reread, CompactLine, Session
<1>3. Compacted(mem'.hist, mem.hist, s) BY <1>2, CompactedFacts
<1>4. Len(mem'.hist) # 0 BY <1>2, <1>3 DEF Compacted
<1> QED BY <1>2, <1>3, <1>4 DEF Compacted, Begins

\* No step takes the first item away or begins a transcript with anything else.
LEMMA FirstStep ==
    ASSUME IInv, FirstInv, [Next]_vars
    PROVE  FirstInv'
<1>1. run \in Run /\ run.i \in Nat /\ mem \in Session /\ disk \in File
  BY DEF IInv, TypeOK, Run
<1>2. ~At("down") => disk.said = mem BY DEF IInv, ReloadsAsIs
<1>3. /\ \A kind \in Kinds : Message(kind) \in Item
      /\ CallItem(run.i) \in Item /\ ResultItem(run.i) \in Item
  BY <1>1, ItemType DEF Kinds
<1>4. ASSUME NEW item \in Item, LogItem(item),
             run.stage \notin {"idle", "down"} \/ item.kind = "user"
      PROVE  FirstInv'
  BY <1>1, <1>4, ItemBegins DEF FirstInv
<1>5. ASSUME UNCHANGED disk, run.stage \notin {"idle", "down"} \/ run'.stage \in {"idle", "down"}
      PROVE  FirstInv'
  BY <1>5 DEF FirstInv, Begins
<1>6. ASSUME Compacts, ~At("down") PROVE FirstInv'
  BY <1>1, <1>2, <1>6, CompactionBegins DEF FirstInv
<1>7. CASE StillActions
  BY <1>5, <1>7 DEF StillActions, StepBegins, NextRound, RespondError, RespondCalls,
                    CheckInterrupt, At
<1>8. CASE ItemActions
  <2>1. ASSUME NEW mode \in Modes, Prompt(mode) PROVE FirstInv'
    <3>1. Message("user") \in Item /\ Message("user").kind = "user" /\ LogItem(Message("user"))
      BY <1>3, <2>1 DEF Prompt, Kinds, Message
    <3> QED BY <1>4, <3>1
  <2>2. CASE Inject BY <1>3, <1>4, <1>5, <2>2 DEF Inject, Kinds
  <2>3. CASE RespondText \/ Nudge
    BY <1>3, <1>4, <2>3 DEF RespondText, Nudge, Kinds, At
  <2>4. CASE RecordCall \/ DispatchPlain \/ RecordResult \/ Flush
    BY <1>3, <1>4, <2>4 DEF RecordCall, DispatchPlain, RecordResult, Flush, At
  <2> QED BY <1>8, <2>1, <2>2, <2>3, <2>4 DEF ItemActions
<1>9. CASE HuntCompaction \/ AutoCompact \/ SlashCompact
  BY <1>5, <1>6, <1>9 DEF HuntCompaction, AutoCompact, SlashCompact, At
<1>10. CASE DispatchClaim
  <2>1. disk'.said.hist = disk.said.hist /\ run.stage = "dispatch"
    BY <1>1, <1>10 DEF DispatchClaim, LogClaim, WriteEvent, Reread, ClaimLine,
                            File, Session, At
  <2> QED BY <2>1 DEF FirstInv, Begins
<1>11. CASE Settle
  <2>1. disk'.said.hist = disk.said.hist /\ run.stage = "settle"
    BY <1>1, <1>11 DEF Settle, LogLemma, WriteEvent, Reread, LemmaLine, File, Session, At
  <2> QED BY <2>1 DEF FirstInv, Begins
<1>12. CASE Interrupt BY <1>5, <1>12 DEF Interrupt
<1>13. CASE Crash BY <1>5, <1>13 DEF Crash, Ready
<1>14. CASE Resume BY <1>5, <1>14 DEF Resume, Ready
<1>15. CASE UNCHANGED vars BY <1>5, <1>15 DEF vars, FirstInv
<1> QED
  BY <1>7, <1>8, <1>9, <1>10, <1>11, <1>12, <1>13, <1>14, <1>15
  DEF Next, Loop, User, ItemActions, StillActions

\* From the first prompt on, a transcript that a turn is asked for begins with the user's line
\* or with the summary of a compaction, as a provider wants it (session.py log_user,
\* compaction.py:114-119), after any crash, resume or compaction.
THEOREM FirstInvariance == Spec => []FirstInv
<1>1. Init => FirstInv BY DEF Init, NewFile, NewSession, Ready, FirstInv, Begins
<1>2. IInv /\ FirstInv /\ [Next]_vars => FirstInv' BY FirstStep
<1> QED BY <1>1, <1>2, Invariance, PTL DEF Spec

-----------------------------------------------------------------------------
\* models.py 255-300, 468-521, with agent.py and compaction.py, for every number of calls and
\* of turns and every keep_recent: a request that is sent has a result for every call, where
\* the provider looks for it.
THEOREM EveryRequestAnswered == Spec => []RequestsAnswered
<1>1. IInv /\ SafetyInv /\ FirstInv => RequestsAnswered
  <2> SUFFICES ASSUME IInv, SafetyInv, FirstInv, used.crashes = 0, At("respond")
               PROVE  AnthropicAccepts(mem.hist) /\ OpenAIAccepts(mem.hist)
    BY DEF RequestsAnswered
  <2>1. mem.hist \in Seq(Item) /\ disk.said = mem
    BY DEF IInv, TypeOK, Session, ReloadsAsIs, At
  <2>2. mem.hist # << >> /\ mem.hist[1].kind \in {"user", "summary"}
    BY <2>1 DEF FirstInv, Begins, At
  <2>3. Answered(mem.hist, Len(mem.hist))
    BY DEF SafetyInv, Grouped, Shape, TurnStages, At
  <2> QED BY <2>1, <2>2, <2>3, AnthropicTakes, OpenAITakes
<1> QED BY <1>1, Invariance, SafetyInvariance, FirstInvariance, PTL

=============================================================================
