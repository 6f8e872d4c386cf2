--------------------------- MODULE CampaignProofs ---------------------------
(***************************************************************************)
(* Proofs about Campaign, for every value of the constants: any seeds, any *)
(* lemma names, any arguments and graphs. The staircase only rises; a hunt *)
(* is told to reformulate only when it is frozen; an argument closes only  *)
(* on minted cores that the regular neighbourhood takes part in; a search  *)
(* verifies better and better arguments; every variable keeps its type.    *)
(*                                                                         *)
(* next_step asks the notebook and the ledger for a durable lemma, and the *)
(* notebook forgets: a session proof under the name of a durable lemma.    *)
(* The invariant is what makes that harmless: a lemma that is locked as    *)
(* durable has its claim on the ledger of its session, which only grows.   *)
(*                                                                         *)
(* The second half is about the verifier and the search: orders and sums,  *)
(* the charge of the regular neighbourhood, covers and moves.              *)
(***************************************************************************)
EXTENDS Campaign, FiniteSetTheorems, FunctionTheorems, WellFoundedInduction, TLAPS

\* The fields of a bind; of them only the note decides between stairs.
BindShape ==
    /\ bind = [live |-> bind.live, survivors |-> bind.survivors, note |-> bind.note,
               fp |-> bind.fp, streak |-> bind.streak]
    /\ bind.note \in Notes

\* A ledger and a notebook for each session.
SessionShape ==
    /\ session \in Sessions
    /\ ledgers = [s \in Sessions |-> ledgers[s]]
    /\ notebooks \in [Sessions -> [Lemmas -> {"none", "session", "durable"}]]

\* Every durable lemma of a notebook is on the ledger of its session.
DurableBacked ==
    \A s \in Sessions : \A n \in Lemmas :
        notebooks[s][n] = "durable" => DurableClaim(n) \in ledgers[s]

IInv == BindShape /\ SessionShape /\ DurableBacked

\* No ledger loses a claim.
LedgersGrow == \A s \in Sessions : ledgers[s] \subseteq ledgers'[s]

-----------------------------------------------------------------------------
(***************************************************************************)
(* The stairs                                                              *)
(***************************************************************************)
\* A durable lemma that was found, in the notebook or on the ledger, is found again on
\* a ledger that holds the claims of both.
LEMMA DurableStays ==
    ASSUME NEW claims, NEW later, claims \subseteq later,
           NEW notebook, NEW next, NEW names \in SUBSET Lemmas,
           \A n \in Lemmas : notebook[n] = "durable" => DurableClaim(n) \in later,
           HasDurable(claims, notebook, names)
    PROVE  HasDurable(later, next, names)
<1>1. CASE \E n \in names : notebook[n] = "durable"
  <2>1. PICK n \in names : notebook[n] = "durable" BY <1>1
  <2>2. DurableClaim(n) \in later BY <2>1
  <2>3. DurableClaim(n).kind = "durable" /\ DurableClaim(n).name \in names
    BY DEF DurableClaim
  <2> QED BY <2>2, <2>3 DEF HasDurable
<1>2. CASE \E c \in claims : c.kind = "durable" /\ c.name \in names
  BY <1>2 DEF HasDurable
<1> QED BY <1>1, <1>2 DEF HasDurable

\* Minted cores stay minted, and so a closed discharging argument stays closed.
LEMMA CoresStay ==
    ASSUME NEW claims, NEW later, claims \subseteq later
    PROVE  /\ ForbiddenCores(claims) \subseteq ForbiddenCores(later)
           /\ DischargingClosed(claims) => DischargingClosed(later)
BY DEF ForbiddenCores, DischargingClosed

\* With more on the ledger, and nothing forgotten, the stair is no lower.
LEMMA StairRises ==
    ASSUME NEW claims, NEW later, claims \subseteq later,
           NEW notebook, NEW next, NEW survivors, NEW survivors2,
           NEW note \in Notes, NEW note2 \in Notes,
           \A n \in Lemmas : notebook[n] = "durable" => DurableClaim(n) \in later
    PROVE  StairNumber(NextStep(claims, notebook, survivors, note))
             <= StairNumber(NextStep(later, next, survivors2, note2))
<1> DEFINE Old == NextStep(claims, notebook, survivors, note)
           New == NextStep(later, next, survivors2, note2)
           Third(x) == x \in {"survivors", "open"} \cup (Notes \ {""})
<1> SUFFICES StairNumber(Old) <= StairNumber(New) OBVIOUS
<1>1. /\ BridgeNames \in SUBSET Lemmas /\ ClosureNames \in SUBSET Lemmas
      /\ AtNineNames \in SUBSET Lemmas
  BY NamesType
<1>2. HasDurableBridge(claims, notebook) => HasDurableBridge(later, next)
  BY <1>1, DurableStays DEF HasDurableBridge
<1>3. Seeds \subseteq ForbiddenCores(claims) => Seeds \subseteq ForbiddenCores(later)
  BY CoresStay
<1>4. DischargingClosed(claims) => DischargingClosed(later) BY CoresStay
<1>5. /\ HasDurable(claims, notebook, ClosureNames) => HasDurable(later, next, ClosureNames)
      /\ HasDurable(claims, notebook, AtNineNames) => HasDurable(later, next, AtNineNames)
  BY <1>1, DurableStays
<1>6. \A x : Third(x) => StairNumber(x) = 3
  BY DEF StairNumber, Notes
<1>7. /\ StairNumber("bridge") = 1 /\ StairNumber("seed") = 2
      /\ StairNumber("closure") = 4 /\ StairNumber("at nine") = 5 /\ StairNumber("BK") = 6
  BY DEF StairNumber
<1>8. CASE ~HasDurableBridge(claims, notebook)
  <2>1. Old = "bridge" BY <1>8 DEF NextStep
  <2>2. New \in {"bridge", "seed", "closure", "at nine", "BK"} \/ Third(New)
    BY DEF NextStep
  <2> HIDE DEF Old, New, Third
  <2>3. StairNumber(Old) = 1 BY <2>1, <1>7
  <2>4. StairNumber(New) \in {1, 2, 3, 4, 5, 6} BY <2>2, <1>6, <1>7
  <2> QED BY <2>3, <2>4
<1>9. CASE HasDurableBridge(claims, notebook) /\ ~(Seeds \subseteq ForbiddenCores(claims))
  <2>1. Old = "seed" BY <1>9 DEF NextStep
  <2>2. New \in {"seed", "closure", "at nine", "BK"} \/ Third(New)
    BY <1>9, <1>2 DEF NextStep
  <2> HIDE DEF Old, New, Third
  <2>3. StairNumber(Old) = 2 BY <2>1, <1>7
  <2>4. StairNumber(New) \in {2, 3, 4, 5, 6} BY <2>2, <1>6, <1>7
  <2> QED BY <2>3, <2>4
<1>10. CASE /\ HasDurableBridge(claims, notebook) /\ Seeds \subseteq ForbiddenCores(claims)
            /\ ~DischargingClosed(claims)
  <2>1. Third(Old) BY <1>10 DEF NextStep
  <2>2. New \in {"closure", "at nine", "BK"} \/ Third(New)
    BY <1>10, <1>2, <1>3 DEF NextStep
  <2> HIDE DEF Old, New, Third
  <2>3. StairNumber(Old) = 3 BY <2>1, <1>6
  <2>4. StairNumber(New) \in {3, 4, 5, 6} BY <2>2, <1>6, <1>7
  <2> QED BY <2>3, <2>4
<1>11. CASE /\ HasDurableBridge(claims, notebook) /\ Seeds \subseteq ForbiddenCores(claims)
            /\ DischargingClosed(claims)
  <2>1. Old = IF ~HasDurable(claims, notebook, ClosureNames) THEN "closure"
              ELSE IF ~HasDurable(claims, notebook, AtNineNames) THEN "at nine" ELSE "BK"
    BY <1>11 DEF NextStep
  <2>2. New = IF ~HasDurable(later, next, ClosureNames) THEN "closure"
              ELSE IF ~HasDurable(later, next, AtNineNames) THEN "at nine" ELSE "BK"
    BY <1>11, <1>2, <1>3, <1>4 DEF NextStep
  <2> HIDE DEF Old, New
  <2>3. \/ StairNumber(Old) = 4 /\ StairNumber(New) \in {4, 5, 6}
        \/ StairNumber(Old) = 5 /\ StairNumber(New) \in {5, 6}
        \/ StairNumber(Old) = 6 /\ StairNumber(New) = 6
    BY <2>1, <2>2, <1>5, <1>7
  <2> QED BY <2>3
<1> QED BY <1>8, <1>9, <1>10, <1>11

-----------------------------------------------------------------------------
(***************************************************************************)
(* What the parts of a step do to a bind and to a ledger                   *)
(***************************************************************************)
\* The note of a refusal is a note.
LEMMA NoteOfType == ASSUME NEW refusal PROVE NoteOf(refusal) \in Notes
BY DEF NoteOf, Notes

\* The verifier refuses, misses or hits.
LEMMA Verdicts ==
    ASSUME NEW arg, NEW reducible
    PROVE  VerifyUnavoidable(arg, reducible).kind \in {"refused", "miss", "hit"}
<1> DEFINE refusal == Refusal(arg, reducible)
           forced == GlobalSign(arg.mu) # 0
           ranked == Survivors(arg)
<1>1. VerifyUnavoidable(arg, reducible) =
        IF refusal # "none" THEN Result("refused", refusal, FALSE, <<>>)
        ELSE Result(IF forced /\ ranked = <<>> THEN "hit" ELSE "miss", refusal, forced, ranked)
  BY DEF VerifyUnavoidable
<1> HIDE DEF refusal, forced, ranked
<1> QED BY <1>1 DEF Result

\* It hits only on cores that are reducible.
LEMMA HitsOnReducible ==
    ASSUME NEW arg, NEW reducible, VerifyUnavoidable(arg, reducible).kind = "hit"
    PROVE  ToSet(arg.forbidden) \subseteq reducible
<1> DEFINE refusal == Refusal(arg, reducible)
           forced == GlobalSign(arg.mu) # 0
           ranked == Survivors(arg)
<1>1. VerifyUnavoidable(arg, reducible) =
        IF refusal # "none" THEN Result("refused", refusal, FALSE, <<>>)
        ELSE Result(IF forced /\ ranked = <<>> THEN "hit" ELSE "miss", refusal, forced, ranked)
  BY DEF VerifyUnavoidable
<1> HIDE DEF refusal, forced, ranked
<1>2. refusal = "none" BY <1>1 DEF Result
<1>3. CASE Len(arg.forbidden) > MAX_FORBIDDEN BY <1>2, <1>3 DEF refusal, Refusal
<1>4. CASE ~(Len(arg.forbidden) > MAX_FORBIDDEN) BY <1>2, <1>4 DEF refusal, Refusal
<1> QED BY <1>3, <1>4

\* What the two discharging tools may do to the bind and the ledger: refuse, stick or close.
ClosedOn(S, note) ==
    /\ S \subseteq ForbiddenCores(Claims)
    /\ bind' = [bind EXCEPT !.survivors = <<>>, !.note = note]
    /\ Records(UnavoidableClaim(S)) /\ Gained(Closes(UnavoidableClaim(S)))
Uncounted(survivors, note) ==
    /\ bind' = bind \/ bind' = [bind EXCEPT !.survivors = survivors, !.note = note]
    /\ UNCHANGED <<ledgers, still>>
Verified ==
    /\ \/ \E note \in Notes : \E survivors : Uncounted(survivors, note)
       \/ \E note \in Notes : \E S : ClosedOn(S, note)
    /\ UNCHANGED <<session, notebooks, undone>>

\* discharging_unavoidable, whatever the verifier answers, does no more than note where it
\* stands or close on cores that the ledger holds.
LEMMA UnavoidableVerifies == DischargingUnavoidable => Verified
<1> SUFFICES ASSUME DischargingUnavoidable PROVE Verified OBVIOUS
<1>1. UNCHANGED <<session, notebooks, undone>> BY DEF DischargingUnavoidable
<1>2. PICK a \in Arguments, S \in SUBSET Cores :
        LET forbidden == Listed(S)
            result == VerifyUnavoidable(Argument(a, forbidden), ForbiddenCores(Claims))
        IN  CASE result.kind = "refused" ->
                   Refused(result.refusal) /\ UNCHANGED <<ledgers, still>>
              [] result.kind = "miss" ->
                   /\ bind' = [bind EXCEPT !.survivors = Types(result.ranked), !.note = "other"]
                   /\ UNCHANGED <<ledgers, still>>
              [] result.kind = "hit" ->
                   /\ bind' = [bind EXCEPT !.survivors = <<>>, !.note = ""]
                   /\ LET claim == UnavoidableClaim(ToSet(forbidden))
                      IN  Records(claim) /\ Gained(Closes(claim))
  BY DEF DischargingUnavoidable
<1> DEFINE forbidden == Listed(S)
           result == VerifyUnavoidable(Argument(a, forbidden), ForbiddenCores(Claims))
<1> HIDE DEF forbidden
<1>3. result.kind \in {"refused", "miss", "hit"} BY Verdicts
<1>4. result.kind = "hit" => ToSet(forbidden) \subseteq ForbiddenCores(Claims)
  BY HitsOnReducible DEF Argument
<1> HIDE DEF result
<1>5. CASE result.kind = "refused"
  <2>1. Refused(result.refusal) /\ UNCHANGED <<ledgers, still>>
    BY <1>2, <1>5 DEF result, forbidden
  <2>2. Uncounted(<<>>, NoteOf(result.refusal)) BY <2>1 DEF Refused, Uncounted
  <2> QED BY <1>1, <2>2, NoteOfType DEF Verified
<1>6. CASE result.kind = "miss"
  <2>1. Uncounted(Types(result.ranked), "other")
    BY <1>2, <1>6 DEF result, forbidden, Uncounted
  <2> QED BY <1>1, <2>1 DEF Verified, Notes
<1>7. CASE result.kind = "hit"
  <2>1. ClosedOn(ToSet(forbidden), "") BY <1>2, <1>4, <1>7 DEF result, forbidden, ClosedOn
  <2> QED BY <1>1, <2>1 DEF Verified, Notes
<1> QED BY <1>3, <1>5, <1>6, <1>7

\* So does each iteration of a search, its last included.
LEMMA SearchVerifies == SearchStep => Verified
<1> SUFFICES ASSUME SearchStep PROVE Verified OBVIOUS
<1>1. UNCHANGED <<session, notebooks, undone>> BY DEF SearchStep
<1>2. \/ bind' = [bind EXCEPT !.survivors = <<>>, !.note = "other"] /\ UNCHANGED <<ledgers, still>>
      \/ VerifyUnavoidable(Live, Minted).kind = "hit" /\ Closed
      \/ \E best : Stuck(best)
      \/ UNCHANGED <<bind, ledgers, still>>
  BY DEF SearchStep, GoesOn
<1>3. CASE bind' = [bind EXCEPT !.survivors = <<>>, !.note = "other"] /\ UNCHANGED <<ledgers, still>>
  <2>1. Uncounted(<<>>, "other") BY <1>3 DEF Uncounted
  <2> QED BY <1>1, <2>1 DEF Verified, Notes
<1>4. CASE VerifyUnavoidable(Live, Minted).kind = "hit" /\ Closed
  <2>1. ToSet(search.forbidden) \subseteq ForbiddenCores(Claims)
    BY <1>4, HitsOnReducible DEF Live, Argument, Minted
  <2>2. ClosedOn(ToSet(search.forbidden), "other") BY <1>4, <2>1 DEF Closed, ClosedOn
  <2> QED BY <1>1, <2>2 DEF Verified, Notes
<1>5. CASE \E best : Stuck(best)
  <2>1. PICK best : Stuck(best) BY <1>5
  <2>2. Uncounted(Types(best.ranked), "other") BY <2>1 DEF Stuck, Uncounted
  <2> QED BY <1>1, <2>2 DEF Verified, Notes
<1>6. CASE UNCHANGED <<bind, ledgers, still>>
  <2>1. Uncounted(<<>>, "other") BY <1>6 DEF Uncounted
  <2> QED BY <1>1, <2>1 DEF Verified, Notes
<1> QED BY <1>2, <1>3, <1>4, <1>5, <1>6

\* A claim that is recorded is added to one ledger.
LEMMA Recorded ==
    ASSUME SessionShape, NEW claim, Records(claim)
    PROVE  /\ ledgers' = [s \in Sessions |-> ledgers'[s]]
           /\ LedgersGrow /\ claim \in ledgers'[session]
BY DEF SessionShape, Records, LedgersGrow

\* Binding a campaign changes neither the survivors nor the note.
LEMMA BoundShape ==
    ASSUME BindShape
    PROVE  /\ Bound(bind) = [live |-> Bound(bind).live, survivors |-> Bound(bind).survivors,
                             note |-> Bound(bind).note, fp |-> Bound(bind).fp,
                             streak |-> Bound(bind).streak]
           /\ Bound(bind).note \in Notes
BY DEF BindShape, Bound

\* Nor does counting the streak.
LEMMA StagnationShape ==
    ASSUME NEW b, NEW claims, NEW notebook,
           b = [live |-> b.live, survivors |-> b.survivors, note |-> b.note,
                fp |-> b.fp, streak |-> b.streak],
           b.note \in Notes, bind' = NoteStagnation(b, claims, notebook)
    PROVE  BindShape'
<1> DEFINE fp == Fingerprint(claims, notebook, b.survivors)
<1>1. \/ bind' = [b EXCEPT !.streak = Min({@ + 1, MaxStreak})]
      \/ bind' = [b EXCEPT !.fp = fp, !.streak = 0]
  BY DEF NoteStagnation
<1> HIDE DEF fp
<1> QED BY <1>1 DEF BindShape

\* A result replaces the survivors and the note.
LEMMA ResultShape ==
    ASSUME BindShape, NEW survivors, NEW note \in Notes,
           bind' = [bind EXCEPT !.survivors = survivors, !.note = note]
    PROVE  BindShape'
BY DEF BindShape

-----------------------------------------------------------------------------
(***************************************************************************)
(* The steps                                                               *)
(***************************************************************************)
\* A step that leaves the notebooks alone keeps the invariant if no ledger loses a claim.
LEMMA NotebooksKept ==
    ASSUME IInv, BindShape', session' \in Sessions, UNCHANGED notebooks,
           ledgers' = [s \in Sessions |-> ledgers'[s]], LedgersGrow
    PROVE  IInv'
BY DEF IInv, SessionShape, DurableBacked, LedgersGrow

\* The invariant and the growth of the ledgers hold over every step.
LEMMA EveryStep == IInv /\ [Next]_vars => IInv' /\ LedgersGrow
<1> SUFFICES ASSUME IInv, [Next]_vars PROVE IInv' /\ LedgersGrow
  OBVIOUS
<1> USE DEF IInv
<1> DEFINE Fixed == UNCHANGED <<ledgers, notebooks>>
<1>1. ASSUME Fixed, session' \in Sessions, BindShape' PROVE IInv' /\ LedgersGrow
  BY <1>1, NotebooksKept DEF LedgersGrow, SessionShape
<1>2. ASSUME NEW claim, Records(claim), UNCHANGED <<session, notebooks>>, BindShape'
      PROVE  IInv' /\ LedgersGrow
  BY <1>2, NotebooksKept, Recorded DEF SessionShape
<1>3. UNCHANGED bind => BindShape' BY DEF BindShape
<1>4. session \in Sessions BY DEF SessionShape
<1>5. ASSUME RoundWithStair PROVE IInv' /\ LedgersGrow
  <2>1. BindShape' BY <1>5, BoundShape, StagnationShape DEF RoundWithStair
  <2> QED BY <1>1, <1>4, <1>5, <2>1 DEF RoundWithStair
<1>6. ASSUME RoundWithout PROVE IInv' /\ LedgersGrow
  <2>1. BindShape' BY <1>6, BoundShape DEF RoundWithout, BindShape
  <2> QED BY <1>1, <1>4, <1>6, <2>1 DEF RoundWithout
<1>7. ASSUME ReducibleConfiguration PROVE IInv' /\ LedgersGrow
  BY <1>2, <1>3, <1>7 DEF ReducibleConfiguration
<1>8. ASSUME LeanProve PROVE IInv' /\ LedgersGrow
  <2>1. PICK n \in Lemmas, durable \in BOOLEAN :
          /\ IF durable THEN Records(DurableClaim(n)) ELSE ledgers' = ledgers
          /\ notebooks' = [notebooks EXCEPT ![session][n] =
                             IF durable THEN "durable" ELSE "session"]
    BY <1>8 DEF LeanProve
  <2>2. UNCHANGED <<session, bind>> BY <1>8 DEF LeanProve
  <2>3. /\ ledgers' = [s \in Sessions |-> ledgers'[s]] /\ LedgersGrow
        /\ durable => DurableClaim(n) \in ledgers'[session]
    <3>1. CASE durable BY <2>1, <3>1, Recorded
    <3>2. CASE ~durable BY <2>1, <3>2 DEF LedgersGrow, SessionShape
    <3> QED BY <3>1, <3>2
  <2>4. notebooks' \in [Sessions -> [Lemmas -> {"none", "session", "durable"}]]
    BY <2>1, <1>4 DEF SessionShape
  <2>5. DurableBacked'
    <3> SUFFICES ASSUME NEW s \in Sessions, NEW m \in Lemmas, notebooks'[s][m] = "durable"
                 PROVE  DurableClaim(m) \in ledgers'[s]
      BY DEF DurableBacked, DurableClaim
    <3>1. CASE s = session /\ m = n
      BY <2>1, <2>3, <1>4, <3>1 DEF SessionShape
    <3>2. CASE ~(s = session /\ m = n)
      <4>1. notebooks[s][m] = "durable" BY <2>1, <1>4, <3>2 DEF SessionShape
      <4> QED BY <4>1, <2>3 DEF DurableBacked, LedgersGrow
    <3> QED BY <3>1, <3>2
  <2> QED BY <1>3, <1>4, <2>2, <2>3, <2>4, <2>5 DEF SessionShape
<1>9. ASSUME Verified PROVE IInv' /\ LedgersGrow
  <2>1. UNCHANGED <<session, notebooks>> BY <1>9 DEF Verified
  <2>2. CASE \E note \in Notes : \E survivors : Uncounted(survivors, note)
    <3>1. BindShape' BY <2>2, <1>3, ResultShape DEF Uncounted
    <3> QED BY <1>1, <1>4, <2>1, <2>2, <3>1 DEF Uncounted
  <2>3. CASE \E note \in Notes : \E S : ClosedOn(S, note)
    <3>1. BindShape' BY <2>3, ResultShape DEF ClosedOn
    <3> QED BY <1>2, <2>1, <2>3, <3>1 DEF ClosedOn
  <2> QED BY <1>9, <2>2, <2>3 DEF Verified
<1>10. ASSUME StartSearch PROVE IInv' /\ LedgersGrow
  BY <1>1, <1>3, <1>4, <1>10 DEF StartSearch
<1>11. ASSUME Switch PROVE IInv' /\ LedgersGrow
  <2>1. BindShape' BY <1>11 DEF Switch, BindShape
  <2> QED BY <1>1, <1>11, <2>1 DEF Switch
<1>12. ASSUME UNCHANGED vars PROVE IInv' /\ LedgersGrow
  BY <1>1, <1>3, <1>4, <1>12 DEF vars
<1> QED
  BY <1>5, <1>6, <1>7, <1>8, <1>9, <1>10, <1>11, <1>12, UnavoidableVerifies, SearchVerifies
  DEF Next, Tools

-----------------------------------------------------------------------------
(***************************************************************************)
(* The theorems                                                            *)
(***************************************************************************)
\* What an agent begins with satisfies the invariant.
LEMMA Begins == Init => IInv
<1> SUFFICES ASSUME Init PROVE IInv OBVIOUS
<1>1. session \in Sessions BY SessionsExist DEF Init
<1>2. BindShape BY DEF Init, FreshBind, BindShape, Notes
<1>3. ledgers = [s \in Sessions |-> ledgers[s]] BY DEF Init
<1>4. SessionShape BY <1>1, <1>3 DEF Init, SessionShape
<1>5. DurableBacked BY DEF Init, DurableBacked
<1> QED BY <1>2, <1>4, <1>5 DEF IInv

\* A lemma that is locked as durable has its claim on the ledger of its session, whatever
\* is proved again, cleared or resumed (campaign.py:136).
THEOREM DurablesAreBacked == Spec => []DurableBacked
<1>1. Init => IInv BY Begins
<1>2. IInv /\ [Next]_vars => IInv' BY EveryStep
<1>3. IInv => DurableBacked BY DEF IInv
<1> QED BY <1>1, <1>2, <1>3, PTL DEF Spec

\* Within a session the staircase only rises, for every staircase and every campaign.
THEOREM StaircaseRises == Spec => StairsOnlyRise
<1> DEFINE Step == session' = session =>
             StairNumber(NextStep(Claims, Notebook, bind.survivors, bind.note))
               <= StairNumber(NextStep(Claims, Notebook, bind.survivors, bind.note))'
<1>1. Init => IInv BY Begins
<1>2. IInv /\ [Next]_vars => IInv' BY EveryStep
<1>3. IInv /\ IInv' /\ [Next]_vars => [Step]_vars
  <2> SUFFICES ASSUME IInv, IInv', [Next]_vars, session' = session PROVE Step
    OBVIOUS
  <2>1. LedgersGrow BY EveryStep
  <2>2. session \in Sessions /\ bind.note \in Notes /\ bind'.note \in Notes
    BY DEF IInv, SessionShape, BindShape
  <2>3. Claims \subseteq Claims' BY <2>1, <2>2 DEF LedgersGrow, Claims
  <2>4. \A n \in Lemmas : Notebook[n] = "durable" => DurableClaim(n) \in Claims'
    BY <2>2, <2>3 DEF IInv, DurableBacked, Notebook, Claims
  <2>5. StairNumber(NextStep(Claims, Notebook, bind.survivors, bind.note))
          <= StairNumber(NextStep(Claims', Notebook', bind'.survivors, bind'.note))
    BY <2>2, <2>3, <2>4, StairRises
  <2> QED BY <2>5
<1> QED BY <1>1, <1>2, <1>3, PTL DEF Spec, StairsOnlyRise

-----------------------------------------------------------------------------
(***************************************************************************)
(* REFORMULATE. The streak counts injections that saw the same fingerprint. *)
(* A gain leaves the fingerprint of the bind behind the ledger and the      *)
(* notebook for good, unless a durable lemma is unlocked; and if there was  *)
(* no gain, every injection that the streak counts, and the one before the  *)
(* first of them, is counted by the observer too.                           *)
(***************************************************************************)
DurableIn(notebook) == {n \in Lemmas : notebook[n] = "durable"}

\* A fingerprint was taken of no more than there is now; of less.
Earlier(fp, claims, notebook) ==
    /\ fp.durable \subseteq DurableIn(notebook)
    /\ fp.cores \subseteq ForbiddenCores(claims)
    /\ fp.key = <<"closed">> => DischargingClosed(claims)
Outdated(fp, claims, notebook) ==
    \/ fp.durable # DurableIn(notebook) \/ fp.cores # ForbiddenCores(claims)
    \/ fp.key # <<"closed">> /\ DischargingClosed(claims)

CountersType == still \in 0..MaxStreak /\ bind.streak \in 0..MaxStreak

\* bind.fp = NoFingerprint, as far as it matters, or the fingerprint of an injection.
StreakCounted ==
    bind.live /\ ~undone =>
        \/ bind.fp.key = <<"none">> /\ bind.streak = 0
        \/ /\ Earlier(bind.fp, Claims, Notebook)
           /\ Outdated(bind.fp, Claims, Notebook) \/ still > bind.streak \/ still = MaxStreak

StreakInv == CountersType /\ StreakCounted

\* Of two numbers.
LEMMA MinOfTwo ==
    ASSUME NEW a \in Int, NEW b \in Int
    PROVE  Min({a, b}) = IF a <= b THEN a ELSE b
<1> DEFINE m == IF a <= b THEN a ELSE b
           M == CHOOSE x \in {a, b} : \A y \in {a, b} : x =< y
<1>1. m \in {a, b} /\ \A y \in {a, b} : m =< y OBVIOUS
<1>2. M \in {a, b} /\ \A y \in {a, b} : M =< y BY <1>1
<1>3. M = m BY <1>1, <1>2
<1> QED BY <1>3 DEF Min

\* What a fingerprint is taken of.
LEMMA FingerprintFacts ==
    ASSUME NEW claims, NEW notebook, NEW survivors
    PROVE  LET fp == Fingerprint(claims, notebook, survivors) IN
             /\ Earlier(fp, claims, notebook) /\ ~Outdated(fp, claims, notebook)
             /\ fp.key # <<"none">>
<1> DEFINE fp == Fingerprint(claims, notebook, survivors)
           k == fp.key
<1>1. fp.durable = DurableIn(notebook) /\ fp.cores = ForbiddenCores(claims)
  BY DEF Fingerprint, DurableIn
<1>2. k = IF DischargingClosed(claims) THEN <<"closed">>
          ELSE IF survivors # <<>> THEN ResidualKey(survivors) ELSE <<"open">>
  BY DEF Fingerprint
<1>3. ResidualKey(survivors) \in {<<"stuck">>, <<"miss", survivors>>} BY DEF ResidualKey
<1>4. /\ <<"closed">>[1] = "closed" /\ <<"open">>[1] = "open" /\ <<"stuck">>[1] = "stuck"
      /\ <<"miss", survivors>>[1] = "miss" /\ <<"none">>[1] = "none"
  OBVIOUS
<1>5. k # <<"none">> /\ (k = <<"closed">> <=> DischargingClosed(claims))
  <2> HIDE DEF k
  <2> QED BY <1>2, <1>3, <1>4
<1> QED BY <1>1, <1>5 DEF Earlier, Outdated

\* What is outdated stays outdated while the ledger and the notebook grow, and becomes
\* outdated with a gain.
Gain(claims, notebook, later, next) ==
    \/ ForbiddenCores(claims) # ForbiddenCores(later)
    \/ DurableIn(notebook) # DurableIn(next)
    \/ ~DischargingClosed(claims) /\ DischargingClosed(later)

\* An earlier fingerprint stays an earlier one, and once outdated it stays outdated.
LEMMA OutdatedStays ==
    ASSUME NEW fp, NEW claims, NEW later, NEW notebook, NEW next, claims \subseteq later,
           DurableIn(notebook) \subseteq DurableIn(next), Earlier(fp, claims, notebook)
    PROVE  /\ Earlier(fp, later, next)
           /\ Outdated(fp, claims, notebook) => Outdated(fp, later, next)
           /\ Gain(claims, notebook, later, next) => Outdated(fp, later, next)
BY CoresStay DEF Earlier, Outdated, Gain

\* A step between two injections.
LEMMA BetweenInjections ==
    ASSUME StreakInv, bind'.live = bind.live, bind'.fp = bind.fp, bind'.streak = bind.streak,
           undone => undone', Claims \subseteq Claims',
           ~undone' => DurableIn(Notebook) \subseteq DurableIn(Notebook'),
           \/ still' = still
           \/ still' = 0 /\ (~undone' => Gain(Claims, Notebook, Claims', Notebook'))
    PROVE  StreakInv'
<1>1. CountersType' BY StreakType DEF StreakInv, CountersType
<1>2. StreakCounted'
  <2> SUFFICES ASSUME bind'.live, ~undone',
                      ~(bind'.fp.key = <<"none">> /\ bind'.streak = 0)
               PROVE  /\ Earlier(bind'.fp, Claims', Notebook')
                      /\ \/ Outdated(bind'.fp, Claims', Notebook')
                         \/ still' > bind'.streak \/ still' = MaxStreak
    BY DEF StreakCounted, Earlier, Outdated, Claims, Notebook
  <2>1. /\ Earlier(bind.fp, Claims, Notebook)
        /\ Outdated(bind.fp, Claims, Notebook) \/ still > bind.streak \/ still = MaxStreak
    BY DEF StreakInv, StreakCounted
  <2> QED BY <2>1, OutdatedStays
<1> QED BY <1>1, <1>2 DEF StreakInv

\* A bind stays as it is but for its survivors and its note.
StreakKept == bind'.live = bind.live /\ bind'.fp = bind.fp /\ bind'.streak = bind.streak

\* An injection counts what it sees, and REFORMULATE is first said after three of them.
Frozen == Reformulate' /\ bind'.streak > bind.streak => still' > STAGNATION_THRESHOLD \/ undone

\* note_stagnation at an injection: the streak it leaves is one that the gains bear out.
LEMMA InjectionCounts ==
    ASSUME IInv, StreakInv, RoundWithStair
    PROVE  StreakInv' /\ Frozen
<1> DEFINE b == Bound(bind)
           fp == Fingerprint(Claims, Notebook, b.survivors)
           more == Min({b.streak + 1, MaxStreak})
<1>1. /\ b = [live |-> b.live, survivors |-> b.survivors, note |-> b.note, fp |-> b.fp,
              streak |-> b.streak]
      /\ b.live
      /\ bind.live => b.fp = bind.fp /\ b.streak = bind.streak
      /\ ~bind.live => b.fp.key = <<"none">> /\ b.streak = 0
  <2>1. bind = [live |-> bind.live, survivors |-> bind.survivors, note |-> bind.note,
                fp |-> bind.fp, streak |-> bind.streak]
    BY DEF IInv, BindShape
  <2>2. CASE bind.live
    <3>1. b = bind BY <2>2 DEF Bound
    <3> HIDE DEF b
    <3>2. b = [live |-> b.live, survivors |-> b.survivors, note |-> b.note, fp |-> b.fp,
               streak |-> b.streak]
      BY <2>1, <3>1
    <3>3. b.live /\ b.fp = bind.fp /\ b.streak = bind.streak BY <2>2, <3>1
    <3> QED BY <2>2, <3>2, <3>3
  <2>3. CASE ~bind.live
    <3>1. b = [bind EXCEPT !.live = TRUE, !.fp = NoFingerprint, !.streak = 0]
      BY <2>3 DEF Bound
    <3> HIDE DEF b
    <3>2. b = [live |-> TRUE, survivors |-> bind.survivors, note |-> bind.note,
               fp |-> NoFingerprint, streak |-> 0]
      BY <2>1, <3>1
    <3>3. NoFingerprint.key = <<"none">> BY DEF NoFingerprint
    <3> QED BY <2>3, <3>2, <3>3
  <2> QED BY <2>2, <2>3
<1>2. /\ still \in 0..MaxStreak /\ b.streak \in 0..MaxStreak /\ bind.streak \in 0..MaxStreak
      /\ MaxStreak \in Nat /\ MaxStreak > 2
  BY <1>1, StreakType DEF StreakInv, CountersType, STAGNATION_THRESHOLD
<1>3. /\ UNCHANGED <<session, ledgers, notebooks, undone>>
      /\ bind' = NoteStagnation(b, Claims, Notebook)
      /\ still' = Min({still + 1, MaxStreak})
  BY DEF RoundWithStair
<1>4. Claims' = Claims /\ Notebook' = Notebook BY <1>3 DEF Claims, Notebook
<1>5. /\ Earlier(fp, Claims, Notebook) /\ ~Outdated(fp, Claims, Notebook)
      /\ fp.key # <<"none">>
  BY FingerprintFacts
<1>6. \/ b.fp = fp /\ bind' = [b EXCEPT !.streak = more]
      \/ bind' = [b EXCEPT !.fp = fp, !.streak = 0]
  BY <1>3 DEF NoteStagnation
<1> HIDE DEF b, fp
<1>7. /\ still' = IF still + 1 <= MaxStreak THEN still + 1 ELSE MaxStreak
      /\ more = IF b.streak + 1 <= MaxStreak THEN b.streak + 1 ELSE MaxStreak
  BY <1>2, <1>3, MinOfTwo
<1> HIDE DEF more
<1>8. CASE b.fp = fp /\ bind' = [b EXCEPT !.streak = more]
  <2>1. bind'.fp = fp /\ bind'.streak = more /\ bind'.live BY <1>1, <1>8
  <2>2. bind.live /\ bind.fp = fp /\ bind.streak = b.streak BY <1>1, <1>5, <1>8
  <2>3. ~undone => still > b.streak \/ still = MaxStreak
    BY <1>5, <2>2 DEF StreakInv, StreakCounted
  <2>4. ~undone => still' > more \/ still' = MaxStreak BY <1>2, <1>7, <2>3
  <2>5. CountersType' BY <1>2, <1>7, <2>1 DEF CountersType
  <2>6. StreakCounted'
    BY <1>3, <1>4, <1>5, <2>1, <2>4
    DEF StreakCounted, Earlier, Outdated
  <2>7. Frozen
    <3>1. CASE undone BY <3>1 DEF Frozen
    <3>2. CASE ~undone
      <4>1. more >= 2 => still' > 2 BY <1>2, <1>7, <2>4, <3>2
      <4> QED BY <2>1, <4>1 DEF Frozen, Reformulate, STAGNATION_THRESHOLD
    <3> QED BY <3>1, <3>2
  <2> QED BY <2>5, <2>6, <2>7 DEF StreakInv
<1>9. CASE bind' = [b EXCEPT !.fp = fp, !.streak = 0]
  <2>1. bind'.fp = fp /\ bind'.streak = 0 BY <1>1, <1>9
  <2>2. still' > 0 /\ CountersType' BY <1>2, <1>7, <2>1 DEF CountersType
  <2>3. StreakCounted'
    BY <1>4, <1>5, <2>1, <2>2 DEF StreakCounted, Earlier, Outdated
  <2>4. Frozen BY <1>2, <2>1 DEF Frozen, Reformulate, STAGNATION_THRESHOLD
  <2> QED BY <2>2, <2>3, <2>4 DEF StreakInv
<1> QED BY <1>6, <1>8, <1>9

\* What is recorded stays on the ledger of the session, with the new claim.
LEMMA ClaimsGrow ==
    ASSUME IInv, NEW claim, Records(claim), session' = session
    PROVE  Claims' = Claims \cup {claim}
BY DEF IInv, SessionShape, Records, Claims

\* A tool that records a claim, and counts as a gain what is one.
LEMMA RecordingCounts ==
    ASSUME IInv, StreakInv, StreakKept, NEW claim, Records(claim), NEW new, Gained(new),
           UNCHANGED <<session, undone>>,
           DurableIn(Notebook) \subseteq DurableIn(Notebook'),
           new => Gain(Claims, Notebook, Claims', Notebook')
    PROVE  StreakInv'
<1>1. Claims \subseteq Claims' BY ClaimsGrow
<1>2. \/ still' = still
      \/ still' = 0 /\ Gain(Claims, Notebook, Claims', Notebook')
  BY DEF Gained
<1> QED BY <1>1, <1>2, BetweenInjections DEF StreakKept

\* A tool that records nothing.
LEMMA NothingCounts ==
    ASSUME StreakInv, StreakKept, UNCHANGED <<session, ledgers, notebooks, still, undone>>
    PROVE  StreakInv'
<1>1. Claims' = Claims /\ Notebook' = Notebook BY DEF Claims, Notebook
<1> QED BY <1>1, BetweenInjections DEF StreakKept

\* A proof. If it unlocks no durable lemma, and is new, its lemma was not durable before.
LEMMA ProofCounts ==
    ASSUME IInv, StreakInv, LeanProve
    PROVE  StreakInv' /\ StreakKept
<1>1. PICK n \in Lemmas, durable \in BOOLEAN :
        /\ IF durable THEN Records(DurableClaim(n)) ELSE ledgers' = ledgers
        /\ notebooks' = [notebooks EXCEPT ![session][n] = IF durable THEN "durable" ELSE "session"]
        /\ undone' = (undone \/ (Notebook[n] = "durable" /\ ~durable))
        /\ Gained(durable /\ DurableClaim(n) \notin Claims)
  BY DEF LeanProve
<1>2. UNCHANGED <<session, bind>> BY DEF LeanProve
<1>3. session \in Sessions /\ notebooks \in [Sessions -> [Lemmas -> {"none", "session", "durable"}]]
  BY DEF IInv, SessionShape
<1>4. Notebook' = [Notebook EXCEPT ![n] = IF durable THEN "durable" ELSE "session"]
  BY <1>1, <1>2, <1>3 DEF Notebook
<1>5. Notebook \in [Lemmas -> {"none", "session", "durable"}] BY <1>3 DEF Notebook
<1>6. StreakKept BY <1>2 DEF StreakKept
<1>7. CASE durable
  <2>1. Records(DurableClaim(n)) /\ (undone => undone') BY <1>1, <1>7
  <2>2. DurableIn(Notebook') = DurableIn(Notebook) \cup {n}
    BY <1>4, <1>5, <1>7 DEF DurableIn
  <2>3. Claims \subseteq Claims' BY <1>2, <2>1, ClaimsGrow
  <2>4. Notebook[n] = "durable" => DurableClaim(n) \in Claims
    BY <1>3 DEF IInv, DurableBacked, Notebook, Claims
  <2>5. DurableClaim(n) \notin Claims => Gain(Claims, Notebook, Claims', Notebook')
    BY <2>2, <2>4 DEF Gain, DurableIn
  <2>6. still' = still \/ (still' = 0 /\ Gain(Claims, Notebook, Claims', Notebook'))
    <3>1. still' = IF durable /\ DurableClaim(n) \notin Claims THEN 0 ELSE still
      BY <1>1 DEF Gained
    <3> QED BY <2>5, <3>1
  <2>7. DurableIn(Notebook) \subseteq DurableIn(Notebook') BY <2>2
  <2>8. StreakInv' BY <1>6, <2>1, <2>3, <2>6, <2>7, BetweenInjections DEF StreakKept
  <2> QED BY <1>6, <2>8
<1>8. CASE ~durable
  <2>1. still' = still /\ (undone => undone') BY <1>1, <1>8 DEF Gained
  <2>2. ~undone' => DurableIn(Notebook) \subseteq DurableIn(Notebook')
    BY <1>1, <1>4, <1>5, <1>8 DEF DurableIn
  <2>3. Claims \subseteq Claims' BY <1>1, <1>2, <1>8 DEF Claims
  <2> QED BY <1>6, <2>1, <2>2, <2>3, BetweenInjections DEF StreakKept
<1> QED BY <1>7, <1>8

\* A verification: what closes the stair is a gain.
LEMMA VerificationCounts ==
    ASSUME IInv, StreakInv, Verified
    PROVE  StreakInv' /\ StreakKept
<1>1. UNCHANGED <<session, notebooks, undone>> BY DEF Verified
<1>2. Notebook' = Notebook BY <1>1 DEF Notebook
<1>3. ASSUME NEW survivors, NEW note, bind' = [bind EXCEPT !.survivors = survivors, !.note = note]
      PROVE  StreakKept
  <2>1. bind = [live |-> bind.live, survivors |-> bind.survivors, note |-> bind.note,
                fp |-> bind.fp, streak |-> bind.streak]
    BY DEF IInv, BindShape
  <2> QED BY <1>3, <2>1 DEF StreakKept
<1>4. CASE \E note \in Notes : \E survivors : Uncounted(survivors, note)
  <2>1. StreakKept BY <1>3, <1>4 DEF Uncounted, StreakKept
  <2> QED BY <1>1, <1>4, <2>1, NothingCounts DEF Uncounted
<1>5. CASE \E note \in Notes : \E S : ClosedOn(S, note)
  <2>0. PICK note \in Notes : \E S : ClosedOn(S, note) BY <1>5
  <2>1. PICK S : ClosedOn(S, note) BY <2>0
  <2>2. StreakKept BY <1>3, <2>1 DEF ClosedOn
  <2> DEFINE claim == UnavoidableClaim(S)
             new == Closes(claim)
  <2>3. Records(claim) /\ Gained(new) BY <2>1 DEF ClosedOn
  <2>4. Claims' = Claims \cup {claim} BY <1>1, <2>3, ClaimsGrow
  <2>5. new => Gain(Claims, Notebook, Claims', Notebook') BY <2>4 DEF Closes, Gain
  <2>6. DurableIn(Notebook) \subseteq DurableIn(Notebook') BY <1>2
  <2> HIDE DEF claim, new
  <2>7. StreakInv' BY <1>1, <2>2, <2>3, <2>5, <2>6, RecordingCounts
  <2> QED BY <2>2, <2>7
<1> QED BY <1>4, <1>5 DEF Verified

\* A core is a gain if it is new.
LEMMA CoreCounts ==
    ASSUME IInv, StreakInv, ReducibleConfiguration
    PROVE  StreakInv' /\ StreakKept
<1>1. PICK c \in Cores : Records(CoreClaim(c)) /\ Gained(c \notin ForbiddenCores(Claims))
  BY DEF ReducibleConfiguration
<1>2. UNCHANGED <<session, notebooks, bind, undone>> BY DEF ReducibleConfiguration
<1>3. StreakKept BY <1>2 DEF StreakKept
<1> DEFINE claim == CoreClaim(c)
           new == c \notin ForbiddenCores(Claims)
<1>4. Records(claim) /\ Gained(new) BY <1>1
<1>5. Claims' = Claims \cup {claim} BY <1>2, <1>4, ClaimsGrow
<1>6. c \in ForbiddenCores(Claims')
  <2>1. claim \in Claims' /\ claim.kind = "core" /\ claim.core = c BY <1>5 DEF CoreClaim
  <2> QED BY <2>1 DEF ForbiddenCores
<1>7. new => Gain(Claims, Notebook, Claims', Notebook') BY <1>6 DEF Gain
<1>8. DurableIn(Notebook) \subseteq DurableIn(Notebook') BY <1>2 DEF Notebook
<1> HIDE DEF claim, new
<1>9. StreakInv' BY <1>2, <1>3, <1>4, <1>7, <1>8, RecordingCounts
<1> QED BY <1>3, <1>9

\* Every step of a hunt keeps the streak counted, and only a frozen hunt is told.
LEMMA StreakStep == IInv /\ StreakInv /\ [Next]_vars => StreakInv' /\ Frozen
<1> SUFFICES ASSUME IInv, StreakInv, [Next]_vars PROVE StreakInv' /\ Frozen
  OBVIOUS
<1>1. bind.streak \in Nat /\ MaxStreak \in Nat /\ MaxStreak > 2
  BY StreakType DEF StreakInv, CountersType, STAGNATION_THRESHOLD
<1>2. ~(bind'.streak > bind.streak) => Frozen BY DEF Frozen
<1>3. StreakKept => Frozen BY <1>1, <1>2 DEF StreakKept
<1>4. CASE RoundWithStair BY <1>4, InjectionCounts
<1>5. CASE RoundWithout
  <2>1. bind' = Bound(bind) /\ UNCHANGED <<session, ledgers, notebooks, still, undone>>
    BY <1>5 DEF RoundWithout
  <2>2. CASE bind.live
    <3>1. StreakKept BY <2>1, <2>2 DEF Bound, StreakKept
    <3> QED BY <1>3, <2>1, <3>1, NothingCounts
  <2>3. CASE ~bind.live
    <3>1. bind' = [bind EXCEPT !.live = TRUE, !.fp = NoFingerprint, !.streak = 0]
      BY <2>1, <2>3 DEF Bound
    <3>2. bind = [live |-> bind.live, survivors |-> bind.survivors, note |-> bind.note,
                  fp |-> bind.fp, streak |-> bind.streak]
      BY DEF IInv, BindShape
    <3>3. bind'.fp.key = <<"none">> /\ bind'.streak = 0 BY <3>1, <3>2 DEF NoFingerprint
    <3>4. StreakInv' BY <1>1, <2>1, <3>3 DEF StreakInv, CountersType, StreakCounted
    <3> QED BY <1>1, <1>2, <3>3, <3>4
  <2> QED BY <2>2, <2>3
<1>6. CASE ReducibleConfiguration BY <1>3, <1>6, CoreCounts
<1>7. CASE LeanProve BY <1>3, <1>7, ProofCounts
<1>8. CASE DischargingUnavoidable \/ SearchStep
  BY <1>3, <1>8, UnavoidableVerifies, SearchVerifies, VerificationCounts
<1>9. CASE StartSearch
  <2>1. UNCHANGED <<session, ledgers, notebooks, bind, still, undone>>
    BY <1>9 DEF StartSearch
  <2> QED BY <1>3, <2>1, NothingCounts DEF StreakKept
<1>10. CASE Switch
  <2>1. bind' = [bind EXCEPT !.live = FALSE] /\ still' = 0 BY <1>10 DEF Switch
  <2>2. ~bind'.live /\ bind'.streak = bind.streak BY <2>1 DEF IInv, BindShape
  <2>3. StreakInv' BY <1>1, <2>1, <2>2 DEF StreakInv, CountersType, StreakCounted
  <2> QED BY <1>1, <1>2, <2>2, <2>3
<1>11. CASE UNCHANGED vars BY <1>3, <1>11, NothingCounts DEF vars, StreakKept
<1> QED
  BY <1>4, <1>5, <1>6, <1>7, <1>8, <1>9, <1>10, <1>11 DEF Next, Tools

\* A program that has just started has no bind and no streak.
LEMMA StreakBegins == Init => StreakInv
<1> SUFFICES ASSUME Init PROVE StreakInv OBVIOUS
<1>1. still = 0 /\ bind.live = FALSE /\ bind.streak = 0 BY DEF Init, FreshBind
<1>2. MaxStreak \in Nat BY StreakType
<1>3. CountersType BY <1>1, <1>2 DEF CountersType
<1> QED BY <1>1, <1>3 DEF StreakInv, StreakCounted

\* For every campaign: REFORMULATE is said only when over three injections nothing was gained,
\* or a durable lemma was unlocked in between (campaign.py:400).
THEOREM ReformulationIsEarned == Spec => ReformulateWhenFrozen
<1>1. Init => IInv /\ StreakInv BY Begins, StreakBegins
<1>2. IInv /\ StreakInv /\ [Next]_vars => IInv' /\ StreakInv' BY EveryStep, StreakStep
<1>3. IInv /\ StreakInv /\ [Next]_vars
        => [Reformulate' /\ bind'.streak > bind.streak
              => still' > STAGNATION_THRESHOLD \/ undone]_vars
  BY StreakStep DEF Frozen
<1> QED BY <1>1, <1>2, <1>3, PTL DEF Spec, ReformulateWhenFrozen

-----------------------------------------------------------------------------
\* Only cores minted in the session carry an argument, whatever was minted, proved, searched
\* or resumed (engine.py:297, campaign.py:199): with more on the ledger they stay minted.
LEMMA ClosedStep == IInv /\ ClosedOnMinted /\ [Next]_vars => ClosedOnMinted'
<1> SUFFICES ASSUME IInv, ClosedOnMinted, [Next]_vars,
                    NEW s \in Sessions, NEW c \in ledgers'[s], c.kind = "unavoidable"
             PROVE  c.cores \subseteq ForbiddenCores(ledgers'[s])
  BY DEF ClosedOnMinted
<1>1. ledgers[s] \subseteq ledgers'[s] BY EveryStep DEF LedgersGrow
<1>2. CASE c \in ledgers[s] BY <1>1, <1>2, CoresStay DEF ClosedOnMinted
<1>3. CASE c \notin ledgers[s]
  <2>1. ledgers = [t \in Sessions |-> ledgers[t]] /\ session \in Sessions
    BY DEF IInv, SessionShape
  <2>2. ASSUME NEW claim, Records(claim), claim.kind # "unavoidable" PROVE FALSE
    BY <1>3, <2>1, <2>2 DEF Records
  <2>3. ledgers' # ledgers BY <1>3
  <2>4. ~ReducibleConfiguration
    BY <2>2 DEF ReducibleConfiguration, CoreClaim
  <2>5. ~LeanProve BY <2>2, <2>3 DEF LeanProve, DurableClaim
  <2>6. Verified
    BY <2>3, <2>4, <2>5, UnavoidableVerifies, SearchVerifies
    DEF Next, Tools, RoundWithStair, RoundWithout, StartSearch, Switch, vars
  <2>7. PICK note \in Notes : \E S : ClosedOn(S, note)
    BY <2>3, <2>6 DEF Verified, Uncounted
  <2>8. PICK S : ClosedOn(S, note) BY <2>7
  <2>9. s = session /\ c = UnavoidableClaim(S)
    BY <1>3, <2>1, <2>8 DEF ClosedOn, Records
  <2>10. c.cores \subseteq ForbiddenCores(ledgers[s])
    BY <2>8, <2>9 DEF ClosedOn, UnavoidableClaim, Claims
  <2> QED BY <1>1, <2>10, CoresStay
<1> QED BY <1>2, <1>3

\* Whatever is searched, minted, re-proved, cleared or resumed, a claim that an argument closes
\* names only cores that the same session's ledger has minted as reducible (engine.py:297,
\* campaign.py:199).
THEOREM ClosesOnMinted == Spec => []ClosedOnMinted
<1>1. Init => IInv BY Begins
<1>2. IInv /\ [Next]_vars => IInv' BY EveryStep
<1>3. Init => ClosedOnMinted
  <2> SUFFICES ASSUME Init, NEW s \in Sessions, NEW c \in ledgers[s], c.kind = "unavoidable"
               PROVE  FALSE
    BY DEF ClosedOnMinted
  <2>1. PICK begun \in {{}, Begun} :
          ledgers = [t \in Sessions |-> IF t = session THEN {CoreClaim(x) : x \in begun} ELSE {}]
    BY DEF Init
  <2>2. \A x : CoreClaim(x).kind = "core" BY DEF CoreClaim
  <2> QED BY <2>1, <2>2
<1> QED BY <1>1, <1>2, <1>3, ClosedStep, PTL DEF Spec

-----------------------------------------------------------------------------
(***************************************************************************)
(* Finite sets in order                                                    *)
(***************************************************************************)
\* What stands before each member of a set in a strict total order.
Orders(before, S) ==
    /\ before \in [S -> SUBSET S]
    /\ \A s \in S : s \notin before[s]
    /\ \A s, t \in S : s \in before[t] => before[s] \subseteq before[t]
    /\ \A s, t \in S : s # t => s \in before[t] \/ t \in before[s]

\* Exactly one member of a finite set has a given number of members before it.
LEMMA EachPlaceTaken ==
    ASSUME NEW S, IsFiniteSet(S), NEW before, Orders(before, S), NEW i \in 1..Cardinality(S)
    PROVE  \E s \in S : Cardinality(before[s]) = i - 1
<1> DEFINE place == [s \in S |-> Cardinality(before[s])]
           n == Cardinality(S)
           places == 0..(n - 1)
<1>1. n \in Nat BY FS_CardinalityType
<1>2. ASSUME NEW s \in S PROVE IsFiniteSet(before[s]) /\ Cardinality(before[s]) \in places
  <2>1. before[s] \in SUBSET S /\ s \notin before[s] BY DEF Orders
  <2>2. /\ IsFiniteSet(before[s]) /\ Cardinality(before[s]) <= n
        /\ n = Cardinality(before[s]) => S = before[s]
    BY <2>1, FS_Subset
  <2>3. Cardinality(before[s]) # n BY <2>1, <2>2
  <2>4. Cardinality(before[s]) \in Nat BY <2>2, FS_CardinalityType
  <2> HIDE DEF n
  <2> QED BY <1>1, <2>2, <2>3, <2>4
<1>3. ASSUME NEW s \in S, NEW t \in S, s \in before[t]
      PROVE  Cardinality(before[s]) # Cardinality(before[t])
  <2>1. before[s] \in SUBSET before[t] /\ s \notin before[s] BY <1>3 DEF Orders
  <2>2. IsFiniteSet(before[t]) BY <1>2
  <2>3. Cardinality(before[s]) = Cardinality(before[t]) => before[s] = before[t]
    BY <2>1, <2>2, FS_Subset
  <2> QED BY <1>3, <2>1, <2>3
<1>4. place \in [S -> places] BY <1>2
<1>5. \A s, t \in S : place[s] = place[t] => s = t BY <1>3 DEF Orders
<1>6. IsFiniteSet(places) /\ Cardinality(places) = n
  <2>1. 0 \in Int /\ n - 1 \in Int BY <1>1
  <2>2. IsFiniteSet(places) /\ Cardinality(places) = IF 0 > n - 1 THEN 0 ELSE (n - 1) - 0 + 1
    BY <2>1, FS_Interval
  <2> HIDE DEF n, places
  <2> QED BY <1>1, <2>2
<1> HIDE DEF place, places
<1>7. place \in Injection(S, places) BY <1>4, <1>5, Fun_IsInj
<1>8. place \in Surjection(S, places) BY <1>6, <1>7, FS_Injection
<1>9. i - 1 \in places
  <2> HIDE DEF n
  <2> QED BY <1>1 DEF places, n
<1>10. \E s \in S : place[s] = i - 1 BY <1>8, <1>9, Fun_SurjectionProperties
<1> QED BY <1>10 DEF place

\* So a finite set in order is listed: each member, and each once.
LEMMA ListsMembers ==
    ASSUME NEW S, IsFiniteSet(S), NEW before, Orders(before, S),
           NEW seq, seq = InOrder(S, before)
    PROVE  /\ seq \in Seq(S) /\ Len(seq) = Cardinality(S) /\ DOMAIN seq = 1..Len(seq)
           /\ IsInjective(seq)
           /\ \A i \in DOMAIN seq : Cardinality(before[seq[i]]) = i - 1
<1> DEFINE n == Cardinality(S)
<1>1. n \in Nat BY FS_CardinalityType
<1>2. seq = [i \in 1..n |-> CHOOSE s \in S : Cardinality(before[s]) = i - 1] BY DEF InOrder
<1>3. \A i \in 1..n : seq[i] \in S /\ Cardinality(before[seq[i]]) = i - 1
  <2> SUFFICES ASSUME NEW i \in 1..n PROVE seq[i] \in S /\ Cardinality(before[seq[i]]) = i - 1
    OBVIOUS
  <2>1. \E s \in S : Cardinality(before[s]) = i - 1 BY EachPlaceTaken
  <2>2. seq[i] = CHOOSE s \in S : Cardinality(before[s]) = i - 1 BY <1>2
  <2> QED BY <2>1, <2>2
<1> HIDE DEF n
<1>4. seq \in [1..n -> S] BY <1>2, <1>3
<1>5. seq \in Seq(S) /\ Len(seq) = n BY <1>1, <1>4
<1>6. IsInjective(seq)
  <2> SUFFICES ASSUME NEW i \in 1..n, NEW j \in 1..n, seq[i] = seq[j] PROVE i = j
    BY <1>4 DEF IsInjective
  <2>1. i - 1 = j - 1 BY <1>3
  <2> QED BY <1>1, <2>1
<1> QED BY <1>3, <1>4, <1>5, <1>6 DEF n

\* Numbers stand smaller before larger, each once.
LEMMA NumbersAscend ==
    ASSUME NEW S, IsFiniteSet(S), S \subseteq Int, NEW seq, seq = Ascending(S)
    PROVE  /\ seq \in Seq(S) /\ Len(seq) = Cardinality(S) /\ DOMAIN seq = 1..Len(seq)
           /\ IsInjective(seq)
<1> DEFINE before == [s \in S |-> {t \in S : t < s}]
<1>1. Orders(before, S)
  <2>1. before \in [S -> SUBSET S] OBVIOUS
  <2>2. \A s \in S : \A t \in S : t \in before[s] <=> t < s OBVIOUS
  <2> HIDE DEF before
  <2>3. ASSUME NEW s \in S, NEW t \in S, s \in before[t], NEW u \in before[s]
        PROVE  u \in before[t]
    <3>1. u \in S BY <2>1, <2>3
    <3>2. u < s /\ s < t BY <2>2, <2>3, <3>1
    <3>3. u \in Int /\ s \in Int /\ t \in Int BY <3>1
    <3>4. u < t BY <3>2, <3>3
    <3> QED BY <2>2, <3>1, <3>4
  <2>4. ASSUME NEW s \in S, NEW t \in S, s # t PROVE s \in before[t] \/ t \in before[s]
    <3>1. s < t \/ t < s BY <2>4
    <3> QED BY <2>2, <3>1
  <2>5. \A s \in S : s \notin before[s]
    <3> SUFFICES ASSUME NEW s \in S PROVE ~(s < s) BY <2>2
    <3> QED OBVIOUS
  <2> QED BY <2>1, <2>3, <2>4, <2>5 DEF Orders
<1>2. seq = InOrder(S, before) BY DEF Ascending
<1> HIDE DEF before
<1> QED BY <1>1, <1>2, ListsMembers

\* A set of numbers that is not empty has a least one.
LEMMA LeastNumber ==
    ASSUME NEW T, T \subseteq Nat, T # {}
    PROVE  \E x \in T : \A y \in T : x <= y
<1>1. \E x \in T : \A y \in T : <<y, x>> \notin OpToRel(<, Nat)
  BY NatLessThanWellFounded, WFMin, Zenon
<1>2. PICK x \in T : \A y \in T : <<y, x>> \notin OpToRel(<, Nat) BY <1>1
<1>3. \A y \in T : ~(y < x) BY <1>2 DEF OpToRel
<1> QED BY <1>3

\* What holds of 0 and goes from each number to the next holds of all.
LEMMA CountUp ==
    ASSUME NEW P, 0 \in P, \A n \in Nat : n \in P => n + 1 \in P
    PROVE  \A n \in Nat : n \in P
<1> DEFINE T == {n \in Nat : n \notin P}
<1> SUFFICES ASSUME T # {} PROVE FALSE OBVIOUS
<1>1. T \subseteq Nat OBVIOUS
<1> HIDE DEF T
<1>2. PICK x \in T : \A y \in T : x <= y BY <1>1, LeastNumber
<1>3. x \in Nat /\ x \notin P BY <1>2 DEF T
<1>4. x # 0 /\ x - 1 \in Nat /\ (x - 1) + 1 = x BY <1>3
<1>5. x - 1 \notin T BY <1>2, <1>3, <1>4
<1> QED BY <1>3, <1>4, <1>5 DEF T

\* Tuples of whole numbers are in a strict total order.
LEMMA TuplesOrdered ==
    ASSUME NEW k \in Nat, NEW p \in [1..k -> Int], NEW q \in [1..k -> Int],
           NEW r \in [1..k -> Int]
    PROVE  /\ ~LexLess(p, p)
           /\ LexLess(p, q) /\ LexLess(q, r) => LexLess(p, r)
           /\ p # q => LexLess(p, q) \/ LexLess(q, p)
<1>1. ~LexLess(p, p) BY DEF LexLess
<1>2. ASSUME LexLess(p, q), LexLess(q, r) PROVE LexLess(p, r)
  <2>1. PICK i \in 1..k : p[i] < q[i] /\ \A j \in 1..(i - 1) : p[j] = q[j] BY <1>2 DEF LexLess
  <2>2. PICK l \in 1..k : q[l] < r[l] /\ \A j \in 1..(l - 1) : q[j] = r[j] BY <1>2 DEF LexLess
  <2> DEFINE m == IF i <= l THEN i ELSE l
  <2>3. m \in 1..k /\ m <= i /\ m <= l OBVIOUS
  <2>4. p[m] < r[m]
    <3>1. CASE i < l BY <2>1, <2>2, <3>1
    <3>2. CASE i = l BY <2>1, <2>2, <3>2
    <3>3. CASE l < i BY <2>1, <2>2, <3>3
    <3> QED BY <3>1, <3>2, <3>3
  <2> HIDE DEF m
  <2>5. \A j \in 1..(m - 1) : p[j] = r[j]
    <3> SUFFICES ASSUME NEW j \in 1..(m - 1) PROVE p[j] = r[j] OBVIOUS
    <3>1. j \in 1..(i - 1) /\ j \in 1..(l - 1) BY <2>3
    <3> QED BY <2>1, <2>2, <3>1
  <2> QED BY <2>3, <2>4, <2>5 DEF LexLess
<1>3. ASSUME p # q PROVE LexLess(p, q) \/ LexLess(q, p)
  <2> DEFINE T == {j \in 1..k : p[j] # q[j]}
  <2>0. \E j \in 1..k : p[j] # q[j]
    <3> SUFFICES ASSUME \A j \in 1..k : p[j] = q[j] PROVE FALSE OBVIOUS
    <3> QED BY <1>3
  <2>a. \A j : j \in T <=> j \in 1..k /\ p[j] # q[j] OBVIOUS
  <2> HIDE DEF T
  <2>b. T # {} BY <2>0, <2>a
  <2>c. T \subseteq Nat BY <2>a
  <2>2. PICK i \in T : \A j \in T : i <= j BY <2>b, <2>c, LeastNumber
  <2>3. i \in 1..k /\ p[i] # q[i] BY <2>a, <2>2
  <2>4. \A j \in 1..(i - 1) : p[j] = q[j]
    <3> SUFFICES ASSUME NEW j \in 1..(i - 1) PROVE p[j] = q[j] OBVIOUS
    <3>1. j \in 1..k /\ ~(i <= j) BY <2>3
    <3> QED BY <2>2, <2>a, <3>1
  <2>5. p[i] \in Int /\ q[i] \in Int BY <2>3
  <2>6. p[i] < q[i] \/ q[i] < p[i] BY <2>3, <2>5
  <2> QED BY <2>3, <2>4, <2>6 DEF LexLess
<1> QED BY <1>1, <1>2, <1>3

\* So is a set whose members have ranks of their own.
LEMMA RanksOrder ==
    ASSUME NEW S, NEW k \in Nat, NEW rank \in [S -> [1..k -> Int]], IsInjective(rank),
           NEW before, before = [s \in S |-> {t \in S : LexLess(rank[t], rank[s])}]
    PROVE  Orders(before, S)
<1> DEFINE lower(s) == {t \in S : LexLess(rank[t], rank[s])}
<1>0. before = [s \in S |-> lower(s)] /\ \A s \in S : lower(s) \in SUBSET S OBVIOUS
<1>2. \A s, t \in S : t \in before[s] <=> LexLess(rank[t], rank[s]) OBVIOUS
<1> HIDE DEF lower
<1>1. before \in [S -> SUBSET S] BY <1>0
<1>3. ASSUME NEW s \in S PROVE s \notin before[s]
  <2>1. rank[s] \in [1..k -> Int] OBVIOUS
  <2>2. ~LexLess(rank[s], rank[s]) BY <2>1, TuplesOrdered
  <2> QED BY <1>2, <2>2
<1>4. ASSUME NEW s \in S, NEW t \in S, s \in before[t], NEW u \in before[s]
      PROVE  u \in before[t]
  <2>1. u \in S BY <1>1, <1>4
  <2>2. LexLess(rank[u], rank[s]) /\ LexLess(rank[s], rank[t]) BY <1>2, <1>4, <2>1
  <2>3. LexLess(rank[u], rank[t]) BY <2>1, <2>2, TuplesOrdered
  <2> QED BY <1>2, <2>1, <2>3
<1>5. ASSUME NEW s \in S, NEW t \in S, s # t PROVE s \in before[t] \/ t \in before[s]
  <2>1. rank[s] # rank[t] BY <1>5 DEF IsInjective
  <2>2. rank[s] \in [1..k -> Int] /\ rank[t] \in [1..k -> Int] OBVIOUS
  <2>3. LexLess(rank[s], rank[t]) \/ LexLess(rank[t], rank[s]) BY <2>1, <2>2, TuplesOrdered
  <2> QED BY <1>2, <2>3
<1> QED BY <1>1, <1>3, <1>4, <1>5 DEF Orders

-----------------------------------------------------------------------------
(***************************************************************************)
(* Charges                                                                 *)
(***************************************************************************)
\* A running total from base, one change at a time.
Totals(g, base, d, n) ==
    /\ g \in [0..n -> Int] /\ g[0] = base
    /\ \A i \in 1..n : g[i] = g[i - 1] + d[i]

\* There is a running total of any changes.
LEMMA TotalsExist ==
    ASSUME NEW n \in Nat, NEW base \in Int, NEW d \in [1..n -> Int]
    PROVE  \E g : Totals(g, base, d, n)
<1> DEFINE P == {m \in Nat : m <= n => \E g : Totals(g, base, d, m)}
<1>1. 0 \in P
  <2>1. Totals([i \in 0..0 |-> base], base, d, 0) BY DEF Totals
  <2> QED BY <2>1
<1>2. ASSUME NEW m \in Nat, m \in P PROVE m + 1 \in P
  <2> SUFFICES ASSUME m + 1 <= n PROVE \E g : Totals(g, base, d, m + 1) OBVIOUS
  <2>1. PICK g : Totals(g, base, d, m) BY <1>2
  <2> DEFINE more == [i \in 0..(m + 1) |-> IF i = m + 1 THEN g[m] + d[m + 1] ELSE g[i]]
  <2>2. m + 1 \in 1..n /\ d[m + 1] \in Int /\ m \in 0..m OBVIOUS
  <2>3. g \in [0..m -> Int] /\ g[m] \in Int BY <2>1 DEF Totals
  <2>4. more \in [0..(m + 1) -> Int] BY <2>2, <2>3
  <2>5. \A i \in 0..m : more[i] = g[i] OBVIOUS
  <2>6. more[m + 1] = g[m] + d[m + 1] OBVIOUS
  <2>7. \A i \in 1..(m + 1) : more[i] = more[i - 1] + d[i]
    <3> SUFFICES ASSUME NEW i \in 1..(m + 1) PROVE more[i] = more[i - 1] + d[i] OBVIOUS
    <3>1. CASE i = m + 1
      <4>1. i - 1 = m BY <3>1
      <4> QED BY <2>5, <2>6, <3>1, <4>1
    <3>2. CASE i # m + 1
      <4>1. i \in 1..m /\ i \in 0..m /\ i - 1 \in 0..m BY <3>2
      <4>2. g[i] = g[i - 1] + d[i] BY <2>1, <4>1 DEF Totals
      <4> QED BY <2>5, <4>1, <4>2
    <3> QED BY <3>1, <3>2
  <2>8. more[0] = base BY <2>1 DEF Totals
  <2> HIDE DEF more
  <2> QED BY <2>4, <2>7, <2>8 DEF Totals
<1> HIDE DEF P
<1>3. n \in P BY <1>1, <1>2, CountUp
<1> QED BY <1>3 DEF P

\* A neighbourhood has one of the two degrees, and its numbers of neighbours are whole.
LEMMA TypeFacts ==
    ASSUME NEW t \in LocalTypes
    PROVE  /\ t.center \in Degrees /\ t.high \in 0..V1_D /\ t.low \in 0..V1_D
           /\ t.high + t.low = t.center
           /\ t.center \in Nat
           /\ t = [center |-> t.center, high |-> t.high, low |-> t.low]
<1>1. t \in [center : Degrees, high : 0..V1_D, low : 0..V1_D] /\ t.high + t.low = t.center
  BY DEF LocalTypes
<1> QED BY <1>1, DegreeType DEF Degrees

\* What a rule changes is a whole amount.
LEMMA ChangeType ==
    ASSUME NEW t \in LocalTypes, NEW r \in Rules
    PROVE  Received(t, r) - Sent(t, r) \in Int
<1>1. t.center \in Nat /\ t.high \in Nat /\ t.low \in Nat BY TypeFacts, DegreeType
<1>2. r.amount \in Int BY DEF Rules
<1>3. Senders(t, r) \in Nat BY <1>1 DEF Senders
<1>4. Matching(t, r.to) \in Nat BY <1>1 DEF Matching
<1>5. Received(t, r) \in Int
  <2>1. r.amount * Senders(t, r) \in Int BY <1>2, <1>3
  <2> QED BY <2>1 DEF Received
<1>6. Sent(t, r) \in Int
  <2>1. r.amount * Matching(t, r.to) \in Int BY <1>2, <1>4
  <2> QED BY <2>1 DEF Sent
<1> QED BY <1>5, <1>6

\* The final charge is where the running total of the changes ends.
LEMMA ChargeIsTotal ==
    ASSUME NEW arg, IsArgument(arg), Degrees \subseteq DOMAIN arg.mu, NEW t \in LocalTypes
    PROVE  \E g : /\ Totals(g, arg.mu[t.center],
                            [i \in 1..Len(arg.rules) |->
                               Received(t, arg.rules[i]) - Sent(t, arg.rules[i])],
                            Len(arg.rules))
                  /\ FinalCharge(t, arg) = g[Len(arg.rules)]
<1> DEFINE n == Len(arg.rules)
           d == [i \in 1..n |-> Received(t, arg.rules[i]) - Sent(t, arg.rules[i])]
           base == arg.mu[t.center]
           Row(f, i) == IF i = 0 THEN base
                        ELSE f[i - 1] + (Received(t, arg.rules[i]) - Sent(t, arg.rules[i]))
           charge == CHOOSE f : f = [i \in 0..n |-> Row(f, i)]
<1>1. n \in Nat /\ \A i \in 1..n : arg.rules[i] \in Rules BY DEF IsArgument
<1>2. base \in Int BY TypeFacts DEF IsArgument
<1>3. d \in [1..n -> Int] BY <1>1, ChangeType
<1>4. FinalCharge(t, arg) = charge[n] BY DEF FinalCharge
<1> HIDE DEF n, base
<1>5. \A i \in 1..n : d[i] = Received(t, arg.rules[i]) - Sent(t, arg.rules[i]) OBVIOUS
<1>6. PICK g : Totals(g, base, d, n)
  <2> HIDE DEF d
  <2> QED BY <1>1, <1>2, <1>3, TotalsExist
<1>7. g = [i \in 0..n |-> Row(g, i)]
  <2> HIDE DEF d
  <2>1. \A i \in 0..n : g[i] = Row(g, i)
    <3> SUFFICES ASSUME NEW i \in 0..n PROVE g[i] = Row(g, i) OBVIOUS
    <3>1. CASE i = 0 BY <1>6, <3>1 DEF Totals
    <3>2. CASE i # 0
      <4>1. i \in 1..n BY <1>1, <3>2
      <4> QED BY <1>5, <1>6, <3>2, <4>1 DEF Totals
    <3> QED BY <3>1, <3>2
  <2>2. g = [i \in 0..n |-> g[i]] BY <1>6 DEF Totals
  <2> HIDE DEF Row
  <2> QED BY <2>1, <2>2
<1>8. charge = [i \in 0..n |-> Row(charge, i)] BY <1>7
<1> HIDE DEF charge
<1>9. charge[0] = base /\ \A i \in 1..n : charge[i] = charge[i - 1] + d[i]
  <2>1. charge[0] = base BY <1>1, <1>8
  <2>2. ASSUME NEW i \in 1..n PROVE charge[i] = charge[i - 1] + d[i]
    <3>1. i \in 0..n /\ i # 0 BY <1>1
    <3>2. charge[i] = Row(charge, i)
      <4> HIDE DEF Row
      <4> QED BY <1>8, <3>1
    <3> QED BY <1>5, <3>1, <3>2
  <2> QED BY <2>1, <2>2
<1> DEFINE Q == {m \in Nat : m <= n => charge[m] = g[m]}
<1> HIDE DEF d
<1>10. 0 \in Q BY <1>6, <1>9 DEF Totals
<1>11. ASSUME NEW m \in Nat, m \in Q PROVE m + 1 \in Q
  <2> SUFFICES ASSUME m + 1 <= n PROVE charge[m + 1] = g[m + 1] OBVIOUS
  <2>1. m + 1 \in 1..n /\ (m + 1) - 1 = m /\ charge[m] = g[m] BY <1>1, <1>11
  <2> QED BY <1>6, <1>9, <2>1 DEF Totals
<1> HIDE DEF Q
<1>12. n \in Q BY <1>1, <1>10, <1>11, CountUp
<1>13. charge[n] = g[n] BY <1>1, <1>12 DEF Q
<1> QED BY <1>4, <1>6, <1>13 DEF n, base, d

\* It is a whole charge.
LEMMA ChargeType ==
    ASSUME NEW arg, IsArgument(arg), Degrees \subseteq DOMAIN arg.mu, NEW t \in LocalTypes
    PROVE  FinalCharge(t, arg) \in Int
<1> DEFINE n == Len(arg.rules)
           d == [i \in 1..n |-> Received(t, arg.rules[i]) - Sent(t, arg.rules[i])]
           base == arg.mu[t.center]
<1>1. PICK g : Totals(g, base, d, n) /\ FinalCharge(t, arg) = g[n] BY ChargeIsTotal
<1>2. n \in Nat BY DEF IsArgument
<1> HIDE DEF n, d, base
<1> QED BY <1>1, <1>2 DEF Totals

-----------------------------------------------------------------------------
(***************************************************************************)
(* The survivors                                                           *)
(***************************************************************************)
\* The larger of two numbers.
LEMMA MaxOfTwo ==
    ASSUME NEW a \in Int, NEW b \in Int
    PROVE  Max({a, b}) = IF a >= b THEN a ELSE b
<1> DEFINE m == IF a >= b THEN a ELSE b
           M == CHOOSE x \in {a, b} : \A y \in {a, b} : x >= y
<1>1. m \in {a, b} /\ \A y \in {a, b} : m >= y OBVIOUS
<1>2. M \in {a, b} /\ \A y \in {a, b} : M >= y BY <1>1
<1>3. M = m BY <1>1, <1>2
<1> QED BY <1>3 DEF Max

\* What an argument that is not refused is known to be.
Sound(arg) ==
    /\ IsArgument(arg) /\ Degrees \subseteq DOMAIN arg.mu
    /\ \A i \in 1..Len(arg.rules) :
         arg.rules[i].to \in Patterns /\ arg.rules[i].from \in Degrees

\* The verifier refuses every other.
LEMMA UnrefusedIsSound ==
    ASSUME NEW arg, NEW reducible, IsArgument(arg), Refusal(arg, reducible) = "none"
    PROVE  Sound(arg)
<1> DEFINE bad == {i \in DOMAIN arg.rules : RuleRefusal(arg.rules[i], arg.mu) # "none"}
<1>1. arg.rules \in Seq(Rules) /\ DOMAIN arg.rules = 1..Len(arg.rules) BY DEF IsArgument
<1>2. Refusal(arg, reducible) =
        IF Len(arg.forbidden) > MAX_FORBIDDEN THEN "too many"
        ELSE IF ~(ToSet(arg.forbidden) \subseteq reducible) THEN "coupling"
        ELSE IF bad # {} THEN RuleRefusal(arg.rules[Min(bad)], arg.mu)
        ELSE IF ~(Degrees \subseteq DOMAIN arg.mu) THEN "mu" ELSE "none"
  BY DEF Refusal
<1>3. bad = {}
  <2> SUFFICES ASSUME bad # {} PROVE FALSE OBVIOUS
  <2>1. Min(bad) \in bad
    <3>1. bad \subseteq Nat BY <1>1
    <3> HIDE DEF bad
    <3>2. PICK x \in bad : \A y \in bad : x <= y BY <3>1, LeastNumber
    <3>3. Min(bad) = CHOOSE y \in bad : \A z \in bad : y <= z BY DEF Min
    <3> QED BY <3>2, <3>3
  <2>2. RuleRefusal(arg.rules[Min(bad)], arg.mu) # "none" BY <2>1
  <2> HIDE DEF bad
  <2> QED BY <1>2, <2>2
<1>4. Degrees \subseteq DOMAIN arg.mu
  <2> HIDE DEF bad
  <2> QED BY <1>2, <1>3
<1>5. ASSUME NEW i \in 1..Len(arg.rules)
      PROVE  arg.rules[i].to \in Patterns /\ arg.rules[i].from \in Degrees
  <2>1. RuleRefusal(arg.rules[i], arg.mu) = "none" BY <1>1, <1>3
  <2> QED BY <2>1 DEF RuleRefusal
<1> QED BY <1>4, <1>5 DEF Sound

\* What survives is a residual of a type, with a whole deficit; two of one type are the same.
LEMMA SurvivorFacts ==
    ASSUME NEW arg, Sound(arg), NEW s \in Surviving(arg)
    PROVE  /\ s.type \in LocalTypes /\ s = Residual(s.type, arg)
           /\ s.deficit \in Nat /\ s.deficit > 0
           /\ \A c \in ToSet(arg.forbidden) : ~Forced(Graph[c], s.type)
<1>1. PICK t \in LocalTypes : s = Residual(t, arg) BY DEF Surviving
<1>2. s.type = t /\ s.deficit = Deficit(FinalCharge(t, arg), IntendedSign(arg.mu))
  BY <1>1 DEF Residual
<1>3. FinalCharge(t, arg) \in Int BY ChargeType DEF Sound
<1>4. Deficit(FinalCharge(t, arg), IntendedSign(arg.mu)) \in Nat
  <2> DEFINE q == FinalCharge(t, arg)
  <2>1. q \in Int /\ -q \in Int BY <1>3
  <2> HIDE DEF q
  <2>2. Max({0, q}) \in Nat /\ Max({0, -q}) \in Nat BY <2>1, MaxOfTwo
  <2> QED BY <2>2 DEF Deficit, q
<1> QED BY <1>1, <1>2, <1>4 DEF Surviving

\* There are finitely many types, so finitely many survivors.
LEMMA FinitelyManySurvive == ASSUME NEW arg, Sound(arg) PROVE IsFiniteSet(Surviving(arg))
<1> DEFINE pairs == Degrees \X (0..V1_D)
           key == [s \in Surviving(arg) |-> <<s.type.center, s.type.high>>]
<1>1. IsFiniteSet(pairs)
  <2>1. IsFiniteSet(0..V1_D) BY FS_Interval, DegreeType
  <2>2. Degrees = (V1_D - 1)..V1_D BY DegreeType DEF Degrees
  <2>3. V1_D - 1 \in Int /\ V1_D \in Int BY DegreeType
  <2>4. IsFiniteSet(Degrees) BY <2>2, <2>3, FS_Interval
  <2> QED BY <2>1, <2>4, FS_Product
<1>2. key \in [Surviving(arg) -> pairs]
  <2>1. ASSUME NEW s \in Surviving(arg) PROVE <<s.type.center, s.type.high>> \in pairs
    <3>1. s.type \in LocalTypes BY SurvivorFacts
    <3> QED BY <3>1, TypeFacts
  <2> QED BY <2>1
<1>3. ASSUME NEW s \in Surviving(arg), NEW o \in Surviving(arg), key[s] = key[o] PROVE s = o
  <2>1. s.type \in LocalTypes /\ o.type \in LocalTypes BY SurvivorFacts
  <2>2. s.type.center = o.type.center /\ s.type.high = o.type.high BY <1>3
  <2>3. s.type = o.type BY <2>1, <2>2, TypeFacts, DegreeType DEF Degrees
  <2> QED BY <2>3, SurvivorFacts
<1> HIDE DEF key, pairs
<1>4. key \in Injection(Surviving(arg), pairs) BY <1>2, <1>3, Fun_IsInj
<1> QED BY <1>1, <1>4, FS_Injection

\* The ranked survivors are the surviving residuals, each once.
LEMMA SurvivorsListed ==
    ASSUME NEW arg, Sound(arg)
    PROVE  /\ Survivors(arg) \in Seq(Surviving(arg))
           /\ Len(Survivors(arg)) = Cardinality(Surviving(arg))
           /\ Survivors(arg) = <<>> => Surviving(arg) = {}
<1> DEFINE all == Surviving(arg)
           rank == [s \in all |-> ResidualRank(s)]
           before == [s \in all |-> {o \in all : LexLess(rank[o], rank[s])}]
           listed == [s \in all |-> {o \in all : LexLess(ResidualRank(o), ResidualRank(s))}]
<1>1. \A s \in all : ResidualRank(s) \in [1..3 -> Int]
  <2> SUFFICES ASSUME NEW s \in all PROVE ResidualRank(s) \in [1..3 -> Int] OBVIOUS
  <2>1. s.type \in LocalTypes /\ s.deficit \in Int BY SurvivorFacts
  <2>2. s.type.center \in Int /\ s.type.high \in Int BY <2>1, TypeFacts, DegreeType
  <2> QED BY <2>1, <2>2 DEF ResidualRank
<1>2. rank \in [all -> [1..3 -> Int]] BY <1>1
<1>3. IsInjective(rank)
  <2> SUFFICES ASSUME NEW s \in all, NEW o \in all, ResidualRank(s) = ResidualRank(o)
               PROVE  s = o
    BY DEF IsInjective
  <2>1. s.type \in LocalTypes /\ o.type \in LocalTypes BY SurvivorFacts
  <2>2. s.type.center = o.type.center /\ s.type.high = o.type.high BY DEF ResidualRank
  <2>3. s.type = o.type BY <2>1, <2>2, TypeFacts, DegreeType DEF Degrees
  <2> QED BY <2>3, SurvivorFacts
<1>4. before = listed OBVIOUS
<1>5. Survivors(arg) = InOrder(all, listed) BY DEF Survivors
<1>6. IsFiniteSet(all) BY FinitelyManySurvive
<1> HIDE DEF all, rank
<1>7. Orders(before, all) BY <1>2, <1>3, RanksOrder
<1> HIDE DEF before, listed
<1>8. /\ Survivors(arg) \in Seq(all) /\ Len(Survivors(arg)) = Cardinality(all)
  BY <1>4, <1>5, <1>6, <1>7, ListsMembers
<1>9. Survivors(arg) = <<>> => all = {}
  <2>1. Survivors(arg) = <<>> => Cardinality(all) = 0 BY <1>8
  <2> QED BY <1>6, <2>1, FS_EmptySet
<1> QED BY <1>8, <1>9 DEF all

\* The neighbourhood in which all have full degree is one of the types, and each rule gives
\* its centre as much as it takes.
LEMMA RegularKeepsCharge ==
    ASSUME NEW arg, Sound(arg)
    PROVE  RegularType \in LocalTypes /\ FinalCharge(RegularType, arg) = arg.mu[V1_D]
<1> DEFINE t == RegularType
           n == Len(arg.rules)
           d == [i \in 1..n |-> Received(t, arg.rules[i]) - Sent(t, arg.rules[i])]
<1>1. t.center = V1_D /\ t.high = V1_D /\ t.low = 0 /\ V1_D \in Nat /\ V1_D # V1_D - 1
  BY DegreeType DEF RegularType
<1>2. t \in LocalTypes BY DegreeType DEF RegularType, LocalTypes, Degrees
<1>3. n \in Nat /\ arg.rules \in Seq(Rules) BY DEF Sound, IsArgument
<1>4. ASSUME NEW i \in 1..n PROVE Received(t, arg.rules[i]) - Sent(t, arg.rules[i]) = 0
  <2> DEFINE r == arg.rules[i]
  <2>1. r.to \in Patterns /\ r.from \in Degrees /\ r.amount \in Int
    <3>1. r \in Rules BY <1>3
    <3>2. r.amount \in Int BY <3>1 DEF Rules
    <3>3. r.to \in Patterns /\ r.from \in Degrees BY DEF Sound
    <3> QED BY <3>2, <3>3
  <2> HIDE DEF t, r
  <2>2. CASE r.from = V1_D - 1
    <3>1. Senders(t, r) = 0 /\ Sent(t, r) = 0 BY <1>1, <2>2 DEF Senders, Sent
    <3>2. r.amount * 0 = 0 BY <2>1
    <3>3. Received(t, r) = 0 BY <3>1, <3>2 DEF Received
    <3> QED BY <3>1, <3>3 DEF r
  <2>3. CASE r.from = V1_D
    <3>1. Senders(t, r) = V1_D BY <1>1, <2>3 DEF Senders
    <3>2. Sent(t, r) = r.amount * Matching(t, r.to) BY <1>1, <2>3 DEF Sent
    <3>3. CASE r.to = "low"
      <4>1. Matching(t, r.to) = 0 BY <1>1, <3>3 DEF Matching
      <4>2. ~MatchesDegree(r.to, t.center) BY <1>1, <3>3 DEF MatchesDegree
      <4>3. Received(t, r) = 0 BY <4>2 DEF Received
      <4>4. Sent(t, r) = 0 BY <2>1, <3>2, <4>1
      <4> QED BY <4>3, <4>4 DEF r
    <3>4. CASE r.to \in {"high", "any"}
      <4>1. Matching(t, r.to) = V1_D BY <1>1, <3>4 DEF Matching
      <4>2. MatchesDegree(r.to, t.center) BY <1>1, <3>4 DEF MatchesDegree
      <4>3. Received(t, r) = r.amount * V1_D BY <3>1, <4>2 DEF Received
      <4>4. Sent(t, r) = r.amount * V1_D BY <3>2, <4>1
      <4>5. r.amount * V1_D \in Int BY <1>1, <2>1
      <4> QED BY <4>3, <4>4, <4>5 DEF r
    <3> QED BY <2>1, <3>3, <3>4 DEF Patterns
  <2> QED BY <2>1, <2>2, <2>3 DEF Degrees
<1>5. V1_D \in Degrees /\ arg.mu[V1_D] \in Int BY DEF Degrees, Sound, IsArgument
<1>6. PICK g : Totals(g, arg.mu[t.center], d, n) /\ FinalCharge(t, arg) = g[n]
  BY <1>2, ChargeIsTotal DEF Sound
<1>7. \A i \in 1..n : d[i] = 0 BY <1>4
<1>8. Totals(g, arg.mu[V1_D], d, n) BY <1>1, <1>6
<1> HIDE DEF d, n, t
<1> DEFINE P == {m \in Nat : m <= n => g[m] = arg.mu[V1_D]}
<1>9. 0 \in P BY <1>8 DEF Totals
<1>10. ASSUME NEW m \in Nat, m \in P PROVE m + 1 \in P
  <2> SUFFICES ASSUME m + 1 <= n PROVE g[m + 1] = arg.mu[V1_D] OBVIOUS
  <2>1. m + 1 \in 1..n /\ (m + 1) - 1 = m /\ g[m] = arg.mu[V1_D] BY <1>3, <1>10
  <2>2. g[m + 1] = g[(m + 1) - 1] + d[m + 1] BY <1>8, <2>1 DEF Totals
  <2> QED BY <1>5, <1>7, <2>1, <2>2
<1> HIDE DEF P
<1>11. n \in P BY <1>3, <1>9, <1>10, CountUp
<1>12. g[n] = arg.mu[V1_D] BY <1>3, <1>11 DEF P
<1> QED BY <1>2, <1>6, <1>12 DEF t

\* So it survives every argument whose global sign is forced, but for a core it contains.
LEMMA HitCoversRegular ==
    ASSUME NEW arg, NEW reducible, IsArgument(arg),
           VerifyUnavoidable(arg, reducible).kind = "hit"
    PROVE  \E c \in ToSet(arg.forbidden) : Forced(Graph[c], RegularType)
<1> DEFINE refusal == Refusal(arg, reducible)
           forced == GlobalSign(arg.mu) # 0
           ranked == Survivors(arg)
           high == arg.mu[V1_D]
<1>1. VerifyUnavoidable(arg, reducible) =
        IF refusal # "none" THEN Result("refused", refusal, FALSE, <<>>)
        ELSE Result(IF forced /\ ranked = <<>> THEN "hit" ELSE "miss", refusal, forced, ranked)
  BY DEF VerifyUnavoidable
<1>2. refusal = "none" /\ forced /\ ranked = <<>>
  <2> HIDE DEF refusal, forced, ranked
  <2>1. refusal = "none" BY <1>1 DEF Result
  <2>2. forced /\ ranked = <<>> BY <1>1, <2>1 DEF Result
  <2> QED BY <2>1, <2>2
<1>3. Sound(arg) BY <1>2, UnrefusedIsSound
<1>4. Surviving(arg) = {} BY <1>2, <1>3, SurvivorsListed
<1>5. high \in Int BY <1>3 DEF Sound, IsArgument, Degrees
<1>6. high # 0 /\ IntendedSign(arg.mu) = Sign(high)
  <2>1. Sign(high) # 0 BY <1>2 DEF GlobalSign
  <2>2. high # 0 BY <2>1, <1>5 DEF Sign
  <2> QED BY <2>2 DEF IntendedSign
<1>7. RegularType \in LocalTypes /\ FinalCharge(RegularType, arg) = high
  BY <1>3, RegularKeepsCharge
<1> DEFINE s == Residual(RegularType, arg)
<1>8. s.type = RegularType /\ s.deficit = Deficit(high, Sign(high))
  BY <1>6, <1>7 DEF Residual
<1> HIDE DEF high
<1>9. Sign(high) # 0 /\ Deficit(high, Sign(high)) > 0
  <2>1. -high \in Int BY <1>5
  <2>2. CASE high > 0
    <3>1. Sign(high) = 1 /\ Max({0, high}) = high BY <1>5, <2>2, MaxOfTwo DEF Sign
    <3> QED BY <2>2, <3>1 DEF Deficit
  <2>3. CASE high < 0
    <3>1. Sign(high) = -1 BY <1>5, <2>3 DEF Sign
    <3>2. Max({0, -high}) = -high BY <1>5, <2>1, <2>3, MaxOfTwo
    <3> QED BY <1>5, <2>3, <3>1, <3>2 DEF Deficit
  <2> QED BY <1>5, <1>6, <2>2, <2>3
<1> HIDE DEF s
<1>10. s \notin Surviving(arg) BY <1>4
<1>11. s \in {Residual(t, arg) : t \in LocalTypes} BY <1>7 DEF s
<1>12. ~(\A c \in ToSet(arg.forbidden) : ~Forced(Graph[c], s.type))
  BY <1>6, <1>8, <1>9, <1>10, <1>11 DEF Surviving
<1> QED BY <1>8, <1>12

-----------------------------------------------------------------------------
(***************************************************************************)
(* The cores of an argument                                                *)
(***************************************************************************)
\* A list of cores, none of them twice.
IsCoreList(cores) == cores \in Seq(Cores) /\ IsInjective(cores)

\* The elements of a sequence.
LEMMA Elements ==
    ASSUME NEW T, NEW seq \in Seq(T)
    PROVE  /\ ToSet(seq) \subseteq T /\ DOMAIN seq = 1..Len(seq) /\ Len(seq) \in Nat
           /\ \A x : x \in ToSet(seq) <=> \E i \in 1..Len(seq) : seq[i] = x
           /\ \A i \in DOMAIN seq : seq[i] \in T
BY DEF ToSet

\* A set of cores is listed without repetition.
LEMMA ListedFacts ==
    ASSUME NEW S
    PROVE  IsCoreList(Listed(S)) /\ ToSet(Listed(S)) \subseteq S
<1> DEFINE at == {i \in DOMAIN Graph6 : Graph6[i] \in S}
           places == Ascending(at)
           cores == [k \in DOMAIN places |-> Graph6[places[k]]]
<1>1. Graph6 \in Seq(Cores) /\ DOMAIN Graph6 = 1..Len(Graph6) /\ Len(Graph6) \in Nat
  BY Graph6Type
<1>2. IsFiniteSet(at) /\ at \subseteq Int
  <2>1. IsFiniteSet(1..Len(Graph6)) BY <1>1, FS_Interval
  <2>2. at \in SUBSET (1..Len(Graph6)) BY <1>1
  <2> HIDE DEF at
  <2>3. IsFiniteSet(at) BY <2>1, <2>2, FS_Subset
  <2>4. 1..Len(Graph6) \subseteq Int OBVIOUS
  <2> QED BY <2>2, <2>3, <2>4
<1>3. \A i \in at : Graph6[i] \in Cores \cap S BY <1>1
<1>4. ASSUME NEW i \in at, NEW j \in at, Graph6[i] = Graph6[j] PROVE i = j
  <2>1. i \in DOMAIN Graph6 /\ j \in DOMAIN Graph6 OBVIOUS
  <2>2. IsInjective(Graph6) BY Graph6Type
  <2> HIDE DEF at
  <2> QED BY <1>4, <2>1, <2>2 DEF IsInjective
<1>5. Listed(S) = cores BY DEF Listed
<1> HIDE DEF at
<1>6. /\ places \in Seq(at) /\ Len(places) = Cardinality(at)
      /\ DOMAIN places = 1..Len(places) /\ IsInjective(places)
  BY <1>2, NumbersAscend
<1> HIDE DEF places
<1>7. Len(places) \in Nat /\ \A k \in 1..Len(places) : places[k] \in at BY <1>6
<1>8. cores \in [1..Len(places) -> Cores \cap S] BY <1>3, <1>6, <1>7
<1>9. cores \in Seq(Cores \cap S) BY <1>7, <1>8
<1>10. IsInjective(cores)
  <2> SUFFICES ASSUME NEW k \in 1..Len(places), NEW l \in 1..Len(places), cores[k] = cores[l]
               PROVE  k = l
    BY <1>8 DEF IsInjective
  <2>1. places[k] = places[l] BY <1>4, <1>6, <1>7
  <2> QED BY <1>6, <2>1 DEF IsInjective
<1> HIDE DEF cores
<1>11. cores \in Seq(Cores) BY <1>9
<1>12. ToSet(cores) \subseteq S BY <1>9, Elements
<1> QED BY <1>5, <1>10, <1>11, <1>12 DEF IsCoreList

\* There are finitely many covers of a type, each with a rank of its own.
LEMMA CoversRanked ==
    ASSUME NEW t, NEW minted, NEW hits \in SUBSET CoversForType(t, minted),
           NEW before,
           before = [h \in hits |-> {o \in hits : LexLess(Rank(o, minted), Rank(h, minted))}]
    PROVE  IsFiniteSet(hits) /\ Orders(before, hits)
<1> DEFINE pairs == {0, 1} \X (1..(Len(Graph6) + Len(Catalog)))
           key == [h \in hits |-> <<h.from, h.index>>]
           rank == [h \in hits |-> Rank(h, minted)]
<1> DEFINE ledger(i) == [core |-> Graph6[i], proof |-> TRUE, from |-> 0, index |-> i]
           listed(i) == [core |-> Catalog[i].core, proof |-> Catalog[i].proof,
                         from |-> 1, index |-> i]
<1>1. /\ Len(Graph6) \in Nat /\ DOMAIN Graph6 = 1..Len(Graph6)
      /\ Len(Catalog) \in Nat /\ DOMAIN Catalog = 1..Len(Catalog)
      /\ \A i \in DOMAIN Graph6 : Graph6[i] \in Cores
      /\ \A i \in DOMAIN Catalog : Catalog[i].core \in Cores
  <2>1. Graph6 \in Seq(Cores) BY Graph6Type
  <2>2. Catalog \in Seq([core : Cores, proof : BOOLEAN]) BY CatalogType
  <2>3. ASSUME NEW i \in DOMAIN Catalog PROVE Catalog[i].core \in Cores
    <3>1. Catalog[i] \in [core : Cores, proof : BOOLEAN] BY <2>2, Elements
    <3> QED BY <3>1
  <2> QED BY <2>1, <2>2, <2>3
<1>2. ASSUME NEW h \in hits
      PROVE  \/ /\ h.from = 0 /\ h.index \in 1..Len(Graph6) /\ h.core \in Cores
                /\ h = ledger(h.index)
             \/ /\ h.from = 1 /\ h.index \in 1..Len(Catalog) /\ h.core \in Cores
                /\ h = listed(h.index)
  <2>1. h \in Entries(minted) BY DEF CoversForType
  <2>2. CASE h \in {[core |-> Graph6[i], proof |-> TRUE, from |-> 0, index |-> i] :
                       i \in {j \in DOMAIN Graph6 : Graph6[j] \in minted}}
    BY <1>1, <2>2
  <2>3. CASE h \in {[core |-> Catalog[i].core, proof |-> Catalog[i].proof, from |-> 1,
                     index |-> i] : i \in DOMAIN Catalog}
    BY <1>1, <2>3
  <2> QED BY <2>1, <2>2, <2>3 DEF Entries
<1> HIDE DEF ledger, listed
<1>3. ASSUME NEW h \in hits
      PROVE  <<h.from, h.index>> \in pairs /\ Rank(h, minted) \in [1..5 -> Int]
  <2>1. h.from \in {0, 1} /\ h.index \in 1..(Len(Graph6) + Len(Catalog)) /\ h.core \in Cores
    BY <1>1, <1>2
  <2>2. Graph[h.core].n \in Int BY <2>1, GraphType
  <2>3. h.from \in Int /\ h.index \in Int BY <1>1, <2>1
  <2> QED BY <2>1, <2>2, <2>3 DEF Rank
<1>4. ASSUME NEW h \in hits, NEW o \in hits, h.from = o.from, h.index = o.index PROVE h = o
  <2>1. \/ h.from = 0 /\ h = ledger(h.index)
        \/ h.from = 1 /\ h = listed(h.index)
    BY <1>2
  <2>2. \/ o.from = 0 /\ o = ledger(o.index)
        \/ o.from = 1 /\ o = listed(o.index)
    BY <1>2
  <2> QED BY <1>4, <2>1, <2>2
<1>5. IsFiniteSet(hits)
  <2>1. IsFiniteSet(pairs)
    <3>1. IsFiniteSet({0, 1})
      <4>1. IsFiniteSet({0}) /\ IsFiniteSet({1}) BY FS_Singleton
      <4>2. {0, 1} = {0} \cup {1} OBVIOUS
      <4>3. IsFiniteSet({0} \cup {1}) BY <4>1, FS_Union
      <4> QED BY <4>2, <4>3
    <3>2. IsFiniteSet(1..(Len(Graph6) + Len(Catalog))) BY <1>1, FS_Interval
    <3> QED BY <3>1, <3>2, FS_Product
  <2>2. key \in [hits -> pairs]
    <3> HIDE DEF pairs
    <3> QED BY <1>3
  <2>3. \A h, o \in hits : key[h] = key[o] => h = o BY <1>4
  <2> HIDE DEF key, pairs
  <2>4. key \in Injection(hits, pairs) BY <2>2, <2>3, Fun_IsInj
  <2> QED BY <2>1, <2>4, FS_Injection
<1>6. rank \in [hits -> [1..5 -> Int]] BY <1>3
<1>7. IsInjective(rank)
  <2> SUFFICES ASSUME NEW h \in hits, NEW o \in hits, Rank(h, minted) = Rank(o, minted)
               PROVE  h = o
    BY DEF IsInjective
  <2>1. h.from = o.from /\ h.index = o.index BY DEF Rank
  <2> QED BY <1>4, <2>1
<1>8. before = [h \in hits |-> {o \in hits : LexLess(rank[o], rank[h])}] OBVIOUS
<1> HIDE DEF rank
<1>9. Orders(before, hits)
  <2> DEFINE k == 5
  <2>1. k \in Nat /\ rank \in [hits -> [1..k -> Int]] BY <1>6
  <2> HIDE DEF k
  <2> QED BY <1>7, <1>8, <2>1, RanksOrder
<1> QED BY <1>5, <1>9

\* The cover of a type is a core that the type is taken to contain, and minted when asked to be.
LEMMA CoverFacts ==
    ASSUME NEW t, NEW minted, NEW mintedOnly, NEW c, c = CoverType(t, minted, mintedOnly), c # None
    PROVE  /\ c \in Cores /\ Forced(Graph[c], t)
           /\ mintedOnly => c \in minted
<1> DEFINE hits == {e \in CoversForType(t, minted) : mintedOnly => e.core \in minted}
           before == [h \in hits |-> {o \in hits : LexLess(Rank(o, minted), Rank(h, minted))}]
           seq == InOrder(hits, before)
<1>1. hits # {} /\ c = seq[1].core BY DEF CoverType
<1>2. \A h \in hits : Forced(Graph[h.core], t) /\ h.core \in Cores /\ (mintedOnly => h.core \in minted)
  <2> SUFFICES ASSUME NEW h \in hits
               PROVE  h.core \in Cores
    BY DEF CoversForType
  <2>1. h \in Entries(minted) BY DEF CoversForType
  <2>2. CASE h \in {[core |-> Graph6[i], proof |-> TRUE, from |-> 0, index |-> i] :
                       i \in {j \in DOMAIN Graph6 : Graph6[j] \in minted}}
    BY <2>2, Graph6Type
  <2>3. CASE h \in {[core |-> Catalog[i].core, proof |-> Catalog[i].proof, from |-> 1,
                     index |-> i] : i \in DOMAIN Catalog}
    <3>1. PICK i \in DOMAIN Catalog : h.core = Catalog[i].core BY <2>3
    <3>2. Catalog[i] \in [core : Cores, proof : BOOLEAN] BY CatalogType, Elements
    <3> QED BY <3>1, <3>2
  <2> QED BY <2>1, <2>2, <2>3 DEF Entries
<1>3. hits \in SUBSET CoversForType(t, minted) OBVIOUS
<1> HIDE DEF hits
<1>4. IsFiniteSet(hits) /\ Orders(before, hits) BY <1>3, CoversRanked
<1> HIDE DEF before
<1>5. seq \in Seq(hits) /\ Len(seq) = Cardinality(hits) BY <1>4, ListsMembers
<1>6. Len(seq) \in Nat /\ Len(seq) # 0 BY <1>1, <1>4, <1>5, FS_EmptySet, FS_CardinalityType
<1> HIDE DEF seq
<1>7. seq[1] \in hits BY <1>5, <1>6
<1> QED BY <1>1, <1>2, <1>7

\* Covers are added behind the cores that are there, each once; when one is added, some
\* survivor is of a type that contains it.
LEMMA AddCoversFacts ==
    ASSUME NEW T, NEW ranked \in Seq(T), NEW forbidden, IsCoreList(forbidden),
           NEW unminted, unminted \subseteq Cores, NEW minted,
           NEW covers, covers = AddCovers(ranked, forbidden, unminted, minted)
    PROVE  /\ IsCoreList(covers.forbidden) /\ covers.unminted \subseteq Cores
           /\ ToSet(forbidden) \subseteq ToSet(covers.forbidden)
           /\ covers.forbidden # forbidden
                => \E i \in DOMAIN ranked : \E c \in ToSet(covers.forbidden) :
                     Forced(Graph[c], ranked[i].type)
<1> DEFINE new == Uncovered(ranked, forbidden, minted)
           cover(i) == CoverType(ranked[i].type, minted, TRUE)
           hint(i) == CoverType(ranked[i].type, minted, FALSE)
           room == MAX_FORBIDDEN - Cardinality(ToSet(forbidden))
           reached == {i \in DOMAIN ranked : Cardinality({j \in new : j < i}) < room}
           at == new \cap reached
           added == Ascending(at)
           behind == [k \in DOMAIN added |-> cover(added[k])]
           n == Len(forbidden)
           m == Len(added)
<1>1. /\ covers.forbidden = forbidden \o behind
      /\ covers.unminted = unminted \cup ({hint(i) : i \in reached \ new} \ (minted \cup {None}))
  BY DEF AddCovers
<1>2. covers.unminted \subseteq Cores
  <2> HIDE DEF reached, new
  <2> SUFFICES ASSUME NEW i \in reached \ new, hint(i) # None PROVE hint(i) \in Cores BY <1>1
  <2>1. PICK h : h = hint(i) OBVIOUS
  <2> HIDE DEF hint
  <2>2. h \in Cores BY <2>1, CoverFacts DEF hint
  <2> QED BY <2>1, <2>2
<1>3. ASSUME NEW i \in at
      PROVE  /\ i \in DOMAIN ranked
             /\ cover(i) \in Cores /\ Forced(Graph[cover(i)], ranked[i].type)
             /\ cover(i) \notin ToSet(forbidden)
             /\ \A j \in 1..(i - 1) : cover(j) # cover(i)
  <2>1. /\ i \in DOMAIN ranked /\ cover(i) \notin ToSet(forbidden) \cup {None}
        /\ \A j \in 1..(i - 1) : cover(j) # cover(i)
    BY DEF Uncovered
  <2>2. PICK c : c = cover(i) OBVIOUS
  <2> HIDE DEF cover, at, new, reached
  <2>3. c # None BY <2>1, <2>2
  <2>4. c \in Cores /\ Forced(Graph[c], ranked[i].type) BY <2>2, <2>3, CoverFacts DEF cover
  <2> QED BY <2>1, <2>2, <2>4
<1>4. DOMAIN ranked = 1..Len(ranked) /\ Len(ranked) \in Nat OBVIOUS
<1> HIDE DEF new, reached
<1>5. IsFiniteSet(at) /\ at \subseteq 1..Len(ranked)
  <2>1. IsFiniteSet(1..Len(ranked)) BY <1>4, FS_Interval
  <2>2. at \in SUBSET (1..Len(ranked)) BY <1>3, <1>4
  <2> HIDE DEF at
  <2> QED BY <2>1, <2>2, FS_Subset
<1> HIDE DEF cover, at
<1>6. added \in Seq(at) /\ DOMAIN added = 1..m /\ m \in Nat /\ IsInjective(added)
  <2>1. at \subseteq Int BY <1>4, <1>5
  <2>2. added = Ascending(at) OBVIOUS
  <2> HIDE DEF added
  <2>3. /\ added \in Seq(at) /\ DOMAIN added = 1..Len(added) /\ IsInjective(added)
    BY <1>5, <2>1, <2>2, NumbersAscend
  <2> QED BY <2>3
<1>7. \A k \in 1..m : added[k] \in at
  <2> HIDE DEF added
  <2> QED BY <1>6 DEF m
<1>8. \A i, j \in at : cover(i) = cover(j) => i = j
  <2> SUFFICES ASSUME NEW i \in at, NEW j \in at, cover(i) = cover(j), i < j PROVE FALSE
    BY <1>4, <1>5
  <2>1. i \in 1..(j - 1) BY <1>4, <1>5
  <2> QED BY <1>3, <2>1
<1> HIDE DEF added, m
<1>9. /\ behind = [k \in 1..m |-> cover(added[k])]
      /\ \A k \in 1..m : behind[k] \in Cores \ ToSet(forbidden)
      /\ \A k, l \in 1..m : behind[k] = behind[l] => k = l
  <2>1. behind = [k \in 1..m |-> cover(added[k])] BY <1>6
  <2>2. \A k \in 1..m : behind[k] \in Cores \ ToSet(forbidden) BY <1>3, <1>7, <2>1
  <2>3. ASSUME NEW k \in 1..m, NEW l \in 1..m, behind[k] = behind[l] PROVE k = l
    <3>1. added[k] = added[l] BY <1>7, <1>8, <2>1, <2>3
    <3> QED BY <1>6, <3>1 DEF IsInjective
  <2> QED BY <2>1, <2>2, <2>3
<1>10. behind \in Seq(Cores) /\ Len(behind) = m
  <2>1. behind \in [1..m -> Cores] BY <1>9
  <2> HIDE DEF behind
  <2> QED BY <1>6, <2>1
<1>11. forbidden \in Seq(Cores) /\ n \in Nat /\ DOMAIN forbidden = 1..n /\ IsInjective(forbidden)
  BY DEF IsCoreList
<1> DEFINE whole == forbidden \o behind
<1> HIDE DEF behind
<1>12. /\ whole \in Seq(Cores) /\ Len(whole) = n + m /\ DOMAIN whole = 1..(n + m)
       /\ \A i \in 1..(n + m) : whole[i] = IF i <= n THEN forbidden[i] ELSE behind[i - n]
  BY <1>6, <1>10, <1>11
<1> HIDE DEF whole, n
<1>13. \A i \in 1..n : forbidden[i] \in ToSet(forbidden) BY <1>11 DEF ToSet
<1>14. IsInjective(whole)
  <2> SUFFICES ASSUME NEW i \in 1..(n + m), NEW j \in 1..(n + m), whole[i] = whole[j]
               PROVE  i = j
    BY <1>12 DEF IsInjective
  <2>1. CASE i <= n /\ j <= n
    <3>1. i \in DOMAIN forbidden /\ j \in DOMAIN forbidden BY <1>11, <2>1
    <3> QED BY <1>11, <1>12, <2>1, <3>1 DEF IsInjective
  <2>2. CASE i <= n /\ ~(j <= n)
    <3>1. i \in 1..n /\ j - n \in 1..m BY <1>6, <1>11, <2>2
    <3> QED BY <1>9, <1>12, <1>13, <2>2, <3>1
  <2>3. CASE ~(i <= n) /\ j <= n
    <3>1. j \in 1..n /\ i - n \in 1..m BY <1>6, <1>11, <2>3
    <3> QED BY <1>9, <1>12, <1>13, <2>3, <3>1
  <2>4. CASE ~(i <= n) /\ ~(j <= n)
    <3>1. i - n \in 1..m /\ j - n \in 1..m BY <1>6, <1>11, <2>4
    <3>2. behind[i - n] = behind[j - n] BY <1>12, <2>4
    <3>3. i - n = j - n BY <1>9, <3>1, <3>2
    <3> QED BY <1>6, <1>11, <3>1, <3>3
  <2> QED BY <2>1, <2>2, <2>3, <2>4
<1>15. ToSet(forbidden) \subseteq ToSet(whole)
  <2> SUFFICES ASSUME NEW i \in 1..n PROVE forbidden[i] \in ToSet(whole) BY <1>11 DEF ToSet
  <2>1. i \in 1..(n + m) /\ whole[i] = forbidden[i] BY <1>6, <1>11, <1>12
  <2> QED BY <1>12, <2>1 DEF ToSet
<1>16. ASSUME whole # forbidden
       PROVE  \E i \in DOMAIN ranked : \E c \in ToSet(whole) : Forced(Graph[c], ranked[i].type)
  <2>1. m # 0
    <3> SUFFICES ASSUME m = 0 PROVE whole = forbidden BY <1>16
    <3>1. \A i \in 1..n : whole[i] = forbidden[i] BY <1>11, <1>12
    <3>2. DOMAIN whole = 1..n /\ DOMAIN forbidden = 1..n BY <1>11, <1>12
    <3>3. whole = [i \in 1..n |-> whole[i]] /\ forbidden = [i \in 1..n |-> forbidden[i]]
      BY <1>11, <1>12, <3>2
    <3> QED BY <3>1, <3>3
  <2>2. 1 \in 1..m /\ n + 1 \in 1..(n + m) /\ ~(n + 1 <= n) /\ (n + 1) - n = 1
    BY <1>6, <1>11, <2>1
  <2>3. whole[n + 1] = cover(added[1]) /\ added[1] \in at BY <1>7, <1>9, <1>12, <2>2
  <2>4. whole[n + 1] \in ToSet(whole) BY <1>12, <2>2 DEF ToSet
  <2> QED BY <1>3, <2>3, <2>4
<1> QED BY <1>1, <1>2, <1>12, <1>14, <1>15, <1>16 DEF whole, IsCoreList

-----------------------------------------------------------------------------
(***************************************************************************)
(* The moves of a search                                                   *)
(***************************************************************************)
\* Every move makes an argument.
LEMMA MovesAreArguments ==
    ASSUME NEW mu, NEW rules, mu \in [DOMAIN mu -> Int], rules \in Seq(Rules),
           NEW m \in MutateArguments(mu, rules)
    PROVE  m.at \in Nat /\ IsArgument(m)
<1> DEFINE low == V1_D - 1
           new == <<NewRule(low, "low"), NewRule(low, "high"),
                    NewRule(V1_D, "low"), NewRule(V1_D, "high")>>
           raised == [rules EXCEPT ![1].amount = @ + 1]
<1>1. \A at, x, rs : Move(at, x, rs).at = at /\ Move(at, x, rs).mu = x /\ Move(at, x, rs).rules = rs
  BY DEF Move
<1>2. ASSUME NEW d, NEW by \in Int
      PROVE  Bump(mu, d, by) \in [DOMAIN Bump(mu, d, by) -> Int]
  <2> DEFINE D == DOMAIN mu
  <2>1. mu \in [D -> Int] OBVIOUS
  <2>2. Bump(mu, d, by) = [mu EXCEPT ![d] = mu[d] + by] BY DEF Bump
  <2> HIDE DEF D
  <2>3. Bump(mu, d, by) \in [D -> Int]
    <3>1. CASE d \in D
      <4>1. mu[d] + by \in Int BY <1>2, <2>1, <3>1
      <4> DEFINE v == mu[d] + by
      <4> HIDE DEF v
      <4>2. [mu EXCEPT ![d] = v] \in [D -> Int] BY <2>1, <4>1 DEF v
      <4> QED BY <2>2, <4>2 DEF v
    <3>2. CASE d \notin D
      <4>1. [mu EXCEPT ![d] = mu[d] + by] = mu BY <2>1, <3>2
      <4> QED BY <2>1, <2>2, <4>1
    <3> QED BY <3>1, <3>2
  <2>4. DOMAIN Bump(mu, d, by) = D BY <2>3
  <2> QED BY <2>3, <2>4
<1>3. 1 \in Int /\ -1 \in Int OBVIOUS
<1>4. \A i \in 1..4 : new[i] \in Rules
  <2>1. low \in Int /\ V1_D \in Int BY DegreeType
  <2> HIDE DEF low
  <2>2. ASSUME NEW d \in Int, NEW to \in Patterns PROVE NewRule(d, to) \in Rules
    BY DEF NewRule, Rules
  <2>3. /\ NewRule(low, "low") \in Rules /\ NewRule(low, "high") \in Rules
        /\ NewRule(V1_D, "low") \in Rules /\ NewRule(V1_D, "high") \in Rules
    BY <2>1, <2>2 DEF Patterns
  <2> QED BY <2>3
<1>5. m \in {Move(1, Bump(mu, low, 1), rules), Move(2, Bump(mu, low, -1), rules),
             Move(3, Bump(mu, V1_D, 1), rules), Move(4, Bump(mu, V1_D, -1), rules)}
            \cup {Move(4 + i, mu, Append(rules, new[i])) : i \in {j \in 1..4 : Lacks(rules, new[j])}}
            \cup IF rules = <<>> THEN {} ELSE {Move(9, mu, raised)}
  BY DEF MutateArguments
<1>6. CASE \E i \in 1..4 : m = Move(4 + i, mu, Append(rules, new[i]))
  <2>1. PICK i \in 1..4 : m = Move(4 + i, mu, Append(rules, new[i])) BY <1>6
  <2>2. new[i] \in Rules BY <1>4
  <2> HIDE DEF new
  <2>3. Append(rules, new[i]) \in Seq(Rules) BY <2>2
  <2>4. m.at = 4 + i /\ m.mu = mu /\ m.rules = Append(rules, new[i]) BY <2>1 DEF Move
  <2> QED BY <2>3, <2>4 DEF IsArgument
<1> HIDE DEF new
<1>7. CASE rules # <<>> /\ m = Move(9, mu, raised)
  <2>1. Len(rules) \in Nat /\ Len(rules) # 0 /\ DOMAIN rules = 1..Len(rules) BY <1>7
  <2>2. rules[1] \in Rules BY <2>1
  <2> DEFINE r == rules[1]
  <2>3. [r EXCEPT !.amount = @ + 1] \in Rules
    <3>1. r = [from |-> r.from, to |-> r.to, amount |-> r.amount, radius |-> r.radius]
          /\ r.from \in Int /\ r.to \in Patterns \cup {"other"} /\ r.amount \in Int /\ r.radius \in Int
      BY <2>2 DEF Rules
    <3> HIDE DEF r
    <3>2. [r EXCEPT !.amount = @ + 1]
            = [from |-> r.from, to |-> r.to, amount |-> r.amount + 1, radius |-> r.radius]
      BY <3>1
    <3> QED BY <3>1, <3>2 DEF Rules
  <2>4. raised = [rules EXCEPT ![1] = [r EXCEPT !.amount = @ + 1]] BY <2>1
  <2> HIDE DEF r
  <2>5. raised \in Seq(Rules) BY <2>1, <2>3, <2>4
  <2> HIDE DEF raised
  <2>6. m.at = 9 /\ m.mu = mu /\ m.rules = raised BY <1>1, <1>7
  <2> QED BY <2>5, <2>6 DEF IsArgument
<1> HIDE DEF raised
<1>8. CASE \E i \in 1..4, d \in {low, V1_D}, by \in {1, -1} : m = Move(i, Bump(mu, d, by), rules)
  <2>1. PICK i \in 1..4, d \in {low, V1_D}, by \in {1, -1} : m = Move(i, Bump(mu, d, by), rules)
    BY <1>8
  <2>2. by \in Int BY <1>3
  <2>3. Bump(mu, d, by) \in [DOMAIN Bump(mu, d, by) -> Int] BY <1>2, <2>2
  <2>4. i \in Nat OBVIOUS
  <2>5. m.at = i /\ m.mu = Bump(mu, d, by) /\ m.rules = rules BY <1>1, <2>1
  <2> QED BY <2>3, <2>4, <2>5 DEF IsArgument
<1> HIDE DEF low
<1> QED BY <1>5, <1>6, <1>7, <1>8

\* There is a first among them.
LEMMA FirstIsMove ==
    ASSUME NEW moves, moves # {}, \A m \in moves : m.at \in Nat
    PROVE  First(moves) \in moves
<1> DEFINE T == {m.at : m \in moves}
<1>1. T \subseteq Nat /\ T # {} OBVIOUS
<1> HIDE DEF T
<1>2. PICK x \in T : \A y \in T : x <= y BY <1>1, LeastNumber
<1>3. PICK m \in moves : m.at = x BY <1>2 DEF T
<1>4. \A o \in moves : m.at <= o.at BY <1>2, <1>3 DEF T
<1> QED BY <1>4 DEF First

\* What a verification ranks are residuals of types.
RanksTypes(ranked) == \E T : ranked \in Seq(T) /\ \A s \in T : s.type \in LocalTypes

LEMMA VerifiedRanks ==
    ASSUME NEW arg, NEW reducible, IsArgument(arg)
    PROVE  RanksTypes(VerifyUnavoidable(arg, reducible).ranked)
<1> DEFINE refusal == Refusal(arg, reducible)
           forced == GlobalSign(arg.mu) # 0
           ranked == Survivors(arg)
<1>1. VerifyUnavoidable(arg, reducible) =
        IF refusal # "none" THEN Result("refused", refusal, FALSE, <<>>)
        ELSE Result(IF forced /\ ranked = <<>> THEN "hit" ELSE "miss", refusal, forced, ranked)
  BY DEF VerifyUnavoidable
<1>2. CASE refusal # "none"
  <2>1. VerifyUnavoidable(arg, reducible).ranked = <<>> BY <1>1, <1>2 DEF Result
  <2>2. PICK T : T = {} OBVIOUS
  <2>3. <<>> \in Seq(T) /\ \A s \in T : s.type \in LocalTypes BY <2>2
  <2>4. RanksTypes(<<>>) BY <2>3 DEF RanksTypes
  <2> QED BY <2>1, <2>4
<1>3. CASE refusal = "none"
  <2>1. VerifyUnavoidable(arg, reducible).ranked = ranked
    <3> HIDE DEF refusal, forced, ranked
    <3> QED BY <1>1, <1>3 DEF Result
  <2>2. Sound(arg) BY <1>3, UnrefusedIsSound
  <2>3. ranked \in Seq(Surviving(arg)) BY <2>2, SurvivorsListed
  <2>4. \A s \in Surviving(arg) : s.type \in LocalTypes BY <2>2, SurvivorFacts
  <2> QED BY <2>1, <2>3, <2>4 DEF RanksTypes
<1> QED BY <1>2, <1>3

\* An argument that is not refused is sound, and its survivors are ranked.
LEMMA NotRefused ==
    ASSUME NEW arg, NEW reducible, IsArgument(arg), NEW v, v = VerifyUnavoidable(arg, reducible),
           v.kind # "refused"
    PROVE  /\ Sound(arg) /\ v.kind \in {"hit", "miss"}
           /\ v.ranked = Survivors(arg)
           /\ v.forced <=> GlobalSign(arg.mu) # 0
<1> DEFINE refusal == Refusal(arg, reducible)
           forced == GlobalSign(arg.mu) # 0
           ranked == Survivors(arg)
<1>1. v = IF refusal # "none" THEN Result("refused", refusal, FALSE, <<>>)
          ELSE Result(IF forced /\ ranked = <<>> THEN "hit" ELSE "miss", refusal, forced, ranked)
  BY DEF VerifyUnavoidable
<1>2. refusal = "none"
  <2> HIDE DEF refusal, forced, ranked
  <2> QED BY <1>1 DEF Result
<1>3. Sound(arg) BY <1>2, UnrefusedIsSound
<1> HIDE DEF refusal, ranked
<1>4. v.kind \in {"hit", "miss"} /\ v.ranked = ranked
  <2> HIDE DEF forced
  <2> QED BY <1>1, <1>2 DEF Result
<1>5. v.forced <=> forced
  <2> HIDE DEF forced
  <2> QED BY <1>1, <1>2 DEF Result
<1> QED BY <1>3, <1>4, <1>5 DEF ranked

\* The charge does not depend on the cores.
LEMMA ChargeWithoutCores ==
    ASSUME NEW a, NEW f, NEW f2, NEW t
    PROVE  FinalCharge(t, Argument(a, f)) = FinalCharge(t, Argument(a, f2))
<1> DEFINE one == Argument(a, f)
           two == Argument(a, f2)
<1>1. one.mu = two.mu /\ one.rules = two.rules BY DEF Argument
<1> HIDE DEF one, two
<1> QED BY <1>1 DEF FinalCharge, one, two

\* With a core more that some survivor contains, fewer survive.
LEMMA FewerSurvive ==
    ASSUME NEW a, NEW f, NEW f2, Sound(Argument(a, f)), Sound(Argument(a, f2)),
           ToSet(f) \subseteq ToSet(f2),
           NEW s \in Surviving(Argument(a, f)), NEW c \in ToSet(f2), Forced(Graph[c], s.type)
    PROVE  Cardinality(Surviving(Argument(a, f2))) < Cardinality(Surviving(Argument(a, f)))
<1> DEFINE one == Argument(a, f)
           two == Argument(a, f2)
           S == Surviving(one)
           T == Surviving(two)
<1>1. /\ one.mu = two.mu /\ one.forbidden = f /\ two.forbidden = f2 BY DEF Argument
<1>2. \A t : FinalCharge(t, one) = FinalCharge(t, two) BY ChargeWithoutCores
<1> HIDE DEF one, two
<1>3. \A t : Residual(t, one) = Residual(t, two) BY <1>1, <1>2 DEF Residual
<1>4. T \subseteq S
  <2> SUFFICES ASSUME NEW r \in T PROVE r \in S OBVIOUS
  <2>1. /\ r \in {Residual(t, two) : t \in LocalTypes}
        /\ IntendedSign(two.mu) # 0 /\ r.deficit > 0
        /\ \A x \in ToSet(f2) : ~Forced(Graph[x], r.type)
    BY <1>1 DEF Surviving
  <2>2. r \in {Residual(t, one) : t \in LocalTypes} BY <1>3, <2>1
  <2> QED BY <1>1, <2>1, <2>2 DEF Surviving
<1>5. s \in S /\ s \notin T
  <2>1. s \in S BY DEF one
  <2>2. s \notin T BY <1>1 DEF Surviving
  <2> QED BY <2>1, <2>2
<1>6. IsFiniteSet(S) BY FinitelyManySurvive DEF one
<1> HIDE DEF S, T
<1>7. T \in SUBSET S BY <1>4
<1>8. IsFiniteSet(T) /\ Cardinality(T) <= Cardinality(S) /\ Cardinality(T) # Cardinality(S)
  BY <1>5, <1>6, <1>7, FS_Subset
<1>9. Cardinality(T) \in Nat /\ Cardinality(S) \in Nat BY <1>6, <1>8, FS_CardinalityType
<1>10. Cardinality(T) < Cardinality(S) BY <1>8, <1>9
<1> QED BY <1>10 DEF S, T, one, two

\* So an argument that covers gave a core scores lower than before, if it is not refused.
LEMMA CoverDescends ==
    ASSUME NEW a, NEW f, NEW f2, NEW reducible, NEW v, NEW w,
           IsArgument(Argument(a, f)), IsArgument(Argument(a, f2)),
           v = VerifyUnavoidable(Argument(a, f), reducible), v.kind = "miss",
           w = VerifyUnavoidable(Argument(a, f2), reducible), w.kind # "refused",
           ToSet(f) \subseteq ToSet(f2),
           NEW i \in DOMAIN v.ranked, NEW c \in ToSet(f2), Forced(Graph[c], v.ranked[i].type)
    PROVE  LexLess(Score(w), Score(v))
<1> DEFINE one == Argument(a, f)
           two == Argument(a, f2)
           m == Len(v.ranked)
           n == Len(w.ranked)
           x == MapThenSumSet(LAMBDA j : v.ranked[j].deficit, DOMAIN v.ranked)
           y == MapThenSumSet(LAMBDA j : w.ranked[j].deficit, DOMAIN w.ranked)
<1>0. v.kind # "refused" OBVIOUS
<1>1. Sound(one) /\ v.ranked = Survivors(one) /\ (v.forced <=> GlobalSign(one.mu) # 0)
  BY <1>0, NotRefused
<1>2. /\ Sound(two) /\ w.kind \in {"hit", "miss"} /\ w.ranked = Survivors(two)
      /\ w.forced <=> GlobalSign(two.mu) # 0
  BY NotRefused
<1>3. one.mu = two.mu BY DEF Argument
<1> DEFINE d == IF v.forced THEN 1 ELSE 2
<1>4. (IF w.forced THEN 1 ELSE 2) = d BY <1>1, <1>2, <1>3
<1>5. /\ v.ranked \in Seq(Surviving(one)) /\ m = Cardinality(Surviving(one))
      /\ n = Cardinality(Surviving(two)) /\ n \in Nat
  BY <1>1, <1>2, SurvivorsListed
<1>6. v.ranked[i] \in Surviving(one) BY <1>5, Elements
<1>7. n < m BY <1>1, <1>2, <1>5, <1>6, FewerSurvive
<1>8. Score(v) = <<d, m, x>> BY DEF Score
<1>9. Score(w) = IF w.kind = "hit" THEN <<0, 0, 0>> ELSE <<d, n, y>> BY <1>4 DEF Score
<1>10. d \in {1, 2} OBVIOUS
<1> HIDE DEF d, m, n, x, y
<1>11. CASE w.kind = "hit"
  <2>1. Score(w)[1] < Score(v)[1] /\ 1 \in DOMAIN Score(w) BY <1>8, <1>9, <1>10, <1>11
  <2>2. \A j \in 1..(1 - 1) : Score(w)[j] = Score(v)[j] OBVIOUS
  <2> QED BY <2>1, <2>2 DEF LexLess
<1>12. CASE w.kind # "hit"
  <2>1. Score(w)[2] < Score(v)[2] /\ 2 \in DOMAIN Score(w) BY <1>7, <1>8, <1>9, <1>12
  <2>2. \A j \in 1..(2 - 1) : Score(w)[j] = Score(v)[j]
    <3> SUFFICES ASSUME NEW j \in 1..(2 - 1) PROVE Score(w)[j] = Score(v)[j] OBVIOUS
    <3>1. j = 1 OBVIOUS
    <3> QED BY <1>8, <1>9, <1>12, <3>1
  <2> QED BY <2>1, <2>2 DEF LexLess
<1> QED BY <1>11, <1>12

-----------------------------------------------------------------------------
(***************************************************************************)
(* The search                                                              *)
(***************************************************************************)
\* What is ranked in the best argument so far, once there is one.
BestRanks(best) == best.score = <<>> \/ RanksTypes(best.ranked)

\* A search that runs has an argument, a list of cores and iterations left.
SearchShape ==
    /\ search.on \in BOOLEAN
    /\ search.on =>
         /\ search = [on |-> search.on, mu |-> search.mu, rules |-> search.rules,
                      forbidden |-> search.forbidden, unminted |-> search.unminted,
                      left |-> search.left, best |-> search.best]
         /\ IsArgument(search) /\ IsCoreList(search.forbidden)
         /\ search.unminted \subseteq Cores
         /\ search.left \in 1..MAX_ITERS_CAP
         /\ BestRanks(search.best)

\* The next argument that the search verifies is refused or scores lower than the last one.
NextScoresLower ==
    LET next == VerifyUnavoidable(Live, Minted)
    IN  next.kind = "refused" \/ LexLess(Score(next), scores[Len(scores)])

Descent ==
    /\ ~search.on => scores = <<>>
    /\ \E R : scores \in Seq(R)
    /\ search.on /\ scores # <<>> => NextScoresLower
    /\ SearchDescends

\* The two ways on: with cores more, or with the first move that improves.
GoesOnWithCovers ==
    /\ search.on /\ VerifyUnavoidable(Live, Minted).kind = "miss" /\ search.left > 1
    /\ \E covers :
         /\ covers = AddCovers(VerifyUnavoidable(Live, Minted).ranked, search.forbidden,
                               search.unminted, Minted)
         /\ covers.forbidden # search.forbidden
         /\ search' = [[search EXCEPT !.left = @ - 1,
                                      !.best = BetterOf(search.best, VerifyUnavoidable(Live, Minted))]
                         EXCEPT !.forbidden = covers.forbidden, !.unminted = covers.unminted]

GoesOnWithMove ==
    /\ search.on /\ VerifyUnavoidable(Live, Minted).kind = "miss" /\ search.left > 1
    /\ \E covers, move :
         /\ covers = AddCovers(VerifyUnavoidable(Live, Minted).ranked, search.forbidden,
                               search.unminted, Minted)
         /\ Improvements(Score(VerifyUnavoidable(Live, Minted))) # {}
         /\ move = First(Improvements(Score(VerifyUnavoidable(Live, Minted))))
         /\ search' = [[search EXCEPT !.left = @ - 1,
                                      !.best = BetterOf(search.best, VerifyUnavoidable(Live, Minted))]
                         EXCEPT !.mu = move.mu, !.rules = move.rules, !.unminted = covers.unminted]

\* An iteration ends the search or goes on in one of them.
LEMMA Iteration ==
    ASSUME SearchStep
    PROVE  /\ UNCHANGED <<session, notebooks, last, undone, calls>>
           /\ \/ /\ search' = NoSearch /\ scores' = <<>>
                 /\ \/ /\ bind' = [bind EXCEPT !.survivors = <<>>, !.note = "other"]
                       /\ UNCHANGED <<ledgers, still>>
                    \/ VerifyUnavoidable(Live, Minted).kind = "hit" /\ Closed
                    \/ Stuck(BetterOf(search.best, VerifyUnavoidable(Live, Minted)))
              \/ /\ GoesOnWithCovers \/ GoesOnWithMove
                 /\ scores' = Append(scores, Score(VerifyUnavoidable(Live, Minted)))
                 /\ UNCHANGED <<bind, ledgers, still>>
<1> DEFINE result == VerifyUnavoidable(Live, Minted)
           score == Score(result)
           best == BetterOf(search.best, result)
           covers == AddCovers(result.ranked, search.forbidden, search.unminted, Minted)
           moves == Improvements(score)
           next == [search EXCEPT !.left = @ - 1, !.best = best]
<1>1. /\ search.on /\ UNCHANGED <<session, notebooks, last, undone, calls>>
      /\ \/ /\ result.kind = "refused"
            /\ bind' = [bind EXCEPT !.survivors = <<>>, !.note = "other"]
            /\ Ends /\ UNCHANGED <<ledgers, still>>
         \/ /\ result.kind = "hit"
            /\ Closed /\ Ends
         \/ /\ result.kind = "miss" /\ search.left = 1
            /\ Stuck(best) /\ Ends
         \/ /\ result.kind = "miss" /\ search.left > 1 /\ covers.forbidden # search.forbidden
            /\ GoesOn([next EXCEPT !.forbidden = covers.forbidden,
                                   !.unminted = covers.unminted], score)
         \/ /\ result.kind = "miss" /\ search.left > 1 /\ covers.forbidden = search.forbidden
            /\ moves # {}
            /\ GoesOn([next EXCEPT !.mu = First(moves).mu, !.rules = First(moves).rules,
                                   !.unminted = covers.unminted], score)
         \/ /\ result.kind = "miss" /\ search.left > 1 /\ covers.forbidden = search.forbidden
            /\ moves = {}
            /\ Stuck(best) /\ Ends
  BY DEF SearchStep
<1>2. CASE /\ result.kind = "miss" /\ search.left > 1 /\ covers.forbidden # search.forbidden
           /\ GoesOn([next EXCEPT !.forbidden = covers.forbidden,
                                  !.unminted = covers.unminted], score)
  BY <1>1, <1>2 DEF GoesOn, GoesOnWithCovers
<1>3. CASE /\ result.kind = "miss" /\ search.left > 1 /\ covers.forbidden = search.forbidden
           /\ moves # {}
           /\ GoesOn([next EXCEPT !.mu = First(moves).mu, !.rules = First(moves).rules,
                                  !.unminted = covers.unminted], score)
  BY <1>1, <1>3 DEF GoesOn, GoesOnWithMove
<1> DEFINE ended == \/ /\ bind' = [bind EXCEPT !.survivors = <<>>, !.note = "other"]
                       /\ UNCHANGED <<ledgers, still>>
                    \/ result.kind = "hit" /\ Closed
                    \/ Stuck(best)
<1> HIDE DEF result, score, best, covers, moves, next
<1>4. \/ Ends /\ ended
      \/ /\ result.kind = "miss" /\ search.left > 1 /\ covers.forbidden # search.forbidden
         /\ GoesOn([next EXCEPT !.forbidden = covers.forbidden,
                                !.unminted = covers.unminted], score)
      \/ /\ result.kind = "miss" /\ search.left > 1 /\ covers.forbidden = search.forbidden
         /\ moves # {}
         /\ GoesOn([next EXCEPT !.mu = First(moves).mu, !.rules = First(moves).rules,
                                !.unminted = covers.unminted], score)
  BY <1>1, Zenon
<1> HIDE DEF ended
<1>5. CASE Ends /\ ended BY <1>1, <1>5 DEF Ends, ended, result, best
<1> QED BY <1>1, <1>2, <1>3, <1>4, <1>5

\* An argument with other cores is one.
LEMMA ArgumentOf == ASSUME NEW a, NEW f, IsArgument(a) PROVE IsArgument(Argument(a, f))
BY DEF IsArgument, Argument

\* The iterations of a search are capped, and at least one.
LEMMA IterationsCapped == ASSUME NEW n \in MaxIters PROVE Iterations(n) \in 1..MAX_ITERS_CAP
<1>1. n \in Int /\ MAX_ITERS_CAP \in Int /\ MAX_ITERS_CAP >= 1 BY IterationsType
<1> DEFINE k == Min({n, MAX_ITERS_CAP})
<1>2. k \in Int /\ k <= MAX_ITERS_CAP BY <1>1, MinOfTwo
<1> HIDE DEF k
<1> DEFINE one == 1
<1>3. one \in Int /\ one = 1 OBVIOUS
<1> HIDE DEF one
<1>4. Max({one, k}) = IF one >= k THEN one ELSE k BY <1>2, <1>3, MaxOfTwo
<1>5. Iterations(n) = Max({one, k}) BY <1>3 DEF Iterations, k
<1> QED BY <1>1, <1>2, <1>3, <1>4, <1>5

\* A search begins with a typed argument and with the cores it is told, in order.
LEMMA SearchBegins ==
    ASSUME StartSearch
    PROVE  SearchShape' /\ search'.on
<1>1. PICK a \in Arguments, S \in {{}, ForbiddenCores(Claims), Cores}, n \in MaxIters :
        search' = [on |-> TRUE, mu |-> a.mu, rules |-> a.rules, forbidden |-> Listed(S),
                   unminted |-> {}, left |-> Iterations(n), best |-> NoBest]
  BY DEF StartSearch
<1> DEFINE s == search'
<1>2. /\ s.mu = a.mu /\ s.rules = a.rules /\ s.forbidden = Listed(S) /\ s.unminted = {}
      /\ s.left = Iterations(n) /\ s.best = NoBest
  BY <1>1
<1>3. s.on = TRUE BY <1>1
<1>4. s = [on |-> s.on, mu |-> s.mu, rules |-> s.rules, forbidden |-> s.forbidden,
           unminted |-> s.unminted, left |-> s.left, best |-> s.best]
  BY <1>1
<1> HIDE DEF s
<1>5. IsArgument(s) BY <1>2, ArgumentsType DEF IsArgument
<1>6. IsCoreList(s.forbidden) BY <1>2, ListedFacts
<1>7. s.left \in 1..MAX_ITERS_CAP BY <1>2, IterationsCapped
<1>8. BestRanks(s.best) BY <1>2 DEF BestRanks, NoBest
<1>9. s.unminted \subseteq Cores BY <1>2
<1> QED BY <1>3, <1>4, <1>5, <1>6, <1>7, <1>8, <1>9 DEF SearchShape, s

\* The better of the best and the latest ranks residuals of types.
LEMMA BetterRanks ==
    ASSUME NEW best, BestRanks(best), NEW result, RanksTypes(result.ranked)
    PROVE  RanksTypes(BetterOf(best, result).ranked) /\ BestRanks(BetterOf(best, result))
<1>1. CASE best.score = <<>> \/ LexLess(Score(result), best.score)
  <2>1. BetterOf(best, result).ranked = result.ranked BY <1>1 DEF BetterOf
  <2> QED BY <2>1 DEF BestRanks
<1>2. CASE ~(best.score = <<>> \/ LexLess(Score(result), best.score))
  <2>1. BetterOf(best, result) = best BY <1>2 DEF BetterOf
  <2> QED BY <1>2, <2>1 DEF BestRanks
<1> QED BY <1>1, <1>2

\* The first move that improves is an argument, and verifies to a lower score.
LEMMA MoveFacts ==
    ASSUME SearchShape, search.on, NEW score, Improvements(score) # {},
           NEW move, move = First(Improvements(score))
    PROVE  /\ IsArgument(move)
           /\ LET next == VerifyUnavoidable(Argument(move, search.forbidden), Minted)
              IN  next.kind # "refused" /\ LexLess(Score(next), score)
<1> DEFINE moves == Improvements(score)
           next(m) == VerifyUnavoidable(Argument(m, search.forbidden), Minted)
<1>1. \A m \in moves : /\ m \in MutateArguments(search.mu, search.rules)
                        /\ next(m).kind # "refused" /\ LexLess(Score(next(m)), score)
  BY DEF Improvements, Improves
<1> HIDE DEF moves, next
<1>2. \A m \in moves : m.at \in Nat /\ IsArgument(m)
  BY <1>1, MovesAreArguments DEF SearchShape, IsArgument
<1>3. move \in moves BY <1>2, FirstIsMove DEF moves
<1> QED BY <1>1, <1>2, <1>3 DEF next

\* However it goes on, the search keeps its shape and verifies a lower score next.
LEMMA GoingOn ==
    ASSUME SearchShape, GoesOnWithCovers \/ GoesOnWithMove, UNCHANGED <<session, ledgers>>
    PROVE  /\ SearchShape' /\ search'.on
           /\ LET next == VerifyUnavoidable(Live', Minted)
              IN  \/ next.kind = "refused"
                  \/ LexLess(Score(next), Score(VerifyUnavoidable(Live, Minted)))
<1> DEFINE result == VerifyUnavoidable(Live, Minted)
           best == BetterOf(search.best, result)
           covers == AddCovers(result.ranked, search.forbidden, search.unminted, Minted)
           s == search'
<1>1. search.on /\ search.left > 1 /\ result.kind = "miss"
  BY DEF GoesOnWithCovers, GoesOnWithMove
<1>2. /\ search = [on |-> search.on, mu |-> search.mu, rules |-> search.rules,
                   forbidden |-> search.forbidden, unminted |-> search.unminted,
                   left |-> search.left, best |-> search.best]
      /\ IsArgument(search) /\ IsCoreList(search.forbidden)
      /\ search.unminted \subseteq Cores
      /\ search.left \in 1..MAX_ITERS_CAP
      /\ BestRanks(search.best)
  BY <1>1 DEF SearchShape
<1>3. search.left - 1 \in 1..MAX_ITERS_CAP BY <1>1, <1>2, IterationsType
<1>4. IsArgument(Live) /\ Live = Argument(search, search.forbidden)
  BY <1>2, ArgumentOf DEF Live
<1>5. RanksTypes(result.ranked) BY <1>4, VerifiedRanks
<1>6. BestRanks(best) BY <1>2, <1>5, BetterRanks
<1> HIDE DEF best
<1>7. PICK T : result.ranked \in Seq(T) /\ \A r \in T : r.type \in LocalTypes
  BY <1>5 DEF RanksTypes
<1> HIDE DEF covers, result
<1>8. /\ IsCoreList(covers.forbidden) /\ covers.unminted \subseteq Cores
      /\ ToSet(search.forbidden) \subseteq ToSet(covers.forbidden)
      /\ covers.forbidden # search.forbidden
           => \E i \in DOMAIN result.ranked : \E c \in ToSet(covers.forbidden) :
                Forced(Graph[c], result.ranked[i].type)
  <2>1. PICK ranked, forbidden, unminted :
          ranked = result.ranked /\ forbidden = search.forbidden /\ unminted = search.unminted
    OBVIOUS
  <2>2. PICK more : more = covers OBVIOUS
  <2>3. more = AddCovers(ranked, forbidden, unminted, Minted) BY <2>1, <2>2 DEF covers
  <2>4. ranked \in Seq(T) BY <1>7, <2>1
  <2>5. IsCoreList(forbidden) /\ unminted \subseteq Cores BY <1>2, <2>1
  <2>6. /\ IsCoreList(more.forbidden) /\ more.unminted \subseteq Cores
        /\ ToSet(forbidden) \subseteq ToSet(more.forbidden)
        /\ more.forbidden # forbidden
             => \E i \in DOMAIN ranked : \E c \in ToSet(more.forbidden) :
                  Forced(Graph[c], ranked[i].type)
    BY <2>3, <2>4, <2>5, AddCoversFacts
  <2> QED BY <2>1, <2>2, <2>6
<1>9. CASE GoesOnWithCovers
  <2>1. /\ covers.forbidden # search.forbidden
        /\ s = [[search EXCEPT !.left = @ - 1, !.best = best]
                  EXCEPT !.forbidden = covers.forbidden, !.unminted = covers.unminted]
    BY <1>9 DEF GoesOnWithCovers, result, best, covers
  <2> DEFINE l == search.left - 1
  <2> HIDE DEF s, l
  <2>2. s = [on |-> search.on, mu |-> search.mu, rules |-> search.rules,
             forbidden |-> covers.forbidden, unminted |-> covers.unminted,
             left |-> l, best |-> best]
    BY <1>2, <2>1 DEF l
  <2>3. /\ s.mu = search.mu /\ s.rules = search.rules /\ s.forbidden = covers.forbidden
        /\ s.unminted = covers.unminted /\ s.left = l /\ s.best = best
    BY <2>2
  <2>4. s.on = search.on BY <2>2
  <2>5. s = [on |-> s.on, mu |-> s.mu, rules |-> s.rules, forbidden |-> s.forbidden,
             unminted |-> s.unminted, left |-> s.left, best |-> s.best]
    BY <2>2
  <2>6. IsArgument(s) BY <1>2, <2>3 DEF IsArgument
  <2>7. l \in 1..MAX_ITERS_CAP BY <1>3 DEF l
  <2>8. SearchShape' /\ search'.on
    BY <1>1, <1>6, <1>8, <2>3, <2>4, <2>5, <2>6, <2>7 DEF SearchShape, s
  <2>9. Live' = Argument(search, covers.forbidden)
    <3>1. Live' = Argument(s, s.forbidden) BY DEF Live, s
    <3> QED BY <2>3, <3>1 DEF Argument
  <2>10. PICK next : next = VerifyUnavoidable(Live', Minted) OBVIOUS
  <2>11. PICK i \in DOMAIN result.ranked, c \in ToSet(covers.forbidden) :
           Forced(Graph[c], result.ranked[i].type)
    BY <1>8, <2>1
  <2>12. result = VerifyUnavoidable(Live, Minted) BY DEF result
  <2>13. IsArgument(Argument(search, covers.forbidden)) BY <1>2, ArgumentOf
  <2>14. next.kind # "refused" => LexLess(Score(next), Score(result))
    BY <1>1, <1>4, <1>8, <2>9, <2>10, <2>11, <2>12, <2>13, CoverDescends
  <2> QED BY <2>8, <2>10, <2>12, <2>14
<1>10. CASE GoesOnWithMove
  <2>1. PICK move :
          /\ Improvements(Score(result)) # {} /\ move = First(Improvements(Score(result)))
          /\ s = [[search EXCEPT !.left = @ - 1, !.best = best]
                    EXCEPT !.mu = move.mu, !.rules = move.rules, !.unminted = covers.unminted]
    BY <1>10 DEF GoesOnWithMove, result, best, covers
  <2> DEFINE l == search.left - 1
  <2> HIDE DEF s, l
  <2>2. s = [on |-> search.on, mu |-> move.mu, rules |-> move.rules,
             forbidden |-> search.forbidden, unminted |-> covers.unminted,
             left |-> l, best |-> best]
    BY <1>2, <2>1 DEF l
  <2>3. /\ s.mu = move.mu /\ s.rules = move.rules /\ s.forbidden = search.forbidden
        /\ s.unminted = covers.unminted /\ s.left = l /\ s.best = best
    BY <2>2
  <2>4. s.on = search.on BY <2>2
  <2>5. s = [on |-> s.on, mu |-> s.mu, rules |-> s.rules, forbidden |-> s.forbidden,
             unminted |-> s.unminted, left |-> s.left, best |-> s.best]
    BY <2>2
  <2> DEFINE score == Score(result)
  <2> HIDE DEF score
  <2>6. /\ IsArgument(move)
        /\ LexLess(Score(VerifyUnavoidable(Argument(move, search.forbidden), Minted)), score)
    BY <1>1, <2>1, MoveFacts DEF score
  <2>7. IsArgument(s) BY <2>3, <2>6 DEF IsArgument
  <2>8. l \in 1..MAX_ITERS_CAP BY <1>3 DEF l
  <2>9. SearchShape' /\ search'.on
    BY <1>1, <1>2, <1>6, <1>8, <2>3, <2>4, <2>5, <2>7, <2>8 DEF SearchShape, s
  <2>10. Live' = Argument(move, search.forbidden)
    <3>1. Live' = Argument(s, s.forbidden) BY DEF Live, s
    <3> QED BY <2>3, <3>1 DEF Argument
  <2> QED BY <2>6, <2>9, <2>10 DEF score, result
<1> QED BY <1>9, <1>10

-----------------------------------------------------------------------------
(***************************************************************************)
(* What the discharging tools leave behind                                 *)
(***************************************************************************)
TypesOnly(survivors) == \A i \in DOMAIN survivors : survivors[i] \in LocalTypes

\* They note local types that survived, or close on cores one of which the regular
\* neighbourhood contains.
NotesTypes ==
    /\ UNCHANGED ledgers
    /\ bind' = bind \/ \E survivors, note : /\ TypesOnly(survivors)
                                           /\ bind' = [bind EXCEPT !.survivors = survivors,
                                                                   !.note = note]
ClosesRegular ==
    \E S \in SUBSET Cores : \E note :
        /\ \E c \in S : Forced(Graph[c], RegularType)
        /\ Records(UnavoidableClaim(S))
        /\ bind' = [bind EXCEPT !.survivors = <<>>, !.note = note]

\* The types of what is ranked.
LEMMA TypesTyped == ASSUME NEW ranked, RanksTypes(ranked) PROVE TypesOnly(Types(ranked))
<1>1. PICK T : ranked \in Seq(T) /\ \A s \in T : s.type \in LocalTypes BY DEF RanksTypes
<1>2. \A i \in DOMAIN ranked : ranked[i] \in T BY <1>1, Elements
<1> QED BY <1>1, <1>2 DEF TypesOnly, Types

\* discharging_unavoidable notes what survives, or closes with the regular neighbourhood.
LEMMA UnavoidableNotes == DischargingUnavoidable => NotesTypes \/ ClosesRegular
<1> SUFFICES ASSUME DischargingUnavoidable PROVE NotesTypes \/ ClosesRegular OBVIOUS
<1>1. PICK a \in Arguments, S \in SUBSET Cores :
        LET forbidden == Listed(S)
            result == VerifyUnavoidable(Argument(a, forbidden), ForbiddenCores(Claims))
        IN  CASE result.kind = "refused" ->
                   Refused(result.refusal) /\ UNCHANGED <<ledgers, still>>
              [] result.kind = "miss" ->
                   /\ bind' = [bind EXCEPT !.survivors = Types(result.ranked), !.note = "other"]
                   /\ UNCHANGED <<ledgers, still>>
              [] result.kind = "hit" ->
                   /\ bind' = [bind EXCEPT !.survivors = <<>>, !.note = ""]
                   /\ LET claim == UnavoidableClaim(ToSet(forbidden))
                      IN  Records(claim) /\ Gained(Closes(claim))
  BY DEF DischargingUnavoidable
<1> DEFINE forbidden == Listed(S)
           arg == Argument(a, forbidden)
           result == VerifyUnavoidable(arg, ForbiddenCores(Claims))
<1>2. IsArgument(arg) BY ArgumentsType, ArgumentOf
<1>3. IsCoreList(forbidden) BY ListedFacts
<1>4. arg.forbidden = forbidden BY DEF Argument
<1> HIDE DEF forbidden
<1>5. result.kind \in {"refused", "miss", "hit"} BY Verdicts
<1>6. TypesOnly(<<>>) BY DEF TypesOnly
<1> HIDE DEF arg
<1>7. RanksTypes(result.ranked) BY <1>2, VerifiedRanks
<1>8. result.kind = "hit" => \E c \in ToSet(forbidden) : Forced(Graph[c], RegularType)
  BY <1>2, <1>4, HitCoversRegular
<1> HIDE DEF result
<1>9. CASE result.kind = "refused"
  <2>1. Refused(result.refusal) /\ UNCHANGED <<ledgers, still>>
    BY <1>1, <1>9 DEF result, arg, forbidden
  <2> QED BY <1>6, <2>1 DEF Refused, NotesTypes
<1>10. CASE result.kind = "miss"
  <2>1. /\ bind' = [bind EXCEPT !.survivors = Types(result.ranked), !.note = "other"]
        /\ UNCHANGED ledgers
    BY <1>1, <1>10 DEF result, arg, forbidden
  <2> QED BY <1>7, <2>1, TypesTyped DEF NotesTypes
<1>11. CASE result.kind = "hit"
  <2>1. /\ bind' = [bind EXCEPT !.survivors = <<>>, !.note = ""]
        /\ Records(UnavoidableClaim(ToSet(forbidden)))
    BY <1>1, <1>11 DEF result, arg, forbidden
  <2>2. ToSet(forbidden) \in SUBSET Cores BY <1>3, Elements DEF IsCoreList
  <2> QED BY <1>8, <1>11, <2>1, <2>2 DEF ClosesRegular
<1> QED BY <1>5, <1>9, <1>10, <1>11

\* So does a search, in each of its iterations.
LEMMA SearchNotes == SearchShape /\ SearchStep => NotesTypes \/ ClosesRegular
<1> SUFFICES ASSUME SearchShape, SearchStep PROVE NotesTypes \/ ClosesRegular OBVIOUS
<1> DEFINE result == VerifyUnavoidable(Live, Minted)
           best == BetterOf(search.best, result)
<1>1. /\ IsArgument(search) /\ IsCoreList(search.forbidden) /\ BestRanks(search.best)
  BY DEF SearchShape, SearchStep
<1>2. IsArgument(Live) /\ Live.forbidden = search.forbidden
  BY <1>1, ArgumentOf DEF Live, Argument
<1>3. RanksTypes(result.ranked) BY <1>2, VerifiedRanks
<1>4. RanksTypes(best.ranked) BY <1>1, <1>3, BetterRanks
<1>5. \/ /\ bind' = [bind EXCEPT !.survivors = <<>>, !.note = "other"]
         /\ UNCHANGED <<ledgers, still>>
      \/ result.kind = "hit" /\ Closed
      \/ Stuck(best)
      \/ UNCHANGED <<bind, ledgers>>
  BY Iteration
<1> HIDE DEF best
<1>6. CASE /\ bind' = [bind EXCEPT !.survivors = <<>>, !.note = "other"]
           /\ UNCHANGED <<ledgers, still>>
  <2>1. TypesOnly(<<>>) BY DEF TypesOnly
  <2> QED BY <1>6, <2>1 DEF NotesTypes
<1>7. CASE result.kind = "hit" /\ Closed
  <2>1. /\ bind' = [bind EXCEPT !.survivors = <<>>, !.note = "other"]
        /\ Records(UnavoidableClaim(ToSet(search.forbidden)))
    BY <1>7 DEF Closed
  <2>2. ToSet(search.forbidden) \in SUBSET Cores BY <1>1, Elements DEF IsCoreList
  <2>3. \E c \in ToSet(search.forbidden) : Forced(Graph[c], RegularType)
    BY <1>2, <1>7, HitCoversRegular
  <2> QED BY <2>1, <2>2, <2>3 DEF ClosesRegular
<1>8. CASE Stuck(best)
  <2>1. TypesOnly(Types(best.ranked)) BY <1>4, TypesTyped
  <2> QED BY <1>8, <2>1 DEF Stuck, NotesTypes
<1>9. CASE UNCHANGED <<bind, ledgers>> BY <1>9 DEF NotesTypes
<1> QED BY <1>5, <1>6, <1>7, <1>8, <1>9

-----------------------------------------------------------------------------
(***************************************************************************)
(* The search over the steps                                               *)
(***************************************************************************)
\* Every other step leaves the search alone.
LEMMA OnlySearchSearches ==
    ASSUME [Next]_vars, ~StartSearch, ~SearchStep
    PROVE  /\ UNCHANGED <<search, scores>>
           /\ ~search.on \/ UNCHANGED vars
BY DEF Next, Tools, RoundWithStair, RoundWithout, ReducibleConfiguration, LeanProve, Calls,
       DischargingUnavoidable, Switch, vars

\* The search keeps its shape.
LEMMA ShapeKept == SearchShape /\ [Next]_vars => SearchShape'
<1> SUFFICES ASSUME SearchShape, [Next]_vars PROVE SearchShape' OBVIOUS
<1>1. CASE StartSearch BY <1>1, SearchBegins
<1>2. CASE SearchStep
  <2>1. CASE search' = NoSearch
    <3>1. search'.on = FALSE BY <2>1 DEF NoSearch
    <3> QED BY <3>1 DEF SearchShape
  <2>2. CASE (GoesOnWithCovers \/ GoesOnWithMove) /\ UNCHANGED <<session, ledgers>>
    BY <2>2, GoingOn
  <2> QED BY <1>2, <2>1, <2>2, Iteration
<1>3. CASE ~StartSearch /\ ~SearchStep
  <2>1. UNCHANGED search BY <1>3, OnlySearchSearches
  <2> QED BY <2>1 DEF SearchShape
<1> QED BY <1>1, <1>2, <1>3

\* The scores that were verified descend, and what is verified next is lower still.
LEMMA DescentKept == SearchShape /\ Descent /\ [Next]_vars => Descent'
<1> SUFFICES ASSUME SearchShape, Descent, [Next]_vars PROVE Descent' OBVIOUS
<1>1. ASSUME scores' = <<>> PROVE Descent'
  <2>1. <<>> \in Seq({}) /\ Len(<<>>) = 0 OBVIOUS
  <2>2. SearchDescends' BY <1>1, <2>1 DEF SearchDescends
  <2> QED BY <1>1, <2>1, <2>2 DEF Descent
<1>2. CASE StartSearch BY <1>1, <1>2 DEF StartSearch
<1>3. CASE SearchStep /\ scores' # <<>>
  <2> DEFINE result == VerifyUnavoidable(Live, Minted)
             score == Score(result)
             n == Len(scores)
  <2>1. /\ GoesOnWithCovers \/ GoesOnWithMove
        /\ scores' = Append(scores, score)
        /\ UNCHANGED <<session, ledgers>>
    BY <1>3, Iteration
  <2>2. search.on /\ result.kind = "miss" BY <2>1 DEF GoesOnWithCovers, GoesOnWithMove
  <2>3. /\ search'.on
        /\ LET next == VerifyUnavoidable(Live', Minted)
           IN  next.kind = "refused" \/ LexLess(Score(next), score)
    BY <2>1, GoingOn
  <2>4. Minted' = Minted BY <2>1 DEF Minted, Claims
  <2>5. PICK R : scores \in Seq(R) BY DEF Descent
  <2>6. scores # <<>> => LexLess(score, scores[n]) BY <2>2 DEF Descent, NextScoresLower
  <2>7. /\ n \in Nat /\ (n = 0 <=> scores = <<>>) BY <2>5
  <2> HIDE DEF score
  <2>8. /\ scores' \in Seq(R \cup {score})
        /\ Len(scores') = n + 1 /\ scores'[n + 1] = score
        /\ \A i \in 1..n : scores'[i] = scores[i]
    BY <2>1, <2>5
  <2>9. NextScoresLower' BY <2>3, <2>4, <2>7, <2>8 DEF NextScoresLower
  <2> HIDE DEF n
  <2>10. ASSUME NEW i \in 1..n PROVE LexLess(scores'[i + 1], scores'[i])
    <3>1. CASE i = n
      <4>1. n # 0 BY <2>7, <3>1
      <4> QED BY <2>6, <2>7, <2>8, <3>1, <4>1
    <3>2. CASE i # n
      <4>1. i \in 1..(n - 1) /\ i + 1 \in 1..n BY <2>7, <3>2
      <4>2. LexLess(scores[i + 1], scores[i]) BY <4>1 DEF Descent, SearchDescends, n
      <4> QED BY <2>8, <4>1, <4>2
    <3> QED BY <3>1, <3>2
  <2>11. SearchDescends'
    <3>1. Len(scores') - 1 = n BY <2>7, <2>8
    <3> QED BY <2>10, <3>1 DEF SearchDescends
  <2> QED BY <2>3, <2>8, <2>9, <2>11 DEF Descent
<1>4. CASE SearchStep /\ scores' = <<>> BY <1>1, <1>4
<1>5. CASE ~StartSearch /\ ~SearchStep
  <2>1. UNCHANGED <<search, scores>> /\ (~search.on \/ UNCHANGED vars)
    BY <1>5, OnlySearchSearches
  <2>2. CASE ~search.on BY <1>1, <2>1, <2>2 DEF Descent
  <2>3. CASE UNCHANGED vars
    <3>1. Live' = Live /\ Minted' = Minted BY <2>3 DEF vars, Live, Minted, Claims
    <3>2. NextScoresLower' = NextScoresLower BY <2>1, <3>1 DEF NextScoresLower
    <3> QED BY <2>1, <3>2 DEF Descent, SearchDescends
  <2> QED BY <2>1, <2>2, <2>3
<1> QED BY <1>2, <1>3, <1>4, <1>5

-----------------------------------------------------------------------------
(***************************************************************************)
(* Types                                                                   *)
(***************************************************************************)
ClaimTyped(c) ==
    /\ c.kind \in {"core", "durable", "unavoidable"}
    /\ c.core \in Cores \cup {None} /\ c.name \in Lemmas \cup {None}
    /\ c.cores \subseteq Cores

ClaimsTyped == \A s \in Sessions : \A c \in ledgers[s] : ClaimTyped(c)

RestTyped ==
    /\ bind.live \in BOOLEAN /\ TypesOnly(bind.survivors)
    /\ last \in {"prompt", "stair", "results"}
    /\ undone \in BOOLEAN /\ calls \in 0..MaxCalls

\* The arguments that closed.
RegularCovered ==
    \A s \in Sessions : \A c \in ledgers[s] :
        c.kind = "unavoidable" => \E core \in c.cores : Forced(Graph[core], RegularType)

\* All that the next two need: the two invariants above, the search and the types.
Inv == IInv /\ StreakInv /\ SearchShape /\ ClaimsTyped /\ RestTyped

\* Where a claim of a ledger comes from: it was there, or the step recorded it.
LEMMA ClaimsFrom ==
    ASSUME IInv, SearchShape, [Next]_vars, NEW s \in Sessions, NEW c \in ledgers'[s],
           c \notin ledgers[s]
    PROVE  \/ \E core \in Cores : c = CoreClaim(core)
           \/ \E n \in Lemmas : c = DurableClaim(n)
           \/ \E S \in SUBSET Cores : /\ c = UnavoidableClaim(S)
                                      /\ \E core \in S : Forced(Graph[core], RegularType)
<1>1. ledgers = [t \in Sessions |-> ledgers[t]] /\ session \in Sessions
  BY DEF IInv, SessionShape
<1>2. ASSUME NEW claim, Records(claim) PROVE c = claim BY <1>1, <1>2 DEF Records
<1>3. ledgers' # ledgers OBVIOUS
<1>4. CASE ReducibleConfiguration BY <1>2, <1>4 DEF ReducibleConfiguration
<1>5. CASE LeanProve
  <2>1. PICK n \in Lemmas, durable \in BOOLEAN :
          IF durable THEN Records(DurableClaim(n)) ELSE ledgers' = ledgers
    BY <1>5 DEF LeanProve
  <2> QED BY <1>2, <1>3, <2>1
<1>6. CASE NotesTypes \/ ClosesRegular
  <2>1. ClosesRegular BY <1>3, <1>6 DEF NotesTypes
  <2>2. PICK S \in SUBSET Cores : /\ Records(UnavoidableClaim(S))
                                  /\ \E core \in S : Forced(Graph[core], RegularType)
    BY <2>1 DEF ClosesRegular
  <2>3. c = UnavoidableClaim(S) BY <1>2, <2>2
  <2> QED BY <2>2, <2>3
<1> QED
  BY <1>3, <1>4, <1>5, <1>6, UnavoidableNotes, SearchNotes
  DEF Next, Tools, RoundWithStair, RoundWithout, StartSearch, Switch, vars

\* Claims stay typed.
LEMMA ClaimsKept == IInv /\ SearchShape /\ ClaimsTyped /\ [Next]_vars => ClaimsTyped'
<1> SUFFICES ASSUME IInv, SearchShape, ClaimsTyped, [Next]_vars,
                    NEW s \in Sessions, NEW c \in ledgers'[s]
             PROVE  ClaimTyped(c)
  BY DEF ClaimsTyped
<1>1. CASE c \in ledgers[s] BY <1>1 DEF ClaimsTyped
<1>2. CASE c \notin ledgers[s]
  <2>1. CASE \E core \in Cores : c = CoreClaim(core) BY <2>1 DEF CoreClaim, ClaimTyped
  <2>2. CASE \E n \in Lemmas : c = DurableClaim(n) BY <2>2 DEF DurableClaim, ClaimTyped
  <2>3. CASE \E S \in SUBSET Cores : c = UnavoidableClaim(S)
    BY <2>3 DEF UnavoidableClaim, ClaimTyped
  <2> QED BY <1>2, <2>1, <2>2, <2>3, ClaimsFrom
<1> QED BY <1>1, <1>2

\* An argument closes only with a core that the regular neighbourhood contains.
LEMMA RegularKept == IInv /\ SearchShape /\ RegularCovered /\ [Next]_vars => RegularCovered'
<1> SUFFICES ASSUME IInv, SearchShape, RegularCovered, [Next]_vars,
                    NEW s \in Sessions, NEW c \in ledgers'[s], c.kind = "unavoidable"
             PROVE  \E core \in c.cores : Forced(Graph[core], RegularType)
  BY DEF RegularCovered
<1>1. CASE c \in ledgers[s] BY <1>1 DEF RegularCovered
<1>2. CASE c \notin ledgers[s]
  <2>1. \A core, n : CoreClaim(core).kind = "core" /\ DurableClaim(n).kind = "durable"
    BY DEF CoreClaim, DurableClaim
  <2>2. PICK S \in SUBSET Cores : /\ c = UnavoidableClaim(S)
                                  /\ \E core \in S : Forced(Graph[core], RegularType)
    BY <1>2, <2>1, ClaimsFrom
  <2>3. c.cores = S BY <2>2 DEF UnavoidableClaim
  <2> QED BY <2>2, <2>3
<1> QED BY <1>1, <1>2

\* The rest of the state keeps its type.
LEMMA RestKept == IInv /\ SearchShape /\ RestTyped /\ [Next]_vars => RestTyped'
<1> SUFFICES ASSUME IInv, SearchShape, RestTyped, [Next]_vars PROVE RestTyped' OBVIOUS
<1>1. bind = [live |-> bind.live, survivors |-> bind.survivors, note |-> bind.note,
              fp |-> bind.fp, streak |-> bind.streak]
  BY DEF IInv, BindShape
<1>2. /\ bind.live \in BOOLEAN /\ TypesOnly(bind.survivors)
      /\ last \in {"prompt", "stair", "results"}
      /\ undone \in BOOLEAN /\ calls \in 0..MaxCalls
  BY DEF RestTyped
<1>3. Bound(bind).live = TRUE /\ Bound(bind).survivors = bind.survivors
  BY <1>1, <1>2 DEF Bound
<1>4. MaxCalls \in Nat BY CallsType
<1>5. ASSUME calls < MaxCalls, calls' = calls + 1 PROVE calls' \in 0..MaxCalls
  BY <1>2, <1>4, <1>5
<1>6. CASE RoundWithStair
  <2> DEFINE b == Bound(bind)
             fp == Fingerprint(Claims, Notebook, b.survivors)
             more == Min({b.streak + 1, MaxStreak})
  <2>1. \/ bind' = [b EXCEPT !.streak = more]
        \/ bind' = [b EXCEPT !.fp = fp, !.streak = 0]
    BY <1>6 DEF RoundWithStair, NoteStagnation
  <2>2. b = [live |-> b.live, survivors |-> b.survivors, note |-> b.note, fp |-> b.fp,
             streak |-> b.streak]
    BY BoundShape DEF IInv
  <2> HIDE DEF fp, more, b
  <2>3. bind'.live = b.live /\ bind'.survivors = b.survivors BY <2>1, <2>2
  <2>4. bind'.live = TRUE /\ bind'.survivors = bind.survivors BY <1>3, <2>3 DEF b
  <2> QED BY <1>2, <1>6, <2>4 DEF RestTyped, RoundWithStair, Answered
<1>7. CASE RoundWithout
  BY <1>2, <1>3, <1>7 DEF RestTyped, RoundWithout, Answered
<1>8. CASE ReducibleConfiguration
  BY <1>2, <1>5, <1>8 DEF RestTyped, ReducibleConfiguration, Calls
<1>9. CASE LeanProve
  <2>1. undone' \in BOOLEAN BY <1>2, <1>9 DEF LeanProve
  <2> QED BY <1>2, <1>5, <1>9, <2>1 DEF RestTyped, LeanProve, Calls
<1>10. CASE (DischargingUnavoidable \/ SearchStep) /\ (NotesTypes \/ ClosesRegular)
  <2>1. UNCHANGED <<last, undone>> /\ calls' \in 0..MaxCalls
    <3>1. CASE DischargingUnavoidable BY <1>5, <3>1 DEF DischargingUnavoidable, Calls
    <3>2. CASE SearchStep BY <1>2, <3>2 DEF SearchStep
    <3> QED BY <1>10, <3>1, <3>2
  <2>2. bind'.live \in BOOLEAN /\ TypesOnly(bind'.survivors)
    <3>1. TypesOnly(<<>>) BY DEF TypesOnly
    <3>2. bind' = bind \/ \E survivors, note : /\ TypesOnly(survivors)
                                               /\ bind' = [bind EXCEPT !.survivors = survivors,
                                                                       !.note = note]
      BY <1>10, <3>1 DEF NotesTypes, ClosesRegular
    <3>3. ASSUME NEW survivors, NEW note,
                 bind' = [bind EXCEPT !.survivors = survivors, !.note = note]
          PROVE  bind'.live = bind.live /\ bind'.survivors = survivors
      BY <1>1, <3>3
    <3> QED BY <1>2, <3>2, <3>3
  <2> QED BY <1>2, <2>1, <2>2 DEF RestTyped
<1>11. CASE StartSearch BY <1>2, <1>5, <1>11 DEF RestTyped, StartSearch, Calls
<1>12. CASE Switch
  <2>1. bind'.live = FALSE /\ bind'.survivors = bind.survivors BY <1>1, <1>12 DEF Switch
  <2> QED BY <1>2, <1>5, <1>12, <2>1 DEF RestTyped, Switch
<1>13. CASE UNCHANGED vars BY <1>2, <1>13 DEF RestTyped, vars
<1> QED
  BY <1>6, <1>7, <1>8, <1>9, <1>10, <1>11, <1>12, <1>13, UnavoidableNotes, SearchNotes
  DEF Next, Tools

-----------------------------------------------------------------------------
(***************************************************************************)
(* The theorems on types and on the search                                 *)
(***************************************************************************)
\* Where a program begins.
LEMMA InvBegins == Init => Inv /\ RegularCovered /\ Descent
<1> SUFFICES ASSUME Init PROVE Inv /\ RegularCovered /\ Descent OBVIOUS
<1>1. PICK begun \in {{}, Begun} :
        ledgers = [t \in Sessions |-> IF t = session THEN {CoreClaim(x) : x \in begun} ELSE {}]
  BY DEF Init
<1>2. begun \subseteq Cores BY BegunType
<1>3. \A s \in Sessions : \A c \in ledgers[s] : \E x \in Cores : c = CoreClaim(x)
  BY <1>1, <1>2
<1>4. ClaimsTyped BY <1>3 DEF ClaimsTyped, ClaimTyped, CoreClaim
<1>5. RegularCovered BY <1>3 DEF RegularCovered, CoreClaim
<1>6. search.on = FALSE /\ scores = <<>> BY DEF Init, NoSearch
<1>7. SearchShape BY <1>6 DEF SearchShape
<1>8. Descent
  <2>1. <<>> \in Seq({}) /\ Len(<<>>) = 0 OBVIOUS
  <2>2. SearchDescends BY <1>6, <2>1 DEF SearchDescends
  <2> QED BY <1>6, <2>1, <2>2 DEF Descent
<1>9. RestTyped
  <2>1. bind.live = FALSE /\ bind.survivors = <<>> BY DEF Init, FreshBind
  <2>2. TypesOnly(bind.survivors) BY <2>1 DEF TypesOnly
  <2>3. last = "prompt" /\ undone = FALSE /\ calls \in 0..MaxCalls BY CallsType DEF Init
  <2> QED BY <2>1, <2>2, <2>3 DEF RestTyped
<1> QED BY <1>4, <1>5, <1>7, <1>8, <1>9, Begins, StreakBegins DEF Inv

\* Every step keeps the invariant.
LEMMA InvKept == Inv /\ [Next]_vars => Inv'
BY EveryStep, StreakStep, ShapeKept, ClaimsKept, RestKept DEF Inv

\* Every reachable state is well typed: the ledgers hold claims about cores and lemmas that
\* exist, survivors are local types, and a search has between one and the capped number of
\* iterations left (search.py:163) and lists each core once.
THEOREM CampaignTypes == Spec => []TypeOK
<1>1. Inv => TypeOK
  <2> SUFFICES ASSUME Inv PROVE TypeOK OBVIOUS
  <2>1. search.on => /\ search.left \in 1..MAX_ITERS_CAP
                     /\ ToSet(search.forbidden) \cup search.unminted \subseteq Cores
                     /\ IsInjective(search.forbidden)
    BY Elements DEF Inv, SearchShape, IsCoreList
  <2> QED
    BY <2>1 DEF Inv, IInv, BindShape, SessionShape, StreakInv, CountersType, ClaimsTyped,
                ClaimTyped, RestTyped, TypesOnly, TypeOK
<1> QED BY <1>1, InvBegins, InvKept, PTL DEF Spec

\* Whatever charges and rules are proposed or searched for, an argument closes only on cores
\* one of which the regular neighbourhood contains: there the charge that comes in goes out,
\* so no rule discharges it (engine.py:257).
THEOREM ClosesOnRegular == Spec => []ClosedCoversRegular
<1>1. Inv /\ RegularCovered /\ [Next]_vars => RegularCovered' BY RegularKept DEF Inv
<1>2. RegularCovered /\ ClosedOnMinted => ClosedCoversRegular
  BY DEF RegularCovered, ClosedCoversRegular
<1> QED BY <1>1, <1>2, InvBegins, InvKept, ClosesOnMinted, PTL DEF Spec

\* A search verifies strictly better arguments, one after the other: a core that is added
\* leaves fewer survivors whatever the rules are, and a move is taken only if it scores lower
\* (search.py:218).
THEOREM SearchesDescend == Spec => []SearchDescends
<1>1. Inv /\ Descent /\ [Next]_vars => Descent' BY DescentKept DEF Inv
<1>2. Descent => SearchDescends BY DEF Descent
<1> QED BY <1>1, <1>2, InvBegins, InvKept, PTL DEF Spec

=============================================================================
