------------------------------ MODULE TrustLog ------------------------------
(***************************************************************************)
(* What a session promises about trust (ledger.py, session.py 1-7,         *)
(* compaction.py 1-6): a ledger that only grows, and locked lemmas each of *)
(* which has a lean_prove claim on it. Nothing else happens to them: not   *)
(* by a compaction, an interrupt, a failed turn, a crash or a resume.      *)
(***************************************************************************)
EXTENDS Sequences, Naturals

CONSTANTS Claims,   \* records with at least the fields tool and name
          Lemmas    \* names of lemmas

VARIABLES ledger,   \* the claims, in the order they were minted
          locked    \* the names of the locked lemmas

trust == <<ledger, locked>>

Backed(n) == \E k \in 1..Len(ledger) :
                ledger[k].tool = "lean_prove" /\ ledger[k].name = n

Mint == /\ \E c \in Claims : ledger' = Append(ledger, c)
        /\ UNCHANGED locked

LockLemma == /\ \E n \in Lemmas : Backed(n) /\ locked' = locked \cup {n}
             /\ UNCHANGED ledger

Empty == ledger = <<>> /\ locked = {}

Spec == Empty /\ [][Mint \/ LockLemma]_trust

=============================================================================
