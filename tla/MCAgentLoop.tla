---------------------------- MODULE MCAgentLoop ----------------------------
(* A lemma of the session, proofs of the conjecture that are and are not
   free of nonstandard axioms, and a graph that violates it. *)
EXTENDS Providers

Proof(n, d, c) == [tool |-> "lean_prove", name |-> n, durable |-> d,
                   clean |-> c, violates |-> FALSE]
MCNames == {"lemma", "bk"}
MCBK == {"bk"}
MCMinted == {Proof("lemma", FALSE, TRUE), Proof("bk", TRUE, TRUE),
             Proof("bk", TRUE, FALSE),
             [Proof("bk", FALSE, TRUE) EXCEPT !.tool = "bk_predicate",
                                              !.violates = TRUE]}

=============================================================================
