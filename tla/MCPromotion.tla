---------------------------- MODULE MCPromotion ----------------------------
(* A clean theorem, one whose flaw is in its Lean type and one whose flaw is in
   its name; referee models that accept, object, report nothing or name an
   outcome that is not theirs to give. *)
EXTENDS Promotion

MCText == [t \in Theorems |->
  CASE t = "clean"  -> [stmt |-> {"bespoke"}, type |-> {"bipartite", "hit", "TriangleFree"},
                        notes |-> {"witness"}]
    [] t = "typed"  -> [stmt |-> {"bespoke"}, type |-> {"standard notion"}, notes |-> {}]
    [] t = "planted" -> [stmt |-> {"bipartite", "hit"}, type |-> {"binder"}, notes |-> {}]]

Says(rec, major) == [kind |-> "report", rec |-> rec, major |-> major, minor |-> FALSE]
Silent(kind) == [kind |-> kind, rec |-> "other", major |-> FALSE, minor |-> FALSE]
MCAnswered == {Silent("raises"), Silent("prose"), Says("accept", FALSE), Says("accept", TRUE),
               Says("minor", FALSE), Says("unavailable", FALSE), Says("other", FALSE)}

Good == [thm |-> "clean", form |-> "rooted", axioms |-> {"propext"}, sanity |-> "example",
         quote |-> FALSE, word |-> FALSE]
MCBrought == {Good, [Good EXCEPT !.form = "bare"], [Good EXCEPT !.form = "namespaced"],
              [Good EXCEPT !.axioms = {"sorryAx"}], [Good EXCEPT !.sanity = "examples"],
              [Good EXCEPT !.sanity = "none"], [Good EXCEPT !.quote = TRUE],
              [Good EXCEPT !.thm = "typed"]}
=============================================================================
