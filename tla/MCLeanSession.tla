--------------------------- MODULE MCLeanSession ---------------------------
(* Two declarations, the second citing the first. *)
EXTENDS LeanSession

CONSTANTS a, b

MCNames == {a, b}
MCRequires == [n \in MCNames |-> IF n = b THEN {a} ELSE {}]

=============================================================================
