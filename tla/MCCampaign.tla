----------------------------- MODULE MCCampaign -----------------------------
(***************************************************************************)
(* Instance of Campaign for TLC: the bridge stands, the catalog has one     *)
(* seed; a cycle that no neighbourhood forces, and two cores with a         *)
(* dominating vertex, of the orders of the two closed neighbourhoods.       *)
(***************************************************************************)
EXTENDS Campaign

Star(n) == [n |-> n, edges |-> {{1, i} : i \in 2..n}]
MCGraph6 == <<"claw", "C4", "path">>
MCGraph == [c \in {"claw", "C4", "path"} |->
              CASE c = "C4" -> [n |-> 4, edges |-> {{1, 2}, {2, 3}, {3, 4}, {4, 1}}]
                [] c = "path" -> Star(3)
                [] c = "claw" -> Star(4)]
MCCatalog == <<[core |-> "path", proof |-> FALSE], [core |-> "claw", proof |-> TRUE]>>

Mu(low, high) == (2 :> low) @@ (3 :> high)
Transfer(from, to, amount) == [from |-> from, to |-> to, amount |-> amount, radius |-> 1]
MCArguments == {[mu |-> Mu(0, 1), rules |-> <<>>],
                [mu |-> Mu(-1, -1), rules |-> <<Transfer(3, "high", 1)>>],
                [mu |-> Mu(1, -1), rules |-> <<Transfer(2, "any", 1)>>],
                [mu |-> Mu(1, 1), rules |-> <<Transfer(3, "low", 0)>>]}
=============================================================================
