------------------------------ MODULE MCServices ------------------------------
EXTENDS Services
(* The first and the second pool claim one block, the second and the third
   another; the second one has no proof. *)
MCFeeds == <<[blocks |-> {1, 2}, proof |-> TRUE],
             [blocks |-> {1, 3}, proof |-> FALSE],
             [blocks |-> {3}, proof |-> TRUE]>>
(* Two currencies of an hour arrive apart, one of them with an hour that is
   near to it and one that is not. *)
MCBatches == {{<<1, "USD">>}, {<<1, "EUR">>, <<2, "USD">>, <<4, "USD">>}}
(* The first and the third conflict, and the fourth with all others. *)
MCSpent == <<{"a"}, {"b"}, {"a"}, {"a", "b"}>>
=============================================================================
