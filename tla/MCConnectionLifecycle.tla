----------------------- MODULE MCConnectionLifecycle -----------------------
EXTENDS ConnectionLifecycle

(* How much the user asks for: enough, in each family, for a purchase, a connect and a
   disconnect, with one more where the state space allows it. *)
Requests43 == [f \in Families |-> IF f = "root" THEN 4 ELSE 3]
Requests31 == [f \in Families |-> IF f = "root" THEN 3 ELSE 1]
Requests44 == [f \in Families |-> 4]
=============================================================================
