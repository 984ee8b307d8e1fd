---------------------------- MODULE MCPriorityQueue ----------------------------
(***************************************************************************)
(* Two batches interrupt a round.  In the Main rows one person is in all   *)
(* three of them, known to the second batch by name alone.  In the         *)
(* Namesake rows it is the round that has but a name, and the batches have *)
(* two people of that name.  The Later rows have a person in both batches  *)
(* who is not in the round.                                                *)
(***************************************************************************)
EXTENDS PriorityQueue, TLC

CONSTANTS d1, d2, b1, b2, parent, p1, q1, q2, blank, s1, s2, n1, n2

Phones == Permutations(Devices)

NoIds == [t \in Rows |-> blank]

MainRoundOf == (p1 :> parent) @@ (q1 :> b1) @@ (q2 :> b2)
MainSecOf == (p1 :> s1) @@ (q1 :> s1) @@ (q2 :> blank)
MainNameOf == (p1 :> n1) @@ (q1 :> n1) @@ (q2 :> n1)

NamesakeSecOf == (p1 :> blank) @@ (q1 :> s1) @@ (q2 :> s2)

LaterSecOf == (p1 :> s2) @@ (q1 :> s1) @@ (q2 :> s1)
LaterNameOf == (p1 :> n2) @@ (q1 :> n1) @@ (q2 :> n1)

=============================================================================
