---------------------------- MODULE MCWorkerLease ----------------------------
(* Two phones, two accounts, and three launches: l1 and l2 are successive   *)
(* launches of one device under one owner id, l3 runs the account of l1 on  *)
(* the other phone.                                                         *)
EXTENDS WorkerLease, TLC

CONSTANTS d1, d2, a1, o1, o2, l1, l2, l3

MCDeviceOf == (l1 :> d1) @@ (l2 :> d1) @@ (l3 :> d2)
MCAccountOf == (l1 :> a1) @@ (l2 :> a1) @@ (l3 :> a1)
MCOwnerOf == (l1 :> o1) @@ (l2 :> o1) @@ (l3 :> o2)

=============================================================================
