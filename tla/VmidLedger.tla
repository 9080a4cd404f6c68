---------------------------- MODULE VmidLedger ----------------------------
(***************************************************************************)
(* What the ledger of virtual machines promises about their numbers.       *)
(*                                                                         *)
(* Each number the platform may use is free or held by one attempt. It is  *)
(* reserved only when free and given up before another attempt may have    *)
(* it; the protected numbers are nobody's.                                 *)
(***************************************************************************)
CONSTANTS Numbers, Protected, Attempts, None

VARIABLE holder

Init == holder = [v \in Numbers |-> None]

Reserve(v, a) ==
  /\ v \notin Protected
  /\ holder[v] = None
  /\ holder' = [holder EXCEPT ![v] = a]

Release(v) ==
  /\ holder[v] # None
  /\ holder' = [holder EXCEPT ![v] = None]

Next == \E v \in Numbers : Release(v) \/ \E a \in Attempts : Reserve(v, a)

Spec == Init /\ [][Next]_holder
=============================================================================
