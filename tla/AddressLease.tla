---------------------------- MODULE AddressLease ----------------------------
(* What an address pool promises, whatever its bookkeeping: an address has  *)
(* at most one holder and a holder at most one address; only a free address *)
(* is granted, and only its holder's release frees it.                      *)
CONSTANTS
  Addresses,
  Holders,
  Nobody      \* not one of Holders

VARIABLE holder

Init == holder = [a \in Addresses |-> Nobody]

Grant(a, h) ==
  /\ holder[a] = Nobody
  /\ \A b \in Addresses : holder[b] # h
  /\ holder' = [holder EXCEPT ![a] = h]

Release(a) ==
  /\ holder[a] # Nobody
  /\ holder' = [holder EXCEPT ![a] = Nobody]

Next ==
  \E a \in Addresses :
    \/ \E h \in Holders : Grant(a, h)
    \/ Release(a)

Spec == Init /\ [][Next]_holder
=============================================================================
