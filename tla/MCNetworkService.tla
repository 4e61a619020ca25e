------------------------- MODULE MCNetworkService -------------------------
(* Two containers on a default network with one address for them, which the *)
(* second exhausts, or with five; or, while the daemon does not crash, one  *)
(* container and three networks.                                            *)
EXTENDS NetworkService

CONSTANT First \* the container of the runs with several networks

Blocks == {[address |-> 5, size |-> size] : size \in {4, 8}}

\* Bound: several networks, or several containers and crashes.
OneOrTheOther ==
  \/ /\ DOMAIN networks' \cup DOMAIN network_tb' \subseteq {Default}
     /\ DOMAIN bridges' \subseteq {DefaultCode}
     /\ lastId' <= 1
  \/ /\ crashes' = 0 /\ cidr.size = 4
     /\ Len(member_tb') <= 1
     /\ jails' \cup {pairs'[k].owner : k \in DOMAIN pairs'} \subseteq {First}
     /\ \A n \in DOMAIN networks' : DOMAIN networks'[n] \subseteq {First, Gateway, Subnet}

MCSpec == Init /\ [][Next /\ OneOrTheOther]_vars
===========================================================================
