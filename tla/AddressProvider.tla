-------------------------- MODULE AddressProvider --------------------------
(* domain::networking::address_provider: one pool of IPv4 addresses, the    *)
(* block of a CIDR.  initialize() reserves the first two addresses in a     *)
(* loop that runs until both are there; then a caller fetches an address    *)
(* for an identifier, fetches again, or gives it back, in any order.        *)
(*                                                                          *)
(* The IPv6 half is not modelled: every provider is built with an empty     *)
(* IPv6 CIDR (network_service.cc:36) and every request asks for IPv4.       *)
EXTENDS AddressPool

CONSTANTS
  Cidrs,        \* the blocks a configuration or a network order may name
  Identifiers,  \* container identifiers
  Gateway,      \* the reserved identifier "gateway"
  Subnet,       \* the reserved identifier "subnet"
  NoAddress     \* std::nullopt

Holders == Identifiers \cup {Gateway, Subnet}

ASSUME CidrAssumption == Cidrs \subseteq [address : Nat, size : Nat \ {0}]
\* Containers are named by UUIDs, never by one of the reserved words.
ASSUME ReservedAssumption ==
  /\ Gateway # Subnet
  /\ Gateway \notin Identifiers
  /\ Subnet \notin Identifiers
ASSUME NoAddressAssumption == NoAddress \notin Int \cup Holders

\* Every address some block has to give.
PoolAddresses == UNION {PoolRange(c) : c \in Cidrs}

VARIABLES
  cidr,    \* ip_v4_cidr
  phase,   \* "initializing" while initialize() runs, then "ready"
  taken,   \* taken_ip_v4_addresses
  answer   \* what the last fetch_next_available returned, and to whom

vars == <<cidr, phase, taken, answer>>

Range4 == PoolRange(cidr)
Nothing == [to |-> Gateway, address |-> NoAddress]

Init ==
  /\ cidr \in Cidrs
  /\ phase = "initializing"
  /\ taken = [id \in {} |-> 0]
  /\ answer = Nothing

\* reserve_count == 0 ? "gateway" : "subnet"
NextReserved == IF Gateway \in DOMAIN taken THEN Subnet ELSE Gateway

\* Faulty variant (mutation check): the loop ends after one address.
ReserveOne ==
  /\ phase = "initializing"
  /\ \E a \in Range4 :
       /\ IsFirstFree(a, Range4, taken)
       /\ taken' = Emplace(taken, NextReserved, a)
  /\ phase' = "ready"
  /\ UNCHANGED <<cidr, answer>>

(* One turn of the while loop that finds an address: it is recorded, and    *)
(* after the second the loop ends.                                          *)
Reserve ==
  /\ phase = "initializing"
  /\ \E a \in Range4 :
       /\ IsFirstFree(a, Range4, taken)
       /\ taken' = Emplace(taken, NextReserved, a)
  /\ phase' = IF NextReserved = Subnet THEN "ready" ELSE "initializing"
  /\ UNCHANGED <<cidr, answer>>

(* A turn that finds none counts nothing and sets no error: the loop turns  *)
(* again over the same state.                                               *)
ReserveSpins ==
  /\ phase = "initializing"
  /\ Free(Range4, taken) = {}
  /\ UNCHANGED vars

(* fetch_next_available with a free address left: an identifier that holds  *)
(* an address keeps it, and the answer is what the map holds.               *)
Fetch(id) ==
  /\ phase = "ready"
  /\ \E a \in Range4 :
       /\ IsFirstFree(a, Range4, taken)
       /\ taken' = Emplace(taken, id, a)
  /\ answer' = [to |-> id, address |-> taken'[id]]
  /\ UNCHANGED <<cidr, phase>>

\* Faulty variant (mutation check): the iterator is not compared with end().
FetchPastEnd(id) ==
  /\ phase = "ready"
  /\ Free(Range4, taken) = {}
  /\ taken' = Emplace(taken, id, LastAddress(cidr))
  /\ answer' = [to |-> id, address |-> taken'[id]]
  /\ UNCHANGED <<cidr, phase>>

(* With no free address the answer is nullopt and error stays clear, even   *)
(* when the identifier holds an address.                                    *)
FetchExhausted(id) ==
  /\ phase = "ready"
  /\ Free(Range4, taken) = {}
  /\ answer' = [to |-> id, address |-> NoAddress]
  /\ UNCHANGED <<cidr, phase, taken>>

(* remove erases the identifier's entry; without one it changes nothing.    *)
Remove(id) ==
  /\ phase = "ready"
  /\ id \in DOMAIN taken
  /\ taken' = Erase(taken, id)
  /\ answer' = Nothing
  /\ UNCHANGED <<cidr, phase>>

Next ==
  \/ Reserve
  \/ ReserveSpins
  \/ \E id \in Identifiers : Fetch(id) \/ FetchExhausted(id) \/ Remove(id)

(* initialize() is one synchronous call: once begun its loop keeps turning. *)
Spec == Init /\ [][Next]_vars /\ WF_vars(Reserve)

----------------------------------------------------------------------------

(* The map sends identifiers of containers, and the reserved ones, to       *)
(* addresses of the block.                                                  *)
TypeOK ==
  /\ cidr \in Cidrs
  /\ phase \in {"initializing", "ready"}
  /\ taken \in [DOMAIN taken -> Range4]
  /\ DOMAIN taken \subseteq Holders
  /\ answer \in [to : Holders, address : Range4 \cup {NoAddress}]

(* No two identifiers ever hold one address, whatever the order of fetches, *)
(* repeated fetches and removals: neither two containers nor a container    *)
(* and the bridge (fetch_next_available_ip_v4, emplace and erase).          *)
NoSharedAddress == Injective(taken)

(* A holder keeps the address it was given for as long as it holds one: a   *)
(* repeated fetch, or anybody else's fetch or removal, never moves it.      *)
LeaseStable ==
  [][\A id \in DOMAIN taken \cap DOMAIN taken' : taken'[id] = taken[id]]_vars

(* What fetch_next_available answers is the caller's own entry, until the   *)
(* next call: never an address that the map gives to nobody, or to another. *)
AnswerIsOwnLease ==
  answer.address # NoAddress =>
    /\ answer.to \in DOMAIN taken
    /\ taken[answer.to] = answer.address

(* Once initialize() has returned, the block's first address is the         *)
(* gateway's and the second the bridge's, for good, and no container is     *)
(* ever given one of them or the broadcast address.                         *)
ReservedForGood ==
  phase = "ready" =>
    /\ {Gateway, Subnet} \subseteq DOMAIN taken
    /\ taken[Gateway] = FirstAddress(cidr)
    /\ taken[Subnet] = FirstAddress(cidr) + 1
    /\ \A id \in DOMAIN taken \cap Identifiers :
         taken[id] \in (FirstAddress(cidr) + 2) .. (LastAddress(cidr) - 1)

(* initialize() returns exactly when the block has two addresses besides    *)
(* its broadcast address; over a /31 or a /32 its loop never ends.          *)
InitializeReturns ==
  /\ (Cardinality(Range4) >= 2) ~> (phase = "ready")
  /\ [](Cardinality(Range4) < 2 => phase = "initializing")

(* The pool keeps the promise of an address lease: the holder of an address *)
(* is whoever the map sends to it.                                          *)
HolderOf(a) ==
  IF \E id \in DOMAIN taken : taken[id] = a
  THEN CHOOSE id \in DOMAIN taken : taken[id] = a
  ELSE NoAddress
holderMap == [a \in PoolAddresses |-> HolderOf(a)]
Lease == INSTANCE AddressLease
           WITH Addresses <- PoolAddresses,
                Holders <- Holders,
                Nobody <- NoAddress,
                holder <- holderMap
LeaseSpec == Lease!Spec
=============================================================================
