----------------------- MODULE AddressProviderProofs -----------------------
(* What holds of address_provider for every block and every set of          *)
(* containers: the map's type, that no address is shared, that a holder     *)
(* keeps its address, that the answer is the caller's entry, and that the   *)
(* provider implements the abstract lease.                                  *)
EXTENDS AddressProvider, TLAPS

(* An entry added for a free address leaves the addresses of a map          *)
(* distinct (emplace on the result of find_if_not).                         *)
LEMMA EmplaceInjective ==
  ASSUME NEW range, NEW taken0, NEW id, NEW a \in Free(range, taken0),
         Injective(taken0)
  PROVE  Injective(Emplace(taken0, id, a))
  BY DEF Injective, Emplace, Free

(* Erasing an entry leaves the other addresses distinct.                    *)
LEMMA EraseInjective ==
  ASSUME NEW taken0, NEW id, Injective(taken0)
  PROVE  Injective(Erase(taken0, id))
  BY DEF Injective, Erase

(* The type invariant: the map sends holders to addresses of the block.     *)
THEOREM TypeCorrect == Spec => []TypeOK
  <1>1. Init => TypeOK
    <2> SUFFICES ASSUME Init PROVE TypeOK
      OBVIOUS
    <2>1. taken \in [DOMAIN taken -> Range4] /\ DOMAIN taken \subseteq Holders
      BY DEF Init
    <2>2. QED
      BY <2>1 DEF Init, TypeOK, Nothing, Holders
  <1>2. TypeOK /\ [Next]_vars => TypeOK'
    <2> SUFFICES ASSUME TypeOK, [Next]_vars
                 PROVE  TypeOK'
      OBVIOUS
    <2> USE DEF TypeOK
    <2>1. CASE Reserve
      <3>1. PICK a \in Range4 : taken' = Emplace(taken, NextReserved, a)
        BY <2>1 DEF Reserve
      <3>2. NextReserved \in Holders
        BY DEF NextReserved, Holders
      <3>3. taken \in [DOMAIN taken -> Range4]
        OBVIOUS
      <3>4. /\ DOMAIN taken' = DOMAIN taken \cup {NextReserved}
            /\ taken' \in [DOMAIN taken \cup {NextReserved} -> Range4]
        BY <3>1, <3>3 DEF Emplace
      <3>5. Range4' = Range4 /\ cidr' = cidr /\ answer' = answer
        BY <2>1 DEF Reserve, Range4
      <3>6. phase' \in {"initializing", "ready"}
        BY <2>1 DEF Reserve
      <3>7. QED
        BY <3>2, <3>4, <3>5, <3>6
    <2>2. ASSUME NEW id \in Identifiers, Fetch(id)
          PROVE  TypeOK'
      <3>1. PICK a \in Range4 : taken' = Emplace(taken, id, a)
        BY <2>2 DEF Fetch
      <3>2. id \in Holders
        BY DEF Holders
      <3>3. taken \in [DOMAIN taken -> Range4]
        OBVIOUS
      <3>4. /\ DOMAIN taken' = DOMAIN taken \cup {id}
            /\ taken' \in [DOMAIN taken \cup {id} -> Range4]
        BY <3>1, <3>3 DEF Emplace
      <3>5. Range4' = Range4 /\ cidr' = cidr /\ phase' = phase
        BY <2>2 DEF Fetch, Range4
      <3>6. answer' = [to |-> id, address |-> taken'[id]]
        BY <2>2 DEF Fetch
      <3>7. QED
        BY <3>2, <3>4, <3>5, <3>6
    <2>3. ASSUME NEW id \in Identifiers, FetchExhausted(id)
          PROVE  TypeOK'
      BY <2>3 DEF FetchExhausted, Range4, Holders
    <2>4. ASSUME NEW id \in Identifiers, Remove(id)
          PROVE  TypeOK'
      <3>1. taken \in [DOMAIN taken -> Range4]
        OBVIOUS
      <3>2. /\ DOMAIN taken' = DOMAIN taken \ {id}
            /\ taken' \in [DOMAIN taken \ {id} -> Range4]
        BY <2>4, <3>1 DEF Remove, Erase
      <3>3. Range4' = Range4 /\ cidr' = cidr /\ phase' = phase
        BY <2>4 DEF Remove, Range4
      <3>4. answer' \in [to : Holders, address : Range4 \cup {NoAddress}]
        BY <2>4 DEF Remove, Nothing, Holders
      <3>5. QED
        BY <3>2, <3>3, <3>4
    <2>5. CASE ReserveSpins
      BY <2>5 DEF ReserveSpins, vars, Range4
    <2>6. CASE UNCHANGED vars
      BY <2>6 DEF vars, Range4
    <2>7. QED
      BY <2>1, <2>2, <2>3, <2>4, <2>5, <2>6 DEF Next
  <1>3. QED
    BY <1>1, <1>2, PTL DEF Spec

(* No address is shared: every entry added is for a free address, and       *)
(* emplace changes no other.                                                *)
THEOREM AddressesNeverShared == Spec => []NoSharedAddress
  <1>1. Init => NoSharedAddress
    BY DEF Init, NoSharedAddress, Injective
  <1>2. NoSharedAddress /\ [Next]_vars => NoSharedAddress'
    <2> SUFFICES ASSUME NoSharedAddress, [Next]_vars
                 PROVE  NoSharedAddress'
      OBVIOUS
    <2> USE DEF NoSharedAddress
    <2>1. CASE Reserve
      BY <2>1, EmplaceInjective DEF Reserve, IsFirstFree
    <2>2. ASSUME NEW id \in Identifiers, Fetch(id)
          PROVE  NoSharedAddress'
      BY <2>2, EmplaceInjective DEF Fetch, IsFirstFree
    <2>3. ASSUME NEW id \in Identifiers, Remove(id)
          PROVE  NoSharedAddress'
      BY <2>3, EraseInjective DEF Remove
    <2>4. ASSUME UNCHANGED taken
          PROVE  NoSharedAddress'
      BY <2>4
    <2>5. QED
      BY <2>1, <2>2, <2>3, <2>4 DEF Next, vars, ReserveSpins, FetchExhausted
  <1>3. QED
    BY <1>1, <1>2, PTL DEF Spec

(* A holder keeps its address: no step of the provider moves an entry.      *)
THEOREM LeasesStable == Spec => LeaseStable
  <1>1. TypeOK /\ [Next]_vars =>
          [\A id \in DOMAIN taken \cap DOMAIN taken' : taken'[id] = taken[id]]_vars
    <2> SUFFICES ASSUME TypeOK, Next,
                        NEW id \in DOMAIN taken, id \in DOMAIN taken'
                 PROVE  taken'[id] = taken[id]
      OBVIOUS
    <2>1. taken \in [DOMAIN taken -> Range4]
      BY DEF TypeOK
    <2>2. ASSUME NEW i, NEW a \in Range4, taken' = Emplace(taken, i, a)
          PROVE  taken'[id] = taken[id]
      BY <2>1, <2>2 DEF Emplace
    <2>3. ASSUME NEW i, taken' = Erase(taken, i)
          PROVE  taken'[id] = taken[id]
      BY <2>3 DEF Erase
    <2>4. QED
      BY <2>2, <2>3 DEF Next, vars, Reserve, ReserveSpins, Fetch, FetchExhausted, Remove
  <1>2. QED
    BY <1>1, TypeCorrect, PTL DEF Spec, LeaseStable

(* The answer is the caller's own entry until the next call.                *)
THEOREM AnswersAreLeases == Spec => []AnswerIsOwnLease
  <1>1. Init => AnswerIsOwnLease
    BY DEF Init, AnswerIsOwnLease, Nothing
  <1>2. TypeOK /\ AnswerIsOwnLease /\ [Next]_vars => AnswerIsOwnLease'
    <2> SUFFICES ASSUME TypeOK, AnswerIsOwnLease, [Next]_vars
                 PROVE  AnswerIsOwnLease'
      OBVIOUS
    <2> USE DEF AnswerIsOwnLease
    <2>0. taken \in [DOMAIN taken -> Range4]
      BY DEF TypeOK
    <2>1. CASE Reserve
      <3>1. PICK a \in Range4 : taken' = Emplace(taken, NextReserved, a)
        BY <2>1 DEF Reserve
      <3>2. /\ DOMAIN taken' = DOMAIN taken \cup {NextReserved}
            /\ \A i \in DOMAIN taken : taken'[i] = taken[i]
        BY <2>0, <3>1 DEF Emplace
      <3>3. answer' = answer
        BY <2>1 DEF Reserve
      <3>4. QED
        BY <3>2, <3>3
    <2>2. ASSUME NEW id \in Identifiers, Fetch(id)
          PROVE  AnswerIsOwnLease'
      <3>1. PICK a \in Range4 : taken' = Emplace(taken, id, a)
        BY <2>2 DEF Fetch
      <3>2. DOMAIN taken' = DOMAIN taken \cup {id}
        BY <2>0, <3>1 DEF Emplace
      <3>3. QED
        BY <2>2, <3>2 DEF Fetch
    <2>3. ASSUME NEW id \in Identifiers, FetchExhausted(id) \/ Remove(id)
          PROVE  AnswerIsOwnLease'
      BY <2>3 DEF FetchExhausted, Remove, Nothing
    <2>4. CASE ReserveSpins \/ UNCHANGED vars
      BY <2>4 DEF ReserveSpins, vars
    <2>5. QED
      BY <2>1, <2>2, <2>3, <2>4 DEF Next
  <1>3. QED
    BY <1>1, <1>2, TypeCorrect, PTL DEF Spec

(* The reserved entries: in the order of the loop, the block's first        *)
(* address and the one after it, and neither is ever erased or moved.       *)
ReservedInOrder ==
  /\ Gateway \in DOMAIN taken => taken[Gateway] = FirstAddress(cidr)
  /\ Subnet \in DOMAIN taken =>
       /\ Gateway \in DOMAIN taken
       /\ taken[Subnet] = FirstAddress(cidr) + 1
  /\ phase = "ready" => Subnet \in DOMAIN taken
  /\ phase = "initializing" => DOMAIN taken \subseteq {Gateway}

(* The first and the last address of a block are numbers (the mask applied  *)
(* to its address, and the mask's complement).                              *)
LEMMA BlockBoundsInt ==
  ASSUME NEW c \in Cidrs
  PROVE  /\ FirstAddress(c) \in Int
         /\ LastAddress(c) \in Int
  <1>1. /\ c.address \in Int
        /\ c.size \in Int
        /\ c.size > 0
    BY CidrAssumption
  <1>2. c.address % c.size \in Int
    BY <1>1
  <1>3. QED
    BY <1>1, <1>2 DEF FirstAddress, LastAddress


(* The lowest free address of an empty map is the block's first (the first  *)
(* turn of initialize's loop).                                              *)
LEMMA FirstIsLowest ==
  ASSUME NEW c \in Cidrs, NEW taken0, DOMAIN taken0 = {},
         NEW a, IsFirstFree(a, PoolRange(c), taken0)
  PROVE  a = FirstAddress(c)
  <1>1. a \in PoolRange(c)
    BY DEF IsFirstFree, Free
  <1>2. FirstAddress(c) \in PoolRange(c)
    BY <1>1, BlockBoundsInt DEF PoolRange
  <1>3. FirstAddress(c) \in Free(PoolRange(c), taken0)
    BY <1>2 DEF Free
  <1>4. a <= FirstAddress(c)
    BY <1>3 DEF IsFirstFree
  <1>5. QED
    BY <1>1, <1>4, BlockBoundsInt DEF PoolRange

(* The lowest free address of a map that holds only the block's first is    *)
(* the one after it (the second turn of initialize's loop).                 *)
LEMMA SecondIsNext ==
  ASSUME NEW c \in Cidrs, NEW taken0, NEW g,
         DOMAIN taken0 = {g}, taken0[g] = FirstAddress(c),
         NEW a, IsFirstFree(a, PoolRange(c), taken0)
  PROVE  a = FirstAddress(c) + 1
  <1>1. a \in PoolRange(c) /\ a # FirstAddress(c)
    BY DEF IsFirstFree, Free
  <1>2. FirstAddress(c) + 1 \in PoolRange(c)
    BY <1>1, BlockBoundsInt DEF PoolRange
  <1>3. FirstAddress(c) + 1 # FirstAddress(c)
    BY BlockBoundsInt
  <1>4. FirstAddress(c) + 1 \in Free(PoolRange(c), taken0)
    BY <1>2, <1>3 DEF Free
  <1>5. a <= FirstAddress(c) + 1
    BY <1>4 DEF IsFirstFree
  <1>6. QED
    BY <1>1, <1>5, BlockBoundsInt DEF PoolRange

(* The reserved entries: the loop takes the block's first address, then the *)
(* one after it, and no fetch or removal touches either.                    *)
LEMMA ReservedInOrderInv == Spec => []ReservedInOrder
  <1>1. Init => ReservedInOrder
    BY DEF Init, ReservedInOrder
  <1>2. TypeOK /\ ReservedInOrder /\ [Next]_vars => ReservedInOrder'
    <2> SUFFICES ASSUME TypeOK, ReservedInOrder, [Next]_vars
                 PROVE  ReservedInOrder'
      OBVIOUS
    <2>0. cidr \in Cidrs
      BY DEF TypeOK
    <2>1. CASE Reserve
      <3>1. PICK a \in Range4 : /\ IsFirstFree(a, Range4, taken)
                                /\ taken' = Emplace(taken, NextReserved, a)
        BY <2>1 DEF Reserve
      <3>2. cidr' = cidr /\ phase = "initializing"
        BY <2>1 DEF Reserve
      <3>3. CASE Gateway \in DOMAIN taken
        <4>1. DOMAIN taken = {Gateway} /\ taken[Gateway] = FirstAddress(cidr)
          BY <3>2, <3>3 DEF ReservedInOrder
        <4>2. a = FirstAddress(cidr) + 1
          BY <2>0, <3>1, <4>1, SecondIsNext DEF Range4
        <4>3. NextReserved = Subnet /\ Subnet # Gateway
          BY <3>3, ReservedAssumption DEF NextReserved
        <4>4. /\ DOMAIN taken' = {Gateway, Subnet}
              /\ taken'[Gateway] = FirstAddress(cidr)
              /\ taken'[Subnet] = FirstAddress(cidr) + 1
          BY <3>1, <4>1, <4>2, <4>3 DEF Emplace
        <4>5. phase' = "ready"
          BY <2>1, <4>3 DEF Reserve
        <4>6. QED
          BY <3>2, <4>4, <4>5 DEF ReservedInOrder
      <3>4. CASE Gateway \notin DOMAIN taken
        <4>1. DOMAIN taken = {}
          BY <3>2, <3>4 DEF ReservedInOrder
        <4>2. a = FirstAddress(cidr)
          BY <2>0, <3>1, <4>1, FirstIsLowest DEF Range4
        <4>3. NextReserved = Gateway /\ Subnet # Gateway
          BY <3>4, ReservedAssumption DEF NextReserved
        <4>4. DOMAIN taken' = {Gateway} /\ taken'[Gateway] = FirstAddress(cidr)
          BY <3>1, <4>1, <4>2, <4>3 DEF Emplace
        <4>5. phase' = "initializing"
          BY <2>1, <4>3 DEF Reserve
        <4>6. QED
          BY <3>2, <4>3, <4>4, <4>5 DEF ReservedInOrder
      <3>5. QED
        BY <3>3, <3>4
    <2>2. ASSUME NEW id \in Identifiers, Fetch(id)
          PROVE  ReservedInOrder'
      <3>1. PICK a \in Range4 : taken' = Emplace(taken, id, a)
        BY <2>2 DEF Fetch
      <3>2. /\ DOMAIN taken' = DOMAIN taken \cup {id}
            /\ \A i \in DOMAIN taken : taken'[i] = taken[i]
        BY <3>1 DEF Emplace
      <3>3. id # Gateway /\ id # Subnet
        BY ReservedAssumption
      <3>4. cidr' = cidr /\ phase' = "ready" /\ phase = "ready"
        BY <2>2 DEF Fetch
      <3>5. QED
        BY <3>2, <3>3, <3>4 DEF ReservedInOrder
    <2>3. ASSUME NEW id \in Identifiers, Remove(id)
          PROVE  ReservedInOrder'
      <3>1. /\ DOMAIN taken' = DOMAIN taken \ {id}
            /\ \A i \in DOMAIN taken \ {id} : taken'[i] = taken[i]
        BY <2>3 DEF Remove, Erase
      <3>2. id # Gateway /\ id # Subnet
        BY ReservedAssumption
      <3>3. cidr' = cidr /\ phase' = "ready" /\ phase = "ready"
        BY <2>3 DEF Remove
      <3>4. QED
        BY <3>1, <3>2, <3>3 DEF ReservedInOrder
    <2>4. ASSUME UNCHANGED <<cidr, phase, taken>>
          PROVE  ReservedInOrder'
      BY <2>4 DEF ReservedInOrder
    <2>5. QED
      BY <2>1, <2>2, <2>3, <2>4 DEF Next, vars, ReserveSpins, FetchExhausted
  <1>3. QED
    BY <1>1, <1>2, TypeCorrect, PTL DEF Spec

(* Once initialized, the gateway and the bridge hold the block's first two  *)
(* addresses for good, and every container one between them and the         *)
(* broadcast address.                                                       *)
THEOREM ReservationsKept == Spec => []ReservedForGood
  <1>1. TypeOK /\ NoSharedAddress /\ ReservedInOrder => ReservedForGood
    <2> SUFFICES ASSUME TypeOK, NoSharedAddress, ReservedInOrder, phase = "ready"
                 PROVE  /\ {Gateway, Subnet} \subseteq DOMAIN taken
                        /\ taken[Gateway] = FirstAddress(cidr)
                        /\ taken[Subnet] = FirstAddress(cidr) + 1
                        /\ \A id \in DOMAIN taken \cap Identifiers :
                             taken[id] \in (FirstAddress(cidr) + 2)
                                             .. (LastAddress(cidr) - 1)
      BY DEF ReservedForGood
    <2>1. /\ {Gateway, Subnet} \subseteq DOMAIN taken
          /\ taken[Gateway] = FirstAddress(cidr)
          /\ taken[Subnet] = FirstAddress(cidr) + 1
      BY DEF ReservedInOrder
    <2>2. ASSUME NEW id \in DOMAIN taken \cap Identifiers
          PROVE  taken[id] \in (FirstAddress(cidr) + 2) .. (LastAddress(cidr) - 1)
      <3>1. id # Gateway /\ id # Subnet
        BY ReservedAssumption
      <3>2. taken[id] # FirstAddress(cidr) /\ taken[id] # FirstAddress(cidr) + 1
        BY <2>1, <3>1 DEF NoSharedAddress, Injective
      <3>3. taken[id] \in FirstAddress(cidr) .. (LastAddress(cidr) - 1)
        BY DEF TypeOK, Range4, PoolRange
      <3>4. cidr \in Cidrs
        BY DEF TypeOK
      <3>5. QED
        BY <3>2, <3>3, <3>4, BlockBoundsInt
    <2>3. QED
      BY <2>1, <2>2
  <1>2. QED
    BY <1>1, TypeCorrect, AddressesNeverShared, ReservedInOrderInv, PTL

(* The holder the refinement mapping names: the one identifier that the map *)
(* sends to the address.                                                    *)
LEMMA HolderIsUnique ==
  ASSUME NoSharedAddress, NEW id \in DOMAIN taken
  PROVE  HolderOf(taken[id]) = id
  BY DEF HolderOf, NoSharedAddress, Injective

(* An address that the map sends nobody to is nobody's.                     *)
LEMMA HolderOfFree ==
  ASSUME NEW a, \A id \in DOMAIN taken : taken[id] # a
  PROVE  HolderOf(a) = NoAddress
  BY DEF HolderOf

(* An entry added for a free address is a grant of that address.            *)
LEMMA EmplaceGrants ==
  ASSUME TypeOK, NoSharedAddress, NoSharedAddress',
         NEW id \in Holders, NEW a \in Free(Range4, taken),
         taken' = Emplace(taken, id, a)
  PROVE  [Lease!Next]_holderMap
  <1> DEFINE h == [b \in PoolAddresses |-> HolderOf(b)]
  <1>0. a \in PoolAddresses
    BY DEF TypeOK, Range4, PoolAddresses, Free
  <1>1. CASE id \in DOMAIN taken
    <2>1. taken' = taken
      BY <1>1 DEF Emplace
    <2>2. \A b \in PoolAddresses : HolderOf(b)' = HolderOf(b)
      BY <2>1 DEF HolderOf
    <2>3. h' = h
      BY <2>2
    <2>4. QED
      BY <2>3 DEF holderMap
  <1>2. CASE id \notin DOMAIN taken
    <2>1. /\ DOMAIN taken' = DOMAIN taken \cup {id}
          /\ taken'[id] = a
          /\ \A i \in DOMAIN taken : taken'[i] = taken[i] /\ taken[i] # a
      BY <1>2 DEF Emplace, Free
    <2>2. h[a] = NoAddress
      BY <1>0, HolderOfFree DEF Free
    <2>3. \A b \in PoolAddresses : h[b] # id
      <3>1. ASSUME NEW b \in PoolAddresses
            PROVE  HolderOf(b) \in DOMAIN taken \cup {NoAddress}
        BY DEF HolderOf
      <3>2. id # NoAddress
        BY NoAddressAssumption
      <3>3. QED
        BY <1>2, <3>1, <3>2
    <2>4. ASSUME NEW b \in PoolAddresses, b # a
          PROVE  h'[b] = h[b]
      <3>1. CASE \E i \in DOMAIN taken : taken[i] = b
        <4>1. PICK i \in DOMAIN taken : taken[i] = b
          BY <3>1
        <4>2. HolderOf(b) = i
          BY <4>1, HolderIsUnique
        <4>3. HolderOf(b)' = i
          BY <2>1, <4>1 DEF HolderOf, NoSharedAddress, Injective
        <4>4. QED
          BY <4>2, <4>3
      <3>2. CASE ~ \E i \in DOMAIN taken : taken[i] = b
        <4>1. HolderOf(b) = NoAddress
          BY <3>2 DEF HolderOf
        <4>2. HolderOf(b)' = NoAddress
          BY <2>1, <2>4, <3>2 DEF HolderOf
        <4>3. QED
          BY <4>1, <4>2
      <3>3. QED
        BY <3>1, <3>2
    <2>5. h'[a] = id
      BY <1>0, <2>1 DEF HolderOf, NoSharedAddress, Injective
    <2>6. h' = [h EXCEPT ![a] = id]
      BY <2>4, <2>5
    <2>7. Lease!Grant(a, id)
      BY <2>2, <2>3, <2>6 DEF Lease!Grant, holderMap
    <2>8. QED
      BY <1>0, <2>7 DEF Lease!Next
  <1>3. QED
    BY <1>1, <1>2

(* An erased entry is a release of the address it held.                     *)
LEMMA EraseReleases ==
  ASSUME TypeOK, NoSharedAddress, NoSharedAddress',
         NEW id \in DOMAIN taken, taken' = Erase(taken, id)
  PROVE  Lease!Next
  <1> DEFINE h == [b \in PoolAddresses |-> HolderOf(b)]
  <1> PICK a : a = taken[id]
    OBVIOUS
  <1>0. a \in PoolAddresses
    BY DEF TypeOK, Range4, PoolAddresses
  <1>1. /\ DOMAIN taken' = DOMAIN taken \ {id}
        /\ \A i \in DOMAIN taken \ {id} : taken'[i] = taken[i]
    BY DEF Erase
  <1>2. h[a] = id /\ id # NoAddress
    BY <1>0, HolderIsUnique, NoAddressAssumption DEF TypeOK
  <1>3. ASSUME NEW b \in PoolAddresses, b # a
        PROVE  h'[b] = h[b]
    <2>1. CASE \E i \in DOMAIN taken : taken[i] = b
      <3>1. PICK i \in DOMAIN taken : taken[i] = b
        BY <2>1
      <3>2. HolderOf(b) = i /\ i # id
        BY <1>3, <3>1, HolderIsUnique
      <3>3. HolderOf(b)' = i
        BY <1>1, <3>1, <3>2 DEF HolderOf, NoSharedAddress, Injective
      <3>4. QED
        BY <3>2, <3>3
    <2>2. CASE ~ \E i \in DOMAIN taken : taken[i] = b
      <3>1. HolderOf(b) = NoAddress
        BY <2>2 DEF HolderOf
      <3>2. HolderOf(b)' = NoAddress
        BY <1>1, <2>2 DEF HolderOf
      <3>3. QED
        BY <3>1, <3>2
    <2>3. QED
      BY <2>1, <2>2
  <1>4. h'[a] = NoAddress
    <2>1. \A i \in DOMAIN taken' : taken'[i] # a
      BY <1>1 DEF NoSharedAddress, Injective
    <2>2. HolderOf(a)' = NoAddress
      BY <2>1 DEF HolderOf
    <2>3. QED
      BY <1>0, <2>2
  <1>5. h' = [h EXCEPT ![a] = NoAddress]
    BY <1>3, <1>4
  <1>6. Lease!Release(a)
    BY <1>2, <1>5 DEF Lease!Release, holderMap
  <1>7. QED
    BY <1>0, <1>6 DEF Lease!Next

(* address_provider implements the abstract lease: each of its steps grants *)
(* a free address to somebody who has none, releases one, or does neither.  *)
THEOREM ImplementsLease == Spec => LeaseSpec
  <1>1. Init => Lease!Init
    BY DEF Init, Lease!Init, HolderOf, holderMap
  <1>2. TypeOK /\ NoSharedAddress /\ NoSharedAddress' /\ [Next]_vars
          => [Lease!Next]_holderMap
    <2> SUFFICES ASSUME TypeOK, NoSharedAddress, NoSharedAddress', [Next]_vars
                 PROVE  [Lease!Next]_holderMap
      OBVIOUS
    <2>1. CASE Reserve
      <3>1. NextReserved \in Holders
        BY DEF NextReserved, Holders
      <3>2. QED
        BY <2>1, <3>1, EmplaceGrants DEF Reserve, IsFirstFree
    <2>2. ASSUME NEW id \in Identifiers, Fetch(id)
          PROVE  [Lease!Next]_holderMap
      BY <2>2, EmplaceGrants DEF Fetch, IsFirstFree, Holders
    <2>3. ASSUME NEW id \in Identifiers, Remove(id)
          PROVE  [Lease!Next]_holderMap
      BY <2>3, EraseReleases DEF Remove
    <2>4. ASSUME UNCHANGED taken
          PROVE  [Lease!Next]_holderMap
      <3>1. \A b \in PoolAddresses : HolderOf(b)' = HolderOf(b)
        BY <2>4 DEF HolderOf
      <3>2. QED
        BY <3>1 DEF holderMap
    <2>5. QED
      BY <2>1, <2>2, <2>3, <2>4 DEF Next, vars, ReserveSpins, FetchExhausted
  <1>3. QED
    BY <1>1, <1>2, TypeCorrect, AddressesNeverShared, PTL
       DEF Spec, LeaseSpec, Lease!Spec
=============================================================================
