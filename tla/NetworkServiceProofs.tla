------------------------- MODULE NetworkServiceProofs -------------------------
(* What holds of networks, leases and links for any networks, containers    *)
(* and blocks, however calls of the kernel and writes of the database fail. *)
EXTENDS NetworkService, FiniteSetTheorems, SequenceTheorems, TLAPS

PairTypes ==
  [first : Int, second : Containers \cup {None}, address : Nat \cup {None},
   owner : Containers]

RowTypes == [network : 1 .. MaxNetworks, container : Containers, pair : Int]

\* What is counted can be counted, and codes are numbers.
CountsFit ==
  /\ DOMAIN bridges \subseteq Int
  /\ IsFiniteSet(DOMAIN network_tb)
  /\ \A n \in DOMAIN networks : IsFiniteSet(DOMAIN networks[n])

\* The default network is there when containers are, but for what a crash left.
DefaultFits ==
  /\ serving \/ jails # survivors => Default \in DOMAIN networks
  /\ call # Idle => serving

\* An end that is in a container is in a jail, and one that leaves has none.
EndsFit ==
  /\ \A k \in DOMAIN pairs : pairs[k].second # None => pairs[k].second \in jails
  /\ call.op = "leave" => call.container \notin jails

\* Nobody's second leave has taken a pair that was not its own.
NoneTwice == \A c \in Containers : leaves[c] < 2

\* Every row of a container that has not left names its own pair.
RowsFit ==
  NoneTwice =>
    \A i \in DOMAIN member_tb :
      leaves[member_tb[i].container] = 0 =>
        /\ member_tb[i].pair \in DOMAIN pairs
        /\ pairs[member_tb[i].pair].owner = member_tb[i].container

\* Bridges have codes that were the number of rows when there were fewer.
CodesFit ==
  crashes = 0 =>
    /\ DOMAIN network_tb \subseteq DOMAIN networks
    /\ ~codesReused =>
         \A code \in DOMAIN bridges :
           bridges[code] # None => code < Cardinality(DOMAIN network_tb)

NetworkInv ==
  TypeOK /\ JailAddressIsLeased /\ CountsFit /\ DefaultFits /\ EndsFit /\ RowsFit /\ CodesFit

----------------------------------------------------------------------------
(* Any set of numbers has a smallest one: strict inclusion of the intervals *)
(* up to them is well-founded.                                              *)
LEMMA Smallest ==
  ASSUME NEW T \in SUBSET Nat, T # {}
  PROVE  \E m \in T : \A n \in T : m <= n
  <1> DEFINE Up == {1 .. n : n \in T}
             R == StrictSubsetOrdering(Nat)
             S == FiniteSubsetsOf(Nat)
  <1>1. IsWellFoundedOn(R, S)
    BY FS_StrictSubsetOrderingWellFounded
  <1>2. Up \subseteq S /\ Up # {}
    <2>1. ASSUME NEW n \in Nat
          PROVE  1 .. n \in S
      <3>1. IsFiniteSet(1 .. n)
        BY FS_Interval
      <3>2. QED
        BY <3>1 DEF FiniteSubsetsOf
    <2> HIDE DEF S
    <2>2. QED
      BY <2>1
  <1>3. \E x \in Up : \A y \in Up : ~(<<y, x>> \in R)
    <2> HIDE DEF Up, R, S
    <2>1. QED
      BY <1>1, <1>2, WFMin
  <1>4. PICK m \in T : \A n \in T : ~(<<1 .. n, 1 .. m>> \in R)
    BY <1>3
  <1>5. ASSUME NEW n \in T, n < m
        PROVE  FALSE
    <2>1. 1 .. n \subseteq 1 .. m /\ 1 .. n # 1 .. m /\ m \in Nat /\ n \in Nat
      BY <1>5
    <2>2. <<1 .. n, 1 .. m>> \in R
      BY <2>1 DEF StrictSubsetOrdering
    <2>3. QED
      BY <1>4, <2>2
  <1>6. QED
    BY <1>4, <1>5

(* A block's first two addresses are addresses a network has to give, and   *)
(* all of those are numbers (initialize of a block of more than two).       *)
LEMMA BlockAddresses ==
  ASSUME NEW block \in Cidrs
  PROVE  /\ PoolRange(block) \subseteq Nat
         /\ FirstAddress(block) \in PoolRange(block)
         /\ FirstAddress(block) + 1 \in PoolRange(block)
  <1>1. block.address \in Nat /\ block.size \in Nat /\ block.size > 2
    BY CidrAssumption
  <1>2. block.address % block.size \in 0 .. block.address
    <2> DEFINE a == block.address
               s == block.size
               q == a \div s
               r == a % s
    <2>1. a \in Nat /\ s \in Nat /\ s > 0
      BY <1>1
    <2> HIDE DEF a, s
    <2>2. q \in Int /\ r \in 0 .. (s - 1) /\ a = s * q + r
      BY <2>1
    <2> HIDE DEF q, r
    <2>3. q >= 0
      <3>1. SUFFICES ASSUME q <= -1
                     PROVE  FALSE
        BY <2>2
      <3>2. s * q <= -s
        BY <2>1, <2>2, <3>1
      <3>3. QED
        BY <2>1, <2>2, <3>2
    <2>4. s * q >= 0
      BY <2>1, <2>2, <2>3
    <2>5. r <= a
      BY <2>1, <2>2, <2>4
    <2>6. QED
      BY <2>2, <2>5 DEF r, a, s
  <1>3. FirstAddress(block) \in Nat
    BY <1>1, <1>2 DEF FirstAddress
  <1> HIDE DEF FirstAddress
  <1>4. QED
    BY <1>1, <1>3 DEF PoolRange, LastAddress

(* A provider's reserved entries are of its block (initialize).             *)
LEMMA InitializedFits ==
  ASSUME cidr \in Cidrs
  PROVE  /\ DOMAIN Initialized = {Gateway, Subnet} /\ IsFiniteSet(DOMAIN Initialized)
         /\ Initialized \in [DOMAIN Initialized -> PoolRange(cidr)]
  <1>1. DOMAIN Initialized = {Gateway, Subnet}
    BY DEF Initialized
  <1>2. IsFiniteSet({Gateway, Subnet})
    <2>1. IsFiniteSet({Gateway} \cup {Subnet})
      BY FS_Singleton, FS_AddElement
    <2>2. {Gateway} \cup {Subnet} = {Gateway, Subnet}
      OBVIOUS
    <2>3. QED
      BY <2>1, <2>2
  <1>3. \A id \in {Gateway, Subnet} : Initialized[id] \in PoolRange(cidr)
    <2>1. FirstAddress(cidr) \in PoolRange(cidr) /\ FirstAddress(cidr) + 1 \in PoolRange(cidr)
          /\ FirstAddress(cidr) \in Int
      BY BlockAddresses
    <2> HIDE DEF FirstAddress, PoolRange
    <2>2. QED
      BY <2>1 DEF Initialized
  <1>4. QED
    BY <1>1, <1>2, <1>3 DEF Initialized

(* A bridge that goes leaves the other ends where they are.                 *)
LEMMA UnbridgedGives ==
  ASSUME TypeOK, NEW code
  PROVE  /\ DOMAIN Unbridged(code) = DOMAIN pairs
         /\ Unbridged(code) \in [DOMAIN pairs -> PairTypes]
         /\ \A k \in DOMAIN pairs :
              /\ Unbridged(code)[k].second = pairs[k].second
              /\ Unbridged(code)[k].address = pairs[k].address
              /\ Unbridged(code)[k].owner = pairs[k].owner
  <1>1. pairs \in [DOMAIN pairs -> PairTypes]
    BY DEF TypeOK, PairTypes
  <1>2. \A k \in DOMAIN pairs : [pairs[k] EXCEPT !.first = Unattached] \in PairTypes
    BY <1>1 DEF PairTypes, Unattached
  <1>3. QED
    BY <1>1, <1>2 DEF Unbridged, PairTypes

(* A jail that goes gives its ends back; the others stay.                   *)
LEMMA ReturnedGives ==
  ASSUME TypeOK, NEW c
  PROVE  /\ DOMAIN Returned(c) = DOMAIN pairs
         /\ Returned(c) \in [DOMAIN pairs -> PairTypes]
         /\ \A k \in DOMAIN pairs :
              /\ Returned(c)[k].owner = pairs[k].owner
              /\ pairs[k].second # c => Returned(c)[k] = pairs[k]
              /\ pairs[k].second = c => Returned(c)[k].second = None
  <1>1. pairs \in [DOMAIN pairs -> PairTypes]
    BY DEF TypeOK, PairTypes
  <1>2. QED
    BY <1>1 DEF Returned, PairTypes

(* Links stay as they are, but for the bridges they are on.                 *)
LEMMA LinksKept ==
  ASSUME NetworkInv, UNCHANGED <<jails, survivors, member_tb, leaves, call>>,
         DOMAIN pairs' = DOMAIN pairs,
         \A k \in DOMAIN pairs : /\ pairs'[k].second = pairs[k].second
                                 /\ pairs'[k].address = pairs[k].address
                                 /\ pairs'[k].owner = pairs[k].owner,
         Default \in DOMAIN networks => networks'[Default] = networks[Default]
  PROVE  JailAddressIsLeased' /\ EndsFit' /\ RowsFit'
  <1>1. JailAddressIsLeased'
    BY DEF NetworkInv, JailAddressIsLeased, DefaultFits
  <1>2. EndsFit'
    BY DEF NetworkInv, EndsFit
  <1>3. RowsFit'
    <2> SUFFICES ASSUME NoneTwice', NEW i \in DOMAIN member_tb,
                        leaves[member_tb[i].container] = 0
                 PROVE  /\ member_tb[i].pair \in DOMAIN pairs
                        /\ pairs'[member_tb[i].pair].owner = member_tb[i].container
      BY DEF RowsFit
    <2>1. NoneTwice
      BY DEF NoneTwice
    <2>2. QED
      BY <2>1 DEF NetworkInv, RowsFit
  <1>4. QED
    BY <1>1, <1>2, <1>3

\* The cases of adding a network, in Setup and in Create.
Adding(n) ==
  \/ AddSucceeds(n)
  \/ (AddBridgeFails(n) \/ AddBridgeBusy(n)) /\ UNCHANGED codesReused

(* The code of a bridge is a number.                                        *)
LEMMA CodeIsNumber ==
  ASSUME CountsFit, NEW n
  PROVE  /\ CodeFor(n) \in Int /\ Cardinality(DOMAIN network_tb) \in Nat
         /\ CodeFor(n) = IF n = Default THEN -1 ELSE Cardinality(DOMAIN network_tb)
  BY FS_CardinalityType DEF CountsFit, CodeFor, DefaultCode

(* A network that is added brings its provider, and at most its bridge      *)
(* (network_service::add, create_bridge).                                   *)
LEMMA AddingGives ==
  ASSUME NetworkInv, NEW n \in Networks, Adding(n)
  PROVE  /\ networks' = networks \/ networks' = Emplace(networks, n, Initialized)
         /\ AddSucceeds(n) => n \notin DOMAIN networks
         /\ bridges' \in [DOMAIN bridges' -> Networks \cup {None}]
         /\ DOMAIN bridges' \subseteq DOMAIN bridges \cup {CodeFor(n)}
         /\ pairs' \in [DOMAIN pairs -> PairTypes]
         /\ \A k \in DOMAIN pairs : /\ pairs'[k].second = pairs[k].second
                                    /\ pairs'[k].address = pairs[k].address
                                    /\ pairs'[k].owner = pairs[k].owner
         /\ \A code \in DOMAIN bridges' :
              \/ bridges'[code] = None
              \/ code \in DOMAIN bridges /\ bridges'[code] = bridges[code]
              \/ code = CodeFor(n) /\ AddSucceeds(n)
  <1>1. TypeOK /\ bridges \in [DOMAIN bridges -> Networks \cup {None}]
        /\ pairs \in [DOMAIN pairs -> PairTypes]
    BY DEF NetworkInv, TypeOK, PairTypes
  <1>2. networks' = networks \/ networks' = Emplace(networks, n, Initialized)
    BY DEF Adding, AddSucceeds, AddBridgeFails, AddBridgeBusy
  <1>3. AddSucceeds(n) => n \notin DOMAIN networks
    BY DEF AddSucceeds
  <1> DEFINE code == CodeFor(n)
             less == Erase(bridges, code)
  <1>4. /\ DOMAIN less = DOMAIN bridges \ {code} /\ less \in [DOMAIN less -> Networks \cup {None}]
        /\ \A d \in DOMAIN less : less[d] = bridges[d]
    BY <1>1 DEF Erase
  <1>5. \/ UNCHANGED <<bridges, pairs>>
        \/ bridges' = less /\ pairs' = Unbridged(code)
        \/ bridges' = Emplace(less, code, None) /\ pairs' = Unbridged(code)
        \/ bridges' = Emplace(less, code, n) /\ pairs' = Unbridged(code) /\ AddSucceeds(n)
    BY DEF Adding, AddSucceeds, AddBridgeFails, AddBridgeBusy, MakeBridge
  <1>6. /\ pairs' \in [DOMAIN pairs -> PairTypes]
        /\ \A k \in DOMAIN pairs : /\ pairs'[k].second = pairs[k].second
                                   /\ pairs'[k].address = pairs[k].address
                                   /\ pairs'[k].owner = pairs[k].owner
    <2> HIDE DEF code, less
    <2>1. QED
      BY <1>1, <1>5, UnbridgedGives
  <1> HIDE DEF less
  <1>7. ASSUME NEW owner \in Networks \cup {None}, bridges' = Emplace(less, code, owner)
        PROVE  /\ bridges' \in [DOMAIN bridges' -> Networks \cup {None}]
               /\ DOMAIN bridges' = (DOMAIN bridges \ {code}) \cup {code}
               /\ \A d \in DOMAIN bridges' :
                    \/ d = code /\ bridges'[d] = owner
                    \/ d \in DOMAIN bridges /\ bridges'[d] = bridges[d]
    <2> HIDE DEF code
    <2>1. /\ DOMAIN bridges' = DOMAIN less \cup {code}
          /\ bridges' \in [DOMAIN bridges' -> Networks \cup {None}]
          /\ \A d \in DOMAIN less : bridges'[d] = less[d]
          /\ bridges'[code] = owner
      BY <1>4, <1>7 DEF Emplace
    <2>2. QED
      BY <1>4, <2>1
  <1>8. /\ bridges' \in [DOMAIN bridges' -> Networks \cup {None}]
        /\ DOMAIN bridges' \subseteq DOMAIN bridges \cup {code}
        /\ \A d \in DOMAIN bridges' :
             \/ bridges'[d] = None
             \/ d \in DOMAIN bridges /\ bridges'[d] = bridges[d]
             \/ d = code /\ AddSucceeds(n)
    <2> HIDE DEF code
    <2>1. QED
      BY <1>1, <1>4, <1>5, <1>7
  <1>9. QED
    BY <1>2, <1>3, <1>6, <1>8

(* Adding a network keeps everything else as it is.                         *)
LEMMA AddingKeeps ==
  ASSUME NetworkInv, NEW n \in Networks, Adding(n),
         UNCHANGED <<cidr, jails, call, survivors, leaves, crashes>>,
         serving' = serving \/ (serving' = TRUE /\ AddSucceeds(Default) /\ n = Default)
  PROVE  NetworkInv'
  <1>1. TypeOK /\ CountsFit /\ DefaultFits /\ CodesFit /\ cidr \in Cidrs
    BY DEF NetworkInv, TypeOK
  <1>2. member_tb' = member_tb
        /\ (\/ UNCHANGED <<network_tb, lastId, codesReused>> /\ ~AddSucceeds(n)
            \/ n \in DOMAIN network_tb /\ UNCHANGED <<network_tb, lastId, codesReused>>
            \/ codesReused' = TRUE /\ UNCHANGED <<network_tb, lastId>>
            \/ /\ n \notin DOMAIN network_tb /\ lastId < MaxNetworks
               /\ network_tb' = Emplace(network_tb, n, [id |-> lastId + 1, code |-> CodeFor(n)])
               /\ lastId' = lastId + 1 /\ UNCHANGED codesReused)
    BY DEF Adding, AddSucceeds, AddBridgeFails, AddBridgeBusy, tables
  <1>3. /\ networks' = networks \/ networks' = Emplace(networks, n, Initialized)
        /\ AddSucceeds(n) => n \notin DOMAIN networks /\ networks' = Emplace(networks, n, Initialized)
    BY AddingGives DEF AddSucceeds
  <1>4. /\ DOMAIN networks \subseteq DOMAIN networks'
        /\ DOMAIN networks' \subseteq DOMAIN networks \cup {n}
        /\ AddSucceeds(n) => n \in DOMAIN networks'
        /\ \A m \in DOMAIN networks' :
             networks'[m] = IF m \in DOMAIN networks THEN networks[m] ELSE Initialized
    BY <1>3 DEF Emplace
  <1>5. /\ bridges' \in [DOMAIN bridges' -> Networks \cup {None}]
        /\ pairs' \in [DOMAIN pairs -> PairTypes] /\ DOMAIN pairs' = DOMAIN pairs
        /\ \A k \in DOMAIN pairs : /\ pairs'[k].second = pairs[k].second
                                   /\ pairs'[k].address = pairs[k].address
                                   /\ pairs'[k].owner = pairs[k].owner
    BY AddingGives
  <1>6. /\ DOMAIN network_tb \subseteq DOMAIN network_tb'
        /\ DOMAIN network_tb' \subseteq DOMAIN network_tb \cup {n}
        /\ network_tb' \in [DOMAIN network_tb' -> [id : 1 .. MaxNetworks, code : Int]]
        /\ lastId' \in 0 .. MaxNetworks
    <2>1. /\ network_tb \in [DOMAIN network_tb -> [id : 1 .. MaxNetworks, code : Int]]
          /\ lastId \in 0 .. MaxNetworks /\ MaxNetworks \in Nat
      BY <1>1, BoundsAssumption DEF TypeOK
    <2>2. CASE UNCHANGED <<network_tb, lastId>>
      BY <2>1, <2>2
    <2>3. CASE /\ n \notin DOMAIN network_tb /\ lastId < MaxNetworks
               /\ network_tb' = Emplace(network_tb, n, [id |-> lastId + 1, code |-> CodeFor(n)])
               /\ lastId' = lastId + 1
      <3>1. [id |-> lastId + 1, code |-> CodeFor(n)] \in [id : 1 .. MaxNetworks, code : Int]
        BY <1>1, <2>1, <2>3, CodeIsNumber
      <3>2. QED
        BY <2>1, <2>3, <3>1 DEF Emplace
    <2>4. QED
      BY <1>2, <2>2, <2>3
  <1>7. codesReused' \in BOOLEAN /\ serving' \in BOOLEAN
    <2>1. codesReused \in BOOLEAN /\ serving \in BOOLEAN
      BY <1>1 DEF TypeOK
    <2>2. codesReused' = codesReused \/ codesReused' = TRUE
      BY <1>2
    <2>3. QED
      BY <2>1, <2>2
  <1>8. TypeOK'
    <2>1. \A m \in DOMAIN networks' :
            /\ DOMAIN networks'[m] \subseteq Holders
            /\ networks'[m] \in [DOMAIN networks'[m] -> PoolRange(cidr)]
      <3>1. DOMAIN Initialized \subseteq Holders
            /\ Initialized \in [DOMAIN Initialized -> PoolRange(cidr)]
        BY <1>1, InitializedFits DEF Holders
      <3>2. \A m \in DOMAIN networks :
              /\ DOMAIN networks[m] \subseteq Holders
              /\ networks[m] \in [DOMAIN networks[m] -> PoolRange(cidr)]
        BY <1>1 DEF TypeOK
      <3> HIDE DEF Initialized
      <3>3. QED
        BY <1>4, <3>1, <3>2
    <2>2. DOMAIN networks' \cup DOMAIN network_tb' \subseteq Networks
      BY <1>1, <1>4, <1>6 DEF TypeOK
    <2>3. pairs' \in [DOMAIN pairs' ->
                        [first : Int, second : Containers \cup {None},
                         address : Nat \cup {None}, owner : Containers]]
      BY <1>5 DEF PairTypes
    <2>4. QED
      BY <1>1, <1>2, <1>5, <1>6, <1>7, <2>1, <2>2, <2>3 DEF TypeOK
  <1>9. CountsFit'
    <2>1. IsFiniteSet(DOMAIN network_tb \cup {n})
      BY <1>1, FS_AddElement DEF CountsFit
    <2>2. IsFiniteSet(DOMAIN network_tb')
      BY <1>6, <2>1, FS_Subset
    <2>3. \A m \in DOMAIN networks' : IsFiniteSet(DOMAIN networks'[m])
      BY <1>1, <1>4, InitializedFits DEF CountsFit
    <2>4. DOMAIN bridges' \subseteq Int
      BY <1>1, AddingGives, CodeIsNumber DEF CountsFit
    <2>5. QED
      BY <2>2, <2>3, <2>4 DEF CountsFit
  <1>10. DefaultFits'
    BY <1>1, <1>4 DEF DefaultFits
  <1>11. JailAddressIsLeased' /\ EndsFit' /\ RowsFit'
    BY <1>2, <1>4, <1>5, LinksKept
  <1>12. CodesFit'
    <2> SUFFICES ASSUME crashes = 0
                 PROVE  /\ DOMAIN network_tb' \subseteq DOMAIN networks'
                        /\ ~codesReused' =>
                             \A code \in DOMAIN bridges' :
                               bridges'[code] # None => code < Cardinality(DOMAIN network_tb')
      BY DEF CodesFit
    <2>1. n \in DOMAIN network_tb => n \in DOMAIN networks
      BY <1>1 DEF CodesFit
    <2>2. n \in DOMAIN network_tb' => n \in DOMAIN network_tb \/ AddSucceeds(n)
      BY DEF Adding, AddBridgeFails, AddBridgeBusy, tables
    <2>3. DOMAIN network_tb' \subseteq DOMAIN networks'
      BY <1>1, <1>4, <1>6, <2>1, <2>2 DEF CodesFit
    <2>4. ASSUME ~codesReused', NEW code \in DOMAIN bridges', bridges'[code] # None
          PROVE  code < Cardinality(DOMAIN network_tb')
      <3> DEFINE count == Cardinality(DOMAIN network_tb)
      <3>1. ~codesReused /\ count \in Nat
        BY <1>1, <1>2, <2>4, CodeIsNumber
      <3>2. /\ Cardinality(DOMAIN network_tb') \in Nat
            /\ count <= Cardinality(DOMAIN network_tb')
        BY <1>6, <1>9, FS_CardinalityType, FS_Subset DEF CountsFit
      <3>3. CASE code \in DOMAIN bridges /\ bridges'[code] = bridges[code]
        <4>1. code < count
          BY <1>1, <2>4, <3>1, <3>3 DEF CodesFit
        <4>2. QED
          <5> HIDE DEF count
          <5>1. code \in Int
            BY <1>1, <3>3 DEF CountsFit
          <5>2. QED
            BY <3>1, <3>2, <4>1, <5>1
      <3>4. CASE code = CodeFor(n) /\ AddSucceeds(n)
        <4>1. n \notin DOMAIN network_tb /\ DOMAIN network_tb' = DOMAIN network_tb \cup {n}
          BY <1>2, <1>3, <2>1, <2>4, <3>4 DEF Emplace
        <4>2. Cardinality(DOMAIN network_tb') = count + 1
          BY <1>1, <4>1, FS_AddElement DEF CountsFit
        <4>3. code \in Int /\ code <= count
          BY <1>1, <3>1, <3>4, CodeIsNumber
        <4>4. QED
          BY <3>1, <4>2, <4>3
      <3>5. QED
        BY <2>4, <3>3, <3>4, AddingGives
    <2>5. QED
      BY <2>3, <2>4
  <1>13. QED
    BY <1>8, <1>9, <1>10, <1>11, <1>12 DEF NetworkInv

\* The default network's pool keeps its entries, and may get one more.
PoolsGrow ==
  /\ DOMAIN networks' = DOMAIN networks
  /\ \A n \in DOMAIN networks' :
       /\ DOMAIN networks'[n] \subseteq Holders /\ IsFiniteSet(DOMAIN networks'[n])
       /\ networks'[n] \in [DOMAIN networks'[n] -> PoolRange(cidr)]
  /\ \A d \in DOMAIN networks[Default] :
       d \in DOMAIN networks'[Default] /\ networks'[Default][d] = networks[Default][d]

(* What a pool may hold, where nothing of networks changes.                 *)
LEMMA SamePoolsGrow ==
  ASSUME NetworkInv, UNCHANGED networks
  PROVE  PoolsGrow
  BY DEF NetworkInv, TypeOK, CountsFit, PoolsGrow

\* The ends of a container that goes are with the host; so is what is new.
EndsReturn(c) ==
  /\ DOMAIN pairs \subseteq DOMAIN pairs' /\ pairs' \in [DOMAIN pairs' -> PairTypes]
  /\ \A k \in DOMAIN pairs' :
       IF k \in DOMAIN pairs
       THEN /\ pairs'[k].owner = pairs[k].owner
            /\ pairs[k].second # c => pairs'[k] = pairs[k]
            /\ pairs[k].second = c => pairs'[k].second = None
       ELSE pairs'[k].second = None

(* An epair is taken away or, where remove_interface fails, left behind     *)
(* (the rollback of bridge_container).                                      *)
LEMMA RollbackReturns ==
  ASSUME NetworkInv, NEW c \in Containers, NEW k \in Int, BridgeFails(c, k)
  PROVE  EndsReturn(c)
  <1>1. TypeOK
    BY DEF NetworkInv
  <1>2. CASE pairs' = Returned(c)
    BY <1>1, <1>2, ReturnedGives DEF EndsReturn
  <1>3. CASE pairs' # Returned(c)
    <2>1. PICK code \in {Unattached} \cup ({network_tb[Default].code} \cap DOMAIN bridges) :
            k \notin DOMAIN pairs /\ pairs' = Emplace(Returned(c), k, LeftPair(c, code))
      BY <1>3 DEF BridgeFails
    <2>2. code \in Int
      BY <2>1 DEF NetworkInv, CountsFit, Unattached
    <2>3. LeftPair(c, code) \in PairTypes /\ LeftPair(c, code).second = None
      BY <2>2 DEF LeftPair, PairTypes
    <2>4. PICK left : left = LeftPair(c, code)
      OBVIOUS
    <2>5. PICK back : back = Returned(c)
      OBVIOUS
    <2>6. /\ DOMAIN pairs' = DOMAIN pairs \cup {k} /\ pairs'[k] = left
          /\ \A j \in DOMAIN pairs : pairs'[j] = back[j]
          /\ pairs' \in [DOMAIN pairs' -> PairTypes]
      BY <1>1, <2>1, <2>3, <2>4, <2>5, ReturnedGives DEF Emplace
    <2>7. QED
      BY <1>1, <2>1, <2>3, <2>4, <2>5, <2>6, ReturnedGives DEF EndsReturn
  <1>4. QED
    BY <1>2, <1>3

(* A container goes, with its jail and its ends (runtime's reaction to a    *)
(* join that failed, and a container's destructor).                         *)
LEMMA GoneKeeps ==
  ASSUME NetworkInv, NEW c \in Containers, NotJoined(c), EndsReturn(c), PoolsGrow,
         serving, Default \in DOMAIN networks,
         UNCHANGED <<cidr, tables, bridges, serving, leaves, codesReused, crashes>>
  PROVE  NetworkInv'
  <1>1. TypeOK /\ CountsFit /\ DefaultFits /\ EndsFit /\ CodesFit
        /\ c # None /\ None \notin jails /\ survivors \subseteq jails /\ jails \subseteq Containers
    BY NoneAssumption DEF NetworkInv, TypeOK
  <1>2. /\ jails' = jails \ {c} /\ survivors' = survivors \ {c}
        /\ call' = [op |-> "leave", container |-> c]
    BY DEF NotJoined
  <1>3. /\ DOMAIN pairs \subseteq DOMAIN pairs' /\ pairs' \in [DOMAIN pairs' -> PairTypes]
        /\ \A k \in DOMAIN pairs :
             /\ pairs'[k].owner = pairs[k].owner
             /\ pairs[k].second # c => pairs'[k] = pairs[k]
             /\ pairs[k].second = c => pairs'[k].second = None
        /\ \A k \in DOMAIN pairs' : k \notin DOMAIN pairs => pairs'[k].second = None
    BY DEF EndsReturn
  <1>4. TypeOK'
    <2>1. pairs' \in [DOMAIN pairs' ->
                        [first : Int, second : Containers \cup {None},
                         address : Nat \cup {None}, owner : Containers]]
      BY <1>3 DEF PairTypes
    <2>2. call' \in [op : {"none", "join", "leave"}, container : Containers \cup {None}]
      BY <1>2
    <2>3. \A n \in DOMAIN networks' :
            /\ DOMAIN networks'[n] \subseteq Holders
            /\ networks'[n] \in [DOMAIN networks'[n] -> PoolRange(cidr')]
      BY DEF PoolsGrow
    <2>4. jails' \subseteq Containers /\ survivors' \subseteq jails'
      BY <1>1, <1>2
    <2>5. QED
      BY <1>1, <2>1, <2>2, <2>3, <2>4 DEF TypeOK, tables, PoolsGrow
  <1>5. JailAddressIsLeased'
    <2> SUFFICES ASSUME NEW k \in DOMAIN pairs', pairs'[k].second \in jails' \ survivors',
                        pairs'[k].address # None
                 PROVE  /\ pairs'[k].second \in DOMAIN networks'[Default]
                        /\ networks'[Default][pairs'[k].second] = pairs'[k].address
      BY DEF JailAddressIsLeased
    <2>1. k \in DOMAIN pairs /\ pairs[k].second # c /\ pairs'[k] = pairs[k]
      BY <1>1, <1>2, <1>3
    <2>2. pairs[k].second \in jails \ survivors
      BY <1>2, <2>1
    <2>3. QED
      BY <2>1, <2>2 DEF NetworkInv, JailAddressIsLeased, PoolsGrow
  <1>6. CountsFit' /\ DefaultFits' /\ CodesFit'
    BY <1>1 DEF CountsFit, DefaultFits, CodesFit, PoolsGrow, tables
  <1>7. EndsFit'
    BY <1>1, <1>2, <1>3 DEF EndsFit
  <1>8. RowsFit'
    BY <1>3 DEF NetworkInv, RowsFit, NoneTwice, tables
  <1>9. QED
    BY <1>4, <1>5, <1>6, <1>7, <1>8 DEF NetworkInv

(* The epair is there, its number free before, and the row of its container *)
(* is written or lost (bridge_container, sql_network_repository::join).     *)
LEMMA BridgeKeeps ==
  ASSUME NetworkInv, NEW c \in Containers, NEW k \in Int, NEW address \in Nat \cup {None},
         Bridge(c, k, address), PoolsGrow, serving, Default \in DOMAIN networks,
         address # None =>
           c \in DOMAIN networks'[Default] /\ networks'[Default][c] = address,
         UNCHANGED <<cidr, network_tb, lastId, bridges, serving, leaves, codesReused, crashes>>
  PROVE  NetworkInv'
  <1>1. TypeOK /\ CountsFit /\ DefaultFits /\ EndsFit /\ CodesFit
        /\ pairs \in [DOMAIN pairs -> PairTypes]
        /\ network_tb \in [DOMAIN network_tb -> [id : 1 .. MaxNetworks, code : Int]]
        /\ member_tb \in Seq(RowTypes) /\ c # None
    BY NoneAssumption DEF NetworkInv, TypeOK, PairTypes, RowTypes
  <1>2. /\ k \notin DOMAIN pairs /\ Default \in DOMAIN network_tb /\ c \in jails
        /\ call' = Idle /\ UNCHANGED <<jails, survivors>>
    BY DEF Bridge, CanBridge, Joined
  <1> DEFINE made == MadePair(c, address)
             row == [network |-> network_tb[Default].id, container |-> c, pair |-> k]
  <1>3. made \in PairTypes /\ made.second = c /\ made.address = address /\ made.owner = c
    BY <1>1, <1>2 DEF MadePair, PairTypes
  <1>4. /\ DOMAIN pairs' = DOMAIN pairs \cup {k} /\ pairs'[k] = made
        /\ \A j \in DOMAIN pairs : pairs'[j] = pairs[j]
        /\ pairs' \in [DOMAIN pairs' -> PairTypes]
    <2>1. pairs' = Emplace(pairs, k, made)
      BY DEF Bridge
    <2> HIDE DEF made
    <2>2. QED
      BY <1>1, <1>2, <1>3, <2>1 DEF Emplace
  <1>5. row \in RowTypes
    BY <1>1, <1>2 DEF RowTypes
  <1> HIDE DEF made
  <1>6. /\ member_tb' \in Seq(RowTypes)
        /\ \A i \in DOMAIN member_tb' :
             \/ i \in DOMAIN member_tb /\ member_tb'[i] = member_tb[i]
             \/ member_tb'[i] = row
    <2> HIDE DEF row
    <2>1. CASE UNCHANGED member_tb
      BY <1>1, <2>1
    <2>2. CASE member_tb' = Append(member_tb, row)
      <3>1. /\ member_tb' \in Seq(RowTypes) /\ Len(member_tb') = Len(member_tb) + 1
            /\ \A i \in 1 .. Len(member_tb) : member_tb'[i] = member_tb[i]
            /\ member_tb'[Len(member_tb) + 1] = row
        BY <1>1, <1>5, <2>2, AppendProperties
      <3>2. Len(member_tb) \in Nat /\ DOMAIN member_tb = 1 .. Len(member_tb)
            /\ DOMAIN member_tb' = 1 .. (Len(member_tb) + 1)
        BY <1>1, <3>1, LenProperties
      <3>3. \A i \in DOMAIN member_tb' : i \in DOMAIN member_tb \/ i = Len(member_tb) + 1
        BY <3>2
      <3>4. QED
        BY <3>1, <3>2, <3>3
    <2>3. QED
      BY <2>1, <2>2 DEF Bridge, row
  <1>7. TypeOK'
    <2>1. pairs' \in [DOMAIN pairs' ->
                        [first : Int, second : Containers \cup {None},
                         address : Nat \cup {None}, owner : Containers]]
      BY <1>4 DEF PairTypes
    <2>2. call' \in [op : {"none", "join", "leave"}, container : Containers \cup {None}]
      BY <1>2 DEF Idle
    <2>3. \A n \in DOMAIN networks' :
            /\ DOMAIN networks'[n] \subseteq Holders
            /\ networks'[n] \in [DOMAIN networks'[n] -> PoolRange(cidr')]
      BY DEF PoolsGrow
    <2>4. member_tb' \in Seq([network : 1 .. MaxNetworks, container : Containers, pair : Int])
      BY <1>6 DEF RowTypes
    <2>5. QED
      BY <1>1, <1>2, <2>1, <2>2, <2>3, <2>4 DEF TypeOK, PoolsGrow
  <1>8. JailAddressIsLeased'
    <2> SUFFICES ASSUME NEW j \in DOMAIN pairs', pairs'[j].second \in jails' \ survivors',
                        pairs'[j].address # None
                 PROVE  /\ pairs'[j].second \in DOMAIN networks'[Default]
                        /\ networks'[Default][pairs'[j].second] = pairs'[j].address
      BY DEF JailAddressIsLeased
    <2>1. CASE j = k
      BY <1>3, <1>4, <2>1
    <2>2. CASE j \in DOMAIN pairs
      BY <1>2, <1>4, <2>2 DEF NetworkInv, JailAddressIsLeased, PoolsGrow
    <2>3. QED
      BY <1>4, <2>1, <2>2
  <1>9. CountsFit' /\ DefaultFits' /\ CodesFit'
    BY <1>1, <1>2 DEF CountsFit, DefaultFits, CodesFit, PoolsGrow
  <1>10. EndsFit'
    BY <1>1, <1>2, <1>3, <1>4 DEF EndsFit, Idle
  <1>11. RowsFit'
    <2> SUFFICES ASSUME NoneTwice', NEW i \in DOMAIN member_tb',
                        leaves[member_tb'[i].container] = 0
                 PROVE  /\ member_tb'[i].pair \in DOMAIN pairs'
                        /\ pairs'[member_tb'[i].pair].owner = member_tb'[i].container
      BY DEF RowsFit
    <2>1. CASE i \in DOMAIN member_tb /\ member_tb'[i] = member_tb[i]
      BY <1>4, <2>1 DEF NetworkInv, RowsFit, NoneTwice
    <2>2. CASE member_tb'[i] = row
      BY <1>3, <1>4, <2>2
    <2>3. QED
      BY <1>6, <2>1, <2>2
  <1>12. QED
    BY <1>7, <1>8, <1>9, <1>10, <1>11 DEF NetworkInv

(* Number of a pair: a count less three.                                    *)
LEMMA PairNumberIsInt ==
  ASSUME NEW taken, IsFiniteSet(DOMAIN taken)
  PROVE  PairNumber(taken) \in Int
  <1>1. Cardinality(DOMAIN taken) \in Nat
    BY FS_CardinalityType
  <1>2. QED
    BY <1>1 DEF PairNumber, TotalTaken

(* A call in progress belongs to a daemon that serves, with its network.    *)
LEMMA CallsAreServed ==
  ASSUME NetworkInv, call # Idle
  PROVE  serving /\ Default \in DOMAIN networks
  BY DEF NetworkInv, DefaultFits

\* A lease is recorded, unless the container has one.
Leased(c, a) == Emplace(networks[Default], c, a)

(* A lease that is recorded takes a free address of the block, and moves    *)
(* none that is there (address_provider::next).                             *)
LEMMA LeasingGrows ==
  ASSUME NetworkInv, NEW c \in Containers, NEW a \in PoolRange(cidr),
         Default \in DOMAIN networks,
         networks' = [networks EXCEPT ![Default] = Leased(c, a)]
  PROVE  /\ PoolsGrow /\ networks'[Default] = Leased(c, a)
         /\ c \in DOMAIN Leased(c, a) /\ Leased(c, a)[c] \in Nat
         /\ PairNumber(Leased(c, a)) \in Int
  <1> DEFINE pool == networks[Default]
             leased == Leased(c, a)
  <1>1. /\ DOMAIN pool \subseteq Holders /\ IsFiniteSet(DOMAIN pool)
        /\ pool \in [DOMAIN pool -> PoolRange(cidr)] /\ c \in Holders
    BY DEF NetworkInv, TypeOK, CountsFit, Holders
  <1>2. /\ DOMAIN leased = DOMAIN pool \cup {c}
        /\ leased \in [DOMAIN leased -> PoolRange(cidr)]
        /\ \A d \in DOMAIN pool : leased[d] = pool[d]
    <2> HIDE DEF pool
    <2>1. leased = Emplace(pool, c, a)
      BY DEF Leased, pool
    <2> HIDE DEF leased
    <2>2. QED
      BY <1>1, <2>1 DEF Emplace
  <1>3. IsFiniteSet(DOMAIN leased)
    BY <1>1, <1>2, FS_AddElement
  <1>4. PairNumber(leased) \in Int
    BY <1>3, PairNumberIsInt
  <1>5. leased[c] \in Nat
    <2>1. PoolRange(cidr) \subseteq Nat
      BY BlockAddresses DEF NetworkInv, TypeOK
    <2> HIDE DEF leased
    <2>2. QED
      BY <1>2, <2>1
  <1>6. DOMAIN networks' = DOMAIN networks /\ networks'[Default] = leased
        /\ \A n \in DOMAIN networks : n # Default => networks'[n] = networks[n]
    BY DEF NetworkInv, TypeOK
  <1>7. PoolsGrow
    <2>1. DOMAIN leased \subseteq Holders
      BY <1>1, <1>2
    <2>2. \A n \in DOMAIN networks :
            /\ DOMAIN networks[n] \subseteq Holders /\ IsFiniteSet(DOMAIN networks[n])
            /\ networks[n] \in [DOMAIN networks[n] -> PoolRange(cidr)]
      BY DEF NetworkInv, TypeOK, CountsFit
    <2> HIDE DEF leased
    <2>3. \A n \in DOMAIN networks' :
            /\ DOMAIN networks'[n] \subseteq Holders /\ IsFiniteSet(DOMAIN networks'[n])
            /\ networks'[n] \in [DOMAIN networks'[n] -> PoolRange(cidr)]
      BY <1>2, <1>3, <1>6, <2>1, <2>2
    <2>4. QED
      BY <1>2, <1>6, <2>3 DEF PoolsGrow, pool
  <1>8. QED
    BY <1>2, <1>4, <1>5, <1>6, <1>7

(* join with an address to give.                                            *)
LEMMA JoinKeeps ==
  ASSUME NetworkInv, NEW c \in Containers, Join(c)
  PROVE  NetworkInv'
  <1>1. PICK a \in PoolRange(cidr) :
          /\ networks' = [networks EXCEPT ![Default] = Leased(c, a)]
          /\ \/ Bridge(c, PairNumber(Leased(c, a)), Leased(c, a)[c])
             \/ Bridge(c, PairNumber(Leased(c, a)), None)
             \/ BridgeFails(c, PairNumber(Leased(c, a)))
    BY DEF Join, Leased
  <1>2. serving /\ Default \in DOMAIN networks
    <2>1. call # Idle
      BY DEF Join, Idle
    <2>2. QED
      BY <2>1, CallsAreServed
  <1>3. UNCHANGED <<cidr, network_tb, lastId, bridges, serving, leaves, codesReused, crashes>>
    BY DEF Join
  <1>4. /\ PoolsGrow /\ networks'[Default] = Leased(c, a)
        /\ c \in DOMAIN Leased(c, a) /\ Leased(c, a)[c] \in Nat
        /\ PairNumber(Leased(c, a)) \in Int
    BY <1>1, <1>2, LeasingGrows
  <1>5. CASE Bridge(c, PairNumber(Leased(c, a)), Leased(c, a)[c])
    BY <1>2, <1>3, <1>4, <1>5, BridgeKeeps
  <1>6. CASE Bridge(c, PairNumber(Leased(c, a)), None)
    BY <1>2, <1>3, <1>4, <1>6, BridgeKeeps
  <1>7. CASE BridgeFails(c, PairNumber(Leased(c, a)))
    BY <1>2, <1>3, <1>4, <1>7, RollbackReturns, GoneKeeps DEF BridgeFails, tables
  <1>8. QED
    BY <1>1, <1>5, <1>6, <1>7

(* join on an exhausted pool: the interface has no address.                 *)
LEMMA JoinExhaustedKeeps ==
  ASSUME NetworkInv, NEW c \in Containers, JoinExhausted(c)
  PROVE  NetworkInv'
  <1>1. serving /\ Default \in DOMAIN networks
    <2>1. call # Idle
      BY DEF JoinExhausted, Idle
    <2>2. QED
      BY <2>1, CallsAreServed
  <1>2. UNCHANGED <<cidr, network_tb, lastId, bridges, networks, serving,
                    leaves, codesReused, crashes>>
    BY DEF JoinExhausted
  <1>3. PoolsGrow
    BY <1>2, SamePoolsGrow
  <1>4. PICK k \in {PairNumber(networks[Default]), -1} : Bridge(c, k, None) \/ BridgeFails(c, k)
    BY DEF JoinExhausted
  <1>5. k \in Int
    <2>1. PairNumber(networks[Default]) \in Int
      BY <1>1, PairNumberIsInt DEF NetworkInv, CountsFit
    <2>2. QED
      BY <2>1
  <1>6. CASE Bridge(c, k, None)
    BY <1>1, <1>2, <1>3, <1>5, <1>6, BridgeKeeps
  <1>7. CASE BridgeFails(c, k)
    BY <1>1, <1>2, <1>3, <1>5, <1>7, RollbackReturns, GoneKeeps DEF BridgeFails, tables
  <1>8. QED
    BY <1>4, <1>6, <1>7

(* A jail comes up: no end was in it before.                                *)
LEMMA StartJailKeeps ==
  ASSUME NetworkInv, NEW c \in Containers, StartJail(c)
  PROVE  NetworkInv'
  <1>1. /\ serving /\ c \notin jails /\ jails' = jails \cup {c}
        /\ call' = [op |-> "join", container |-> c]
        /\ UNCHANGED <<cidr, network_tb, lastId, member_tb, bridges, pairs, networks, serving,
                       survivors, leaves, codesReused, crashes>>
    BY DEF StartJail, tables, history
  <1>2. c # None
    BY NoneAssumption
  <1>3. TypeOK'
    <2>1. call' \in [op : {"none", "join", "leave"}, container : Containers \cup {None}]
      BY <1>1
    <2>2. jails' \subseteq Containers /\ survivors' \subseteq jails'
      BY <1>1 DEF NetworkInv, TypeOK
    <2>3. QED
      BY <1>1, <2>1, <2>2 DEF NetworkInv, TypeOK
  <1>4. JailAddressIsLeased'
    <2>1. \A k \in DOMAIN pairs : pairs[k].second # c
      BY <1>1, <1>2 DEF NetworkInv, EndsFit
    <2>2. QED
      BY <1>1, <2>1 DEF NetworkInv, JailAddressIsLeased
  <1>5. CountsFit' /\ DefaultFits' /\ RowsFit' /\ CodesFit'
    BY <1>1 DEF NetworkInv, CountsFit, DefaultFits, RowsFit, NoneTwice, CodesFit
  <1>6. EndsFit'
    BY <1>1 DEF NetworkInv, EndsFit
  <1>7. QED
    BY <1>3, <1>4, <1>5, <1>6 DEF NetworkInv

(* A container is stopped or discarded.                                     *)
LEMMA StopJailKeeps ==
  ASSUME NetworkInv, NEW c \in Containers, StopJail(c)
  PROVE  NetworkInv'
  <1>1. NotJoined(c) /\ serving
        /\ UNCHANGED <<cidr, tables, bridges, networks, serving, leaves, codesReused, crashes>>
    BY DEF StopJail, NotJoined
  <1>2. Default \in DOMAIN networks
    BY <1>1 DEF NetworkInv, DefaultFits
  <1>3. EndsReturn(c)
    BY ReturnedGives DEF StopJail, EndsReturn, NetworkInv
  <1>4. QED
    BY <1>1, <1>2, <1>3, SamePoolsGrow, GoneKeeps

(* A network goes: its bridge may, its row may, no link does.               *)
LEMMA RemoveNetworkKeeps ==
  ASSUME NetworkInv, NEW n \in Networks, RemoveNetwork(n)
  PROVE  NetworkInv'
  <1>1. /\ codesReused' = TRUE
        /\ UNCHANGED <<cidr, networks, serving, call, lastId, member_tb, jails, survivors,
                       leaves, crashes>>
        /\ network_tb' \in {Erase(network_tb, n), network_tb}
        /\ n \in DOMAIN networks
    BY DEF RemoveNetwork, daemon
  <1>2. TypeOK /\ CountsFit /\ DefaultFits /\ CodesFit
    BY DEF NetworkInv
  <1>3. /\ bridges' \in [DOMAIN bridges' -> Networks \cup {None}]
        /\ DOMAIN bridges' \subseteq DOMAIN bridges
        /\ pairs' \in [DOMAIN pairs -> PairTypes] /\ DOMAIN pairs' = DOMAIN pairs
        /\ \A k \in DOMAIN pairs : /\ pairs'[k].second = pairs[k].second
                                   /\ pairs'[k].address = pairs[k].address
                                   /\ pairs'[k].owner = pairs[k].owner
    <2>1. bridges \in [DOMAIN bridges -> Networks \cup {None}]
          /\ pairs \in [DOMAIN pairs -> PairTypes]
      BY <1>2 DEF TypeOK, PairTypes
    <2>2. CASE UNCHANGED <<bridges, pairs>>
      BY <2>1, <2>2
    <2>3. CASE bridges' = Erase(bridges, network_tb[n].code) /\ pairs' = Unbridged(network_tb[n].code)
      <3>1. /\ bridges' \in [DOMAIN bridges' -> Networks \cup {None}]
            /\ DOMAIN bridges' \subseteq DOMAIN bridges
        BY <2>1, <2>3 DEF Erase
      <3>2. QED
        BY <1>2, <2>3, <3>1, UnbridgedGives
    <2>4. QED
      BY <2>2, <2>3 DEF RemoveNetwork
  <1>4. /\ DOMAIN network_tb' \subseteq DOMAIN network_tb
        /\ network_tb' \in [DOMAIN network_tb' -> [id : 1 .. MaxNetworks, code : Int]]
    <2>1. network_tb \in [DOMAIN network_tb -> [id : 1 .. MaxNetworks, code : Int]]
      BY <1>2 DEF TypeOK
    <2>2. QED
      BY <1>1, <2>1 DEF Erase
  <1>5. TypeOK'
    <2>1. pairs' \in [DOMAIN pairs' ->
                        [first : Int, second : Containers \cup {None},
                         address : Nat \cup {None}, owner : Containers]]
      BY <1>3 DEF PairTypes
    <2>2. codesReused' \in BOOLEAN
      BY <1>1
    <2>3. QED
      BY <1>1, <1>2, <1>3, <1>4, <2>1, <2>2 DEF TypeOK
  <1>6. JailAddressIsLeased' /\ EndsFit' /\ RowsFit'
    BY <1>1, <1>3, LinksKept
  <1>7. CountsFit'
    <2>1. IsFiniteSet(DOMAIN network_tb')
      BY <1>2, <1>4, FS_Subset DEF CountsFit
    <2>2. QED
      BY <1>1, <1>2, <1>3, <2>1 DEF CountsFit
  <1>8. DefaultFits' /\ CodesFit'
    BY <1>1, <1>2, <1>4 DEF DefaultFits, CodesFit
  <1>9. QED
    BY <1>5, <1>6, <1>7, <1>8 DEF NetworkInv

(* The first row of a container that has one is a row of its (leave).       *)
LEMMA FirstRowIsOwn ==
  ASSUME NetworkInv, NEW c, Memberships(c) # {}
  PROVE  FirstRow(c) \in DOMAIN member_tb /\ member_tb[FirstRow(c)].container = c
  <1>1. Memberships(c) \subseteq Nat
    <2>1. member_tb \in Seq(RowTypes)
      BY DEF NetworkInv, TypeOK, RowTypes
    <2>2. DOMAIN member_tb \subseteq Nat
      BY <2>1
    <2>3. QED
      BY <2>2 DEF Memberships
  <1>2. \E m \in Memberships(c) : \A j \in Memberships(c) : m <= j
    <2> HIDE DEF Memberships
    <2>1. QED
      BY <1>1, Smallest
  <1>3. FirstRow(c) \in Memberships(c)
    <2> HIDE DEF Memberships
    <2>1. QED
      BY <1>2 DEF FirstRow
  <1>4. QED
    BY <1>3 DEF Memberships, IsMembershipOf

\* What a leave leaves of the pairs and the pool, whether it fails or not.
LeaveTakes(c, k) ==
  /\ DOMAIN pairs' \subseteq DOMAIN pairs
  /\ pairs' \in [DOMAIN pairs' -> PairTypes]
  /\ \A j \in DOMAIN pairs' : /\ pairs'[j].second = pairs[j].second
                              /\ pairs'[j].address = pairs[j].address
                              /\ pairs'[j].owner = pairs[j].owner
  /\ \A j \in DOMAIN pairs : j # k => j \in DOMAIN pairs' /\ pairs'[j] = pairs[j]
  /\ networks' = networks \/ networks' = [networks EXCEPT ![Default] = Erase(networks[Default], c)]

(* A leave touches one pair, and gives back at most its container's address *)
(* (leave_bridge, network_service::leave).                                  *)
LEMMA LeaveGives ==
  ASSUME NetworkInv, NEW c \in Containers, Leave(c)
  PROVE  LeaveTakes(c, PairOf(c))
  <1>1. pairs \in [DOMAIN pairs -> PairTypes]
    BY DEF NetworkInv, TypeOK, PairTypes
  <1>2. PICK k : k = PairOf(c)
    OBVIOUS
  <1>3. \/ UNCHANGED pairs
        \/ k \in DOMAIN pairs /\ pairs' = [pairs EXCEPT ![k].first = Unattached]
        \/ pairs' = Erase(pairs, k)
    BY <1>2 DEF Leave, LeaveFails, LeaveSucceeds, OffBridge
  <1>4. networks' = networks \/ networks' = [networks EXCEPT ![Default] = Erase(networks[Default], c)]
    BY DEF Leave, LeaveFails, LeaveSucceeds
  <1>5. CASE UNCHANGED pairs
    BY <1>1, <1>2, <1>4, <1>5 DEF LeaveTakes
  <1>6. CASE k \in DOMAIN pairs /\ pairs' = [pairs EXCEPT ![k].first = Unattached]
    <2>1. [pairs[k] EXCEPT !.first = Unattached] \in PairTypes
      BY <1>1, <1>6 DEF PairTypes, Unattached
    <2>2. /\ DOMAIN pairs' = DOMAIN pairs /\ pairs' \in [DOMAIN pairs -> PairTypes]
          /\ \A j \in DOMAIN pairs : j # k => pairs'[j] = pairs[j]
      BY <1>1, <1>6, <2>1
    <2>3. /\ pairs'[k].second = pairs[k].second /\ pairs'[k].address = pairs[k].address
          /\ pairs'[k].owner = pairs[k].owner
      BY <1>1, <1>6 DEF PairTypes
    <2>4. QED
      BY <1>2, <1>4, <2>2, <2>3 DEF LeaveTakes
  <1>7. CASE pairs' = Erase(pairs, k)
    BY <1>1, <1>2, <1>4, <1>7 DEF LeaveTakes, Erase
  <1>8. QED
    BY <1>3, <1>5, <1>6, <1>7

(* No row counts that names a pair which a leave takes away wrongly: the    *)
(* container has left once more.                                            *)
LEMMA LeaveKeepsRows ==
  ASSUME NetworkInv, NEW c \in Containers, Leave(c)
  PROVE  RowsFit'
  <1>1. /\ leaves \in [Containers -> 0 .. 2] /\ member_tb \in Seq(RowTypes)
        /\ leaves' = [leaves EXCEPT ![c] = IF @ < 2 THEN @ + 1 ELSE 2]
        /\ member_tb' = member_tb /\ Memberships(c) # {}
    BY DEF NetworkInv, TypeOK, RowTypes, Leave, tables
  <1>2. LeaveTakes(c, PairOf(c))
    BY LeaveGives
  <1> SUFFICES ASSUME NoneTwice', NEW i \in DOMAIN member_tb,
                      leaves'[member_tb[i].container] = 0
               PROVE  /\ member_tb[i].pair \in DOMAIN pairs'
                      /\ pairs'[member_tb[i].pair].owner = member_tb[i].container
    BY <1>1 DEF RowsFit
  <1>3. member_tb[i].container \in Containers
    <2>1. member_tb[i] \in RowTypes
      BY <1>1
    <2>2. QED
      BY <2>1 DEF RowTypes
  <1>4. leaves[c] = 0 /\ NoneTwice
        /\ member_tb[i].container # c /\ leaves[member_tb[i].container] = 0
    BY <1>1, <1>3 DEF NoneTwice
  <1>5. pairs[PairOf(c)].owner = c
    BY <1>1, <1>4, FirstRowIsOwn DEF NetworkInv, RowsFit, PairOf
  <1>6. /\ member_tb[i].pair \in DOMAIN pairs
        /\ pairs[member_tb[i].pair].owner = member_tb[i].container
    BY <1>4 DEF NetworkInv, RowsFit
  <1>7. member_tb[i].pair # PairOf(c)
    BY <1>4, <1>5, <1>6
  <1>8. QED
    BY <1>2, <1>6, <1>7 DEF LeaveTakes

(* A container leaves: it has no jail, so no running jail loses its lease.  *)
LEMMA LeaveKeeps ==
  ASSUME NetworkInv, NEW c \in Containers, Leave(c)
  PROVE  NetworkInv'
  <1>1. /\ call = [op |-> "leave", container |-> c] /\ call' = Idle
        /\ leaves' = [leaves EXCEPT ![c] = IF @ < 2 THEN @ + 1 ELSE 2]
        /\ UNCHANGED <<cidr, network_tb, lastId, member_tb, bridges, jails, serving,
                       survivors, codesReused, crashes>>
    BY DEF Leave, tables
  <1>2. TypeOK /\ CountsFit /\ DefaultFits /\ EndsFit /\ CodesFit
    BY DEF NetworkInv
  <1>3. serving /\ Default \in DOMAIN networks /\ c \notin jails
    <2>1. call # Idle /\ call.op = "leave" /\ call.container = c
      BY <1>1 DEF Idle
    <2>2. QED
      BY <2>1, CallsAreServed, <1>2 DEF EndsFit
  <1>4. LeaveTakes(c, PairOf(c))
    BY LeaveGives
  <1> DEFINE pool == networks[Default]
  <1>5. /\ DOMAIN networks' = DOMAIN networks
        /\ \A n \in DOMAIN networks : n # Default => networks'[n] = networks[n]
        /\ networks'[Default] = pool \/ networks'[Default] = Erase(pool, c)
    BY <1>3, <1>4 DEF LeaveTakes
  <1>6. /\ DOMAIN networks'[Default] \subseteq DOMAIN pool
        /\ DOMAIN pool \ {c} \subseteq DOMAIN networks'[Default]
        /\ networks'[Default] \in [DOMAIN networks'[Default] -> PoolRange(cidr)]
        /\ \A d \in DOMAIN networks'[Default] : networks'[Default][d] = pool[d]
    <2>1. pool \in [DOMAIN pool -> PoolRange(cidr)]
      BY <1>2, <1>3 DEF TypeOK
    <2> HIDE DEF pool
    <2>2. QED
      BY <1>5, <2>1 DEF Erase
  <1>7. \A n \in DOMAIN networks' :
          /\ DOMAIN networks'[n] \subseteq Holders /\ IsFiniteSet(DOMAIN networks'[n])
          /\ networks'[n] \in [DOMAIN networks'[n] -> PoolRange(cidr)]
    <2>1. \A n \in DOMAIN networks :
            /\ DOMAIN networks[n] \subseteq Holders /\ IsFiniteSet(DOMAIN networks[n])
            /\ networks[n] \in [DOMAIN networks[n] -> PoolRange(cidr)]
      BY <1>2 DEF TypeOK, CountsFit
    <2>2. DOMAIN networks'[Default] \subseteq Holders /\ IsFiniteSet(DOMAIN networks'[Default])
      BY <1>3, <1>6, <2>1, FS_Subset
    <2>3. QED
      BY <1>5, <1>6, <2>1, <2>2
  <1>8. TypeOK'
    <2>1. pairs' \in [DOMAIN pairs' ->
                        [first : Int, second : Containers \cup {None},
                         address : Nat \cup {None}, owner : Containers]]
      BY <1>4 DEF LeaveTakes, PairTypes
    <2>2. leaves' \in [Containers -> 0 .. 2]
      <3>1. leaves \in [Containers -> 0 .. 2]
        BY <1>2 DEF TypeOK
      <3>2. (IF leaves[c] < 2 THEN leaves[c] + 1 ELSE 2) \in 0 .. 2
        BY <3>1
      <3>3. QED
        BY <1>1, <3>1, <3>2
    <2>3. call' \in [op : {"none", "join", "leave"}, container : Containers \cup {None}]
      BY <1>1 DEF Idle
    <2>4. \A n \in DOMAIN networks' :
            /\ DOMAIN networks'[n] \subseteq Holders
            /\ networks'[n] \in [DOMAIN networks'[n] -> PoolRange(cidr')]
      BY <1>1, <1>7
    <2>5. QED
      BY <1>1, <1>2, <1>5, <2>1, <2>2, <2>3, <2>4 DEF TypeOK
  <1>9. JailAddressIsLeased'
    <2> SUFFICES ASSUME NEW k \in DOMAIN pairs', pairs'[k].second \in jails \ survivors,
                        pairs'[k].address # None
                 PROVE  /\ pairs'[k].second \in DOMAIN networks'[Default]
                        /\ networks'[Default][pairs'[k].second] = pairs'[k].address
      BY <1>1 DEF JailAddressIsLeased
    <2>1. /\ k \in DOMAIN pairs /\ pairs'[k].second = pairs[k].second
          /\ pairs'[k].address = pairs[k].address
      BY <1>4 DEF LeaveTakes
    <2>2. pairs[k].second \in DOMAIN pool /\ pool[pairs[k].second] = pairs[k].address
      BY <2>1 DEF NetworkInv, JailAddressIsLeased
    <2>3. pairs[k].second # c
      BY <1>3, <2>1
    <2> HIDE DEF pool
    <2>4. QED
      BY <1>6, <2>1, <2>2, <2>3
  <1>10. CountsFit' /\ DefaultFits' /\ CodesFit'
    BY <1>1, <1>2, <1>3, <1>5, <1>7 DEF CountsFit, DefaultFits, CodesFit
  <1>11. EndsFit'
    <2>1. call'.op # "leave"
      BY <1>1 DEF Idle
    <2>2. QED
      BY <1>1, <1>2, <1>4, <2>1 DEF EndsFit, LeaveTakes
  <1>12. QED
    BY <1>8, <1>9, <1>10, <1>11, LeaveKeepsRows DEF NetworkInv

(* A leave without a row changes nothing but that it has been answered.     *)
LEMMA LeaveUnknownKeeps ==
  ASSUME NetworkInv, NEW c \in Containers, LeaveUnknown(c)
  PROVE  NetworkInv'
  <1>1. /\ call' = Idle /\ call'.op # "leave"
        /\ call' \in [op : {"none", "join", "leave"}, container : Containers \cup {None}]
        /\ UNCHANGED <<cidr, networks, network_tb, lastId, member_tb, bridges, pairs, jails,
                       serving, survivors, leaves, codesReused, crashes>>
    BY DEF LeaveUnknown, Idle, tables, kernel, history
  <1>2. TypeOK' /\ CountsFit' /\ DefaultFits' /\ EndsFit'
    BY <1>1 DEF NetworkInv, TypeOK, CountsFit, DefaultFits, EndsFit
  <1>3. JailAddressIsLeased' /\ RowsFit' /\ CodesFit'
    BY <1>1 DEF NetworkInv, JailAddressIsLeased, RowsFit, NoneTwice, CodesFit
  <1>4. QED
    BY <1>2, <1>3 DEF NetworkInv

(* After a crash every jail is one that nobody remembers.                   *)
LEMMA CrashKeeps ==
  ASSUME NetworkInv, Crash
  PROVE  NetworkInv'
  <1>1. /\ crashes' = crashes + 1 /\ crashes < MaxCrashes
        /\ DOMAIN networks' = {} /\ serving' = FALSE /\ call' = Idle /\ survivors' = jails
        /\ UNCHANGED <<cidr, network_tb, lastId, member_tb, bridges, pairs, jails,
                       leaves, codesReused>>
    BY DEF Crash, tables, kernel
  <1>2. crashes \in 0 .. MaxCrashes /\ MaxCrashes \in Nat
    BY BoundsAssumption DEF NetworkInv, TypeOK
  <1>3. call'.op # "leave"
        /\ call' \in [op : {"none", "join", "leave"}, container : Containers \cup {None}]
    BY <1>1 DEF Idle
  <1>4. crashes' \in 0 .. MaxCrashes /\ crashes' # 0
    BY <1>1, <1>2
  <1>5. serving' \in BOOLEAN
    BY <1>1
  <1>6. TypeOK'
    BY <1>1, <1>3, <1>4, <1>5 DEF NetworkInv, TypeOK
  <1>7. JailAddressIsLeased'
    BY <1>1 DEF JailAddressIsLeased
  <1>8. CountsFit' /\ DefaultFits' /\ EndsFit'
    BY <1>1, <1>3 DEF NetworkInv, CountsFit, DefaultFits, EndsFit
  <1>9. RowsFit' /\ CodesFit'
    BY <1>1, <1>4 DEF NetworkInv, RowsFit, NoneTwice, CodesFit
  <1>10. QED
    BY <1>6, <1>7, <1>8, <1>9 DEF NetworkInv

(* NetworkInv holds at first and is kept by every step.                     *)
THEOREM NetworkCorrect == Spec => []NetworkInv
  <1>1. ASSUME Init
        PROVE  NetworkInv
    <2>1. /\ cidr \in Cidrs /\ DOMAIN networks = {} /\ DOMAIN network_tb = {} /\ lastId = 0
          /\ member_tb = <<>> /\ DOMAIN bridges = {} /\ DOMAIN pairs = {} /\ jails = {}
          /\ serving = FALSE /\ call = Idle /\ survivors = {}
          /\ leaves = [c \in Containers |-> 0] /\ codesReused = FALSE /\ crashes = 0
      BY <1>1 DEF Init
    <2>2. /\ network_tb \in [DOMAIN network_tb -> [id : 1 .. MaxNetworks, code : Int]]
          /\ bridges \in [DOMAIN bridges -> Networks \cup {None}]
          /\ pairs \in [DOMAIN pairs ->
                          [first : Int, second : Containers \cup {None},
                           address : Nat \cup {None}, owner : Containers]]
      BY <1>1 DEF Init
    <2>3. call \in [op : {"none", "join", "leave"}, container : Containers \cup {None}]
          /\ call.op # "leave"
      BY <2>1 DEF Idle
    <2>4. member_tb \in Seq([network : 1 .. MaxNetworks, container : Containers, pair : Int])
          /\ DOMAIN member_tb = {}
      BY <2>1
    <2>5. serving \in BOOLEAN /\ codesReused \in BOOLEAN
      BY <2>1
    <2>6. lastId \in 0 .. MaxNetworks /\ crashes \in 0 .. MaxCrashes /\ leaves \in [Containers -> 0 .. 2]
      BY <2>1, BoundsAssumption
    <2>7. TypeOK
      BY <2>1, <2>2, <2>3, <2>4, <2>5, <2>6 DEF TypeOK
    <2>8. JailAddressIsLeased /\ DefaultFits /\ EndsFit
      BY <2>1, <2>3 DEF JailAddressIsLeased, DefaultFits, EndsFit
    <2>9. CountsFit
      <3>1. IsFiniteSet({})
        BY FS_EmptySet
      <3>2. QED
        BY <2>1, <3>1 DEF CountsFit
    <2>10. RowsFit /\ CodesFit
      BY <2>1, <2>4 DEF RowsFit, CodesFit
    <2>11. QED
      BY <2>7, <2>8, <2>9, <2>10 DEF NetworkInv
  <1>2. ASSUME NetworkInv, [Next]_vars
        PROVE  NetworkInv'
    <2>1. ASSUME Setup
          PROVE  NetworkInv'
      <3>1. /\ Adding(Default)
            /\ UNCHANGED <<cidr, jails, call, survivors, leaves, crashes>>
            /\ serving' = serving \/ (serving' = TRUE /\ AddSucceeds(Default))
        BY <2>1 DEF Setup, Adding
      <3>2. QED
        BY <1>2, <3>1, AddingKeeps, DefaultAssumption
    <2>2. ASSUME NEW n \in Networks, Create(n)
          PROVE  NetworkInv'
      <3>1. Adding(n) /\ UNCHANGED <<cidr, jails, serving, call, survivors, leaves, crashes>>
        BY <2>2 DEF Create, Adding
      <3>2. QED
        BY <1>2, <3>1, AddingKeeps
    <2>3. ASSUME UNCHANGED vars
          PROVE  NetworkInv'
      <3>1. UNCHANGED <<cidr, networks, network_tb, lastId, member_tb, bridges, pairs, jails,
                        serving, call, survivors, leaves, codesReused, crashes>>
        BY <2>3 DEF vars, tables, kernel, daemon, history
      <3>2. TypeOK' /\ CountsFit' /\ DefaultFits' /\ EndsFit'
        BY <1>2, <3>1 DEF NetworkInv, TypeOK, CountsFit, DefaultFits, EndsFit
      <3>3. JailAddressIsLeased' /\ RowsFit' /\ CodesFit'
        BY <1>2, <3>1 DEF NetworkInv, JailAddressIsLeased, RowsFit, NoneTwice, CodesFit
      <3>4. QED
        BY <3>2, <3>3 DEF NetworkInv
    <2>4. QED
      BY <1>2, <2>1, <2>2, <2>3, RemoveNetworkKeeps, StartJailKeeps, JoinKeeps,
         JoinExhaustedKeeps, StopJailKeeps, LeaveUnknownKeeps, LeaveKeeps, CrashKeeps
         DEF Next
  <1>3. QED
    BY <1>1, <1>2, PTL DEF Spec

(* Pools hold addresses of their block, and the rest has its type.          *)
THEOREM TypeCorrect == Spec => []TypeOK
  <1>1. NetworkInv => TypeOK
    BY DEF NetworkInv
  <1>2. QED
    BY <1>1, NetworkCorrect, PTL

(* The address of the interface in a running jail is the one leased to its  *)
(* container, for any block and any number of containers: no failed join,   *)
(* lost row or leave that takes a wrong pair frees it (join, leave).        *)
THEOREM JailsKeepTheirLeases == Spec => []JailAddressIsLeased
  <1>1. NetworkInv => JailAddressIsLeased
    BY DEF NetworkInv
  <1>2. QED
    BY <1>1, NetworkCorrect, PTL

(* While nobody has left twice, the pair a leave works on is its own: rows  *)
(* that go stale name a pair of their container (network_service::leave).   *)
THEOREM LeavesCutTheirOwn == Spec => LeaveCutsOwnLink
  <1> DEFINE Cut == call.op = "leave" /\ (\A c \in Containers : leaves[c]' < 2) =>
                      \A k \in DOMAIN pairs :
                        pairs[k].owner # call.container =>
                          k \in DOMAIN pairs' /\ pairs'[k] = pairs[k]
  <1>1. ASSUME NetworkInv, [Next]_vars
        PROVE  [Cut]_vars
    <2> SUFFICES ASSUME call.op = "leave", \A c \in Containers : leaves[c]' < 2,
                        NEW k \in DOMAIN pairs, pairs[k].owner # call.container
                 PROVE  k \in DOMAIN pairs' /\ pairs'[k] = pairs[k]
      BY <1>1
    <2>1. call # Idle /\ serving
      BY <1>1 DEF Idle, NetworkInv, DefaultFits
    <2>2. ASSUME NEW c \in Containers, Leave(c)
          PROVE  k \in DOMAIN pairs' /\ pairs'[k] = pairs[k]
      <3>1. /\ leaves \in [Containers -> 0 .. 2] /\ Memberships(c) # {}
            /\ leaves' = [leaves EXCEPT ![c] = IF @ < 2 THEN @ + 1 ELSE 2]
            /\ call.container = c
        BY <1>1, <2>2 DEF NetworkInv, TypeOK, Leave
      <3>2. leaves[c] = 0 /\ NoneTwice
        BY <3>1 DEF NoneTwice
      <3>3. pairs[PairOf(c)].owner = c
        BY <1>1, <3>1, <3>2, FirstRowIsOwn DEF NetworkInv, RowsFit, PairOf
      <3>4. k # PairOf(c)
        BY <3>1, <3>3
      <3>5. QED
        BY <1>1, <2>2, <3>4, LeaveGives DEF LeaveTakes
    <2>3. UNCHANGED pairs \/ \E c \in Containers : Leave(c)
      <3>1. ASSUME NEW c \in Containers, \/ StartJail(c) \/ Join(c) \/ JoinExhausted(c)
                                         \/ StopJail(c) \/ LeaveUnknown(c)
            PROVE  UNCHANGED pairs
        <4>1. ~StartJail(c) /\ ~StopJail(c)
          BY <2>1 DEF StartJail, StopJail
        <4>2. call # [op |-> "join", container |-> c]
          OBVIOUS
        <4>3. ~Join(c) /\ ~JoinExhausted(c)
          BY <4>2 DEF Join, JoinExhausted
        <4>4. QED
          BY <3>1, <4>1, <4>3 DEF LeaveUnknown, kernel
      <3>2. ~Setup /\ \A n \in Networks : ~Create(n) /\ ~RemoveNetwork(n)
        BY <2>1 DEF Setup, Create, RemoveNetwork
      <3>3. Crash => UNCHANGED pairs
        BY DEF Crash, kernel
      <3>4. UNCHANGED vars => UNCHANGED pairs
        BY DEF vars, kernel
      <3>5. QED
        BY <1>1, <3>1, <3>2, <3>3, <3>4 DEF Next
    <2>4. QED
      BY <2>2, <2>3
  <1>2. QED
    BY <1>1, NetworkCorrect, PTL DEF Spec, LeaveCutsOwnLink

(* While no row has been lost or removed and the daemon has not been        *)
(* restarted, the code of a new network is above those of all bridges, so   *)
(* create_bridge finds no bridge of another network to remove.              *)
THEOREM BridgesAreTakenAfterLoss == Spec => BridgeTakenOnlyAfterLoss
  <1> DEFINE Spared == (\E n \in Networks : Create(n)) /\ ~codesReused /\ crashes = 0 =>
                         \A code \in DOMAIN bridges :
                           bridges[code] # None =>
                             code \in DOMAIN bridges' /\ bridges'[code] = bridges[code]
  <1>1. ASSUME NetworkInv
        PROVE  Spared
    <2> SUFFICES ASSUME NEW n \in Networks, Create(n), ~codesReused, crashes = 0,
                        NEW code \in DOMAIN bridges, bridges[code] # None
                 PROVE  code \in DOMAIN bridges' /\ bridges'[code] = bridges[code]
      OBVIOUS
    <2>1. n # Default \/ UNCHANGED bridges
      <3>1. Default \in DOMAIN networks
        BY <1>1 DEF Create, NetworkInv, DefaultFits
      <3>2. n \notin DOMAIN networks
        BY DEF Create, AddSucceeds, AddBridgeFails, AddBridgeBusy
      <3>3. QED
        BY <3>1, <3>2
    <2>2. code < Cardinality(DOMAIN network_tb) /\ code \in Int
      BY <1>1 DEF NetworkInv, CodesFit, CountsFit
    <2>3. Cardinality(DOMAIN network_tb) \in Nat
      BY <1>1, CodeIsNumber DEF NetworkInv
    <2>4. code # CodeFor(n) \/ UNCHANGED bridges
      BY <2>1, <2>2, <2>3 DEF CodeFor
    <2>5. PICK d : d = CodeFor(n)
      OBVIOUS
    <2>6. \/ UNCHANGED bridges
          \/ bridges' = Erase(bridges, d)
          \/ \E owner : bridges' = Emplace(Erase(bridges, d), d, owner)
      BY <2>5 DEF Create, AddSucceeds, AddBridgeFails, AddBridgeBusy, MakeBridge
    <2>7. QED
      BY <2>4, <2>5, <2>6 DEF Emplace, Erase
  <1>2. QED
    BY <1>1, NetworkCorrect, PTL DEF BridgeTakenOnlyAfterLoss

===============================================================================
