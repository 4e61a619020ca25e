--------------------------- MODULE NetworkService ---------------------------
(* domain::networking: network_service over its address pools, the network  *)
(* and membership tables of sql_network_repository, and the bridges and     *)
(* epairs that freebsd_network_handler makes and takes away.                *)
(*                                                                          *)
(* The callers are the ones of the daemon: bootstrap adds the default       *)
(* network and serves only if that succeeds; runtime asks a container in    *)
(* when its jail is up and out when the jail is gone; create_handler and    *)
(* remove_handler add and remove other networks (bootstrap registers        *)
(* neither as yet).  Every call runs to its end on the one thread of the    *)
(* io_context.  Any call of the kernel and any write of the database may    *)
(* fail.                                                                    *)
EXTENDS AddressPool, Sequences

CONSTANTS
  Networks,     \* network names
  Default,      \* the network every container joins
  Containers,   \* container identifiers
  Cidrs,        \* the blocks the configuration may give a network
  Gateway, Subnet,
  None,         \* no address, no container, no end of a pair
  MaxRows,      \* bound: membership rows ever written
  MaxNetworks,  \* bound: network rows ever written
  MaxCrashes    \* bound: crashes of the daemon

ASSUME DefaultAssumption == Default \in Networks
ASSUME CidrAssumption ==
  Cidrs \subseteq [address : Nat, size : Nat \ (0 .. 2)]
ASSUME ReservedAssumption ==
  Gateway # Subnet /\ {Gateway, Subnet} \cap Containers = {}
ASSUME NoneAssumption == None \notin Containers \cup Int
ASSUME BoundsAssumption == {MaxRows, MaxNetworks, MaxCrashes} \subseteq Nat

VARIABLES
  cidr,        \* settings.ip_v4_cidr; only the default network gives addresses
  networks,    \* network_service::networks: name -> taken addresses
  network_tb,  \* name -> [id, code, status]
  lastId,      \* the AUTOINCREMENT of network_tb
  member_tb,   \* rows in rowid order: [network, container, pair]
  bridges,     \* bridge interfaces that exist: code -> network, None half-made
  pairs,       \* epairs that exist: number -> [first, second, address, owner]
  jails,       \* containers whose jail is alive
  serving,     \* bootstrap has registered the handlers
  call,        \* the call of runtime in progress: [op, container]
  survivors,   \* jails left over from before the last crash
  leaves,      \* history: how often each container's link was taken down
  codesReused, \* history: a network row was removed or not written
  crashes

tables == <<network_tb, lastId, member_tb>>
kernel == <<bridges, pairs, jails>>
daemon == <<networks, serving, call>>
history == <<survivors, leaves, codesReused, crashes>>
vars == <<cidr, tables, kernel, daemon, history>>

\* Bridge codes: settings.bridge of the default network, else "jc<n>".
DefaultCode == -1
\* An end of a pair on no bridge.
Unattached == -2
Idle == [op |-> "none", container |-> None]
Holders == Containers \cup {Gateway, Subnet}

\* Faulty variant (mutation check): the bridge gets the broadcast address.
InitializedAtLast ==
  [id \in {Gateway, Subnet} |->
     IF id = Gateway THEN FirstAddress(cidr) ELSE LastAddress(cidr)]

(* A provider as initialize() leaves it: the first two addresses taken.     *)
Initialized ==
  [id \in {Gateway, Subnet} |->
     FirstAddress(cidr) + (IF id = Gateway THEN 0 ELSE 1)]

Init ==
  /\ cidr \in Cidrs
  /\ networks = [n \in {} |-> 0]
  /\ network_tb = [n \in {} |-> 0]
  /\ lastId = 0
  /\ member_tb = <<>>
  /\ bridges = [code \in {} |-> 0]
  /\ pairs = [k \in {} |-> 0]
  /\ jails = {}
  /\ serving = FALSE
  /\ call = Idle
  /\ survivors = {}
  /\ leaves = [c \in Containers |-> 0]
  /\ codesReused = FALSE
  /\ crashes = 0

----------------------------------------------------------------------------
(* Adding and removing networks                                             *)

\* Faulty variant (mutation check): the count of networks is never fetched.
CodeUncounted(n) == IF n = Default THEN DefaultCode ELSE 0

\* fmt::format("jc{}", service->total_networks())
CodeFor(n) ==
  IF n = Default THEN DefaultCode ELSE Cardinality(DOMAIN network_tb)

\* A bridge that is destroyed loses its members.
Unbridged(code) ==
  [k \in DOMAIN pairs |->
     IF pairs[k].first = code THEN [pairs[k] EXCEPT !.first = Unattached] ELSE pairs[k]]

\* A bridge of that code goes first, whoever it belongs to.
MakeBridge(code, owner) ==
  /\ bridges' = Emplace(Erase(bridges, code), code, owner)
  /\ pairs' = Unbridged(code)

\* remove_bridge fails before anything is recorded.
AddBridgeBusy(n) ==
  /\ n \notin DOMAIN networks
  /\ CodeFor(n) \in DOMAIN bridges
  /\ UNCHANGED <<networks, tables, bridges, pairs>>

(* The provider is recorded and create_bridge fails: with an old bridge it  *)
(* did not see, without one, or with one that has a name and no address.    *)
(* The provider stays.                                                      *)
AddBridgeFails(n) ==
  /\ n \notin DOMAIN networks
  /\ networks' = Emplace(networks, n, Initialized)
  /\ \/ UNCHANGED <<bridges, pairs>>
     \/ bridges' = Erase(bridges, CodeFor(n)) /\ pairs' = Unbridged(CodeFor(n))
     \/ MakeBridge(CodeFor(n), None)
  /\ UNCHANGED tables

\* UNIQUE(code)
CodeTaken(code) == \E m \in DOMAIN network_tb : network_tb[m].code = code

(* The bridge is made.  A network without a row gets one, unless the        *)
(* statement fails, which sql_network_repository::add reports as success.   *)
AddSucceeds(n) ==
  LET code == CodeFor(n)
      Written == /\ ~CodeTaken(code)
                 /\ lastId < MaxNetworks
                 /\ network_tb' = Emplace(network_tb, n, [id |-> lastId + 1, code |-> code])
                 /\ lastId' = lastId + 1
                 /\ UNCHANGED codesReused
      Lost == codesReused' = TRUE /\ UNCHANGED <<network_tb, lastId>>
  IN
  /\ n \notin DOMAIN networks
  /\ networks' = Emplace(networks, n, Initialized)
  /\ MakeBridge(code, n)
  /\ \/ n \in DOMAIN network_tb /\ UNCHANGED <<network_tb, lastId, codesReused>>
     \/ n \notin DOMAIN network_tb /\ (Written \/ Lost)
  /\ UNCHANGED member_tb

\* bootstrap::setup: the handlers are registered only if this add succeeds.
Setup ==
  /\ ~serving
  /\ \/ AddSucceeds(Default) /\ serving' = TRUE
     \/ AddBridgeFails(Default) /\ UNCHANGED <<serving, codesReused>>
     \/ AddBridgeBusy(Default) /\ UNCHANGED <<serving, codesReused>>
  /\ UNCHANGED <<cidr, jails, call, survivors, leaves, crashes>>

\* create_handler
Create(n) ==
  /\ serving /\ call = Idle
  /\ \/ AddSucceeds(n)
     \/ (AddBridgeFails(n) \/ AddBridgeBusy(n)) /\ UNCHANGED codesReused
  /\ UNCHANGED <<cidr, jails, serving, call, survivors, leaves, crashes>>

(* remove_handler: the bridge goes if it is seen to be there, then the row, *)
(* unless its statement fails.  The provider stays in networks, so the name *)
(* cannot be added again before a restart.                                  *)
RemoveNetwork(n) ==
  /\ serving /\ call = Idle
  /\ n \in DOMAIN networks \cap DOMAIN network_tb
  /\ LET code == network_tb[n].code IN
       \/ bridges' = Erase(bridges, code) /\ pairs' = Unbridged(code)
       \/ UNCHANGED <<bridges, pairs>>
  /\ network_tb' \in {Erase(network_tb, n), network_tb}
  /\ codesReused' = TRUE
  /\ UNCHANGED <<cidr, daemon, lastId, member_tb, jails, survivors, leaves, crashes>>

----------------------------------------------------------------------------
(* Containers joining                                                       *)

(* The jail of a container is up and runtime::container_initialized is      *)
(* about to ask for its address.                                            *)
StartJail(c) ==
  /\ serving /\ call = Idle
  /\ c \notin jails
  /\ jails' = jails \cup {c}
  /\ call' = [op |-> "join", container |-> c]
  /\ UNCHANGED <<cidr, tables, bridges, pairs, networks, serving, history>>

\* join succeeded: the container is started.
Joined ==
  /\ call' = Idle
  /\ UNCHANGED <<jails, survivors>>

\* A jail that goes gives its end of a pair back to the host, stripped.
Returned(c) ==
  [k \in DOMAIN pairs |->
     IF pairs[k].second = c
     THEN [pairs[k] EXCEPT !.second = None, !.address = None]
     ELSE pairs[k]]

(* join failed: runtime removes the container; its destructor removes the   *)
(* jail and reports it stopped, which comes back as a leave.                *)
NotJoined(c) ==
  /\ jails' = jails \ {c}
  /\ survivors' = survivors \ {c}
  /\ call' = [op |-> "leave", container |-> c]

\* fmt::format("jp{}", network->total_taken(address->type) - 1)
PairNumber(taken) == TotalTaken(taken) - 1

\* SIOCIFCREATE2 and the two renames, up to BRDGADD and the move, can work.
CanBridge(c, k) ==
  /\ k \notin DOMAIN pairs
  /\ Default \in DOMAIN network_tb
  /\ network_tb[Default].code \in DOMAIN bridges
  /\ c \in jails

MadePair(c, address) ==
  [first |-> network_tb[Default].code, second |-> c, address |-> address, owner |-> c]

(* bridge_container, then the membership row, written or lost: a statement  *)
(* that fails is reported as success.                                       *)
Bridge(c, k, address) ==
  /\ CanBridge(c, k)
  /\ pairs' = Emplace(pairs, k, MadePair(c, address))
  /\ \/ /\ Len(member_tb) < MaxRows
        /\ member_tb' = Append(member_tb,
             [network |-> network_tb[Default].id, container |-> c, pair |-> k])
     \/ UNCHANGED member_tb
  /\ Joined

\* What a rollback that fails leaves: the ends are with the host.
LeftPair(c, code) == [first |-> code, second |-> None, address |-> None, owner |-> c]

(* bridge_container fails, and rolls back: both ends are destroyed, unless  *)
(* remove_interface fails too, which nobody looks at.                       *)
BridgeFails(c, k) ==
  /\ NotJoined(c)
  /\ \/ pairs' = Returned(c)
     \/ /\ k \notin DOMAIN pairs /\ Default \in DOMAIN network_tb
        /\ \E code \in {Unattached} \cup ({network_tb[Default].code} \cap DOMAIN bridges) :
             pairs' = Emplace(Returned(c), k, LeftPair(c, code))
  /\ UNCHANGED member_tb

(* join with an address to give: the container's lease is recorded before   *)
(* anything else and stays, whatever fails afterwards.  The helper process  *)
(* that gives the interface its address may be killed before it has: that   *)
(* counts as success.                                                       *)
Join(c) ==
  /\ call = [op |-> "join", container |-> c]
  /\ Default \in DOMAIN networks
  /\ \E a \in PoolRange(cidr) :
       LET leased == Emplace(networks[Default], c, a)
           k == PairNumber(leased)
       IN
       /\ IsFirstFree(a, PoolRange(cidr), networks[Default])
       /\ networks' = [networks EXCEPT ![Default] = leased]
       /\ Bridge(c, k, leased[c]) \/ Bridge(c, k, None) \/ BridgeFails(c, k)
  /\ UNCHANGED <<cidr, network_tb, lastId, bridges, serving, leaves, codesReused, crashes>>

(* The pool is exhausted: fetch_next_available answers nullopt and no       *)
(* error, and join dereferences it.  If the row of the network is gone it   *)
(* returns an error first.  What the dereference does is undefined: the     *)
(* call fails further on, or it sets up an interface without an address, or *)
(* the process dies (see Crash).                                            *)
JoinExhausted(c) ==
  /\ call = [op |-> "join", container |-> c]
  /\ Default \in DOMAIN networks
  /\ Free(PoolRange(cidr), networks[Default]) = {}
  /\ \E k \in {PairNumber(networks[Default]), -1} : Bridge(c, k, None) \/ BridgeFails(c, k)
  /\ UNCHANGED <<cidr, network_tb, lastId, bridges, networks, serving,
                 leaves, codesReused, crashes>>

----------------------------------------------------------------------------
(* Containers leaving                                                       *)

(* A container is stopped, or a failed one discarded: the destructor        *)
(* removes the jail, if there is one of that name, before it reports.       *)
StopJail(c) ==
  /\ serving /\ call = Idle
  /\ jails' = jails \ {c}
  /\ pairs' = Returned(c)
  /\ survivors' = survivors \ {c}
  /\ call' = [op |-> "leave", container |-> c]
  /\ UNCHANGED <<cidr, tables, bridges, networks, serving, leaves, codesReused, crashes>>

\* repository->members: the rows of this container in this network.
IsMembershipOf(row, c) ==
  /\ Default \in DOMAIN network_tb
  /\ row.network = network_tb[Default].id
  /\ row.container = c
Memberships(c) == {i \in DOMAIN member_tb : IsMembershipOf(member_tb[i], c)}

\* Faulty variant (mutation check): the pair is named anew, from the count.
PairOfCount(c) == PairNumber(networks[Default])

\* The first row is taken.
FirstRow(c) == CHOOSE i \in Memberships(c) : \A j \in Memberships(c) : i <= j
PairOf(c) == member_tb[FirstRow(c)].pair

\* leave without a row to go by: unknown_bridge.
LeaveUnknown(c) ==
  /\ call = [op |-> "leave", container |-> c]
  /\ Memberships(c) = {}
  /\ call' = Idle
  /\ UNCHANGED <<cidr, tables, kernel, networks, serving, history>>

(* leave_bridge takes the first end off the bridge, destroys the second and *)
(* then the first, and stops at the first call that fails: each needs its   *)
(* interface to be there, on the host.  An epair goes as a whole, and then  *)
(* the last call fails; whether it does is left open.                       *)
OffBridge(k) ==
  /\ k \in DOMAIN pairs
  /\ pairs[k].first = network_tb[Default].code

LeaveFails(c, k) ==
  /\ \/ UNCHANGED pairs
     \/ OffBridge(k) /\ pairs' = [pairs EXCEPT ![k].first = Unattached]
     \/ OffBridge(k) /\ pairs[k].second = None /\ pairs' = Erase(pairs, k)
  /\ UNCHANGED networks

\* Faulty variant (mutation check): the address freed is the pair's owner's.
LeaveSucceedsOfOwner(c, k) ==
  /\ OffBridge(k) /\ pairs[k].second = None
  /\ pairs' = Erase(pairs, k)
  /\ networks' = [networks EXCEPT ![Default] = Erase(networks[Default], pairs[k].owner)]

(* Only when all three worked is the address given back.  The row stays:    *)
(* sql_network_repository::leave binds both values to its first parameter   *)
(* and its DELETE matches nothing.                                          *)
LeaveSucceeds(c, k) ==
  /\ OffBridge(k) /\ pairs[k].second = None
  /\ pairs' = Erase(pairs, k)
  /\ networks' = [networks EXCEPT ![Default] = Erase(networks[Default], c)]

Leave(c) ==
  /\ call = [op |-> "leave", container |-> c]
  /\ Memberships(c) # {}
  /\ \/ LeaveFails(c, PairOf(c))
     \/ LeaveSucceeds(c, PairOf(c))
  /\ leaves' = [leaves EXCEPT ![c] = IF @ < 2 THEN @ + 1 ELSE 2]
  /\ call' = Idle
  /\ UNCHANGED <<cidr, tables, bridges, jails, serving, survivors, codesReused, crashes>>

----------------------------------------------------------------------------
(* The daemon dies and is started again: the pools are gone, the tables,    *)
(* the interfaces and the jails are not.                                    *)
Crash ==
  /\ crashes < MaxCrashes
  /\ crashes' = crashes + 1
  /\ networks' = [n \in {} |-> 0]
  /\ serving' = FALSE
  /\ call' = Idle
  /\ survivors' = jails
  /\ UNCHANGED <<cidr, tables, kernel, leaves, codesReused>>

Next ==
  \/ Setup
  \/ \E n \in Networks \ {Default} : Create(n)
  \/ \E n \in Networks : RemoveNetwork(n)
  \/ \E c \in Containers :
       \/ StartJail(c) \/ Join(c) \/ JoinExhausted(c)
       \/ StopJail(c) \/ LeaveUnknown(c) \/ Leave(c)
  \/ Crash

Spec == Init /\ [][Next]_vars

----------------------------------------------------------------------------

(* Every pool sends identifiers to addresses of its block; rows name pairs; *)
(* a pair has its ends on a bridge or free, in a container or on the host.  *)
TypeOK ==
  /\ cidr \in Cidrs
  /\ \A n \in DOMAIN networks :
       /\ DOMAIN networks[n] \subseteq Holders
       /\ networks[n] \in [DOMAIN networks[n] -> PoolRange(cidr)]
  /\ DOMAIN networks \cup DOMAIN network_tb \subseteq Networks
  /\ network_tb \in [DOMAIN network_tb -> [id : 1 .. MaxNetworks, code : Int]]
  /\ lastId \in 0 .. MaxNetworks
  /\ member_tb \in Seq([network : 1 .. MaxNetworks, container : Containers, pair : Int])
  /\ bridges \in [DOMAIN bridges -> Networks \cup {None}]
  /\ pairs \in [DOMAIN pairs ->
                  [first : Int, second : Containers \cup {None},
                   address : Nat \cup {None}, owner : Containers]]
  /\ jails \subseteq Containers /\ survivors \subseteq jails
  /\ serving \in BOOLEAN
  /\ call \in [op : {"none", "join", "leave"}, container : Containers \cup {None}]
  /\ leaves \in [Containers -> 0 .. 2]
  /\ codesReused \in BOOLEAN /\ crashes \in 0 .. MaxCrashes

(* The address on the interface inside a running jail is the one the pool   *)
(* holds for that container, however joins fail, rows go stale and leaves   *)
(* take the wrong pair: no lease is freed or moved under a running jail.    *)
(* Only a jail that outlived the daemon has an address nobody remembers.    *)
JailAddressIsLeased ==
  \A k \in DOMAIN pairs :
    LET c == pairs[k].second IN
    c \in jails \ survivors /\ pairs[k].address # None =>
      /\ c \in DOMAIN networks[Default]
      /\ networks[Default][c] = pairs[k].address

(* A leave works on the pair of the first row a container ever had.  As     *)
(* long as no container has left twice that pair is its own: no leave takes *)
(* down the link of another container.                                      *)
LeaveCutsOwnLink ==
  [][call.op = "leave" /\ (\A c \in Containers : leaves[c]' < 2) =>
       \A k \in DOMAIN pairs :
         pairs[k].owner # call.container =>
           k \in DOMAIN pairs' /\ pairs'[k] = pairs[k]]_vars

(* Adding a network removes a bridge only if it is its own or half-made, as *)
(* long as every network added has kept its row and the daemon has not been *)
(* restarted: the number of rows, from which the code of a new bridge comes,*)
(* is not one that another network has.                                     *)
BridgeTakenOnlyAfterLoss ==
  [][(\E n \in Networks : Create(n)) /\ ~codesReused /\ crashes = 0 =>
       \A code \in DOMAIN bridges :
         bridges[code] # None =>
           code \in DOMAIN bridges' /\ bridges'[code] = bridges[code]]_vars
=============================================================================
