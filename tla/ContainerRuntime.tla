-------------------------- MODULE ContainerRuntime --------------------------
(* domain::containers: the runtime's map of container objects, the life of  *)
(* a freebsd_container on the host (mounts, jail, process, stream), the     *)
(* start, stop, removal and logging orders, and the rows of container_tb.   *)
(*                                                                          *)
(* Orders and events run one after the other on the thread of the           *)
(* io_context; only what start() posts without an executor runs elsewhere,  *)
(* on the threads of a pool, which are so many and of which each waits for  *)
(* one process as long as it lives.  A container object is destroyed when   *)
(* the map and every logging handler have let go of it, and its destructor  *)
(* works by the container's name: it removes whichever jail has it.         *)
EXTENDS Naturals, FiniteSets, FiniteSetsExt

CONSTANTS
  Containers,   \* identifiers of created containers: each has a row
  Objects,      \* freebsd_container objects alive at one time
  Sessions,     \* logging handlers, each of its own connection
  None,
  Foreign,      \* maker of a jail that has outlived its daemon
  Threads,      \* how many threads the pool has
  MaxLayers,    \* bound: mounts of a container's volume on top of each other
  MaxWaits,     \* bound: waits for an object's process that no thread has begun
  MaxCrashes    \* bound: crashes of the daemon

ASSUME NoneAssumption ==
  None # Foreign /\ {None, Foreign} \cap Objects = {} /\ None \notin Containers
ASSUME BoundsAssumption ==
  {MaxLayers, MaxWaits, MaxCrashes} \subseteq Nat /\ Threads \in Nat \ {0}

VARIABLES
  containers,  \* runtime::containers
  object,      \* of: whose it is; stream, ready: see below; echo: an event of
               \* its former stream is still to be handled; waits: how many
               \* waits for its process are posted
  sessions,    \* logging_handler::container_ptr
  host,        \* jail: the object that made it; layers: mounts of the volume;
               \* held: threads of the pool that wait for the jail's process;
               \* inside: the volume is mounted in the container's folder;
               \* folder, volume: still there; status: the row's;
               \* inherited: history, the mounts among layers from before a
               \* crash, which are the lowest; stuck, unwritten: history, an
               \* unmount of this daemon, a write has failed
  late,        \* containers with an event for an object that is gone
  crashes

vars == <<containers, object, sessions, host, late, crashes>>

(* An object's stream: none; idle; posted, start() has left its wait to the *)
(* pool; armed, it waits for the first event; reading.  It is ready once    *)
(* the process has written something or is gone.                            *)
Streams == {"none", "idle", "posted", "armed", "reading"}

Unused == [of |-> None, stream |-> "none", ready |-> FALSE, echo |-> FALSE, waits |-> 0]

Live == {o \in Objects : object[o].of # None}

\* The map or a logging handler has a shared pointer to it.
Referenced(o) ==
  \/ \E c \in Containers : containers[c] = o
  \/ \E s \in Sessions : sessions[s] = o

\* Faulty variant (mutation check): the object holds a pointer to itself.
KeptByItself(o) == object[o].of # None

\* It still has one after the step.
Kept(o) ==
  \/ \E c \in Containers : containers'[c] = o
  \/ \E s \in Sessions : sessions'[s] = o

\* Every thread of the pool waits for a process.
Full == MapThenSumSet(LAMBDA c : host[c].held, Containers) >= Threads

Init ==
  /\ containers = [c \in Containers |-> None]
  /\ object = [o \in Objects |-> Unused]
  /\ sessions = [s \in Sessions |-> None]
  /\ host \in [Containers ->
       {[jail |-> None, layers |-> 0, held |-> 0, inside |-> i, folder |-> TRUE,
         volume |-> TRUE, status |-> "shutdown", inherited |-> 0, stuck |-> FALSE,
         unwritten |-> FALSE] : i \in BOOLEAN}]
  /\ late = {}
  /\ crashes = 0

----------------------------------------------------------------------------
(* What a constructor's initialize() and a destructor leave of a            *)
(* container's state on the host, w: the set of ways it can end.            *)

\* register_status; a statement that fails is reported as success.
Stored(w, status) ==
  {[w EXCEPT !.status = status], [w EXCEPT !.unwritten = TRUE]}

\* Faulty variant (mutation check): what is not mounted counts as unmounted.
UnmountedBelow(w) == {[w EXCEPT !.layers = @ - 1]}

\* Faulty variant (mutation check): the mounts are left to the jail.
UnmountedNever(w) == {w}

\* unmount_file_systems takes the volume's topmost mount away, or stops there.
Unmounted(w) ==
  IF w.layers = 0
  THEN {w}
  ELSE {[w EXCEPT !.layers = @ - 1, !.inherited = IF @ < w.layers THEN @ ELSE @ - 1],
        [w EXCEPT !.stuck = TRUE]}

\* Faulty variant (mutation check): only the base class's destructor runs.
DestructedBase(w) == {w}

(* The destructor: jail_remove of whichever jail has the name, which ends   *)
(* its process and the waits for it, the mounts, then container_stopped,    *)
(* which writes the row (and leaves the network: see NetworkService).  The  *)
(* daemon, which made the jail or found it by its name, may remove it.      *)
Destructed(w) ==
  UNION {Stored(u, "shutdown") : u \in Unmounted([w EXCEPT !.jail = None, !.held = 0])}

Failed(w) == [host |-> w, result |-> "failed"]

\* mount_file_systems fails before the volume or after it.
MountsFail(w) == {Failed(w), Failed([w EXCEPT !.layers = @ + 1])}

(* With the mounts made, create_jail fails, or start_process_in_jail fails  *)
(* in the new jail, or container_initialized asks for an address, in vain   *)
(* or not.  A jail of that name makes create_jail fail; the container's     *)
(* folder must be there for its mounts and its jail.                        *)
JailRuns(w, o) ==
  LET up == [w EXCEPT !.layers = @ + 1, !.jail = o] IN
  IF w.folder /\ w.jail = None
  THEN {Failed(up),
        [host |-> up, result |-> "refused"],
        [host |-> up, result |-> "started"]}
  ELSE {}

Initialized(w, o) == MountsFail(w) \cup JailRuns(w, o)

\* A jail's process that ends hangs up the stream of the object that made it.
HungUp(c) ==
  [o \in Objects |->
     IF o = host[c].jail /\ object[o].stream \in {"posted", "armed"}
     THEN [object[o] EXCEPT !.ready = TRUE]
     ELSE object[o]]

\* An event of this object may be on its way to the thread already.
Underway(o) ==
  object[o].echo \/ (object[o].stream = "armed" /\ object[o].ready)

\* The pool has still to run what the object has posted.
Pending(o) == object[o].waits > 0 \/ object[o].stream = "posted"

\* o is gone.  What is under way or posted for it comes late.
Forget(o, c) ==
  /\ object' = [HungUp(c) EXCEPT ![o] = Unused]
  /\ late' \in IF Underway(o) \/ Pending(o) THEN {late, late \cup {c}} ELSE {late}

\* o's destructor runs over w.
Destroy(o, c, w) ==
  /\ host' \in {[host EXCEPT ![c] = v] : v \in Destructed(w)}
  /\ Forget(o, c)

\* A holder has let go of o: it is destroyed unless somebody else holds it.
Release(o, c) ==
  IF Kept(o)
  THEN UNCHANGED <<host, object, late>>
  ELSE Destroy(o, c, host[c])

----------------------------------------------------------------------------
(* Orders                                                                   *)

(* start_handler over runtime::create_container without an object in the    *)
(* map: one is made and initialized.  If the network refuses it the runtime *)
(* removes it.  The answer is "container started" in every case.            *)
Start(c) ==
  /\ containers[c] = None
  /\ host[c].layers < MaxLayers
  /\ \E o \in Objects \ Live : \E end \in Initialized(host[c], o) :
       IF end.result = "refused"
       THEN /\ host' \in {[host EXCEPT ![c] = v] : v \in Destructed(end.host)}
            /\ UNCHANGED <<containers, object>>
       ELSE /\ host' = [host EXCEPT ![c] = end.host]
            /\ containers' = [containers EXCEPT ![c] = o]
            /\ object' = [object EXCEPT ![o] =
                 [Unused EXCEPT !.of = c,
                    !.stream = IF end.result = "started" THEN "posted" ELSE "none",
                    !.waits = IF end.result = "started" THEN 1 ELSE 0]]
  /\ UNCHANGED <<sessions, late, crashes>>

(* With an object in the map, try_emplace is still handed a new one, which  *)
(* it drops: its destructor runs first.  Then the old object is initialized *)
(* again.  A new process replaces the stream, whose event may be under way. *)
StartAgain(c) ==
  LET o == containers[c]
      Renewed(stream, waits) ==
        {[of |-> c, stream |-> stream, ready |-> FALSE, echo |-> e, waits |-> waits] :
           e \in {object[o].echo, Underway(o)}}
  IN
  /\ o # None
  /\ host[c].layers < MaxLayers /\ object[o].waits < MaxWaits
  /\ UNCHANGED sessions
  /\ \E w \in Destructed(host[c]) : \E end \in Initialized(w, o) :
       \/ /\ end.result = "failed"
          /\ host' = [host EXCEPT ![c] = end.host]
          /\ object' = HungUp(c)
          /\ UNCHANGED <<containers, late>>
       \/ /\ end.result = "started"
          /\ host' = [host EXCEPT ![c] = end.host]
          /\ object' \in {[HungUp(c) EXCEPT ![o] = r] :
                             r \in Renewed("posted", object[o].waits + 1)}
          /\ UNCHANGED <<containers, late>>
       \/ /\ end.result = "refused"
          /\ containers' = [containers EXCEPT ![c] = None]
          /\ IF Kept(o)
             THEN /\ host' = [host EXCEPT ![c] = end.host]
                  /\ object' \in {[HungUp(c) EXCEPT ![o] = r] :
                                     r \in Renewed("idle", object[o].waits)}
                  /\ UNCHANGED late
             ELSE Destroy(o, c, end.host)
  /\ UNCHANGED crashes

\* runtime::remove_container
Discard(c) ==
  IF containers[c] = None
  THEN UNCHANGED <<containers, host, object, late>>
  ELSE containers' = [containers EXCEPT ![c] = None] /\ Release(containers[c], c)

\* stop_handler: the answer is "container with id: {} stopped" in every case.
Stop(c) ==
  /\ UNCHANGED <<sessions, crashes>>
  /\ Discard(c)

(* The OR of the query binds weaker than its AND and is given an identifier:*)
(* every container with a row is running.                                   *)
IsRunning(c) == c \in Containers

\* removal_handler, not forced
Refuse(c) ==
  /\ IsRunning(c)
  /\ UNCHANGED vars

(* fs::remove_all goes through what is mounted in the folder.  The folder   *)
(* may stay, if something in it is busy.                                    *)
FolderRemoved(w) ==
  {[w EXCEPT !.folder = f, !.volume = @ /\ ~(w.inside /\ w.layers > 0)] :
     f \in {w.folder, FALSE}}

\* Faulty variant (mutation check): the folder goes before the object.
EmptiedFirst(c, gone) ==
  IF gone
  THEN UNION {Destructed(w) : w \in FolderRemoved(host[c])}
  ELSE FolderRemoved(host[c])

\* The object goes, if nobody else holds it, then the folder.
Emptied(c, gone) ==
  IF gone
  THEN UNION {FolderRemoved(w) : w \in Destructed(host[c])}
  ELSE FolderRemoved(host[c])

(* removal_handler, forced.  The row stays, so a removed container can be   *)
(* started again, without its folder.                                       *)
Remove(c) ==
  /\ IsRunning(c)
  /\ UNCHANGED <<sessions, crashes>>
  /\ containers' = [containers EXCEPT ![c] = None]
  /\ LET o == containers[c]
         gone == o # None /\ ~Kept(o)
     IN
     /\ host' \in {[host EXCEPT ![c] = v] : v \in Emptied(c, gone)}
     /\ \/ gone /\ Forget(o, c)
        \/ ~gone /\ UNCHANGED <<object, late>>

\* logging_handler: the handler keeps the object it has found.
Log(s, c) ==
  /\ sessions[s] = None /\ containers[c] # None
  /\ sessions' = [sessions EXCEPT ![s] = containers[c]]
  /\ UNCHANGED <<containers, object, host, late, crashes>>

\* The connection of a logging session closes: its handler is destroyed.
CloseSession(s) ==
  /\ sessions[s] # None
  /\ sessions' = [sessions EXCEPT ![s] = None]
  /\ UNCHANGED <<containers, crashes>>
  /\ Release(sessions[s], object[sessions[s]].of)

----------------------------------------------------------------------------
(* Events                                                                   *)

(* A thread of the pool runs the first of what start() has posted, and      *)
(* waits for the process, unless it has ended.                              *)
ProcessWait(o) ==
  /\ object[o].waits > 0 /\ ~Full
  /\ object' = [object EXCEPT ![o].waits = @ - 1]
  /\ \/ UNCHANGED host
     \/ /\ host[object[o].of].jail = o
        /\ host' = [host EXCEPT ![object[o].of].held = @ + 1]
  /\ UNCHANGED <<containers, sessions, late, crashes>>

\* A thread of the pool runs the second, which has the stream wait.
Post(o) ==
  /\ object[o].stream = "posted" /\ ~Full
  /\ object' = [object EXCEPT ![o].stream = "armed"]
  /\ UNCHANGED <<containers, sessions, host, late, crashes>>

\* A process that threads wait for ends.
Ends(c) ==
  /\ host[c].held > 0
  /\ host' = [host EXCEPT ![c].held = 0]
  /\ object' = HungUp(c)
  /\ UNCHANGED <<containers, sessions, late, crashes>>

\* The process writes, or ends.
Output(o) ==
  /\ object[o].stream \in {"posted", "armed"} /\ ~object[o].ready
  /\ object' = [object EXCEPT ![o].ready = TRUE]
  /\ UNCHANGED <<containers, sessions, host, late, crashes>>

\* runtime::container_started
Started(c) ==
  host' \in {[host EXCEPT ![c] = v] : v \in Stored(host[c], "active")}

\* Faulty variant (mutation check): the start is not reported.
FirstEventSilent(o) ==
  /\ object[o].stream = "armed" /\ object[o].ready
  /\ object' = [object EXCEPT ![o].stream = "reading", ![o].ready = FALSE]
  /\ UNCHANGED <<containers, sessions, host, late, crashes>>

\* The first event: the container is reported started.
FirstEvent(o) ==
  /\ object[o].stream = "armed" /\ object[o].ready
  /\ object' = [object EXCEPT ![o].stream = "reading", ![o].ready = FALSE]
  /\ Started(object[o].of)
  /\ UNCHANGED <<containers, sessions, late, crashes>>

\* The event of a stream that has been replaced since it was queued.
Echo(o) ==
  /\ object[o].echo
  /\ object' = [object EXCEPT ![o].echo = FALSE]
  /\ Started(object[o].of)
  /\ UNCHANGED <<containers, sessions, late, crashes>>

(* The event of an object that has been destroyed since it was queued, or   *)
(* what it has posted, reads freed memory: nothing happens, or what happens *)
(* to a live one, or a thread waits for whichever process is found there,   *)
(* or the process dies (see Crash).                                         *)
LateEvent(c) ==
  /\ c \in late
  /\ late' = late \ {c}
  /\ \/ UNCHANGED host
     \/ Started(c)
     \/ /\ ~Full
        /\ \E d \in Containers :
             host[d].jail \in Objects /\ host' = [host EXCEPT ![d].held = @ + 1]
  /\ UNCHANGED <<containers, object, sessions, crashes>>

(* The daemon dies and is started again: jails, mounts and rows stay.       *)
Crash ==
  /\ crashes < MaxCrashes
  /\ crashes' = crashes + 1
  /\ containers' = [c \in Containers |-> None]
  /\ object' = [o \in Objects |-> Unused]
  /\ sessions' = [s \in Sessions |-> None]
  /\ host' = [c \in Containers |->
       [host[c] EXCEPT !.jail = IF @ = None THEN None ELSE Foreign, !.held = 0,
                       !.inherited = host[c].layers, !.stuck = FALSE]]
  /\ late' = {}

Next ==
  \/ \E c \in Containers :
       Start(c) \/ StartAgain(c) \/ Stop(c) \/ Refuse(c) \/ Remove(c) \/ Ends(c)
       \/ LateEvent(c)
  \/ \E s \in Sessions : CloseSession(s) \/ \E c \in Containers : Log(s, c)
  \/ \E o \in Objects : ProcessWait(o) \/ Post(o) \/ Output(o) \/ FirstEvent(o) \/ Echo(o)
  \/ Crash

(* The thread of the io_context keeps running what it has.  The pool's      *)
(* queue is in order, so that a thread that is free again and again gets to *)
(* everything in it, but none need ever be: no process need end, or write,  *)
(* nor anybody order anything.                                              *)
Fairness == \A o \in Objects : SF_vars(Post(o)) /\ WF_vars(FirstEvent(o))

Spec == Init /\ [][Next]_vars /\ Fairness

----------------------------------------------------------------------------

(* Objects, jails and rows refer to each other within their types.          *)
TypeOK ==
  /\ containers \in [Containers -> Objects \cup {None}]
  /\ object \in [Objects -> [of : Containers \cup {None}, stream : Streams,
                             ready : BOOLEAN, echo : BOOLEAN, waits : Nat]]
  /\ sessions \in [Sessions -> Objects \cup {None}]
  /\ host \in [Containers ->
       [jail : Objects \cup {None, Foreign}, layers : 0 .. MaxLayers, held : Nat,
        inside : BOOLEAN, folder : BOOLEAN, volume : BOOLEAN,
        status : {"shutdown", "active"}, inherited : 0 .. MaxLayers,
        stuck : BOOLEAN, unwritten : BOOLEAN]]
  /\ late \subseteq Containers
  /\ crashes \in 0 .. MaxCrashes

(* A jail made since the daemon started is always somebody's: the object    *)
(* that made it is alive, and the map or a logging session holds it.  No    *)
(* sequence of starts, stops and sessions leaves a jail nobody can end.     *)
JailHasKeeper ==
  \A c \in Containers :
    host[c].jail \in Objects =>
      object[host[c].jail].of = c /\ Referenced(host[c].jail)

(* Besides those from before a crash, no more mounts of a container's       *)
(* volume are left than it has objects alive, as long as no unmount of this *)
(* daemon has failed: the repeated initialization of one object, and the    *)
(* destructors of objects that take each other's mounts away, add up.       *)
NoMountLeftBehind ==
  \A c \in Containers :
    ~host[c].stuck =>
      host[c].layers <=
        host[c].inherited + Cardinality({o \in Objects : object[o].of = c})

(* A removal goes through a mounted volume, and destroys what is in it,     *)
(* only if a logging session still holds an object of the container, an     *)
(* unmount of this daemon has failed, or every mount that is left is from   *)
(* before a crash.                                                          *)
VolumesOutliveRemoval ==
  [][\A c \in Containers :
       host[c].volume /\ ~host[c].volume' =>
         \/ host[c].stuck'
         \/ host[c].inherited' > 0 /\ host[c].layers' = host[c].inherited'
         \/ \E s \in Sessions : sessions[s] # None /\ object[sessions[s]].of = c]_vars

(* A stop that leaves the container's jail alive leaves it to a logging     *)
(* session that will end it, or is of a jail from before a crash that no    *)
(* start has met since.                                                     *)
StopLeavesOnlyWatched ==
  [][\A c \in Containers :
       Stop(c) /\ host[c].jail' # None =>
         \/ host[c].jail' = Foreign
         \/ \E s \in Sessions : sessions[s] # None /\ object[sessions[s]].of = c]_vars

(* Once the process of a started container has written, or ended, its row   *)
(* turns active, unless a write fails or the container is started again or  *)
(* let go of first, or from some time on all threads of the pool wait for   *)
(* processes that do not end: as many containers as there are threads, and  *)
(* the start of the last is not reported.                                   *)
StartIsReported ==
  <>[]Full \/ \A c \in Containers : \A o \in Objects :
    (containers[c] = o /\ object[o].stream \in {"posted", "armed"} /\ object[o].ready)
      ~> (host[c].status = "active" \/ host[c].unwritten \/ containers[c] # o
          \/ (object[o].stream = "posted" /\ ~object[o].ready))


(* "container is still running, stop it to proceed with removal": what      *)
(* is_running holds to be running has a jail, or its row says active.       *)
RefusedOnlyWhenRunning ==
  \A c \in Containers :
    IsRunning(c) => host[c].jail # None \/ host[c].status = "active"
=============================================================================
