------------------------ MODULE ContainerRuntimeProofs ------------------------
(* What holds of objects, jails and mounts for any number of containers,    *)
(* objects and logging sessions, however starts, stops, removals and the    *)
(* closing of sessions follow each other, and wherever they fail.           *)
EXTENDS ContainerRuntime, FiniteSetTheorems, TLAPS

ObjectTypes ==
  [of : Containers \cup {None}, stream : Streams, ready : BOOLEAN, echo : BOOLEAN,
   waits : Nat]

HostRecords ==
  [jail : Objects \cup {None, Foreign}, layers : 0 .. MaxLayers, held : Nat,
   inside : BOOLEAN, folder : BOOLEAN, volume : BOOLEAN,
   status : {"shutdown", "active"}, inherited : 0 .. MaxLayers,
   stuck : BOOLEAN, unwritten : BOOLEAN]

\* The mounts from before a crash are among those there are.
HostTypes == {w \in HostRecords : w.inherited <= w.layers}

\* The mounts of this daemon.
Own(w) == w.layers - w.inherited

(* A container's state has as many mounts as it should.                     *)
LEMMA OwnCounts ==
  ASSUME NEW w \in HostTypes
  PROVE  /\ Own(w) \in Nat /\ w.layers = w.inherited + Own(w)
         /\ w.layers \in 0 .. MaxLayers /\ w.inherited \in 0 .. MaxLayers
         /\ w.layers \in Nat /\ w.inherited \in Nat /\ MaxLayers \in Nat
<1>1. w.layers \in 0 .. MaxLayers /\ w.inherited \in 0 .. MaxLayers /\ MaxLayers \in Nat
  BY BoundsAssumption DEF HostTypes, HostRecords
<1>2. w.inherited <= w.layers
  BY DEF HostTypes
<1>3. QED
  BY <1>1, <1>2 DEF Own

\* The objects of a container that are alive.
Of(c) == {o \in Objects : object[o].of = c}

\* Who holds an object holds one that is alive, the map one of the right
\* container; and every object alive is held.
HoldersFit ==
  /\ \A c \in Containers : containers[c] # None => object[containers[c]].of = c
  /\ \A s \in Sessions : sessions[s] # None => object[sessions[s]].of # None
  /\ \A o \in Live : Referenced(o)

\* Objects alive can be counted.
LiveFits == \A c \in Containers : IsFiniteSet(Of(c))

HostFits == host \in [Containers -> HostTypes]

RuntimeInv ==
  TypeOK /\ JailHasKeeper /\ NoMountLeftBehind /\ HoldersFit /\ LiveFits /\ HostFits

----------------------------------------------------------------------------
(* A destructor leaves no jail, and one mount less unless it is stuck       *)
(* (~freebsd_container, unmount_file_systems).                              *)
LEMMA DestructedGives ==
  ASSUME NEW w \in HostTypes, NEW v \in Destructed(w)
  PROVE  /\ v \in HostTypes /\ v.jail = None
         /\ v.inside = w.inside /\ v.volume = w.volume /\ v.folder = w.folder
         /\ ~v.stuck => ~w.stuck /\ Own(v) = IF Own(w) = 0 THEN 0 ELSE Own(w) - 1
         /\ v.layers <= w.layers
  <1> DEFINE bare == [w EXCEPT !.jail = None, !.held = 0]
  <1>1. bare \in HostTypes /\ bare.jail = None /\ bare.inside = w.inside
        /\ bare.volume = w.volume /\ bare.folder = w.folder
        /\ bare.layers = w.layers /\ bare.stuck = w.stuck /\ bare.inherited = w.inherited
    BY DEF HostTypes, HostRecords
  <1>2. PICK u \in Unmounted(bare) : v \in Stored(u, "shutdown")
    BY DEF Destructed
  <1> HIDE DEF bare
  <1>0. /\ MaxLayers \in Nat /\ w.layers \in 0 .. MaxLayers /\ w.inherited \in 0 .. MaxLayers
        /\ w.inherited <= w.layers
    BY OwnCounts DEF HostTypes
  <1>3. /\ u \in HostTypes /\ u.jail = None
        /\ u.inside = w.inside /\ u.volume = w.volume /\ u.folder = w.folder
        /\ ~u.stuck => ~w.stuck /\ Own(u) = IF Own(w) = 0 THEN 0 ELSE Own(w) - 1
        /\ u.layers <= w.layers
    <2>1. CASE w.layers = 0
      <3>1. u = bare /\ w.inherited = 0
        BY <1>0, <1>1, <1>2, <2>1 DEF Unmounted
      <3>2. QED
        BY <1>0, <1>1, <2>1, <3>1 DEF Own
    <2>2. CASE w.layers # 0 /\ u = [bare EXCEPT !.layers = @ - 1,
                    !.inherited = IF @ < bare.layers THEN @ ELSE @ - 1]
      <3>. DEFINE left == IF w.inherited < w.layers THEN w.inherited ELSE w.inherited - 1
      <3>1. /\ w.layers - 1 \in 0 .. MaxLayers /\ left \in 0 .. MaxLayers /\ left <= w.layers - 1
            /\ w.layers - 1 - left =
                 IF w.layers - w.inherited = 0 THEN 0 ELSE w.layers - w.inherited - 1
        BY <1>0, <2>2
      <3>2. u = [bare EXCEPT !.layers = w.layers - 1, !.inherited = left]
        BY <1>1, <2>2
      <3>. HIDE DEF left
      <3>3. bare \in HostRecords
        BY <1>1 DEF HostTypes
      <3>4. /\ u \in HostRecords /\ u.layers = w.layers - 1 /\ u.inherited = left
            /\ u.jail = None /\ u.inside = w.inside /\ u.volume = w.volume
            /\ u.folder = w.folder /\ u.stuck = w.stuck
        BY <1>1, <3>1, <3>2, <3>3 DEF HostRecords
      <3>5. w.layers - 1 <= w.layers
        BY <1>0
      <3>6. QED
        BY <3>1, <3>4, <3>5 DEF HostTypes, Own
    <2>3. CASE w.layers # 0 /\ u = [bare EXCEPT !.stuck = TRUE]
      <3>1. TRUE \in BOOLEAN /\ w.layers <= w.layers
        BY <1>0
      <3>2. u \in HostTypes
        BY <1>1, <2>3, <3>1 DEF HostTypes, HostRecords
      <3>3. /\ u.jail = None /\ u.layers = w.layers /\ u.stuck = TRUE
            /\ u.inside = w.inside /\ u.volume = w.volume /\ u.folder = w.folder
        BY <1>1, <2>3 DEF HostTypes, HostRecords
      <3>4. QED
        BY <3>1, <3>2, <3>3
    <2>4. QED
      BY <1>1, <1>2, <2>1, <2>2, <2>3 DEF Unmounted
  <1>4. v = [u EXCEPT !.status = "shutdown"] \/ v = [u EXCEPT !.unwritten = TRUE]
    BY <1>2 DEF Stored
  <1>5. TRUE \in BOOLEAN
    OBVIOUS
  <1>6. /\ v \in HostTypes /\ v.jail = u.jail /\ v.layers = u.layers
        /\ v.inherited = u.inherited /\ v.stuck = u.stuck
        /\ v.inside = u.inside /\ v.volume = u.volume /\ v.folder = u.folder
    BY <1>3, <1>4, <1>5 DEF HostTypes, HostRecords
  <1>7. QED
    BY <1>3, <1>6 DEF Own

(* An initialization makes at most one mount, and a jail of its object      *)
(* (initialize, mount_file_systems, create_jail).                           *)
LEMMA InitializedGives ==
  ASSUME NEW w \in HostTypes, w.layers < MaxLayers, NEW o \in Objects,
         NEW end \in Initialized(w, o)
  PROVE  /\ end.host \in HostTypes /\ end.host.jail \in {w.jail, o}
         /\ end.host.stuck = w.stuck /\ end.host.volume = w.volume
         /\ Own(end.host) <= Own(w) + 1
         /\ end.result \in {"failed", "refused", "started"}
  <1>1. /\ MaxLayers \in Nat /\ w.layers \in 0 .. MaxLayers /\ w.layers + 1 \in 0 .. MaxLayers
        /\ w.inherited \in Nat /\ w.inherited <= w.layers + 1
        /\ Own(w) \in Nat /\ w.layers = w.inherited + Own(w)
    <2>1. /\ MaxLayers \in Nat /\ w.layers \in 0 .. MaxLayers /\ w.inherited \in Nat
          /\ Own(w) \in Nat /\ w.layers = w.inherited + Own(w)
      BY OwnCounts
    <2>2. QED
      BY <2>1
  <1>2. /\ end.result \in {"failed", "refused", "started"}
        /\ \/ end.host = w
           \/ end.host = [w EXCEPT !.layers = @ + 1]
           \/ end.host = [w EXCEPT !.layers = @ + 1, !.jail = o]
    BY DEF Initialized, MountsFail, JailRuns, Failed
  <1>3. CASE end.host = w
    BY <1>1, <1>2, <1>3
  <1>4. CASE \/ end.host = [w EXCEPT !.layers = @ + 1]
             \/ end.host = [w EXCEPT !.layers = @ + 1, !.jail = o]
    <2>1. w \in HostRecords
      BY DEF HostTypes
    <2>2. /\ end.host \in HostRecords /\ end.host.jail \in {w.jail, o}
          /\ end.host.layers = w.layers + 1 /\ end.host.inherited = w.inherited
          /\ end.host.stuck = w.stuck /\ end.host.volume = w.volume
      BY <1>1, <1>4, <2>1 DEF HostRecords
    <2>3. end.host \in HostTypes /\ Own(end.host) <= Own(w) + 1
      BY <1>1, <2>2 DEF HostTypes, Own
    <2>4. QED
      BY <1>2, <2>2, <2>3
  <1>5. QED
    BY <1>2, <1>3, <1>4

(* A jail that is removed changes nothing of objects but their streams.     *)
LEMMA HungUpGives ==
  ASSUME TypeOK, NEW c \in Containers
  PROVE  /\ HungUp(c) \in [Objects -> ObjectTypes]
         /\ \A o \in Objects : HungUp(c)[o].of = object[o].of
  <1>1. object \in [Objects -> ObjectTypes] /\ TRUE \in BOOLEAN
    BY DEF TypeOK, ObjectTypes
  <1>2. \A o \in Objects : /\ [object[o] EXCEPT !.ready = TRUE] \in ObjectTypes
                           /\ [object[o] EXCEPT !.ready = TRUE].of = object[o].of
    BY <1>1 DEF ObjectTypes
  <1>3. QED
    BY <1>1, <1>2 DEF HungUp

(* NoMountLeftBehind by the mounts of this daemon.                          *)
LEMMA MountsOfObjects ==
  ASSUME RuntimeInv, NEW c \in Containers, ~host[c].stuck
  PROVE  Own(host[c]) <= Cardinality(Of(c))
<1>1. host[c].layers <= host[c].inherited + Cardinality(Of(c))
  BY DEF RuntimeInv, NoMountLeftBehind, Of
<1>2. Own(host[c]) \in Nat /\ host[c].layers = host[c].inherited + Own(host[c])
      /\ host[c].inherited \in Nat /\ host[c].layers \in Nat
  BY OwnCounts DEF RuntimeInv, HostFits
<1>3. Cardinality(Of(c)) \in Nat
  BY FS_CardinalityType DEF RuntimeInv, LiveFits
<1>4. QED
  BY <1>1, <1>2, <1>3

(* And back, after a step.                                                  *)
LEMMA MountsAgain ==
  ASSUME host' \in [Containers -> HostTypes],
         \A c \in Containers : IsFiniteSet(Of(c)'),
         \A c \in Containers :
           ~host'[c].stuck => Own(host'[c]) <= Cardinality(Of(c)')
  PROVE  NoMountLeftBehind'
<1>1. ASSUME NEW c \in Containers, ~host'[c].stuck
      PROVE  host'[c].layers <= host'[c].inherited + Cardinality(Of(c)')
  <2>1. Own(host'[c]) \in Nat /\ host'[c].layers = host'[c].inherited + Own(host'[c])
        /\ host'[c].inherited \in Nat
    BY OwnCounts
  <2>2. Cardinality(Of(c)') \in Nat
    BY FS_CardinalityType
  <2>3. QED
    BY <1>1, <2>1, <2>2
<1>2. QED
  BY <1>1 DEF NoMountLeftBehind, Of

\* A step leaves v of w, c's state, with the same objects of c alive.
Milder(v, w, c) ==
  /\ v \in HostTypes
  /\ v.jail \in {w.jail, None} \cup Of(c)
  /\ ~v.stuck => ~w.stuck /\ (Own(v) <= Own(w) \/ (Own(v) = 1 /\ Of(c) # {}))

(* Steps that leave every object to the container it is of.                 *)
LEMMA SameOwnersKeep ==
  ASSUME RuntimeInv,
         containers' \in [Containers -> Objects \cup {None}],
         sessions' \in [Sessions -> Objects \cup {None}],
         late' \subseteq Containers, crashes' = crashes,
         object' \in [Objects -> ObjectTypes],
         \A o \in Objects : object'[o].of = object[o].of,
         host' \in [Containers -> HostTypes],
         \A c \in Containers : Milder(host'[c], host[c], c),
         HoldersFit'
  PROVE  RuntimeInv'
  <1>1. TypeOK'
    BY DEF RuntimeInv, TypeOK, ObjectTypes, HostTypes, HostRecords
  <1>2. /\ host \in [Containers -> HostTypes]
        /\ \A c \in Containers : IsFiniteSet(Of(c))
    BY DEF RuntimeInv, HostFits, LiveFits
  <1>3. \A c \in Containers : Of(c)' = Of(c)
    BY DEF Of
  <1>4. JailHasKeeper'
    <2> SUFFICES ASSUME NEW c \in Containers, host'[c].jail \in Objects
                 PROVE  object'[host'[c].jail].of = c /\ Referenced(host[c].jail)'
      BY DEF JailHasKeeper
    <2>1. host'[c].jail \in {host[c].jail, None} \cup Of(c)
      BY DEF Milder
    <2>2. object'[host'[c].jail].of = c
      BY <2>1, NoneAssumption DEF RuntimeInv, JailHasKeeper, Of
    <2>3. host'[c].jail \in Live'
      BY <2>2, NoneAssumption DEF Live
    <2>4. QED
      BY <2>2, <2>3 DEF HoldersFit
  <1>5. NoMountLeftBehind'
    <2>1. ASSUME NEW c \in Containers, ~host'[c].stuck
          PROVE  Own(host'[c]) <= Cardinality(Of(c))
      <3>1. /\ ~host[c].stuck
            /\ Own(host'[c]) <= Own(host[c]) \/ (Own(host'[c]) = 1 /\ Of(c) # {})
        BY <2>1 DEF Milder
      <3>2. Own(host[c]) <= Cardinality(Of(c))
        BY <3>1, MountsOfObjects
      <3>3. Cardinality(Of(c)) \in Nat /\ (Of(c) # {} => Cardinality(Of(c)) # 0)
        BY <1>2, FS_CardinalityType, FS_EmptySet
      <3>4. Own(host[c]) \in Nat /\ Own(host'[c]) \in Nat
        BY <1>2, OwnCounts
      <3>5. QED
        BY <3>1, <3>2, <3>3, <3>4
    <2>2. QED
      BY <1>2, <1>3, <2>1, MountsAgain
  <1>6. LiveFits'
    BY <1>2, <1>3 DEF LiveFits
  <1>7. HostFits'
    BY DEF HostFits
  <1>8. QED
    BY <1>1, <1>4, <1>5, <1>6, <1>7 DEF RuntimeInv

(* Nobody else holds an object of a container that is let go of: it is      *)
(* destroyed, and its destructor takes the jail and a mount away.           *)
LEMMA GoneKeeps ==
  ASSUME RuntimeInv, NEW c \in Containers, NEW o \in Objects, object[o].of = c,
         NEW v \in HostTypes, host' = [host EXCEPT ![c] = v], v.jail = None,
         ~v.stuck => ~host[c].stuck /\ (Own(v) <= Own(host[c]) - 1 \/ Own(v) = 0),
         Forget(o, c), ~Kept(o), crashes' = crashes,
         containers' \in [Containers -> Objects \cup {None}],
         sessions' \in [Sessions -> Objects \cup {None}],
         \A d \in Containers : containers'[d] \in {containers[d], None},
         \A s \in Sessions : sessions'[s] \in {sessions[s], None},
         \A p \in Live \ {o} : Kept(p)
  PROVE  RuntimeInv'
  <1>1. TypeOK /\ c # None /\ host \in [Containers -> HostTypes] /\ late \subseteq Containers
        /\ HoldersFit
    BY NoneAssumption DEF RuntimeInv, TypeOK, HostFits
  <1>2. /\ object' \in [Objects -> ObjectTypes] /\ object'[o].of = None
        /\ \A p \in Objects \ {o} : object'[p].of = object[p].of
        /\ late' \subseteq Containers
    <2>1. /\ object' = [HungUp(c) EXCEPT ![o] = Unused]
          /\ late' \in {late, late \cup {c}}
      BY DEF Forget
    <2>2. Unused \in ObjectTypes /\ Unused.of = None
      <3>1. FALSE \in BOOLEAN
        OBVIOUS
      <3>2. QED
        BY <3>1 DEF Unused, ObjectTypes, Streams
    <2> HIDE DEF Unused
    <2>3. QED
      BY <1>1, <2>1, <2>2, HungUpGives
  <1>3. host' \in [Containers -> HostTypes] /\ host'[c] = v
        /\ \A d \in Containers \ {c} : host'[d] = host[d]
    BY <1>1
  <1>4. TypeOK'
    BY <1>1, <1>2, <1>3 DEF TypeOK, ObjectTypes, HostTypes, HostRecords
  <1>5. Of(c)' = Of(c) \ {o} /\ o \in Of(c) /\ \A d \in Containers \ {c} : Of(d)' = Of(d)
    BY <1>1, <1>2, NoneAssumption DEF Of
  <1>6. LiveFits'
    <2>1. \A d \in Containers : Of(d)' \subseteq Of(d)
      BY <1>5
    <2>2. QED
      BY <2>1, FS_Subset DEF RuntimeInv, LiveFits
  <1>7. HoldersFit'
    <2>1. \A d \in Containers : containers'[d] # o
      BY DEF Kept
    <2>2. \A s \in Sessions : sessions'[s] # o
      BY DEF Kept
    <2>3. ASSUME NEW d \in Containers, containers'[d] # None
          PROVE  object'[containers'[d]].of = d
      <3>1. containers'[d] = containers[d] /\ containers[d] \in Objects \ {o}
        BY <2>1, <2>3
      <3>2. QED
        BY <1>1, <1>2, <2>3, <3>1 DEF HoldersFit
    <2>4. ASSUME NEW s \in Sessions, sessions'[s] # None
          PROVE  object'[sessions'[s]].of # None
      <3>1. sessions'[s] = sessions[s] /\ sessions[s] \in Objects \ {o}
        BY <2>2, <2>4
      <3>2. QED
        BY <1>1, <1>2, <2>4, <3>1 DEF HoldersFit
    <2>5. ASSUME NEW p \in Live'
          PROVE  Kept(p)
      <3>1. p \in Live \ {o}
        BY <1>2, <2>5 DEF Live
      <3>2. QED
        BY <3>1
    <2>6. \A p : Kept(p) => Referenced(p)'
      BY DEF Kept, Referenced
    <2>7. QED
      BY <2>3, <2>4, <2>5, <2>6 DEF HoldersFit
  <1>8. JailHasKeeper'
    <2> SUFFICES ASSUME NEW d \in Containers, host'[d].jail \in Objects
                 PROVE  object'[host'[d].jail].of = d /\ Referenced(host[d].jail)'
      BY DEF JailHasKeeper
    <2>1. d # c /\ host'[d] = host[d]
      BY <1>3, NoneAssumption
    <2>2. object[host[d].jail].of = d /\ host[d].jail # o
      BY <2>1 DEF RuntimeInv, JailHasKeeper
    <2>3. object'[host'[d].jail].of = d
      BY <1>2, <2>1, <2>2
    <2>4. host'[d].jail \in Live'
      BY <2>3, NoneAssumption DEF Live
    <2>5. QED
      BY <1>7, <2>3, <2>4 DEF HoldersFit
  <1>9. NoMountLeftBehind'
    <2> SUFFICES ASSUME NEW d \in Containers, ~host'[d].stuck
                 PROVE  Own(host'[d]) <= Cardinality(Of(d)')
      BY <1>3, <1>6, MountsAgain DEF LiveFits
    <2>1. CASE d # c
      BY <1>3, <1>5, <2>1, MountsOfObjects
    <2>2. CASE d = c
      <3>1. IsFiniteSet(Of(c)) /\ IsFiniteSet(Of(c)')
        BY <1>6 DEF RuntimeInv, LiveFits
      <3>2. Cardinality(Of(c)') = Cardinality(Of(c)) - 1
        BY <1>5, <3>1, FS_RemoveElement
      <3>3. Cardinality(Of(c)) \in Nat /\ Cardinality(Of(c)') \in Nat
        BY <3>1, FS_CardinalityType
      <3>4. ~host[c].stuck /\ (Own(v) <= Own(host[c]) - 1 \/ Own(v) = 0)
        BY <1>3, <2>2
      <3>5. Own(host[c]) <= Cardinality(Of(c))
        BY <3>4, MountsOfObjects
      <3>6. Own(host[c]) \in Nat /\ Own(v) \in Nat
        BY <1>1, OwnCounts
      <3>7. Own(v) <= Cardinality(Of(c)')
        BY <3>2, <3>3, <3>4, <3>5, <3>6
      <3>8. QED
        BY <1>3, <2>2, <3>7
    <2>3. QED
      BY <2>1, <2>2
  <1>10. HostFits'
    BY <1>3 DEF HostFits
  <1>11. QED
    BY <1>4, <1>6, <1>7, <1>8, <1>9, <1>10 DEF RuntimeInv

(* An object is made for a container that has none in the map.              *)
LEMMA MadeKeeps ==
  ASSUME RuntimeInv, NEW c \in Containers, containers[c] = None, NEW o \in Objects \ Live,
         NEW v \in HostTypes, host' = [host EXCEPT ![c] = v],
         v.jail \in {host[c].jail, o}, v.stuck = host[c].stuck, Own(v) <= Own(host[c]) + 1,
         NEW r \in ObjectTypes, r.of = c, object' = [object EXCEPT ![o] = r],
         containers' = [containers EXCEPT ![c] = o], UNCHANGED <<sessions, late, crashes>>
  PROVE  RuntimeInv'
  <1>1. TypeOK /\ c # None /\ host \in [Containers -> HostTypes] /\ HoldersFit
        /\ object \in [Objects -> ObjectTypes] /\ object[o].of = None
        /\ containers \in [Containers -> Objects \cup {None}]
        /\ sessions \in [Sessions -> Objects \cup {None}]
    BY NoneAssumption DEF RuntimeInv, TypeOK, HostFits, ObjectTypes, Live
  <1>2. /\ object' \in [Objects -> ObjectTypes] /\ object'[o].of = c
        /\ \A p \in Objects \ {o} : object'[p] = object[p]
    BY <1>1
  <1>3. host' \in [Containers -> HostTypes] /\ host'[c] = v
        /\ \A d \in Containers \ {c} : host'[d] = host[d]
    BY <1>1
  <1>4. /\ containers' \in [Containers -> Objects \cup {None}] /\ containers'[c] = o
        /\ \A d \in Containers \ {c} : containers'[d] = containers[d]
    BY <1>1
  <1>5. TypeOK'
    BY <1>1, <1>2, <1>3, <1>4 DEF TypeOK, ObjectTypes, HostTypes, HostRecords
  <1>6. Of(c)' = Of(c) \cup {o} /\ o \notin Of(c) /\ \A d \in Containers \ {c} : Of(d)' = Of(d)
    BY <1>1, <1>2, NoneAssumption DEF Of
  <1>7. LiveFits'
    <2>1. ASSUME NEW d \in Containers
          PROVE  IsFiniteSet(Of(d)')
      <3>1. IsFiniteSet(Of(d)) /\ IsFiniteSet(Of(c) \cup {o})
        BY FS_AddElement DEF RuntimeInv, LiveFits
      <3>2. QED
        BY <1>6, <3>1
    <2>2. QED
      BY <2>1 DEF LiveFits
  <1>8. HoldersFit'
    <2>1. ASSUME NEW d \in Containers, containers'[d] # None
          PROVE  object'[containers'[d]].of = d
      <3>1. CASE d = c
        BY <1>2, <1>4, <3>1
      <3>2. CASE d # c
        <4>1. containers[d] # None /\ object[containers[d]].of = d /\ d # None
          BY <1>1, <1>4, <2>1, <3>2, NoneAssumption DEF HoldersFit
        <4>2. QED
          BY <1>1, <1>2, <1>4, <3>2, <4>1
      <3>3. QED
        BY <3>1, <3>2
    <2>2. ASSUME NEW s \in Sessions, sessions[s] # None
          PROVE  object'[sessions[s]].of # None
      <3>1. sessions[s] \in Objects \ {o} /\ object[sessions[s]].of # None
        BY <1>1, <2>2 DEF HoldersFit
      <3>2. QED
        BY <1>2, <3>1
    <2>3. ASSUME NEW p \in Live'
          PROVE  Referenced(p)'
      <3>1. CASE p = o
        BY <1>4, <3>1 DEF Referenced
      <3>2. CASE p # o
        <4>1. p \in Live
          BY <1>2, <2>3, <3>2 DEF Live
        <4>2. Referenced(p)
          BY <1>1, <4>1 DEF HoldersFit
        <4>3. p # None
          BY <4>1, NoneAssumption DEF Live
        <4>4. QED
          BY <1>4, <4>2, <4>3 DEF Referenced
      <3>3. QED
        BY <3>1, <3>2
    <2>4. QED
      BY <2>1, <2>2, <2>3 DEF HoldersFit
  <1>9. JailHasKeeper'
    <2> SUFFICES ASSUME NEW d \in Containers, host'[d].jail \in Objects
                 PROVE  object'[host'[d].jail].of = d /\ Referenced(host[d].jail)'
      BY DEF JailHasKeeper
    <2>1. object'[host'[d].jail].of = d
      <3>1. CASE host'[d].jail = host[d].jail
        <4>1. object[host[d].jail].of = d /\ d # None
          BY <3>1, NoneAssumption DEF RuntimeInv, JailHasKeeper
        <4>2. QED
          BY <1>1, <1>2, <3>1, <4>1
      <3>2. CASE d = c /\ host'[d].jail = o
        BY <1>2, <3>2
      <3>3. QED
        BY <1>3, <3>1, <3>2
    <2>2. host'[d].jail \in Live'
      BY <2>1, NoneAssumption DEF Live
    <2>3. QED
      BY <1>8, <2>1, <2>2 DEF HoldersFit
  <1>10. NoMountLeftBehind'
    <2> SUFFICES ASSUME NEW d \in Containers, ~host'[d].stuck
                 PROVE  Own(host'[d]) <= Cardinality(Of(d)')
      BY <1>3, <1>7, MountsAgain DEF LiveFits
    <2>1. CASE d # c
      BY <1>3, <1>6, <2>1, MountsOfObjects
    <2>2. CASE d = c
      <3>1. Cardinality(Of(c)') = Cardinality(Of(c)) + 1 /\ Cardinality(Of(c)) \in Nat
        <4>1. IsFiniteSet(Of(c))
          BY DEF RuntimeInv, LiveFits
        <4>2. QED
          BY <1>6, <4>1, FS_AddElement, FS_CardinalityType
      <3>2. Own(host[c]) <= Cardinality(Of(c))
        BY <1>3, <2>2, MountsOfObjects
      <3>3. Own(host[c]) \in Nat /\ Own(v) \in Nat
        BY <1>1, OwnCounts
      <3>4. Own(v) <= Cardinality(Of(c)')
        BY <3>1, <3>2, <3>3
      <3>5. QED
        BY <1>3, <2>2, <3>4
    <2>3. QED
      BY <2>1, <2>2
  <1>11. HostFits'
    BY <1>3 DEF HostFits
  <1>12. QED
    BY <1>5, <1>7, <1>8, <1>9, <1>10, <1>11 DEF RuntimeInv

\* Holders let go of o, and of nothing else.
LetGo(o) ==
  /\ containers' \in [Containers -> Objects \cup {None}]
  /\ sessions' \in [Sessions -> Objects \cup {None}]
  /\ \A d \in Containers : containers'[d] \in {containers[d], None}
  /\ \A s \in Sessions : sessions'[s] \in {sessions[s], None}
  /\ \A p \in Live \ {o} : Kept(p)

(* An entry of the map is erased: its object is the only one it let go of.  *)
LEMMA ErasingLetsGo ==
  ASSUME RuntimeInv, NEW c \in Containers, containers[c] # None,
         containers' = [containers EXCEPT ![c] = None], UNCHANGED sessions
  PROVE  LetGo(containers[c])
  <1>1. TypeOK /\ HoldersFit /\ containers \in [Containers -> Objects \cup {None}]
    BY DEF RuntimeInv, TypeOK
  <1>2. ASSUME NEW p \in Live \ {containers[c]}
        PROVE  Kept(p)
    <2>1. Referenced(p)
      BY <1>1 DEF HoldersFit
    <2>2. CASE \E d \in Containers : containers[d] = p
      <3>1. PICK d \in Containers : containers[d] = p
        BY <2>2
      <3>2. d # c /\ containers'[d] = p
        BY <1>1, <1>2, <3>1
      <3>3. QED
        BY <3>2 DEF Kept
    <2>3. CASE \E s \in Sessions : sessions[s] = p
      BY <2>3 DEF Kept
    <2>4. QED
      BY <2>1, <2>2, <2>3 DEF Referenced
  <1>3. QED
    BY <1>1, <1>2 DEF LetGo, TypeOK

(* A connection closes: its session lets go of one object.                  *)
LEMMA ClosingLetsGo ==
  ASSUME RuntimeInv, NEW s \in Sessions, sessions[s] # None,
         sessions' = [sessions EXCEPT ![s] = None], UNCHANGED containers
  PROVE  LetGo(sessions[s])
  <1>1. TypeOK /\ HoldersFit /\ sessions \in [Sessions -> Objects \cup {None}]
    BY DEF RuntimeInv, TypeOK
  <1>2. ASSUME NEW p \in Live \ {sessions[s]}
        PROVE  Kept(p)
    <2>1. Referenced(p)
      BY <1>1 DEF HoldersFit
    <2>2. CASE \E t \in Sessions : sessions[t] = p
      <3>1. PICK t \in Sessions : sessions[t] = p
        BY <2>2
      <3>2. t # s /\ sessions'[t] = p
        BY <1>1, <1>2, <3>1
      <3>3. QED
        BY <3>2 DEF Kept
    <2>3. CASE \E d \in Containers : containers[d] = p
      BY <2>3 DEF Kept
    <2>4. QED
      BY <2>1, <2>2, <2>3 DEF Referenced
  <1>3. QED
    BY <1>1, <1>2 DEF LetGo, TypeOK

(* If o is still held, everything alive is, and what is held is alive.      *)
LEMMA KeptFits ==
  ASSUME RuntimeInv, NEW o, LetGo(o), Kept(o),
         \A p \in Objects : object'[p].of = object[p].of
  PROVE  HoldersFit'
  <1>1. HoldersFit /\ Live' = Live
    BY DEF RuntimeInv, Live
  <1>2. \A p \in Live : Kept(p)
    BY DEF LetGo
  <1>3. \A p : Kept(p) => Referenced(p)'
    BY DEF Kept, Referenced
  <1>4. ASSUME NEW d \in Containers, containers'[d] # None
        PROVE  object'[containers'[d]].of = d
    <2>1. containers'[d] = containers[d] /\ containers'[d] \in Objects
      BY <1>4 DEF LetGo
    <2>2. QED
      BY <1>1, <1>4, <2>1 DEF HoldersFit
  <1>5. ASSUME NEW s \in Sessions, sessions'[s] # None
        PROVE  object'[sessions'[s]].of # None
    <2>1. sessions'[s] = sessions[s] /\ sessions'[s] \in Objects
      BY <1>5 DEF LetGo
    <2>2. QED
      BY <1>1, <1>5, <2>1 DEF HoldersFit
  <1>6. QED
    BY <1>1, <1>2, <1>3, <1>4, <1>5 DEF HoldersFit

(* o is still held, and c's state is what it was or milder.                 *)
LEMMA HeldKeeps ==
  ASSUME RuntimeInv, NEW o, LetGo(o), Kept(o), NEW c \in Containers,
         NEW v, Milder(v, host[c], c), host' = [host EXCEPT ![c] = v] \/ UNCHANGED host,
         object' \in [Objects -> ObjectTypes],
         \A p \in Objects : object'[p].of = object[p].of,
         UNCHANGED <<late, crashes>>
  PROVE  RuntimeInv'
  <1>1. host \in [Containers -> HostTypes] /\ late \subseteq Containers
    BY DEF RuntimeInv, TypeOK, HostFits
  <1>2. \A d \in Containers : Milder(host[d], host[d], d)
    <2>1. \A d \in Containers : Own(host[d]) \in Nat
      BY <1>1, OwnCounts
    <2>2. QED
      BY <1>1, <2>1 DEF Milder
  <1>3. \A d \in Containers : Milder(host'[d], host[d], d)
    BY <1>1, <1>2
  <1>4. host' \in [Containers -> HostTypes]
    BY <1>1 DEF Milder
  <1>5. HoldersFit'
    BY KeptFits
  <1>6. QED
    BY <1>1, <1>3, <1>4, <1>5, SameOwnersKeep DEF LetGo

(* A shared pointer is reset: the object lives on, or is destroyed.         *)
LEMMA ReleaseKeeps ==
  ASSUME RuntimeInv, NEW c \in Containers, NEW o \in Objects, object[o].of = c,
         LetGo(o), Release(o, c), crashes' = crashes
  PROVE  RuntimeInv'
  <1>1. host \in [Containers -> HostTypes] /\ object \in [Objects -> ObjectTypes]
    BY DEF RuntimeInv, TypeOK, HostFits, ObjectTypes
  <1>2. CASE Kept(o)
    <2>1. UNCHANGED <<host, object, late>>
      BY <1>2 DEF Release
    <2>2. Milder(host[c], host[c], c)
      <3>1. Own(host[c]) \in Nat
        BY <1>1, OwnCounts
      <3>2. QED
        BY <1>1, <3>1 DEF Milder
    <2>3. QED
      BY <1>1, <1>2, <2>1, <2>2, HeldKeeps
  <1>3. CASE ~Kept(o)
    <2>1. PICK v \in Destructed(host[c]) : host' = [host EXCEPT ![c] = v]
      BY <1>3 DEF Release, Destroy
    <2>2. Forget(o, c)
      BY <1>3 DEF Release, Destroy
    <2>3. /\ v \in HostTypes /\ v.jail = None
          /\ ~v.stuck => ~host[c].stuck
                         /\ Own(v) = IF Own(host[c]) = 0 THEN 0 ELSE Own(host[c]) - 1
      BY <1>1, DestructedGives
    <2>4. ~v.stuck => ~host[c].stuck /\ (Own(v) <= Own(host[c]) - 1 \/ Own(v) = 0)
      <3>1. Own(host[c]) \in Nat
        BY <1>1, OwnCounts
      <3>2. QED
        BY <2>3, <3>1
    <2>5. QED
      BY <1>3, <2>1, <2>2, <2>3, <2>4, GoneKeeps DEF LetGo
  <1>4. QED
    BY <1>2, <1>3

----------------------------------------------------------------------------
(* An order to start a container without an object.                         *)
LEMMA StartKeeps ==
  ASSUME RuntimeInv, NEW c \in Containers, Start(c)
  PROVE  RuntimeInv'
  <1>1. host \in [Containers -> HostTypes] /\ host[c] \in HostTypes
        /\ object \in [Objects -> ObjectTypes] /\ HoldersFit
    BY DEF RuntimeInv, TypeOK, HostFits, ObjectTypes
  <1>2. Own(host[c]) \in Nat
    BY <1>1, OwnCounts
  <1> DEFINE Concludes(o, end) ==
          IF end.result = "refused"
          THEN /\ host' \in {[host EXCEPT ![c] = v] : v \in Destructed(end.host)}
               /\ UNCHANGED <<containers, object>>
          ELSE /\ host' = [host EXCEPT ![c] = end.host]
               /\ containers' = [containers EXCEPT ![c] = o]
               /\ object' = [object EXCEPT ![o] =
                    [Unused EXCEPT !.of = c,
                       !.stream = IF end.result = "started" THEN "posted" ELSE "none",
                       !.waits = IF end.result = "started" THEN 1 ELSE 0]]
  <1>0. PICK o \in Objects \ Live : \E end \in Initialized(host[c], o) : Concludes(o, end)
    BY DEF Start
  <1>3. PICK end \in Initialized(host[c], o) : Concludes(o, end)
    BY <1>0
  <1>4. /\ end.host \in HostTypes /\ end.host.jail \in {host[c].jail, o}
        /\ end.host.stuck = host[c].stuck /\ end.host.volume = host[c].volume
        /\ Own(end.host) <= Own(host[c]) + 1
    BY <1>1, InitializedGives DEF Start
  <1>5. containers[c] = None /\ UNCHANGED <<sessions, late, crashes>>
    BY DEF Start
  <1>6. CASE end.result = "refused"
    <2>1. PICK v \in Destructed(end.host) : host' = [host EXCEPT ![c] = v]
      BY <1>3, <1>6
    <2>2. /\ v \in HostTypes /\ v.jail = None
          /\ ~v.stuck => ~end.host.stuck
                         /\ Own(v) = IF Own(end.host) = 0 THEN 0 ELSE Own(end.host) - 1
      BY <1>4, DestructedGives
    <2>3. ~v.stuck => ~host[c].stuck /\ Own(v) <= Own(host[c])
      <3>1. Own(end.host) \in Nat
        BY <1>4, OwnCounts
      <3>2. QED
        BY <1>2, <1>4, <2>2, <3>1
    <2>4. Milder(v, host[c], c)
      BY <2>2, <2>3 DEF Milder
    <2>5. UNCHANGED <<containers, object, sessions, late, crashes>>
      BY <1>3, <1>5, <1>6
    <2>6. HoldersFit'
      BY <1>1, <2>5 DEF HoldersFit, Live, Referenced
    <2>7. \A d \in Containers \ {c} : Milder(host[d], host[d], d)
      <3>1. \A d \in Containers : Own(host[d]) \in Nat
        BY <1>1, OwnCounts
      <3>2. QED
        BY <1>1, <3>1 DEF Milder
    <2>8. /\ host' \in [Containers -> HostTypes]
          /\ \A d \in Containers : Milder(host'[d], host[d], d)
      BY <1>1, <2>1, <2>2, <2>4, <2>7
    <2>9. /\ containers' \in [Containers -> Objects \cup {None}]
          /\ sessions' \in [Sessions -> Objects \cup {None}]
          /\ late' \subseteq Containers /\ object' \in [Objects -> ObjectTypes]
          /\ \A p \in Objects : object'[p].of = object[p].of
      BY <1>1, <2>5 DEF RuntimeInv, TypeOK
    <2>10. QED
      BY <2>5, <2>6, <2>8, <2>9, SameOwnersKeep
  <1>7. CASE end.result # "refused"
    <2> DEFINE r == [Unused EXCEPT !.of = c,
                       !.stream = IF end.result = "started" THEN "posted" ELSE "none",
                       !.waits = IF end.result = "started" THEN 1 ELSE 0]
    <2>1. r \in ObjectTypes /\ r.of = c
      <3>1. FALSE \in BOOLEAN
        OBVIOUS
      <3>2. QED
        BY <3>1 DEF Unused, ObjectTypes, Streams
    <2>2. /\ host' = [host EXCEPT ![c] = end.host] /\ object' = [object EXCEPT ![o] = r]
          /\ containers' = [containers EXCEPT ![c] = o]
      BY <1>3, <1>7
    <2> HIDE DEF r
    <2>3. QED
      BY <1>4, <1>5, <2>1, <2>2, MadeKeeps
  <1>8. QED
    BY <1>6, <1>7

(* An order to start a container that has an object: a new one takes its    *)
(* jail and a mount, and it is initialized again.                           *)
LEMMA StartAgainKeeps ==
  ASSUME RuntimeInv, NEW c \in Containers, StartAgain(c)
  PROVE  RuntimeInv'
  <1>1. host \in [Containers -> HostTypes] /\ host[c] \in HostTypes
        /\ object \in [Objects -> ObjectTypes] /\ HoldersFit /\ TypeOK
        /\ containers \in [Containers -> Objects \cup {None}]
        /\ sessions \in [Sessions -> Objects \cup {None}]
    BY DEF RuntimeInv, TypeOK, HostFits, ObjectTypes
  <1>2. PICK o : o = containers[c]
    OBVIOUS
  <1>3. /\ o \in Objects /\ object[o].of = c /\ o \in Of(c)
        /\ host[c].layers < MaxLayers /\ UNCHANGED <<sessions, crashes>>
    BY <1>1, <1>2 DEF StartAgain, HoldersFit, Of
  <1> DEFINE Renewed(stream, waits) ==
               {[of |-> c, stream |-> stream, ready |-> FALSE, echo |-> e, waits |-> waits] :
                  e \in {object[o].echo, Underway(o)}}
  <1> DEFINE Concludes(end) ==
          \/ /\ end.result = "failed"
             /\ host' = [host EXCEPT ![c] = end.host]
             /\ object' = HungUp(c)
             /\ UNCHANGED <<containers, late>>
          \/ /\ end.result = "started"
             /\ host' = [host EXCEPT ![c] = end.host]
             /\ object' \in {[HungUp(c) EXCEPT ![o] = r] : r \in Renewed("posted", object[o].waits + 1)}
             /\ UNCHANGED <<containers, late>>
          \/ /\ end.result = "refused"
             /\ containers' = [containers EXCEPT ![c] = None]
             /\ IF Kept(o)
                THEN /\ host' = [host EXCEPT ![c] = end.host]
                     /\ object' \in {[HungUp(c) EXCEPT ![o] = r] : r \in Renewed("idle", object[o].waits)}
                     /\ UNCHANGED late
                ELSE Destroy(o, c, end.host)
  <1>0. PICK w \in Destructed(host[c]) : \E end \in Initialized(w, o) : Concludes(end)
    BY <1>2 DEF StartAgain
  <1>4. PICK end \in Initialized(w, o) : Concludes(end)
    BY <1>0
  <1>5. /\ w \in HostTypes /\ w.jail = None /\ w.layers <= host[c].layers
        /\ ~w.stuck => ~host[c].stuck
                       /\ Own(w) = IF Own(host[c]) = 0 THEN 0 ELSE Own(host[c]) - 1
    BY <1>1, DestructedGives
  <1>6. Own(w) \in Nat /\ Own(host[c]) \in Nat /\ w.layers < MaxLayers
    <2>1. /\ w.layers \in Nat /\ host[c].layers \in Nat /\ MaxLayers \in Nat
          /\ Own(w) \in Nat /\ Own(host[c]) \in Nat
      BY <1>1, <1>5, OwnCounts
    <2>2. QED
      BY <1>3, <1>5, <2>1
  <1>7. /\ end.host \in HostTypes /\ end.host.jail \in {None, o}
        /\ end.host.stuck = w.stuck /\ Own(end.host) <= Own(w) + 1
    BY <1>3, <1>5, <1>6, InitializedGives
  <1>8. Own(end.host) \in Nat
    BY <1>7, OwnCounts
  <1>9. Milder(end.host, host[c], c)
    <2>1. ~end.host.stuck =>
            ~host[c].stuck
            /\ (Own(end.host) <= Own(host[c]) \/ (Own(end.host) = 1 /\ Of(c) # {}))
      BY <1>3, <1>5, <1>6, <1>7, <1>8
    <2>2. QED
      BY <1>3, <1>7, <2>1 DEF Milder
  <1>10. /\ HungUp(c) \in [Objects -> ObjectTypes]
         /\ \A p \in Objects : HungUp(c)[p].of = object[p].of
    BY <1>1, HungUpGives
  <1>11. ASSUME NEW stream \in Streams, NEW waits \in Nat, NEW r \in Renewed(stream, waits)
         PROVE  r \in ObjectTypes /\ r.of = c
    <2>1. object[o].echo \in BOOLEAN
      BY <1>1, <1>3 DEF ObjectTypes
    <2>2. Underway(o) \in BOOLEAN
      BY DEF Underway
    <2>3. PICK e \in {object[o].echo, Underway(o)} :
            r = [of |-> c, stream |-> stream, ready |-> FALSE, echo |-> e, waits |-> waits]
      BY <1>11
    <2>4. FALSE \in BOOLEAN /\ e \in BOOLEAN
      BY <2>1, <2>2, <2>3
    <2>5. QED
      BY <2>3, <2>4 DEF ObjectTypes
  <1>12. ASSUME NEW r \in ObjectTypes, r.of = c, object' = [HungUp(c) EXCEPT ![o] = r]
         PROVE  /\ object' \in [Objects -> ObjectTypes]
                /\ \A p \in Objects : object'[p].of = object[p].of
    BY <1>3, <1>10, <1>12
  <1>13. /\ "posted" \in Streams /\ "idle" \in Streams
         /\ object[o].waits \in Nat /\ object[o].waits + 1 \in Nat
    <2>1. object[o].waits \in Nat
      BY <1>1, <1>3 DEF ObjectTypes
    <2>2. QED
      BY <2>1 DEF Streams
  <1> HIDE DEF Renewed
  <1>14. ASSUME host' = [host EXCEPT ![c] = end.host],
                object' \in [Objects -> ObjectTypes],
                \A p \in Objects : object'[p].of = object[p].of,
                UNCHANGED <<containers, late>>
         PROVE  RuntimeInv'
    <2>1. LetGo(o)
      <3>1. \A p : Referenced(p) => Kept(p)
        BY <1>3, <1>14 DEF Referenced, Kept
      <3>2. QED
        BY <1>1, <1>3, <1>14, <3>1 DEF LetGo, HoldersFit
    <2>2. Kept(o)
      BY <1>2, <1>14 DEF Kept
    <2>3. QED
      BY <1>3, <1>9, <1>14, <2>1, <2>2, HeldKeeps
  <1>15. CASE /\ end.result = "failed"
              /\ host' = [host EXCEPT ![c] = end.host]
              /\ object' = HungUp(c)
              /\ UNCHANGED <<containers, late>>
    BY <1>10, <1>14, <1>15
  <1>16. CASE /\ end.result = "started"
              /\ host' = [host EXCEPT ![c] = end.host]
              /\ object' \in {[HungUp(c) EXCEPT ![o] = r] : r \in Renewed("posted", object[o].waits + 1)}
              /\ UNCHANGED <<containers, late>>
    <2>1. PICK r \in Renewed("posted", object[o].waits + 1) : object' = [HungUp(c) EXCEPT ![o] = r]
      BY <1>16
    <2>2. r \in ObjectTypes /\ r.of = c
      BY <1>11, <1>13
    <2>3. QED
      BY <1>12, <1>14, <1>16, <2>1, <2>2
  <1>17. CASE /\ end.result = "refused"
              /\ containers' = [containers EXCEPT ![c] = None]
              /\ IF Kept(o)
                 THEN /\ host' = [host EXCEPT ![c] = end.host]
                      /\ object' \in {[HungUp(c) EXCEPT ![o] = r] : r \in Renewed("idle", object[o].waits)}
                      /\ UNCHANGED late
                 ELSE Destroy(o, c, end.host)
    <2>1. LetGo(o)
      BY <1>2, <1>3, <1>17, ErasingLetsGo, NoneAssumption
    <2>2. CASE Kept(o)
      <3>1. PICK r \in Renewed("idle", object[o].waits) : object' = [HungUp(c) EXCEPT ![o] = r]
        BY <1>17, <2>2
      <3>2. r \in ObjectTypes /\ r.of = c
        BY <1>11, <1>13
      <3>3. host' = [host EXCEPT ![c] = end.host] /\ UNCHANGED late
        BY <1>17, <2>2
      <3>4. QED
        BY <1>3, <1>9, <1>12, <2>1, <2>2, <3>1, <3>2, <3>3, HeldKeeps
    <2>3. CASE ~Kept(o)
      <3>1. Forget(o, c) /\ host' \in {[host EXCEPT ![c] = v] : v \in Destructed(end.host)}
        BY <1>17, <2>3 DEF Destroy
      <3>2. PICK v \in Destructed(end.host) : host' = [host EXCEPT ![c] = v]
        BY <3>1
      <3>3. /\ v \in HostTypes /\ v.jail = None
            /\ ~v.stuck => ~end.host.stuck
                           /\ Own(v) = IF Own(end.host) = 0 THEN 0 ELSE Own(end.host) - 1
        BY <1>7, DestructedGives
      <3>4. ~v.stuck => ~host[c].stuck /\ (Own(v) <= Own(host[c]) - 1 \/ Own(v) = 0)
        BY <1>5, <1>6, <1>7, <1>8, <3>3
      <3>5. QED
        BY <1>3, <2>1, <2>3, <3>1, <3>2, <3>3, <3>4, GoneKeeps DEF LetGo
    <2>4. QED
      BY <2>2, <2>3
  <1>18. QED
    BY <1>4, <1>15, <1>16, <1>17

(* An entry of the map goes, with its object unless a session has it.       *)
LEMMA DiscardKeeps ==
  ASSUME RuntimeInv, NEW c \in Containers, Stop(c)
  PROVE  RuntimeInv' \/ UNCHANGED vars
  <1>1. UNCHANGED <<sessions, crashes>> /\ Discard(c)
    BY DEF Stop
  <1>2. CASE containers[c] = None
    BY <1>1, <1>2 DEF Discard, vars
  <1>3. CASE containers[c] # None
    <2>1. PICK o : o = containers[c]
      OBVIOUS
    <2>2. o \in Objects /\ object[o].of = c
      BY <1>3, <2>1 DEF RuntimeInv, TypeOK, HoldersFit
    <2>3. containers' = [containers EXCEPT ![c] = None] /\ Release(o, c)
      BY <1>1, <1>3, <2>1 DEF Discard
    <2>4. LetGo(o)
      BY <1>1, <1>3, <2>1, <2>3, ErasingLetsGo
    <2>5. QED
      BY <1>1, <2>2, <2>3, <2>4, ReleaseKeeps
  <1>4. QED
    BY <1>2, <1>3

(* Removing folders leaves jails and mounts as they are (fs::remove_all).   *)
LEMMA FolderRemovedGives ==
  ASSUME NEW w \in HostTypes, NEW v \in FolderRemoved(w)
  PROVE  /\ v \in HostTypes /\ v.jail = w.jail /\ v.layers = w.layers /\ v.stuck = w.stuck
         /\ v.inherited = w.inherited /\ Own(v) = Own(w)
         /\ w.volume /\ ~v.volume => w.layers > 0
  <1>1. PICK f \in {w.folder, FALSE} :
          v = [w EXCEPT !.folder = f, !.volume = @ /\ ~(w.inside /\ w.layers > 0)]
    BY DEF FolderRemoved
  <1>2. PICK b \in BOOLEAN : b = (w.volume /\ ~(w.inside /\ w.layers > 0))
    OBVIOUS
  <1>3. f \in BOOLEAN
    <2>1. w.folder \in BOOLEAN /\ FALSE \in BOOLEAN
      BY DEF HostTypes, HostRecords
    <2>2. QED
      BY <1>1, <2>1
  <1>4. v = [w EXCEPT !.folder = f, !.volume = b]
    BY <1>1, <1>2
  <1>5. v \in HostTypes /\ v.jail = w.jail /\ v.layers = w.layers /\ v.stuck = w.stuck
        /\ v.volume = b /\ v.inherited = w.inherited
    BY <1>3, <1>4 DEF HostTypes, HostRecords
  <1>6. QED
    BY <1>2, <1>5 DEF Own

(* A removal that is forced.                                                *)
LEMMA RemoveKeeps ==
  ASSUME RuntimeInv, NEW c \in Containers, Remove(c)
  PROVE  RuntimeInv'
  <1>1. host \in [Containers -> HostTypes] /\ object \in [Objects -> ObjectTypes] /\ TypeOK
        /\ host[c] \in HostTypes /\ HoldersFit
        /\ containers \in [Containers -> Objects \cup {None}]
    BY DEF RuntimeInv, TypeOK, HostFits, ObjectTypes
  <1>2. PICK o : o = containers[c]
    OBVIOUS
  <1> DEFINE gone == o # None /\ ~Kept(o)
             ends == UNION {FolderRemoved(w) : w \in Destructed(host[c])}
  <1>3. /\ UNCHANGED <<sessions, crashes>> /\ containers' = [containers EXCEPT ![c] = None]
        /\ gone => Forget(o, c) /\ host' \in {[host EXCEPT ![c] = v] : v \in ends}
        /\ ~gone => /\ UNCHANGED <<object, late>>
                    /\ host' \in {[host EXCEPT ![c] = v] : v \in FolderRemoved(host[c])}
    BY <1>2 DEF Remove, Emptied
  <1>6. Own(host[c]) \in Nat
    BY <1>1, OwnCounts
  <1>7. o # None => o \in Objects /\ object[o].of = c /\ LetGo(o)
    BY <1>1, <1>2, <1>3, ErasingLetsGo DEF HoldersFit
  <1>8. CASE gone
    <2>0. PICK v \in ends : host' = [host EXCEPT ![c] = v]
      BY <1>3, <1>8
    <2>1. PICK w \in Destructed(host[c]) : v \in FolderRemoved(w)
      OBVIOUS
    <2>2. /\ w \in HostTypes /\ w.jail = None
          /\ ~w.stuck => ~host[c].stuck
                         /\ Own(w) = IF Own(host[c]) = 0 THEN 0 ELSE Own(host[c]) - 1
      BY <1>1, DestructedGives
    <2>3. v \in HostTypes /\ v.jail = None /\ Own(v) = Own(w) /\ v.stuck = w.stuck
      BY <2>1, <2>2, FolderRemovedGives
    <2>4. ~v.stuck => ~host[c].stuck /\ (Own(v) <= Own(host[c]) - 1 \/ Own(v) = 0)
      BY <1>6, <2>2, <2>3
    <2>5. o # None /\ ~Kept(o) /\ Forget(o, c)
      BY <1>3, <1>8
    <2>6. QED
      BY <1>3, <1>7, <2>0, <2>3, <2>4, <2>5, GoneKeeps DEF LetGo
  <1>9. CASE ~gone
    <2>1. PICK v \in FolderRemoved(host[c]) : host' = [host EXCEPT ![c] = v]
      BY <1>3, <1>9
    <2>2. v \in HostTypes /\ v.jail = host[c].jail /\ Own(v) = Own(host[c])
          /\ v.stuck = host[c].stuck
      BY <1>1, <2>1, FolderRemovedGives
    <2>3. Milder(v, host[c], c)
      BY <1>6, <2>2 DEF Milder
    <2>4. UNCHANGED <<object, late>>
      BY <1>3, <1>9
    <2>5. CASE o # None
      BY <1>1, <1>3, <1>7, <1>9, <2>1, <2>3, <2>4, <2>5, HeldKeeps
    <2>6. CASE o = None
      <3>1. containers' = containers
        BY <1>1, <1>2, <1>3, <2>6
      <3>2. HoldersFit'
        BY <1>1, <1>3, <2>4, <3>1 DEF HoldersFit, Live, Referenced
      <3>3. \A d \in Containers \ {c} : Milder(host[d], host[d], d)
        <4>1. \A d \in Containers : Own(host[d]) \in Nat
          BY <1>1, OwnCounts
        <4>2. QED
          BY <1>1, <4>1 DEF Milder
      <3>4. /\ host' \in [Containers -> HostTypes]
            /\ \A d \in Containers : Milder(host'[d], host[d], d)
        BY <1>1, <2>1, <2>2, <2>3, <3>3
      <3>5. QED
        BY <1>1, <1>3, <2>4, <3>1, <3>2, <3>4, SameOwnersKeep DEF TypeOK
    <2>7. QED
      BY <2>5, <2>6
  <1>10. QED
    BY <1>8, <1>9

(* A logging session holds on to the object it has found, and lets go of it *)
(* when its connection closes.                                              *)
LEMMA SessionsKeep ==
  ASSUME RuntimeInv, NEW s \in Sessions,
         CloseSession(s) \/ \E c \in Containers : Log(s, c)
  PROVE  RuntimeInv'
  <1>1. TypeOK /\ HoldersFit /\ host \in [Containers -> HostTypes]
        /\ sessions \in [Sessions -> Objects \cup {None}]
        /\ containers \in [Containers -> Objects \cup {None}]
        /\ object \in [Objects -> ObjectTypes]
    BY DEF RuntimeInv, TypeOK, HostFits, ObjectTypes
  <1>2. CASE CloseSession(s)
    <2>1. PICK o, c : o = sessions[s] /\ c = object[o].of
      OBVIOUS
    <2>2. o \in Objects /\ c \in Containers /\ sessions[s] # None
      BY <1>1, <1>2, <2>1 DEF CloseSession, HoldersFit, ObjectTypes
    <2>3. /\ sessions' = [sessions EXCEPT ![s] = None] /\ UNCHANGED <<containers, crashes>>
          /\ Release(o, c)
      BY <1>2, <2>1 DEF CloseSession
    <2>4. LetGo(o)
      BY <2>1, <2>2, <2>3, ClosingLetsGo
    <2>5. QED
      BY <2>1, <2>2, <2>3, <2>4, ReleaseKeeps
  <1>3. ASSUME NEW c \in Containers, Log(s, c)
        PROVE  RuntimeInv'
    <2>1. /\ sessions[s] = None /\ containers[c] # None
          /\ sessions' = [sessions EXCEPT ![s] = containers[c]]
          /\ UNCHANGED <<containers, object, host, late, crashes>>
      BY <1>3 DEF Log
    <2>2. containers[c] \in Objects /\ object[containers[c]].of = c /\ c # None
      BY <1>1, <2>1, NoneAssumption DEF HoldersFit
    <2>3. sessions' \in [Sessions -> Objects \cup {None}]
      BY <1>1, <2>1, <2>2
    <2>4. HoldersFit'
      <3>1. ASSUME NEW t \in Sessions, sessions'[t] # None
            PROVE  object[sessions'[t]].of # None
        BY <1>1, <2>1, <2>2, <3>1 DEF HoldersFit
      <3>2. ASSUME NEW p \in Live
            PROVE  Referenced(p)'
        <4>1. Referenced(p) /\ p # None
          BY <1>1, NoneAssumption DEF HoldersFit, Live
        <4>2. QED
          BY <1>1, <2>1, <4>1 DEF Referenced
      <3>3. Live' = Live
        BY <2>1 DEF Live
      <3>4. QED
        BY <1>1, <2>1, <3>1, <3>2, <3>3 DEF HoldersFit
    <2>5. \A d \in Containers : Milder(host'[d], host[d], d)
      <3>1. \A d \in Containers : Own(host[d]) \in Nat
        BY <1>1, OwnCounts
      <3>2. QED
        BY <1>1, <2>1, <3>1 DEF Milder
    <2>6. QED
      BY <1>1, <2>1, <2>3, <2>4, <2>5, SameOwnersKeep DEF TypeOK
  <1>4. QED
    BY <1>2, <1>3

(* Steps that leave the map, the sessions and whom objects belong to alone: *)
(* mounts and jails are as they were, rows and streams may not be.          *)
LEMMA QuietKeeps ==
  ASSUME RuntimeInv, UNCHANGED <<containers, sessions, crashes>>, late' \subseteq Containers,
         object' \in [Objects -> ObjectTypes],
         \A o \in Objects : object'[o].of = object[o].of,
         \/ host' = host \/ \E c \in Containers : Started(c)
         \/ \E c \in Containers, n \in Nat : host' = [host EXCEPT ![c].held = n]
  PROVE  RuntimeInv'
  <1>1. TypeOK /\ HoldersFit /\ host \in [Containers -> HostTypes]
    BY DEF RuntimeInv, TypeOK, HostFits
  <1>2. HoldersFit'
    BY <1>1 DEF TypeOK, HoldersFit, Live, Referenced
  <1>3. ASSUME NEW w \in HostTypes, NEW v \in Stored(w, "active")
        PROVE  v \in HostTypes /\ v.jail = w.jail /\ Own(v) = Own(w) /\ v.stuck = w.stuck
    <2>1. TRUE \in BOOLEAN
      OBVIOUS
    <2>2. QED
      BY <1>3, <2>1 DEF Stored, HostTypes, HostRecords, Own
  <1>4. /\ host' \in [Containers -> HostTypes]
        /\ \A d \in Containers : /\ host'[d].jail = host[d].jail
                                 /\ Own(host'[d]) = Own(host[d])
                                 /\ host'[d].stuck = host[d].stuck
    <2>1. CASE host' = host
      BY <1>1, <2>1
    <2>2. ASSUME NEW c \in Containers, Started(c)
          PROVE  <1>4!:
      <3>1. PICK v \in Stored(host[c], "active") : host' = [host EXCEPT ![c] = v]
        BY <2>2 DEF Started
      <3>2. QED
        BY <1>1, <1>3, <3>1
    <2>4. ASSUME NEW c \in Containers, NEW n \in Nat, host' = [host EXCEPT ![c].held = n]
          PROVE  <1>4!:
      <3>1. ASSUME NEW w \in HostTypes
            PROVE  LET v == [w EXCEPT !.held = n] IN
                   v \in HostTypes /\ v.jail = w.jail /\ Own(v) = Own(w) /\ v.stuck = w.stuck
        BY <3>1 DEF HostTypes, HostRecords, Own
      <3>2. QED
        BY <1>1, <2>4, <3>1
    <2>3. QED
      BY <2>1, <2>2, <2>4
  <1>5. \A d \in Containers : Milder(host'[d], host[d], d)
    <2>1. \A d \in Containers : Own(host[d]) \in Nat
      BY <1>1, OwnCounts
    <2>2. QED
      BY <1>4, <2>1 DEF Milder
  <1>6. QED
    BY <1>1, <1>2, <1>4, <1>5, SameOwnersKeep DEF TypeOK

(* One thread more waits for a process: its container's, if it has one.     *)
LEMMA HeldChanges ==
  ASSUME RuntimeInv, NEW c \in Containers \cup {None},
         host' = [host EXCEPT ![c].held = @ + 1]
  PROVE  \/ host' = host
         \/ \E d \in Containers, n \in Nat : host' = [host EXCEPT ![d].held = n]
<1>1. host \in [Containers -> HostTypes]
  BY DEF RuntimeInv, HostFits
<1>2. CASE c \in Containers
  <2>1. host[c].held \in Nat
    BY <1>1, <1>2 DEF HostTypes, HostRecords
  <2>2. PICK n \in Nat : n = host[c].held + 1
    BY <2>1
  <2>3. host' = [host EXCEPT ![c].held = n]
    BY <1>1, <2>2
  <2>4. QED
    BY <1>2, <2>3
<1>3. CASE c = None
  <2>1. \A v : [host EXCEPT ![None] = v] = host
    BY <1>1, NoneAssumption
  <2>2. QED
    BY <1>3, <2>1
<1>4. QED
  BY <1>2, <1>3

(* What the pool's threads and streams do, and the events they queue.       *)
LEMMA EventsKeep ==
  ASSUME RuntimeInv, NEW o \in Objects,
         ProcessWait(o) \/ Post(o) \/ Output(o) \/ FirstEvent(o) \/ Echo(o)
  PROVE  RuntimeInv'
  <1>1. object \in [Objects -> ObjectTypes] /\ TypeOK
    BY DEF RuntimeInv, TypeOK, ObjectTypes
  <1>2. UNCHANGED <<containers, sessions, late, crashes>>
    BY DEF ProcessWait, Post, Output, FirstEvent, Echo
  <1>3. /\ object' \in [Objects -> ObjectTypes]
        /\ \A p \in Objects : object'[p].of = object[p].of
    <2>1. \/ object' = [object EXCEPT ![o].stream = "armed"]
          \/ object' = [object EXCEPT ![o].ready = TRUE]
          \/ object' = [object EXCEPT ![o].stream = "reading", ![o].ready = FALSE]
          \/ object' = [object EXCEPT ![o].echo = FALSE]
          \/ object' = [object EXCEPT ![o].waits = @ - 1] /\ object[o].waits > 0
      BY DEF ProcessWait, Post, Output, FirstEvent, Echo
    <2>2. TRUE \in BOOLEAN /\ FALSE \in BOOLEAN /\ "armed" \in Streams /\ "reading" \in Streams
      BY DEF Streams
    <2>3. PICK r \in ObjectTypes : r.of = object[o].of /\ object' = [object EXCEPT ![o] = r]
      <3>1. /\ [object[o] EXCEPT !.stream = "armed"] \in ObjectTypes
            /\ [object[o] EXCEPT !.ready = TRUE] \in ObjectTypes
            /\ [object[o] EXCEPT !.stream = "reading", !.ready = FALSE] \in ObjectTypes
            /\ [object[o] EXCEPT !.echo = FALSE] \in ObjectTypes
        BY <1>1, <2>2 DEF ObjectTypes
      <3>4. ASSUME object[o].waits > 0
            PROVE  [object[o] EXCEPT !.waits = @ - 1] \in ObjectTypes
        <4>1. object[o].waits \in Nat /\ object[o] \in ObjectTypes
          BY <1>1 DEF ObjectTypes
        <4>2. PICK n \in Nat : n = object[o].waits - 1
          BY <3>4, <4>1
        <4>3. [object[o] EXCEPT !.waits = n] \in ObjectTypes
          BY <4>1 DEF ObjectTypes
        <4>4. QED
          BY <4>2, <4>3
      <3>2. /\ [object[o] EXCEPT !.stream = "armed"].of = object[o].of
            /\ [object[o] EXCEPT !.ready = TRUE].of = object[o].of
            /\ [object[o] EXCEPT !.stream = "reading", !.ready = FALSE].of = object[o].of
            /\ [object[o] EXCEPT !.echo = FALSE].of = object[o].of
            /\ [object[o] EXCEPT !.waits = @ - 1].of = object[o].of
        BY <1>1 DEF ObjectTypes
      <3>3. QED
        BY <2>1, <3>1, <3>2, <3>4
    <2>4. QED
      BY <1>1, <2>3
  <1>4. \/ host' = host \/ \E c \in Containers : Started(c)
        \/ \E c \in Containers, n \in Nat : host' = [host EXCEPT ![c].held = n]
    <2>3. CASE ProcessWait(o)
      <3>1. host' = host \/ host' = [host EXCEPT ![object[o].of].held = @ + 1]
        BY <2>3 DEF ProcessWait
      <3>2. QED
        BY <1>1, <3>1, HeldChanges DEF ObjectTypes
    <2>1. CASE FirstEvent(o) \/ Echo(o)
      <3>1. Started(object[o].of)
        BY <2>1 DEF FirstEvent, Echo
      <3>2. CASE object[o].of = None
        <4>1. \A v : [host EXCEPT ![None] = v] = host
          BY <1>1, NoneAssumption DEF TypeOK
        <4>2. QED
          BY <3>1, <3>2, <4>1 DEF Started
      <3>3. QED
        BY <1>1, <3>1, <3>2 DEF ObjectTypes
    <2>2. QED
      BY <2>1, <2>3 DEF Post, Output
  <1>5. QED
    BY <1>1, <1>2, <1>3, <1>4, QuietKeeps DEF TypeOK

(* The daemon dies: what it made is nobody's any more.                      *)
LEMMA CrashKeeps ==
  ASSUME RuntimeInv, Crash
  PROVE  RuntimeInv'
  <1>1. TypeOK /\ host \in [Containers -> HostTypes] /\ crashes \in 0 .. MaxCrashes
        /\ MaxCrashes \in Nat
    BY BoundsAssumption DEF RuntimeInv, TypeOK, HostFits
  <1>2. /\ crashes' = crashes + 1 /\ crashes < MaxCrashes
        /\ containers' = [c \in Containers |-> None]
        /\ object' = [o \in Objects |-> Unused]
        /\ sessions' = [s \in Sessions |-> None]
        /\ late' = {}
    BY DEF Crash
  <1>3. crashes' \in 0 .. MaxCrashes /\ crashes' # 0
    BY <1>1, <1>2
  <1>4. /\ host' \in [Containers -> HostTypes]
        /\ \A c \in Containers : host'[c].jail \in {None, Foreign} /\ Own(host'[c]) = 0
    <2>1. \A c \in Containers :
            LET v == [host[c] EXCEPT !.jail = IF @ = None THEN None ELSE Foreign,
                                     !.held = 0, !.inherited = host[c].layers,
                                     !.stuck = FALSE] IN
            v \in HostTypes /\ v.jail \in {None, Foreign} /\ Own(v) = 0
      <3>1. ASSUME NEW w \in HostTypes, NEW j \in {None, Foreign}
            PROVE  LET v == [w EXCEPT !.jail = j, !.held = 0, !.inherited = w.layers,
                                      !.stuck = FALSE] IN
                   v \in HostTypes /\ v.jail \in {None, Foreign} /\ Own(v) = 0
        <4>1. w.layers \in 0 .. MaxLayers /\ w.layers \in Nat /\ FALSE \in BOOLEAN
          BY OwnCounts
        <4>2. w \in HostRecords
          BY DEF HostTypes
        <4>. DEFINE v == [w EXCEPT !.jail = j, !.held = 0, !.inherited = w.layers,
                                   !.stuck = FALSE]
        <4>3. v \in HostRecords /\ v.inherited = w.layers /\ v.layers = w.layers /\ v.jail = j
          BY <4>1, <4>2 DEF HostRecords
        <4>. HIDE DEF v
        <4>4. v \in HostTypes /\ v.jail \in {None, Foreign} /\ Own(v) = 0
          BY <4>1, <4>3 DEF HostTypes, Own
        <4>5. QED
          BY <4>4 DEF v
      <3>2. QED
        BY <1>1, <3>1
    <2>2. host' = [c \in Containers |->
                     [host[c] EXCEPT !.jail = IF @ = None THEN None ELSE Foreign,
                                     !.held = 0, !.inherited = host[c].layers,
                                     !.stuck = FALSE]]
      BY DEF Crash
    <2>3. QED
      BY <2>1, <2>2
  <1>5. Unused \in ObjectTypes /\ Unused.of = None
    <2>1. FALSE \in BOOLEAN
      OBVIOUS
    <2>2. QED
      BY <2>1 DEF Unused, ObjectTypes, Streams
  <1> HIDE DEF Unused
  <1>6. object' \in [Objects -> ObjectTypes] /\ \A o \in Objects : object'[o].of = None
    BY <1>2, <1>5
  <1>7. TypeOK'
    BY <1>1, <1>2, <1>3, <1>4, <1>6 DEF TypeOK, ObjectTypes, HostTypes, HostRecords
  <1>8. JailHasKeeper'
    BY <1>4, NoneAssumption DEF JailHasKeeper
  <1>10. HoldersFit'
    BY <1>2, <1>6 DEF HoldersFit, Live
  <1>11. LiveFits'
    <2>1. \A c \in Containers : Of(c)' = {}
      BY <1>6, NoneAssumption DEF Of
    <2>2. QED
      BY <2>1, FS_EmptySet DEF LiveFits
  <1>9. NoMountLeftBehind' /\ HostFits'
    <2>1. \A c \in Containers : IsFiniteSet(Of(c)')
      BY <1>11 DEF LiveFits
    <2>2. \A c \in Containers : Own(host'[c]) <= Cardinality(Of(c)')
      BY <1>4, <2>1, FS_CardinalityType
    <2>3. QED
      BY <1>4, <2>1, <2>2, MountsAgain DEF HostFits
  <1>12. QED
    BY <1>7, <1>8, <1>9, <1>10, <1>11 DEF RuntimeInv

(* RuntimeInv holds at first and is kept by every step.                     *)
THEOREM RuntimeCorrect == Spec => []RuntimeInv
  <1>1. ASSUME Init
        PROVE  RuntimeInv
    <2>1. /\ containers = [c \in Containers |-> None]
          /\ object = [o \in Objects |-> Unused]
          /\ sessions = [s \in Sessions |-> None]
          /\ late = {} /\ crashes = 0
      BY <1>1 DEF Init
    <2>2. Unused \in ObjectTypes /\ Unused.of = None
      <3>1. FALSE \in BOOLEAN
        OBVIOUS
      <3>2. QED
        BY <3>1 DEF Unused, ObjectTypes, Streams
    <2>3. /\ host \in [Containers -> HostTypes]
          /\ \A c \in Containers : host[c].jail = None /\ host[c].layers = 0
                                   /\ host[c].inherited = 0
      <3>1. TRUE \in BOOLEAN /\ FALSE \in BOOLEAN /\ 0 \in 0 .. MaxLayers
        BY BoundsAssumption
      <3>2. \A i \in BOOLEAN :
              LET w == [jail |-> None, layers |-> 0, held |-> 0, inside |-> i,
                        folder |-> TRUE, volume |-> TRUE, status |-> "shutdown",
                        inherited |-> 0, stuck |-> FALSE, unwritten |-> FALSE] IN
              w \in HostTypes /\ w.jail = None /\ w.layers = 0 /\ w.inherited = 0
        BY <3>1 DEF HostTypes, HostRecords
      <3>3. QED
        BY <1>1, <3>2 DEF Init
    <2> HIDE DEF Unused
    <2>4. TypeOK
      BY <2>1, <2>2, <2>3, BoundsAssumption DEF TypeOK, ObjectTypes, HostTypes, HostRecords
    <2>5. \A c \in Containers : Of(c) = {}
      BY <2>1, <2>2, NoneAssumption DEF Of
    <2>6. LiveFits /\ HoldersFit
      BY <2>1, <2>2, <2>5, FS_EmptySet DEF LiveFits, HoldersFit, Live
    <2>7. JailHasKeeper /\ HostFits
      BY <2>3, NoneAssumption DEF JailHasKeeper, HostFits
    <2>8. NoMountLeftBehind
      <3>1. ASSUME NEW c \in Containers
            PROVE  host[c].layers <= host[c].inherited + Cardinality(Of(c))
        <4>1. Cardinality(Of(c)) = 0
          BY <2>5, FS_EmptySet
        <4>2. QED
          BY <2>3, <4>1
      <3>2. QED
        BY <3>1 DEF NoMountLeftBehind, Of
    <2>9. QED
      BY <2>4, <2>6, <2>7, <2>8 DEF RuntimeInv
  <1>2. ASSUME RuntimeInv, [Next]_vars
        PROVE  RuntimeInv'
    <2>1. ASSUME UNCHANGED vars
          PROVE  RuntimeInv'
      <3>1. /\ UNCHANGED <<containers, object, sessions, host, late, crashes>>
            /\ late \subseteq Containers /\ object \in [Objects -> ObjectTypes]
        BY <1>2, <2>1 DEF vars, RuntimeInv, TypeOK, ObjectTypes
      <3>2. QED
        BY <1>2, <3>1, QuietKeeps
    <2>2. ASSUME NEW c \in Containers, LateEvent(c)
          PROVE  RuntimeInv'
      <3>1. /\ UNCHANGED <<containers, object, sessions, crashes>>
            /\ late' \subseteq Containers /\ object \in [Objects -> ObjectTypes]
            /\ \/ host' = host \/ Started(c)
               \/ \E d \in Containers : host' = [host EXCEPT ![d].held = @ + 1]
        BY <1>2, <2>2 DEF LateEvent, RuntimeInv, TypeOK, ObjectTypes
      <3>2. \/ host' = host \/ Started(c)
            \/ \E d \in Containers, n \in Nat : host' = [host EXCEPT ![d].held = n]
        BY <1>2, <3>1, HeldChanges
      <3>3. QED
        BY <1>2, <3>1, <3>2, QuietKeeps
    <2>3. ASSUME NEW c \in Containers, Stop(c) \/ Refuse(c)
          PROVE  RuntimeInv'
      BY <1>2, <2>1, <2>3, DiscardKeeps DEF Refuse
    <2>5. ASSUME NEW c \in Containers, Ends(c)
          PROVE  RuntimeInv'
      <3>1. /\ UNCHANGED <<containers, sessions, late, crashes>> /\ late \subseteq Containers
            /\ object' = HungUp(c) /\ host' = [host EXCEPT ![c].held = 0]
        BY <1>2, <2>5 DEF Ends, RuntimeInv, TypeOK
      <3>2. /\ object' \in [Objects -> ObjectTypes]
            /\ \A o \in Objects : object'[o].of = object[o].of
        BY <1>2, <3>1, HungUpGives DEF RuntimeInv
      <3>3. QED
        BY <1>2, <3>1, <3>2, QuietKeeps
    <2>4. QED
      BY <1>2, <2>1, <2>2, <2>3, <2>5, StartKeeps, StartAgainKeeps, RemoveKeeps, SessionsKeep,
         EventsKeep, CrashKeeps DEF Next
  <1>3. QED
    BY <1>1, <1>2, PTL DEF Spec

(* Objects, jails and mounts refer to each other within their types.        *)
THEOREM TypeCorrect == Spec => []TypeOK
  <1>1. RuntimeInv => TypeOK
    BY DEF RuntimeInv
  <1>2. QED
    BY <1>1, RuntimeCorrect, PTL

(* Every jail made since the daemon started has an object that is alive and *)
(* held, whatever starts, stops and sessions came in between.               *)
THEOREM JailsHaveKeepers == Spec => []JailHasKeeper
  <1>1. RuntimeInv => JailHasKeeper
    BY DEF RuntimeInv
  <1>2. QED
    BY <1>1, RuntimeCorrect, PTL

(* Mounts are no more than objects: repeated initializations and the        *)
(* destructors of objects that were never initialized add up, for any       *)
(* number of objects of a container.                                        *)
THEOREM MountsAreTakenAway == Spec => []NoMountLeftBehind
  <1>1. RuntimeInv => NoMountLeftBehind
    BY DEF RuntimeInv
  <1>2. QED
    BY <1>1, RuntimeCorrect, PTL

(* Of a container's objects, nobody but the map holds one if no session     *)
(* does.                                                                    *)
LEMMA UnwatchedIsOfMap ==
  ASSUME RuntimeInv, NEW c \in Containers,
         \A s \in Sessions : sessions[s] # None => object[sessions[s]].of # c
  PROVE  \A o \in Of(c) : o = containers[c]
  <1> SUFFICES ASSUME NEW o \in Of(c)
               PROVE  o = containers[c]
    OBVIOUS
  <1>1. o \in Live /\ object[o].of = c /\ o # None
    BY NoneAssumption DEF Of, Live
  <1>2. Referenced(o)
    BY <1>1 DEF RuntimeInv, HoldersFit
  <1>3. ~ \E s \in Sessions : sessions[s] = o
    BY <1>1
  <1>4. QED
    BY <1>1, <1>2, <1>3 DEF Referenced, RuntimeInv, HoldersFit

(* An object that is in the map but in no session is destroyed when its     *)
(* entry is erased.                                                         *)
LEMMA UnwatchedGoes ==
  ASSUME RuntimeInv, NEW c \in Containers, containers[c] # None,
         \A s \in Sessions : sessions[s] # None => object[sessions[s]].of # c,
         containers' = [containers EXCEPT ![c] = None], UNCHANGED sessions
  PROVE  ~Kept(containers[c])
  <1>1. /\ containers \in [Containers -> Objects \cup {None}]
        /\ object[containers[c]].of = c
    BY DEF RuntimeInv, TypeOK, HoldersFit
  <1>2. ASSUME NEW d \in Containers, containers'[d] = containers[c]
        PROVE  FALSE
    <2>1. d # c /\ containers[d] = containers[c]
      BY <1>1, <1>2
    <2>2. QED
      BY <1>1, <2>1 DEF RuntimeInv, HoldersFit
  <1>3. ASSUME NEW s \in Sessions, sessions'[s] = containers[c]
        PROVE  FALSE
    BY <1>1, <1>3
  <1>4. QED
    BY <1>2, <1>3 DEF Kept

(* A stop that leaves a jail leaves it to a session, or the jail is from    *)
(* before a crash (stop_handler, remove_container).                         *)
THEOREM StopsLeaveWhatIsWatched == Spec => StopLeavesOnlyWatched
  <1> DEFINE Leaves == \A c \in Containers :
                         Stop(c) /\ host[c].jail' # None =>
                           \/ host[c].jail' = Foreign
                           \/ \E s \in Sessions : sessions[s] # None /\ object[sessions[s]].of = c
  <1>1. ASSUME RuntimeInv
        PROVE  Leaves
    <2> SUFFICES ASSUME NEW c \in Containers, Stop(c), host'[c].jail # None,
                        host'[c].jail # Foreign,
                        \A s \in Sessions : sessions[s] # None => object[sessions[s]].of # c
                 PROVE  FALSE
      OBVIOUS
    <2>1. host \in [Containers -> HostTypes]
      BY <1>1 DEF RuntimeInv, HostFits
    <2>2. CASE containers[c] = None
      <3>1. host' = host
        BY <2>2 DEF Stop, Discard
      <3>2. host[c].jail \in Objects
        BY <2>1, <3>1 DEF HostTypes, HostRecords
      <3>3. host[c].jail \in Of(c) /\ host[c].jail # None
        BY <1>1, <3>2, NoneAssumption DEF RuntimeInv, JailHasKeeper, Of
      <3>4. QED
        BY <1>1, <2>2, <3>3, UnwatchedIsOfMap
    <2>3. CASE containers[c] # None
      <3>1. /\ containers' = [containers EXCEPT ![c] = None] /\ UNCHANGED sessions
            /\ Release(containers[c], c)
        BY <2>3 DEF Stop, Discard
      <3>2. ~Kept(containers[c])
        BY <1>1, <2>3, <3>1, UnwatchedGoes
      <3>3. PICK v \in Destructed(host[c]) : host' = [host EXCEPT ![c] = v]
        BY <3>1, <3>2 DEF Release, Destroy
      <3>4. v.jail = None
        BY <2>1, DestructedGives
      <3>5. QED
        BY <2>1, <3>3, <3>4
    <2>4. QED
      BY <2>2, <2>3
  <1>2. QED
    BY <1>1, RuntimeCorrect, PTL DEF StopLeavesOnlyWatched

(* Nothing but a removal of the container itself takes its volume.          *)
LEMMA OnlyRemovalsTakeVolumes ==
  ASSUME RuntimeInv, [Next]_vars, NEW c \in Containers, host[c].volume, ~host'[c].volume
  PROVE  Remove(c)
  <1>1. TypeOK /\ host \in [Containers -> HostTypes] /\ HoldersFit
    BY DEF RuntimeInv, HostFits
  <1>2. ASSUME NEW d \in Containers, NEW v, host' = [host EXCEPT ![d] = v],
               v.volume = host[d].volume
        PROVE  FALSE
    BY <1>1, <1>2
  <1>3. ASSUME NEW d \in Containers, NEW w \in HostTypes, w.volume = host[d].volume,
               host' \in {[host EXCEPT ![d] = v] : v \in Destructed(w)}
        PROVE  FALSE
    BY <1>2, <1>3, DestructedGives
  <1>4. ASSUME NEW d \in Containers, NEW o, Release(o, d)
        PROVE  FALSE
    <2>1. host' = host \/ Destroy(o, d, host[d])
      BY <1>4 DEF Release
    <2>2. QED
      BY <1>1, <1>3, <2>1 DEF Destroy
  <1>5. ASSUME NEW d \in Containers, NEW o \in Objects, NEW w \in HostTypes,
               w.volume = host[d].volume, w.layers < MaxLayers,
               NEW end \in Initialized(w, o)
        PROVE  end.host \in HostTypes /\ end.host.volume = host[d].volume
    BY <1>5, InitializedGives
  <1>6. ASSUME NEW d \in Containers, Start(d)
        PROVE  FALSE
    <2>1. PICK o \in Objects \ Live :
            \E end \in Initialized(host[d], o) :
              \/ host' \in {[host EXCEPT ![d] = v] : v \in Destructed(end.host)}
              \/ host' = [host EXCEPT ![d] = end.host]
      BY <1>6 DEF Start
    <2>2. PICK end \in Initialized(host[d], o) :
              \/ host' \in {[host EXCEPT ![d] = v] : v \in Destructed(end.host)}
              \/ host' = [host EXCEPT ![d] = end.host]
      BY <2>1
    <2>3. end.host \in HostTypes /\ end.host.volume = host[d].volume
      BY <1>1, <1>5, <1>6 DEF Start
    <2>4. QED
      BY <1>2, <1>3, <2>2, <2>3
  <1>7. ASSUME NEW d \in Containers, StartAgain(d)
        PROVE  FALSE
    <2>1. containers[d] \in Objects /\ host[d].layers < MaxLayers
      BY <1>1, <1>7 DEF StartAgain, TypeOK
    <2>2. PICK w \in Destructed(host[d]) :
            \E end \in Initialized(w, containers[d]) :
              \/ host' \in {[host EXCEPT ![d] = v] : v \in Destructed(end.host)}
              \/ host' = [host EXCEPT ![d] = end.host]
      BY <1>7 DEF StartAgain, Destroy
    <2>3. PICK end \in Initialized(w, containers[d]) :
              \/ host' \in {[host EXCEPT ![d] = v] : v \in Destructed(end.host)}
              \/ host' = [host EXCEPT ![d] = end.host]
      BY <2>2
    <2>4. w \in HostTypes /\ w.volume = host[d].volume /\ w.layers <= host[d].layers
      BY <1>1, DestructedGives
    <2>5. w.layers < MaxLayers
      <3>1. w.layers \in Nat /\ host[d].layers \in Nat /\ MaxLayers \in Nat
        BY <1>1, <2>4, OwnCounts
      <3>2. QED
        BY <2>1, <2>4, <3>1
    <2>6. end.host \in HostTypes /\ end.host.volume = host[d].volume
      BY <1>5, <2>1, <2>4, <2>5
    <2>7. QED
      BY <1>2, <1>3, <2>3, <2>6
  <1>8. ASSUME NEW d \in Containers, Started(d)
        PROVE  FALSE
    <2>1. PICK v \in Stored(host[d], "active") : host' = [host EXCEPT ![d] = v]
      BY <1>8 DEF Started
    <2>2. v.volume = host[d].volume
      BY <1>1 DEF Stored, HostTypes, HostRecords
    <2>3. QED
      BY <1>2, <2>1, <2>2
  <1>9. ASSUME NEW d \in Containers, Stop(d)
        PROVE  FALSE
    <2>1. host' = host \/ Release(containers[d], d)
      BY <1>9 DEF Stop, Discard
    <2>2. QED
      BY <1>4, <2>1
  <1>10. ASSUME NEW s \in Sessions, CloseSession(s)
         PROVE  FALSE
    <2>1. PICK d : d = object[sessions[s]].of
      OBVIOUS
    <2>2. sessions[s] # None /\ Release(sessions[s], d)
      BY <1>10, <2>1 DEF CloseSession
    <2>3. d \in Containers
      BY <1>1, <2>1, <2>2 DEF HoldersFit, TypeOK
    <2>4. QED
      BY <1>4, <2>2, <2>3
  <1>11. ASSUME NEW d \in Containers, d # c, Remove(d)
         PROVE  FALSE
    <2>1. \E v : host' = [host EXCEPT ![d] = v]
      BY <1>11 DEF Remove
    <2>2. QED
      BY <1>1, <1>11, <2>1
  <1>12. ASSUME Crash
         PROVE  FALSE
    <2>1. host'[c] = [host[c] EXCEPT !.jail = IF @ = None THEN None ELSE Foreign, !.held = 0,
                                     !.inherited = host[c].layers, !.stuck = FALSE]
      BY <1>12 DEF Crash
    <2>2. QED
      BY <1>1, <2>1 DEF HostTypes, HostRecords
  <1>13. host' # host
    OBVIOUS
  <1>18. ASSUME NEW d \in Containers \cup {None}, NEW n, host' = [host EXCEPT ![d].held = n]
         PROVE  FALSE
    <2>1. CASE d \in Containers
      <3>1. [host[d] EXCEPT !.held = n].volume = host[d].volume
        BY <1>1, <2>1 DEF HostTypes, HostRecords
      <3>2. QED
        BY <1>1, <1>18, <2>1, <3>1
    <2>2. CASE d = None
      <3>1. \A v : [host EXCEPT ![None] = v] = host
        BY <1>1, NoneAssumption
      <3>2. QED
        BY <1>13, <1>18, <2>2, <3>1
    <2>3. QED
      BY <2>1, <2>2
  <1>19. ASSUME NEW o \in Objects, ProcessWait(o)
         PROVE  FALSE
    <2>1. host' = [host EXCEPT ![object[o].of].held = @ + 1]
      BY <1>13, <1>19 DEF ProcessWait
    <2>2. object[o].of \in Containers \cup {None}
      BY <1>1 DEF TypeOK
    <2>3. QED
      BY <1>18, <2>1, <2>2
  <1>20. ASSUME NEW d \in Containers, Ends(d)
         PROVE  FALSE
    BY <1>18, <1>20 DEF Ends
  <1>14. ASSUME NEW o \in Objects, Post(o) \/ Output(o) \/ FirstEvent(o) \/ Echo(o)
         PROVE  FALSE
    <2>1. Started(object[o].of)
      BY <1>13, <1>14 DEF Post, Output, FirstEvent, Echo
    <2>2. object[o].of # None
      <3>1. \A v : [host EXCEPT ![None] = v] = host
        BY <1>1, NoneAssumption
      <3>2. QED
        BY <1>13, <2>1, <3>1 DEF Started
    <2>3. object[o].of \in Containers
      BY <1>1, <2>2 DEF TypeOK
    <2>4. QED
      BY <1>8, <2>1, <2>3
  <1>15. ASSUME NEW d \in Containers, LateEvent(d) \/ Refuse(d)
         PROVE  FALSE
    <2>1. \/ host' = host \/ Started(d)
          \/ \E e \in Containers : host' = [host EXCEPT ![e].held = @ + 1]
      BY <1>15 DEF LateEvent, Refuse, vars
    <2>2. QED
      BY <1>8, <1>13, <1>18, <2>1
  <1>16. ~(\E s \in Sessions, d \in Containers : Log(s, d)) /\ ~UNCHANGED vars
    BY <1>13 DEF Log, vars
  <1>17. QED
    BY <1>6, <1>7, <1>9, <1>10, <1>11, <1>12, <1>14, <1>15, <1>16, <1>19, <1>20 DEF Next

(* A removal without a session to keep an object finds, besides the mounts  *)
(* from before a crash, at most the one that its object's destructor takes  *)
(* away first, unless an unmount fails (removal_handler).                   *)
THEOREM VolumesAreKept == Spec => VolumesOutliveRemoval
  <1> DEFINE Outlives == \A c \in Containers :
                           host[c].volume /\ ~host[c].volume' =>
                             \/ host[c].stuck'
                             \/ host[c].inherited' > 0 /\ host[c].layers' = host[c].inherited'
                             \/ \E s \in Sessions : sessions[s] # None /\ object[sessions[s]].of = c
  <1>1. ASSUME RuntimeInv, [Next]_vars
        PROVE  [Outlives]_vars
    <2> SUFFICES ASSUME NEW c \in Containers, host[c].volume, ~host'[c].volume,
                        ~host'[c].stuck,
                        ~(host'[c].inherited > 0 /\ host'[c].layers = host'[c].inherited),
                        \A s \in Sessions : sessions[s] # None => object[sessions[s]].of # c
                 PROVE  FALSE
      OBVIOUS
    <2>1. host \in [Containers -> HostTypes] /\ host[c] \in HostTypes
      BY <1>1 DEF RuntimeInv, HostFits
    <2>4. ASSUME NEW v \in HostTypes, host'[c] = v, v.layers > 0
          PROVE  Own(v) > 0
      <3>1. v.layers = v.inherited + Own(v) /\ Own(v) \in Nat /\ v.inherited \in Nat
        BY OwnCounts
      <3>2. ~(v.inherited > 0 /\ v.layers = v.inherited)
        BY <2>4
      <3>3. QED
        BY <2>4, <3>1, <3>2
    <2>2. ASSUME Remove(c)
          PROVE  FALSE
      <3> DEFINE o == containers[c]
                 gone == o # None /\ ~Kept(o)
                 ends == UNION {FolderRemoved(w) : w \in Destructed(host[c])}
      <3>1. /\ UNCHANGED sessions /\ containers' = [containers EXCEPT ![c] = None]
            /\ gone => host' \in {[host EXCEPT ![c] = v] : v \in ends}
            /\ ~gone => host' \in {[host EXCEPT ![c] = v] : v \in FolderRemoved(host[c])}
        BY <2>2 DEF Remove, Emptied
      <3>2. o # None => ~Kept(o)
        BY <1>1, <3>1, UnwatchedGoes
      <3>3. IsFiniteSet(Of(c)) /\ Of(c) \subseteq {o}
        BY <1>1, UnwatchedIsOfMap DEF RuntimeInv, LiveFits
      <3>4. ~host[c].stuck => Own(host[c]) <= Cardinality(Of(c))
        BY <1>1, MountsOfObjects
      <3>5. Own(host[c]) \in Nat /\ Cardinality(Of(c)) \in Nat
        BY <2>1, <3>3, FS_CardinalityType, OwnCounts
      <3>6. CASE o = None
        <4>1. PICK v \in FolderRemoved(host[c]) : host' = [host EXCEPT ![c] = v]
          BY <3>1, <3>6
        <4>2. /\ v \in HostTypes /\ v.layers = host[c].layers /\ v.stuck = host[c].stuck
              /\ Own(v) = Own(host[c])
              /\ host[c].volume /\ ~v.volume => host[c].layers > 0
          BY <2>1, FolderRemovedGives
        <4>3. host'[c] = v
          BY <2>1, <4>1
        <4>4. Own(host[c]) > 0 /\ ~host[c].stuck
          BY <2>4, <4>2, <4>3
        <4>5. Of(c) = {}
          <5>1. None \notin Of(c)
            BY NoneAssumption DEF Of
          <5>2. QED
            BY <3>3, <3>6, <5>1
        <4>6. Cardinality(Of(c)) = 0
          BY <4>5, FS_EmptySet
        <4>7. QED
          BY <3>4, <3>5, <4>4, <4>6
      <3>7. CASE o # None
        <4>1. PICK v \in ends : host' = [host EXCEPT ![c] = v]
          BY <3>1, <3>2, <3>7
        <4>2. PICK w \in Destructed(host[c]) : v \in FolderRemoved(w)
          OBVIOUS
        <4>3. /\ w \in HostTypes /\ w.volume = host[c].volume
              /\ ~w.stuck => ~host[c].stuck
                             /\ Own(w) = IF Own(host[c]) = 0 THEN 0 ELSE Own(host[c]) - 1
          BY <2>1, DestructedGives
        <4>4. /\ v \in HostTypes /\ v.stuck = w.stuck /\ v.layers = w.layers /\ Own(v) = Own(w)
              /\ w.volume /\ ~v.volume => w.layers > 0
          BY <4>2, <4>3, FolderRemovedGives
        <4>5. host'[c] = v
          BY <2>1, <4>1
        <4>6. ~w.stuck /\ Own(w) > 0
          BY <2>4, <4>3, <4>4, <4>5
        <4>7. Cardinality(Of(c)) <= 1
          <5>1. IsFiniteSet({o}) /\ Cardinality({o}) = 1
            BY FS_Singleton
          <5> HIDE DEF o
          <5>2. QED
            BY <3>3, <5>1, FS_Subset
        <4>8. QED
          BY <3>4, <3>5, <4>3, <4>6, <4>7
      <3>8. QED
        BY <3>6, <3>7
    <2>3. QED
      BY <1>1, <2>2, OnlyRemovalsTakeVolumes
  <1>2. QED
    BY <1>1, RuntimeCorrect, PTL DEF VolumesOutliveRemoval, Spec

===============================================================================
