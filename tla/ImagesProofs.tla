---------------------------- MODULE ImagesProofs ----------------------------
(* What holds of images, from how they are built to what refers to them.    *)
(* First the tables and the folders of images and containers, for any       *)
(* images, names and volumes and any number of orders.  Then the handler    *)
(* that builds an image: for anything that may be ordered, and however deep *)
(* its calls may nest.                                                      *)
EXTENDS ImageLibrary, ImageBuild, FiniteSetTheorems, SequenceTheorems, TLAPS

----------------------------------------------------------------------------
(* The tables and the folders                                               *)

CreatingTypes ==
  [stage : {"layers", "register", "volumes"}, name : Names, image : Identifiers, left : Nat]

AnswerTypes == [result : {"done", "failed", "removed"}, image : Identifiers]

HasRow(c) == \E r \in container_tb : r.identifier = c

Ready(c) == {v \in volume_tb : v.container = c}

\* The volumes of a container from one on to the last.
VolumesFrom(c, first, last) == {[container |-> c, volume |-> k] : k \in first .. last}

\* What is counted is a number, and what is under way is a creation.
LibraryTypes ==
  /\ TypeOK
  /\ saves \in Nat /\ creations \in Nat
  /\ creating \in {Idle} \cup CreatingTypes
  /\ answers \in [DOMAIN answers -> AnswerTypes]

\* The creation under way is the last one, and has no row before its stage.
UnderwayFits ==
  creating # Idle =>
    /\ creations > 0
    /\ creating.stage \in {"layers", "register"} => ~HasRow(creations)
    /\ creations \notin amiss =>
         /\ creations \in folders
         /\ creating.stage \in {"layers", "register"} => ~Exists(creating.name)
         /\ creating.stage = "volumes" =>
              /\ HasRow(creations)
              /\ creating.left \in 0 .. VolumesOf[creating.image]
              /\ Ready(creations) =
                   VolumesFrom(creations, creating.left + 1, VolumesOf[creating.image])

\* What CreationIsWhole says of one creation.
Whole(c) ==
  /\ answers[c].result = "done" =>
       HasRow(c) /\ c \in folders /\ Cardinality(Ready(c)) = VolumesOf[answers[c].image]
  /\ answers[c].result = "failed" =>
       c \notin folders /\ (HasRow(c) => Cardinality(Ready(c)) < VolumesOf[answers[c].image])

LibraryInv == LibraryTypes /\ NothingDangles /\ UnderwayFits /\ CreationIsWhole

(* CreationIsWhole, one creation at a time.                                 *)
LEMMA WholeIsEach ==
  /\ CreationIsWhole <=> \A c \in DOMAIN answers \ amiss : Whole(c)
  /\ CreationIsWhole' <=> \A c \in DOMAIN answers' \ amiss' : Whole(c)'
  BY DEF CreationIsWhole, Whole, HasRow, Ready

(* The volumes from one on are as many as there are numbers from it on      *)
(* (create_volumes).                                                        *)
LEMMA VolumesCounted ==
  ASSUME NEW c, NEW left \in Nat, NEW all \in Nat, left <= all
  PROVE  Cardinality(VolumesFrom(c, left + 1, all)) = all - left
  <1> DEFINE S == (left + 1) .. all
             T == VolumesFrom(c, left + 1, all)
             f == [k \in S |-> [container |-> c, volume |-> k]]
  <1>1. IsFiniteSet(S) /\ Cardinality(S) = all - left
    <2>1. left + 1 \in Int /\ all \in Int
      OBVIOUS
    <2>2. IsFiniteSet(S) /\ Cardinality(S) = IF left + 1 > all THEN 0 ELSE all - (left + 1) + 1
      BY <2>1, FS_Interval
    <2>3. QED
      BY <2>2
  <1>2. f \in [S -> T]
    BY DEF VolumesFrom
  <1>3. \A j, k \in S : f[j] = f[k] => j = k
    OBVIOUS
  <1>4. \A v \in T : \E k \in S : f[k] = v
    BY DEF VolumesFrom
  <1> HIDE DEF S, T, f
  <1>5. f \in Bijection(S, T)
    BY <1>2, <1>3, <1>4 DEF Bijection, Injection, Surjection, IsInjective
  <1>6. ExistsBijection(S, T)
    BY <1>5 DEF ExistsBijection
  <1>7. Cardinality(T) = Cardinality(S)
    BY <1>1, <1>6, FS_Bijection
  <1>8. QED
    BY <1>1, <1>7 DEF T

(* The volume made is the one before those that are there.                  *)
LEMMA VolumeAdded ==
  ASSUME NEW c, NEW left \in Nat \ {0}, NEW all \in Nat, left <= all
  PROVE  VolumesFrom(c, left + 1, all) \cup {[container |-> c, volume |-> left]}
           = VolumesFrom(c, left - 1 + 1, all)
  <1>1. left .. all = {left} \cup ((left + 1) .. all) /\ left - 1 + 1 = left
    OBVIOUS
  <1>2. QED
    BY <1>1 DEF VolumesFrom

(* The answer to a creation adds its result, and leaves the others.         *)
LEMMA AnswerGiven ==
  ASSUME LibraryTypes, NEW c, NEW result \in {"done", "failed"}, NEW i \in Identifiers,
         Answer(c, result, i)
  PROVE  /\ creating' = Idle /\ DOMAIN answers' = DOMAIN answers \cup {c}
         /\ answers' \in [DOMAIN answers' -> AnswerTypes]
         /\ answers'[c].result = result /\ answers'[c].image = i
         /\ \A d \in DOMAIN answers : d # c => answers'[d] = answers[d]
  <1>1. answers' = [d \in DOMAIN answers \cup {c} |->
                      IF d = c THEN [result |-> result, image |-> i] ELSE answers[d]]
    BY DEF Answer
  <1>2. \A d \in DOMAIN answers \cup {c} : answers'[d] \in AnswerTypes
    BY <1>1 DEF LibraryTypes, AnswerTypes
  <1>3. QED
    BY <1>1, <1>2 DEF Answer

(* Whatever happens to others, a creation's answer stays true.              *)
LEMMA WholeStays ==
  ASSUME NEW c, Whole(c), answers'[c] = answers[c], HasRow(c)' <=> HasRow(c),
         Ready(c)' = Ready(c), c \in folders' <=> c \in folders
  PROVE  Whole(c)'
  BY DEF Whole

(* Nothing of containers and creations changes: what is said of images and  *)
(* of the volumes' rows is left to show.                                    *)
LEMMA ImagesChangeOnly ==
  ASSUME LibraryInv, TypeOK', NothingDangles', saves' \in Nat,
         UNCHANGED <<containers, creation, amiss>>
  PROVE  LibraryInv'
  <1>1. LibraryTypes'
    BY DEF LibraryInv, LibraryTypes, creation, CreatingTypes, AnswerTypes, Idle
  <1>2. UnderwayFits'
    BY DEF LibraryInv, UnderwayFits, containers, creation, HasRow, Ready, Exists, VolumesFrom
  <1>3. CreationIsWhole'
    BY DEF LibraryInv, CreationIsWhole, containers, creation
  <1>4. QED
    BY <1>1, <1>2, <1>3 DEF LibraryInv

(* A stage fails: the creation is answered, and its folder goes or is amiss *)
(* (the error path of extract_layers, register_container, create_volumes).  *)
LEMMA FailKeeps ==
  ASSUME LibraryInv, creating # Idle, Fail(creations, creating.image),
         creating.stage = "volumes" => creating.left > 0,
         UNCHANGED <<images, container_tb, volume_tb, volumes, creations, imports, dead,
                     unwritten, unseen>>
  PROVE  LibraryInv'
  <1>1. /\ LibraryTypes /\ TypeOK /\ creating \in CreatingTypes /\ creating.image \in Identifiers
        /\ creations \in Nat \ {0} /\ creations \notin DOMAIN answers
    BY DEF LibraryInv, LibraryTypes, TypeOK, UnderwayFits, CreatingTypes
  <1>2. /\ creating' = Idle /\ DOMAIN answers' = DOMAIN answers \cup {creations}
        /\ answers' \in [DOMAIN answers' -> AnswerTypes]
        /\ answers'[creations].result = "failed" /\ answers'[creations].image = creating.image
        /\ \A d \in DOMAIN answers : d # creations => answers'[d] = answers[d]
    BY <1>1, AnswerGiven DEF Fail
  <1>3. \/ folders' = folders \ {creations} /\ UNCHANGED amiss
        \/ amiss' = amiss \cup {creations} /\ UNCHANGED folders
    BY DEF Fail
  <1>4. LibraryTypes'
    <2>1. TypeOK'
      BY <1>1, <1>2, <1>3 DEF TypeOK, images, imports
    <2>2. QED
      BY <1>1, <1>2, <2>1 DEF LibraryTypes, images
  <1>5. NothingDangles'
    BY <1>4 DEF LibraryInv, LibraryTypes, NothingDangles, images
  <1>6. UnderwayFits'
    BY <1>2 DEF UnderwayFits
  <1>7. CreationIsWhole'
    <2> SUFFICES ASSUME NEW d \in DOMAIN answers' \ amiss'
                 PROVE  Whole(d)'
      BY WholeIsEach
    <2>1. CASE d # creations
      <3>1. d \in DOMAIN answers \ amiss /\ answers'[d] = answers[d]
            /\ (d \in folders' <=> d \in folders)
        BY <1>2, <1>3, <2>1
      <3>2. Whole(d)
        BY <3>1, WholeIsEach DEF LibraryInv
      <3>3. QED
        BY <3>1, <3>2, WholeStays DEF HasRow, Ready
    <2>2. CASE d = creations
      <3>1. creations \notin amiss /\ creations \notin folders'
        BY <1>3, <2>2
      <3>2. HasRow(creations) => Cardinality(Ready(creations)) < VolumesOf[creating.image]
        <4> SUFFICES ASSUME HasRow(creations)
                     PROVE  Cardinality(Ready(creations)) < VolumesOf[creating.image]
          OBVIOUS
        <4> DEFINE left == creating.left
                   all == VolumesOf[creating.image]
        <4>1. creating.stage = "volumes" /\ left \in Nat \ {0} /\ all \in Nat
          BY <1>1, VolumesAssumption DEF LibraryInv, UnderwayFits, CreatingTypes
        <4>2. left <= all /\ Ready(creations) = VolumesFrom(creations, left + 1, all)
          BY <1>1, <3>1, <4>1 DEF LibraryInv, UnderwayFits
        <4> HIDE DEF left, all
        <4>3. Cardinality(Ready(creations)) = all - left
          BY <4>1, <4>2, VolumesCounted
        <4>4. all - left < all
          BY <4>1
        <4>5. QED
          BY <4>3, <4>4 DEF all
      <3>3. (HasRow(d)' <=> HasRow(creations)) /\ Ready(d)' = Ready(creations)
        BY <2>2 DEF HasRow, Ready
      <3>4. QED
        BY <1>2, <2>2, <3>1, <3>2, <3>3 DEF Whole
    <2>3. QED
      BY <2>1, <2>2
  <1>8. QED
    BY <1>4, <1>5, <1>6, <1>7 DEF LibraryInv

(* A creation is answered at once, or its folder is made (Create).          *)
LEMMA CreateKeeps ==
  ASSUME LibraryInv, NEW name \in Names, NEW row \in image_tb, Create(name, row)
  PROVE  LibraryInv'
  <1> PICK c : c = creations + 1
    OBVIOUS
  <1> DEFINE i == row.identifier
  <1>1. /\ LibraryTypes /\ TypeOK /\ i \in Identifiers /\ creations \in Nat /\ creating = Idle
        /\ c \notin DOMAIN answers /\ c \notin folders /\ creations' = c /\ c \in Nat \ {0}
    BY DEF LibraryInv, LibraryTypes, TypeOK, Create, Free
  <1>2. UNCHANGED <<images, container_tb, volume_tb, volumes, imports, unwritten, unseen>>
    BY DEF Create
  <1>3. ~HasRow(c) /\ ~HasRow(c)'
    BY <1>1, <1>2 DEF TypeOK, HasRow
  <1>4. \A d : HasRow(d)' = HasRow(d) /\ Ready(d)' = Ready(d)
    BY <1>2 DEF HasRow, Ready
  <1>5. NothingDangles' <=> TypeOK'
    BY <1>2 DEF LibraryInv, NothingDangles, images
  <1>6. CASE Answer(c, "failed", i) /\ UNCHANGED <<folders, dead, amiss>>
    <2>1. /\ creating' = Idle /\ DOMAIN answers' = DOMAIN answers \cup {c}
          /\ answers' \in [DOMAIN answers' -> AnswerTypes]
          /\ answers'[c].result = "failed" /\ answers'[c].image = i
          /\ \A d \in DOMAIN answers : d # c => answers'[d] = answers[d]
      BY <1>1, <1>6, AnswerGiven
    <2>2. TypeOK'
      <3>1. \A n \in 1 .. creations : n \in 1 .. c
        BY <1>1
      <3>2. /\ DOMAIN answers' \subseteq 1 .. c /\ folders' \subseteq 1 .. c
            /\ container_tb \subseteq [identifier : 1 .. c, name : Names, image_id : 1 .. saves]
        BY <1>1, <1>6, <2>1, <3>1 DEF TypeOK
      <3>3. QED
        BY <1>1, <1>2, <1>6, <2>1, <3>2 DEF TypeOK, images, imports
    <2>3. LibraryTypes' /\ UnderwayFits'
      BY <1>1, <1>2, <2>1, <2>2 DEF LibraryTypes, UnderwayFits, images
    <2>4. CreationIsWhole'
      <3> SUFFICES ASSUME NEW d \in DOMAIN answers' \ amiss'
                   PROVE  Whole(d)'
        BY WholeIsEach
      <3>1. CASE d # c
        BY <1>4, <1>6, <2>1, <3>1, WholeIsEach, WholeStays DEF LibraryInv
      <3>2. CASE d = c
        BY <1>1, <1>3, <1>6, <2>1, <3>2 DEF Whole
      <3>3. QED
        BY <3>1, <3>2
    <2>5. QED
      BY <1>5, <2>2, <2>3, <2>4 DEF LibraryInv
  <1>7. CASE /\ amiss' = IF Exists(name) THEN amiss \cup {c} ELSE amiss
             /\ folders' = folders \cup {c}
             /\ IF i \in configured
                THEN /\ creating' = [stage |-> "layers", name |-> name, image |-> i, left |-> 0]
                     /\ UNCHANGED dead
                ELSE dead' = TRUE /\ UNCHANGED creating
             /\ UNCHANGED answers
    <2>1. /\ creating' \in {Idle} \cup CreatingTypes
          /\ creating' # Idle => creating'.stage = "layers" /\ creating'.name = name
      BY <1>1, <1>7 DEF CreatingTypes, Idle
    <2>0. dead' \in BOOLEAN
      BY <1>1, <1>7 DEF TypeOK
    <2>2. TypeOK'
      <3>1. \A n \in 1 .. creations : n \in 1 .. c
        BY <1>1
      <3>2. c \in 1 .. c
        BY <1>1
      <3>3. /\ DOMAIN answers' \subseteq 1 .. c /\ folders' \subseteq 1 .. c
            /\ container_tb \subseteq [identifier : 1 .. c, name : Names, image_id : 1 .. saves]
        BY <1>1, <1>7, <3>1, <3>2 DEF TypeOK
      <3>4. creating' = Idle \/ (creating'.image \in Identifiers /\ c \notin DOMAIN answers')
        BY <1>1, <1>7, <2>1 DEF CreatingTypes
      <3>5. QED
        BY <1>1, <1>2, <2>0, <3>3, <3>4 DEF TypeOK, images, imports
    <2>3. LibraryTypes'
      BY <1>1, <1>2, <1>7, <2>1, <2>2 DEF LibraryTypes, images
    <2>4. UnderwayFits'
      <3>1. c > 0 /\ ~HasRow(c)'
        BY <1>1, <1>3
      <3>2. c \notin amiss' => c \in folders' /\ ~Exists(name)'
        BY <1>2, <1>7 DEF Exists
      <3>3. creating' # Idle => creating'.stage # "volumes"
        BY <2>1
      <3>4. QED
        BY <1>1, <2>1, <3>1, <3>2, <3>3 DEF UnderwayFits, Exists, HasRow
    <2>5. CreationIsWhole'
      <3> SUFFICES ASSUME NEW d \in DOMAIN answers' \ amiss'
                   PROVE  Whole(d)'
        BY WholeIsEach
      <3>1. d \in DOMAIN answers \ amiss /\ answers'[d] = answers[d]
            /\ (d \in folders' <=> d \in folders)
        BY <1>1, <1>7
      <3>2. Whole(d)
        BY <3>1, WholeIsEach DEF LibraryInv
      <3>3. QED
        BY <1>4, <3>1, <3>2, WholeStays
    <2>6. QED
      BY <1>5, <2>2, <2>3, <2>4, <2>5 DEF LibraryInv
  <1>8. QED
    BY <1>6, <1>7 DEF Create

(* The layers of the image are copied (extract_layers).                     *)
LEMMA ExtractKeeps ==
  ASSUME LibraryInv, ExtractLayers
  PROVE  LibraryInv'
  <1>1. LibraryTypes /\ TypeOK /\ creating # Idle /\ creating \in CreatingTypes
        /\ creating.stage = "layers"
    BY DEF LibraryInv, LibraryTypes, ExtractLayers, Idle
  <1>2. CASE Fail(creations, creating.image)
    BY <1>1, <1>2, FailKeeps DEF ExtractLayers, images, imports
  <1>3. CASE Extracted /\ UNCHANGED <<answers, folders, amiss>>
    <2>1. /\ UNCHANGED <<images, containers, answers, creations, imports, dead, history>>
          /\ creating' = [creating EXCEPT !.stage = "register"]
      BY <1>3 DEF ExtractLayers, Extracted, containers, history
    <2>2. /\ creating' \in CreatingTypes /\ creating'.stage = "register"
          /\ creating'.name = creating.name /\ creating'.image = creating.image
          /\ creating'.left = creating.left
      BY <1>1, <2>1 DEF CreatingTypes
    <2>3. LibraryTypes'
      BY <1>1, <2>1, <2>2
      DEF LibraryTypes, TypeOK, images, containers, imports, history, CreatingTypes
    <2>4. UnderwayFits'
      BY <1>1, <2>1, <2>2
      DEF LibraryInv, UnderwayFits, containers, history, HasRow, Exists
    <2>5. NothingDangles' /\ CreationIsWhole'
      BY <2>1, <2>3
      DEF LibraryInv, LibraryTypes, NothingDangles, CreationIsWhole, images, containers, history
    <2>6. QED
      BY <2>3, <2>4, <2>5 DEF LibraryInv
  <1>4. QED
    BY <1>2, <1>3 DEF ExtractLayers

(* The container's row is made, or is not, and its volumes follow.          *)
LEMMA RegisterKeeps ==
  ASSUME LibraryInv, RegisterContainer
  PROVE  LibraryInv'
  <1>1. /\ LibraryTypes /\ TypeOK /\ creating # Idle /\ creating \in CreatingTypes
        /\ creating.stage = "register" /\ ~HasRow(creations)
        /\ creations \in Nat \ {0} /\ creations \notin DOMAIN answers
    BY DEF LibraryInv, LibraryTypes, TypeOK, UnderwayFits, RegisterContainer, Idle
  <1>2. CASE Fail(creations, creating.image) /\ UNCHANGED container_tb
    BY <1>1, <1>2, FailKeeps DEF RegisterContainer
  <1>3. ASSUME NEW row \in RowsOf(creating.image), Saved(row),
               creating' = [creating EXCEPT !.stage = "volumes",
                                            !.left = VolumesOf[creating.image]],
               UNCHANGED <<answers, folders>>
        PROVE  LibraryInv'
    <2>1. UNCHANGED <<images, volume_tb, volumes, answers, folders, creations, imports, dead,
                      unwritten, unseen>>
      BY <1>3 DEF RegisterContainer
    <2>2. /\ creating' \in CreatingTypes /\ creating'.stage = "volumes"
          /\ creating'.image = creating.image
          /\ creating'.left = VolumesOf[creating.image] /\ VolumesOf[creating.image] \in Nat
      BY <1>1, <1>3, VolumesAssumption DEF CreatingTypes
    <2> DEFINE new == [identifier |-> creations, name |-> creating.name, image_id |-> row.id]
    <2>3. row \in image_tb /\ new \in [identifier : 1 .. creations, name : Names,
                                       image_id : 1 .. saves]
      BY <1>1 DEF RowsOf, TypeOK, CreatingTypes
    <2>4. /\ \/ container_tb' = container_tb \cup {new} /\ UNCHANGED amiss
             \/ UNCHANGED container_tb /\ Exists(creating.name) /\ UNCHANGED amiss
             \/ UNCHANGED container_tb /\ amiss' = amiss \cup {creations}
          /\ container_tb' # container_tb => ~Exists(creating.name)
      BY <1>3 DEF Saved, Exists
    <2>5. \A r \in container_tb' : r \in container_tb \/ r = new
      BY <2>4
    <2>6. \A d \in 1 .. creations : d # creations => (HasRow(d)' <=> HasRow(d))
      BY <2>4 DEF HasRow
    <2>7. TypeOK'
      <3>1. container_tb' \subseteq [identifier : 1 .. creations, name : Names,
                                     image_id : 1 .. saves]
        BY <1>1, <2>3, <2>5 DEF TypeOK
      <3>2. ASSUME NEW r \in container_tb', NEW s \in container_tb',
                   r.identifier = s.identifier \/ r.name = s.name
            PROVE  r = s
        <4>1. CASE r \in container_tb /\ s \in container_tb
          BY <1>1, <3>2, <4>1 DEF TypeOK
        <4>2. ASSUME NEW x \in container_tb, new \notin container_tb, new \in container_tb'
              PROVE  x.identifier # new.identifier /\ x.name # new.name
          BY <1>1, <2>4, <4>2 DEF HasRow, Exists
        <4>3. QED
          BY <2>5, <3>2, <4>1, <4>2
      <3>3. creating'.image \in Identifiers /\ creations \notin DOMAIN answers
        BY <1>1, <2>2 DEF CreatingTypes
      <3> HIDE DEF new
      <3>4. QED
        BY <1>1, <2>1, <3>1, <3>2, <3>3 DEF TypeOK, images, imports
    <2>8. LibraryTypes'
      BY <1>1, <2>1, <2>2, <2>7 DEF LibraryTypes, images
    <2>9. NothingDangles'
      <3>1. \A c \in container_tb' :
              c.image_id \in unseen' \/ \E r \in image_tb' : r.id = c.image_id
        BY <2>1, <2>3, <2>5 DEF LibraryInv, NothingDangles, images
      <3>2. \A v \in volume_tb' :
              v \in volumes' /\ \E c \in container_tb' : c.identifier = v.container
        BY <2>1, <2>4 DEF LibraryInv, NothingDangles
      <3>3. QED
        BY <2>1, <2>7, <3>1, <3>2 DEF LibraryInv, NothingDangles, images
    <2>10. UnderwayFits'
      <3> SUFFICES ASSUME creations \notin amiss'
                   PROVE  /\ creations \in folders
                          /\ HasRow(creations)'
                          /\ creating'.left \in 0 .. VolumesOf[creating'.image]
                          /\ Ready(creations)' = VolumesFrom(creations, creating'.left + 1,
                                                             VolumesOf[creating'.image])
        BY <1>1, <2>1, <2>2 DEF UnderwayFits, HasRow, Ready, VolumesFrom
      <3>1. creations \notin amiss /\ creations \in folders /\ ~Exists(creating.name)
        BY <1>1, <2>4 DEF LibraryInv, UnderwayFits
      <3>2. new \in container_tb'
        BY <2>4, <3>1
      <3>3. Ready(creations)' = {}
        BY <1>1, <2>1 DEF LibraryInv, NothingDangles, Ready, HasRow
      <3>4. VolumesFrom(creations, creating'.left + 1, VolumesOf[creating'.image]) = {}
        <4>1. \A n \in Nat : (n + 1) .. n = {}
          OBVIOUS
        <4>2. QED
          BY <2>2, <4>1 DEF VolumesFrom
      <3>5. HasRow(creations)'
        BY <2>1, <3>2 DEF HasRow
      <3>6. QED
        BY <2>2, <3>1, <3>3, <3>4, <3>5
    <2>11. CreationIsWhole'
      <3> SUFFICES ASSUME NEW d \in DOMAIN answers' \ amiss'
                   PROVE  Whole(d)'
        BY WholeIsEach
      <3>1. d \in DOMAIN answers \ amiss /\ d # creations /\ d \in 1 .. creations
        BY <1>1, <2>1, <2>4 DEF TypeOK
      <3>2. Whole(d)
        BY <3>1, WholeIsEach DEF LibraryInv
      <3>3. QED
        BY <2>1, <2>6, <3>1, <3>2, WholeStays DEF Ready
    <2>12. QED
      BY <2>8, <2>9, <2>10, <2>11 DEF LibraryInv
  <1>4. QED
    BY <1>2, <1>3 DEF RegisterContainer

(* A volume's folder and its row are made, or the creation fails.           *)
LEMMA VolumeKeeps ==
  ASSUME LibraryInv, CreateVolume
  PROVE  LibraryInv'
  <1>1. /\ LibraryTypes /\ TypeOK /\ creating # Idle /\ creating \in CreatingTypes
        /\ creating.stage = "volumes" /\ creating.left \in Nat \ {0}
        /\ creations \in Nat \ {0} /\ creations \notin DOMAIN answers
    BY DEF LibraryInv, LibraryTypes, TypeOK, UnderwayFits, CreateVolume, CreatingTypes, Idle
  <1> DEFINE v == [container |-> creations, volume |-> creating.left]
  <1>2. CASE Fail(creations, creating.image) /\ UNCHANGED <<volumes, volume_tb>>
    BY <1>1, <1>2, FailKeeps DEF CreateVolume
  <1>3. CASE /\ volumes' = volumes \cup {v}
             /\ Entered(v)
             /\ creating' = [creating EXCEPT !.left = @ - 1]
             /\ UNCHANGED <<answers, folders>>
    <2>1. UNCHANGED <<images, container_tb, answers, folders, creations, imports, dead,
                      unwritten, unseen>>
      BY <1>3 DEF CreateVolume
    <2>2. /\ creating' \in CreatingTypes /\ creating'.stage = "volumes"
          /\ creating'.image = creating.image /\ creating'.left = creating.left - 1
      BY <1>1, <1>3 DEF CreatingTypes
    <2>3. /\ \/ HasRow(creations) /\ volume_tb' = volume_tb \cup {v} /\ UNCHANGED amiss
             \/ ~HasRow(creations) /\ UNCHANGED <<volume_tb, amiss>>
             \/ UNCHANGED volume_tb /\ amiss' = amiss \cup {creations}
      BY <1>3 DEF Entered, HasRow
    <2>4. LibraryTypes'
      <3>1. creating'.image \in Identifiers
        BY <2>2 DEF CreatingTypes
      <3>2. TypeOK'
        BY <1>1, <2>1, <3>1 DEF TypeOK, images, imports
      <3>3. QED
        BY <1>1, <2>1, <2>2, <3>2 DEF LibraryTypes, images
    <2>5. NothingDangles'
      <3>1. \A w \in volume_tb' :
              w \in volumes' /\ \E c \in container_tb' : c.identifier = w.container
        BY <1>3, <2>1, <2>3 DEF LibraryInv, NothingDangles, HasRow
      <3>2. QED
        BY <2>1, <2>4, <3>1 DEF LibraryInv, LibraryTypes, NothingDangles, images
    <2>6. \A d : d # creations => Ready(d)' = Ready(d)
      BY <2>3 DEF Ready
    <2>7. UnderwayFits'
      <3> SUFFICES ASSUME creations \notin amiss'
                   PROVE  /\ creations \in folders
                          /\ HasRow(creations)'
                          /\ creating'.left \in 0 .. VolumesOf[creating'.image]
                          /\ Ready(creations)' = VolumesFrom(creations, creating'.left + 1,
                                                             VolumesOf[creating'.image])
        BY <1>1, <2>1, <2>2 DEF UnderwayFits, HasRow, Ready, VolumesFrom
      <3> DEFINE left == creating.left
                 all == VolumesOf[creating.image]
      <3>1. /\ creations \in folders /\ HasRow(creations) /\ left \in 0 .. all
            /\ Ready(creations) = VolumesFrom(creations, left + 1, all)
        BY <1>1, <2>3 DEF LibraryInv, UnderwayFits
      <3>2. left \in Nat \ {0} /\ all \in Nat /\ left <= all
        BY <1>1, <3>1, VolumesAssumption DEF CreatingTypes
      <3>3. volume_tb' = volume_tb \cup {v}
        BY <2>3, <3>1
      <3>4. Ready(creations)' = Ready(creations) \cup {v}
        BY <2>1, <3>3 DEF Ready
      <3>5. HasRow(creations)'
        BY <2>1, <3>1 DEF HasRow
      <3> HIDE DEF left, all
      <3>6. Ready(creations)' = VolumesFrom(creations, left - 1 + 1, all)
        BY <3>1, <3>2, <3>4, VolumeAdded DEF left
      <3>7. left - 1 \in 0 .. all
        BY <3>2
      <3>8. QED
        BY <2>2, <3>1, <3>5, <3>6, <3>7 DEF left, all
    <2>8. CreationIsWhole'
      <3> SUFFICES ASSUME NEW d \in DOMAIN answers' \ amiss'
                   PROVE  Whole(d)'
        BY WholeIsEach
      <3>1. d \in DOMAIN answers \ amiss /\ d # creations
        BY <1>1, <2>1, <2>3
      <3>2. Whole(d)
        BY <3>1, WholeIsEach DEF LibraryInv
      <3>3. QED
        BY <2>1, <2>6, <3>1, <3>2, WholeStays DEF HasRow
    <2>9. QED
      BY <2>4, <2>5, <2>7, <2>8 DEF LibraryInv
  <1>4. QED
    BY <1>2, <1>3 DEF CreateVolume

(* The creation is answered with the container's identifier.                *)
LEMMA CreatedKeeps ==
  ASSUME LibraryInv, Created
  PROVE  LibraryInv'
  <1>1. /\ LibraryTypes /\ TypeOK /\ creating # Idle /\ creating \in CreatingTypes
        /\ creating.stage = "volumes" /\ creating.left = 0 /\ creating.image \in Identifiers
        /\ creations \in Nat \ {0} /\ creations \notin DOMAIN answers
    BY DEF LibraryInv, LibraryTypes, TypeOK, UnderwayFits, Created, CreatingTypes, Idle
  <1>2. UNCHANGED <<images, containers, creations, imports, dead, history>>
    BY DEF Created
  <1>3. /\ creating' = Idle /\ DOMAIN answers' = DOMAIN answers \cup {creations}
        /\ answers' \in [DOMAIN answers' -> AnswerTypes]
        /\ answers'[creations].result = "done" /\ answers'[creations].image = creating.image
        /\ \A d \in DOMAIN answers : d # creations => answers'[d] = answers[d]
    BY <1>1, AnswerGiven DEF Created
  <1>4. LibraryTypes'
    <2>1. TypeOK'
      BY <1>1, <1>2, <1>3 DEF TypeOK, images, containers, imports
    <2>2. QED
      BY <1>1, <1>2, <1>3, <2>1 DEF LibraryTypes, images
  <1>5. NothingDangles'
    BY <1>2, <1>4 DEF LibraryInv, LibraryTypes, NothingDangles, images, containers, history
  <1>6. UnderwayFits'
    BY <1>3 DEF UnderwayFits
  <1>7. CreationIsWhole'
    <2> SUFFICES ASSUME NEW d \in DOMAIN answers' \ amiss'
                 PROVE  Whole(d)'
      BY WholeIsEach
    <2>1. CASE d # creations
      <3>1. d \in DOMAIN answers \ amiss /\ answers'[d] = answers[d]
        BY <1>2, <1>3, <2>1 DEF history
      <3>2. Whole(d)
        BY <3>1, WholeIsEach DEF LibraryInv
      <3>3. QED
        BY <1>2, <3>1, <3>2, WholeStays DEF containers, HasRow, Ready
    <2>2. CASE d = creations
      <3> DEFINE all == VolumesOf[creating.image]
      <3>1. creations \notin amiss /\ all \in Nat
        BY <1>1, <1>2, <2>2, VolumesAssumption DEF history
      <3>2. /\ creations \in folders /\ HasRow(creations)
            /\ Ready(creations) = VolumesFrom(creations, 0 + 1, all)
        BY <1>1, <3>1 DEF LibraryInv, UnderwayFits
      <3>3. Cardinality(Ready(creations)) = all
        <4> HIDE DEF all
        <4>1. 0 \in Nat /\ 0 <= all /\ all - 0 = all
          BY <3>1
        <4>2. Cardinality(VolumesFrom(creations, 0 + 1, all)) = all - 0
          BY <3>1, <4>1, VolumesCounted
        <4>3. QED
          BY <3>2, <4>1, <4>2
      <3>4. HasRow(d)' /\ Ready(d)' = Ready(creations) /\ d \in folders'
        BY <1>2, <2>2, <3>2 DEF containers, HasRow, Ready
      <3>5. QED
        BY <1>3, <2>2, <3>3, <3>4 DEF Whole
    <2>3. QED
      BY <2>1, <2>2
  <1>8. QED
    BY <1>4, <1>5, <1>6, <1>7 DEF LibraryInv

(* A removed container's folder goes, and so does what its answer said.     *)
LEMMA RemoveContainerKeeps ==
  ASSUME LibraryInv, NEW r \in container_tb, RemoveContainer(r)
  PROVE  LibraryInv'
  <1>1. /\ LibraryTypes /\ TypeOK /\ creating = Idle
        /\ UNCHANGED <<images, container_tb, volume_tb, volumes, creating, creations, imports,
                       dead, history>>
        /\ folders' = folders \ {r.identifier}
    BY DEF LibraryInv, LibraryTypes, RemoveContainer, Free
  <1>2. /\ DOMAIN answers' = DOMAIN answers
        /\ answers' \in [DOMAIN answers' -> AnswerTypes]
        /\ \A d \in DOMAIN answers :
             IF d = r.identifier THEN answers'[d].result = "removed" ELSE answers'[d] = answers[d]
    BY <1>1 DEF LibraryTypes, AnswerTypes, RemoveContainer
  <1>3. LibraryTypes'
    <2>1. TypeOK'
      BY <1>1, <1>2 DEF TypeOK, images, imports
    <2>2. QED
      BY <1>1, <1>2, <2>1 DEF LibraryTypes, images
  <1>4. NothingDangles'
    BY <1>1, <1>3 DEF LibraryInv, LibraryTypes, NothingDangles, images, history
  <1>5. UnderwayFits'
    BY <1>1 DEF UnderwayFits
  <1>6. CreationIsWhole'
    <2> SUFFICES ASSUME NEW d \in DOMAIN answers' \ amiss'
                 PROVE  Whole(d)'
      BY WholeIsEach
    <2>1. CASE d = r.identifier
      BY <1>2, <2>1 DEF Whole
    <2>2. CASE d # r.identifier
      <3>1. d \in DOMAIN answers \ amiss /\ answers'[d] = answers[d]
            /\ (d \in folders' <=> d \in folders)
        BY <1>1, <1>2, <2>2 DEF history
      <3>2. Whole(d)
        BY <3>1, WholeIsEach DEF LibraryInv
      <3>3. QED
        BY <1>1, <3>1, <3>2, WholeStays DEF HasRow, Ready
    <2>3. QED
      BY <2>1, <2>2
  <1>7. QED
    BY <1>3, <1>4, <1>5, <1>6 DEF LibraryInv

(* A pull's row is a new one, and its configuration is there or known not   *)
(* to be (save_image_details).                                              *)
LEMMA PullKeeps ==
  ASSUME LibraryInv, NEW repository \in Repositories, NEW tag \in Tags, NEW i \in Identifiers,
         Pull(repository, tag, i)
  PROVE  LibraryInv'
  <1>1. TypeOK /\ LibraryTypes /\ saves \in Nat
        /\ UNCHANGED <<containers, creation, imports, dead, unseen, amiss>>
    BY DEF LibraryInv, LibraryTypes, Pull
  <1> DEFINE new == [id |-> saves + 1, repository |-> repository, tag |-> tag,
                     identifier |-> i]
  <1>2. \/ image_tb' = image_tb \cup {new} /\ saves' = saves + 1
        \/ UNCHANGED <<image_tb, saves>>
    BY DEF Pull, NextId
  <1>3. saves' \in Nat /\ \A n \in 1 .. saves : n \in 1 .. saves'
    BY <1>1, <1>2
  <1>4. TypeOK'
    <2>1. image_tb' \subseteq [id : 1 .. saves', repository : Repositories, tag : Tags,
                               identifier : Identifiers]
      <3>1. \A r \in image_tb : r \in [id : 1 .. saves', repository : Repositories, tag : Tags,
                                       identifier : Identifiers]
        BY <1>1, <1>3 DEF TypeOK
      <3>2. image_tb' # image_tb =>
              new \in [id : 1 .. saves', repository : Repositories, tag : Tags,
                       identifier : Identifiers]
        BY <1>1, <1>2
      <3> HIDE DEF new
      <3>3. QED
        BY <1>2, <3>1, <3>2
    <2>2. ASSUME NEW r \in image_tb', NEW s \in image_tb', r.id = s.id
          PROVE  r = s
      <3>1. CASE r \in image_tb /\ s \in image_tb
        BY <1>1, <2>2, <3>1 DEF TypeOK
      <3>2. image_tb' # image_tb =>
              \A x \in image_tb : x.id # new.id
        BY <1>1, <1>2 DEF TypeOK
      <3>3. (r \in image_tb \/ r = new) /\ (s \in image_tb \/ s = new)
        BY <1>2
      <3> HIDE DEF new
      <3>4. QED
        BY <2>2, <3>1, <3>2, <3>3
    <2>3. container_tb' \subseteq [identifier : 1 .. creations', name : Names,
                                   image_id : 1 .. saves']
      BY <1>1, <1>3 DEF TypeOK, containers, creation
    <2>4. QED
      BY <1>1, <2>1, <2>2, <2>3 DEF TypeOK, containers, creation, imports
  <1>5. NothingDangles'
    <2>1. configured' \cup unwritten' = configured \cup unwritten \cup {i}
      BY DEF Pull
    <2>2. \A r \in image_tb' : r.identifier \in configured' \cup unwritten'
      BY <1>2, <2>1 DEF LibraryInv, NothingDangles
    <2>3. \A r \in image_tb : r \in image_tb'
      BY <1>2
    <2>4. \A c \in container_tb' :
            c.image_id \in unseen' \/ \E r \in image_tb' : r.id = c.image_id
      BY <1>1, <2>3 DEF LibraryInv, NothingDangles, containers
    <2>5. QED
      BY <1>1, <1>4, <2>2, <2>4 DEF LibraryInv, NothingDangles, containers
  <1>6. QED
    BY <1>1, <1>3, <1>4, <1>5, ImagesChangeOnly

(* The rows a removal means go: none that a container refers to, as far as  *)
(* the query tells (image_removal_handler).                                 *)
LEMMA RemoveImageKeeps ==
  ASSUME LibraryInv, NEW term, RemoveImage(term)
  PROVE  LibraryInv'
  <1>1. TypeOK /\ LibraryTypes /\ saves \in Nat
        /\ UNCHANGED <<saves, configured, containers, creation, imports, dead, unwritten, amiss>>
        /\ image_tb' = image_tb \ Meant(term)
    BY DEF LibraryInv, LibraryTypes, RemoveImage
  <1>2. TypeOK'
    BY <1>1 DEF TypeOK, containers, creation, imports
  <1>3. NothingDangles'
    <2> SUFFICES ASSUME NEW c \in container_tb
                 PROVE  c.image_id \in unseen' \/ \E r \in image_tb' : r.id = c.image_id
      BY <1>1, <1>2 DEF LibraryInv, NothingDangles, containers
    <2>1. unseen \subseteq unseen'
          /\ (HasContainers(term) => \A r \in Meant(term) : r.id \in unseen')
      BY DEF RemoveImage
    <2>2. c.image_id \in unseen \/ \E r \in image_tb : r.id = c.image_id
      BY DEF LibraryInv, NothingDangles
    <2>3. ASSUME NEW r \in Meant(term), r.id = c.image_id
          PROVE  c.image_id \in unseen'
      BY <2>1, <2>3 DEF HasContainers
    <2>4. QED
      BY <1>1, <2>1, <2>2, <2>3
  <1>4. QED
    BY <1>1, <1>2, <1>3, ImagesChangeOnly

(* Every action keeps the strengthened invariant.                           *)
THEOREM LibraryCorrect == Spec => []LibraryInv
  <1>1. Init => LibraryInv
    <2> SUFFICES ASSUME Init
                 PROVE  LibraryInv
      OBVIOUS
    <2>1. imported \in [Archives -> 0 .. 2] /\ moved \in BOOLEAN /\ dead \in BOOLEAN
      <3>1. imported \in [Archives -> 0 .. 2]
        BY DEF Init
      <3>2. FALSE \in BOOLEAN
        OBVIOUS
      <3>3. QED
        BY <3>1, <3>2 DEF Init
    <2>2. TypeOK
      BY <2>1 DEF Init, TypeOK
    <2>3. answers \in [DOMAIN answers -> AnswerTypes] /\ DOMAIN answers = {}
      BY DEF Init
    <2>4. LibraryTypes /\ UnderwayFits
      BY <2>2, <2>3 DEF Init, LibraryTypes, UnderwayFits
    <2>5. NothingDangles /\ CreationIsWhole
      BY <2>2, <2>3 DEF Init, NothingDangles, CreationIsWhole
    <2>6. QED
      BY <2>4, <2>5 DEF LibraryInv
  <1>2. LibraryInv /\ [Next]_vars => LibraryInv'
    <2> SUFFICES ASSUME LibraryInv, [Next]_vars
                 PROVE  LibraryInv'
      OBVIOUS
    <2>1. LibraryTypes /\ TypeOK /\ saves \in Nat
      BY DEF LibraryInv, LibraryTypes
    <2>2. TRUE \in BOOLEAN /\ FALSE \in BOOLEAN
      OBVIOUS
    <2>3. ASSUME NEW repository \in Repositories, NEW tag \in Tags, NEW i \in Identifiers,
                 Pull(repository, tag, i)
          PROVE  LibraryInv'
      BY <2>3, PullKeeps
    <2>4. ASSUME NEW term \in Repositories \cup Identifiers, RemoveImage(term)
          PROVE  LibraryInv'
      BY <2>4, RemoveImageKeeps
    <2>5. ASSUME NEW i \in Archives, Import(i)
          PROVE  LibraryInv'
      <3>1. UNCHANGED <<images, containers, creation, history>>
        BY <2>5 DEF Import
      <3>2. imported' \in [Archives -> 0 .. 2] /\ moved' \in BOOLEAN
        <4>1. UNCHANGED imported \/ Written(i)
          BY <2>5 DEF Import
        <4>2. QED
          BY <2>1, <2>2, <2>5, <4>1 DEF Import, Written, TypeOK
      <3>3. dead' \in BOOLEAN
        <4>1. dead' = dead \/ dead' = Throws(i) \/ dead' = TRUE
          BY <2>5 DEF Import
        <4>2. Throws(i) \in BOOLEAN
          BY <2>1 DEF Throws, TypeOK
        <4>3. QED
          BY <2>1, <2>2, <4>1, <4>2 DEF TypeOK
      <3>4. TypeOK'
        BY <2>1, <3>1, <3>2, <3>3 DEF TypeOK, images, containers, creation
      <3>5. NothingDangles'
        BY <3>1, <3>4 DEF LibraryInv, NothingDangles, images, containers, history
      <3>6. QED
        BY <2>1, <3>1, <3>4, <3>5, ImagesChangeOnly DEF images, history
    <2>6. CASE Reconnect
      <3>1. UNCHANGED <<images, containers, creation, imported, dead, history>>
            /\ moved' \in BOOLEAN
        BY <2>2, <2>6 DEF Reconnect
      <3>2. TypeOK'
        BY <2>1, <3>1 DEF TypeOK, images, containers, creation
      <3>3. NothingDangles'
        BY <3>1, <3>2 DEF LibraryInv, NothingDangles, images, containers, history
      <3>4. QED
        BY <2>1, <3>1, <3>2, <3>3, ImagesChangeOnly DEF images, history
    <2>7. ASSUME NEW name \in Names, NEW row \in image_tb, Create(name, row)
          PROVE  LibraryInv'
      BY <2>7, CreateKeeps
    <2>8. ASSUME NEW c \in container_tb, RemoveContainer(c)
          PROVE  LibraryInv'
      BY <2>8, RemoveContainerKeeps
    <2>9. CASE Restart
      <3>1. /\ UNCHANGED <<images, containers, creations, answers, imported, history>>
            /\ creating' = Idle /\ dead' \in BOOLEAN /\ moved' \in BOOLEAN
        BY <2>2, <2>9 DEF Restart
      <3>2. TypeOK'
        BY <2>1, <3>1 DEF TypeOK, images, containers
      <3>3. LibraryTypes' /\ UnderwayFits'
        BY <2>1, <3>1, <3>2 DEF LibraryTypes, UnderwayFits, images
      <3>4. NothingDangles' /\ CreationIsWhole'
        BY <3>1, <3>2
        DEF LibraryInv, NothingDangles, CreationIsWhole, images, containers, history
      <3>5. QED
        BY <3>3, <3>4 DEF LibraryInv
    <2>10. CASE UNCHANGED vars
      <3>1. UNCHANGED <<images, containers, creation, imports, dead, history>>
        BY <2>10 DEF vars
      <3>2. TypeOK'
        BY <2>1, <3>1 DEF TypeOK, images, containers, creation, imports
      <3>3. NothingDangles'
        BY <3>1, <3>2 DEF LibraryInv, NothingDangles, images, containers, history
      <3>4. QED
        BY <2>1, <3>1, <3>2, <3>3, ImagesChangeOnly DEF images, history
    <2>11. QED
      BY <2>3, <2>4, <2>5, <2>6, <2>7, <2>8, <2>9, <2>10,
         ExtractKeeps, RegisterKeeps, VolumeKeeps, CreatedKeeps DEF Next
  <1>3. QED
    BY <1>1, <1>2, PTL DEF Spec

(* What a row refers to is there, without foreign keys, for any number of   *)
(* images, containers and volumes (sql_repository of images and containers, *)
(* both removal handlers).                                                  *)
THEOREM RowsReferToWhatIsThere == Spec => []NothingDangles
  BY LibraryCorrect, PTL DEF LibraryInv

(* What a client is told of a creation is what it left, whatever number of  *)
(* volumes an image names (creation_handler).                               *)
THEOREM CreationsAreWhole == Spec => []CreationIsWhole
  BY LibraryCorrect, PTL DEF LibraryInv

----------------------------------------------------------------------------
(* The build handler                                                        *)

\* A stage's queue is one that Batch makes, and its resolver one there was.
QueuesFit ==
  /\ DOMAIN stages \subseteq Ids
  /\ \A id \in DOMAIN stages :
       /\ stages[id].batch \in Seq(Kinds) /\ stages[id].batch # <<>>
       /\ stages[id].batch[1] \in Steps \cup {"UNMOUNT"}
       /\ stages[id].resolver \in 1 .. orders

\* The calls nest as deep as the stack allows, or once more.
DepthFits ==
  /\ depth \in 0 .. StackDepth + 1
  /\ status = "up" => depth <= StackDepth

\* The stage that is run is there, and the order waits for its answer.
CurrentFits ==
  /\ current \in DOMAIN stages \cup {0}
  /\ current # 0 => answer = "waiting"

\* What has not been built is of a stage that is still there, and a client is told
\* of completion when none is.
UnbuiltFits ==
  /\ unbuilt \subseteq Ids \X Nat
  /\ \A id \in Ids, k \in Nat :
       <<id, k>> \in unbuilt => id \in DOMAIN stages /\ k \in 1 .. Len(stages[id].batch)
  /\ answer = "complete" => DOMAIN stages = {}

\* What the daemon dies of.
DeathFits ==
  status = "dead" =>
    \/ orders > 1 \/ posted
    \/ \E id \in DOMAIN stages :
         ToSet(stages[id].batch) \cap ({"FROM", "WORKDIR same"} \cup Odd) # {}

RestTyped ==
  /\ status \in {"up", "dead"} /\ orders \in 0 .. MaxOrders /\ posted \in BOOLEAN
  /\ answer \in {"none", "waiting", "error", "complete"}

BuildInv == RestTyped /\ QueuesFit /\ DepthFits /\ CurrentFits /\ UnbuiltFits /\ DeathFits

(* Any set of numbers has a smallest one: strict inclusion of the intervals *)
(* up to them is well-founded.                                              *)
LEMMA SmallestNumber ==
  ASSUME NEW T \in SUBSET Nat, T # {}
  PROVE  \E m \in T : \A n \in T : m <= n
<1>. DEFINE Up == {1 .. n : n \in T}
            R == StrictSubsetOrdering(Nat)
            S == FiniteSubsetsOf(Nat)
<1>1. IsWellFoundedOn(R, S)
  BY FS_StrictSubsetOrderingWellFounded
<1>2. Up \subseteq S /\ Up # {}
  <2>1. ASSUME NEW n \in Nat PROVE 1 .. n \in S
    BY FS_Interval DEF FiniteSubsetsOf
  <2>. HIDE DEF S
  <2>2. QED
    BY <2>1
<1>3. \E x \in Up : \A y \in Up : ~(<<y, x>> \in R)
  <2>. HIDE DEF Up, R, S
  <2>1. QED
    BY <1>1, <1>2, WFMin
<1>4. PICK m \in T : \A n \in T : ~(<<1 .. n, 1 .. m>> \in R)
  BY <1>3
<1>5. ASSUME NEW n \in T, n < m PROVE FALSE
  <2>1. 1 .. n \in SUBSET Nat /\ 1 .. m \in SUBSET Nat /\ 1 .. n # 1 .. m
        /\ 1 .. n \subseteq 1 .. m
    BY <1>5
  <2>2. <<1 .. n, 1 .. m>> \in R
    BY <2>1 DEF StrictSubsetOrdering
  <2>3. QED
    BY <1>4, <2>2
<1>6. QED
  BY <1>4, <1>5

(* The instance's least identifier is one of them.                          *)
LEMMA MinIsOne ==
  ASSUME NEW T \in SUBSET Nat, T # {}
  PROVE  Min(T) \in T
BY SmallestNumber DEF Min

----------------------------------------------------------------------------

\* The sequences s, one after the other, up to the k-th.
IsJoined(f, s, k) == f = [i \in 1 .. k |-> IF i = 1 THEN s[i] ELSE f[i - 1] \o s[i]]

(* Sequences can be joined, however many they are: by the least number for  *)
(* which they could not.                                                    *)
LEMMA JoinedExists ==
  ASSUME NEW s, NEW n \in Nat
  PROVE  \E f : IsJoined(f, s, n)
<1>. DEFINE T == {k \in Nat : ~\E f : IsJoined(f, s, k)}
<1>1. CASE T = {}
  BY <1>1
<1>2. CASE T # {}
  <2>1. PICK m \in T : \A k \in T : m <= k
    <3>. HIDE DEF T
    <3>1. T \in SUBSET Nat
      BY DEF T
    <3>2. QED
      BY <1>2, <3>1, SmallestNumber
  <2>2. m # 0
    <3>1. IsJoined([i \in 1 .. 0 |-> 0], s, 0)
      BY DEF IsJoined
    <3>2. QED
      BY <3>1
  <2>3. m - 1 \in Nat /\ m - 1 \notin T
    BY <2>1, <2>2
  <2>4. PICK f : IsJoined(f, s, m - 1)
    BY <2>3
  <2>. DEFINE g == [i \in 1 .. m |-> IF i < m THEN f[i]
                                     ELSE IF i = 1 THEN s[i] ELSE f[i - 1] \o s[i]]
  <2>5. ASSUME NEW i \in 1 .. m
        PROVE  g[i] = IF i = 1 THEN s[i] ELSE g[i - 1] \o s[i]
    <3>1. CASE i < m
      <4>1. i \in 1 .. m - 1 /\ g[i] = f[i] /\ (i # 1 => g[i - 1] = f[i - 1])
        BY <2>3, <3>1
      <4>2. \A j \in 1 .. m - 1 : f[j] = IF j = 1 THEN s[j] ELSE f[j - 1] \o s[j]
        BY <2>4 DEF IsJoined
      <4>. HIDE DEF g
      <4>3. QED
        BY <4>1, <4>2
    <3>2. CASE i = m
      BY <2>3, <3>2
    <3>3. QED
      BY <2>3, <3>1, <3>2
  <2>6. IsJoined(g, s, m)
    BY <2>5 DEF IsJoined
  <2>7. QED
    BY <2>1, <2>6
<1>3. QED
  BY <1>1, <1>2

LEMMA ConcatBegins ==
  ASSUME NEW K, NEW a \in Seq(K), NEW b \in Seq(K), a # <<>>
  PROVE  a \o b \in Seq(K) /\ a \o b # <<>> /\ (a \o b)[1] = a[1]
<1>1. Len(a) \in Nat \ {0} /\ Len(b) \in Nat
  BY EmptySeq, LenProperties
<1>2. 1 \in 1 .. Len(a) + Len(b) /\ 1 <= Len(a) /\ Len(a) + Len(b) # 0
  BY <1>1
<1>3. (a \o b)[1] = a[1]
  BY <1>2, ConcatProperties
<1>4. a \o b \in Seq(K) /\ Len(a \o b) # 0
  BY <1>2, ConcatProperties
<1>5. QED
  BY <1>3, <1>4, EmptySeq

(* Joining sequences over a set, none of them empty, gives one over it, that*)
(* begins with what the first begins with (FlattenSeq).                     *)
LEMMA FlattenBegins ==
  ASSUME NEW K, NEW s \in Seq(Seq(K)), s # <<>>, \A i \in DOMAIN s : s[i] # <<>>
  PROVE  /\ FlattenSeq(s) \in Seq(K) /\ FlattenSeq(s) # <<>>
         /\ FlattenSeq(s)[1] = s[1][1]
<1>. DEFINE n == Len(s)
            f == CHOOSE g : IsJoined(g, s, n)
            Fine(i) == f[i] \in Seq(K) /\ f[i] # <<>> /\ f[i][1] = s[1][1]
<1>1. n \in Nat \ {0} /\ DOMAIN s = 1 .. n
  BY EmptySeq, LenProperties
<1>2. IsJoined(f, s, n)
  BY <1>1, JoinedExists
<1>3. FlattenSeq(s) = f[n]
  BY <1>1 DEF FlattenSeq, IsJoined
<1>4. \A i \in 1 .. n : f[i] = IF i = 1 THEN s[i] ELSE f[i - 1] \o s[i]
  <2>. HIDE DEF f
  <2>1. QED
    BY <1>2 DEF IsJoined
<1>. HIDE DEF f
<1>5. Fine(n)
  <2>. DEFINE T == {k \in 1 .. n : ~Fine(k)}
  <2>. SUFFICES ASSUME T # {} PROVE FALSE
    BY <1>1
  <2>1. PICK m \in T : \A k \in T : m <= k
    <3>. HIDE DEF T
    <3>1. T \in SUBSET Nat
      BY <1>1 DEF T
    <3>2. QED
      BY <3>1, SmallestNumber
  <2>2. s[m] \in Seq(K) /\ s[m] # <<>>
    <3>1. m \in 1 .. n
      BY <2>1
    <3>2. m \in DOMAIN s
      BY <1>1, <3>1
    <3>. HIDE DEF n
    <3>3. QED
      BY <3>2, ElementOfSeq
  <2>3. CASE m = 1
    BY <1>1, <1>4, <2>1, <2>2, <2>3
  <2>4. CASE m # 1
    <3>1. m - 1 \in 1 .. n /\ m - 1 \notin T
      BY <1>1, <2>1, <2>4
    <3>2. Fine(m - 1)
      BY <3>1
    <3>3. f[m] = f[m - 1] \o s[m]
      BY <1>4, <2>1, <2>4
    <3>4. Fine(m)
      <4>1. /\ f[m - 1] \o s[m] \in Seq(K) /\ f[m - 1] \o s[m] # <<>>
            /\ (f[m - 1] \o s[m])[1] = f[m - 1][1]
        BY <2>2, <3>2, ConcatBegins
      <4>2. QED
        BY <3>2, <3>3, <4>1
    <3>5. QED
      BY <2>1, <3>4
  <2>5. QED
    BY <2>3, <2>4
<1>6. QED
  BY <1>3, <1>5

LEMMA ShortSequences ==
  ASSUME NEW K, NEW a \in K, NEW b \in K
  PROVE  /\ <<a>> \in Seq(K) /\ <<a>> # <<>> /\ <<a>>[1] = a
         /\ <<a, b>> \in Seq(K) /\ <<a, b>> # <<>> /\ <<a, b>>[1] = a
OBVIOUS

LEMMA KindsOfSteps ==
  /\ Steps \subseteq Kinds
  /\ {"MOUNT", "UNMOUNT", "ARCHIVE", "CLEANUP"} \subseteq Kinds
BY DEF Kinds

(* A batch is a queue of instructions that begins with one of a step, or,   *)
(* for a stage of no steps, with UNMOUNT (setup_stages).                    *)
LEMMA BatchBegins ==
  ASSUME NEW order, NEW stage \in Seq(Steps)
  PROVE  /\ Batch(order, stage) \in Seq(Kinds) /\ Batch(order, stage) # <<>>
         /\ Batch(order, stage)[1] \in Steps \cup {"UNMOUNT"}
<1>. DEFINE s == [i \in DOMAIN stage |-> Instructions(stage[i])]
            end == <<"UNMOUNT">>
            rest == IF stage = Last(order) THEN <<"ARCHIVE", "CLEANUP">> ELSE <<>>
            body == FlattenSeq(s)
<1>1. Batch(order, stage) = body \o end \o rest
  BY DEF Batch
<1>2. end \in Seq(Kinds) /\ end # <<>> /\ end[1] = "UNMOUNT" /\ rest \in Seq(Kinds)
  BY KindsOfSteps, ShortSequences, EmptySeq
<1>3. Len(stage) \in Nat /\ DOMAIN stage = 1 .. Len(stage)
  BY LenProperties
<1>4. /\ body \in Seq(Kinds)
      /\ body = <<>> \/ (body # <<>> /\ body[1] \in Steps)
  <2>1. CASE stage = <<>>
    <3>1. s = <<>> /\ Len(s) = 0
      BY <2>1
    <3>2. body = <<>>
      BY <3>1 DEF FlattenSeq
    <3>3. QED
      BY <3>2
  <2>2. CASE stage # <<>>
    <3>1. \A i \in DOMAIN stage : stage[i] \in Steps
      BY <1>3
    <3>2. \A step \in Steps :
            /\ Instructions(step) \in Seq(Kinds) /\ Instructions(step) # <<>>
            /\ Instructions(step)[1] = step
      BY KindsOfSteps, ShortSequences DEF Instructions
    <3>3. s \in Seq(Seq(Kinds)) /\ DOMAIN s = 1 .. Len(stage)
      <4>1. s \in [1 .. Len(stage) -> Seq(Kinds)]
        BY <1>3, <3>1, <3>2
      <4>2. QED
        BY <1>3, <4>1
    <3>4. \A i \in DOMAIN s : s[i] # <<>>
      BY <1>3, <3>1, <3>2, <3>3
    <3>5. 1 \in DOMAIN stage /\ s # <<>> /\ s[1][1] \in Steps
      <4>1. 1 \in 1 .. Len(stage)
        BY <1>3, <2>2, EmptySeq
      <4>2. DOMAIN s # {}
        BY <3>3, <4>1
      <4>3. s # <<>>
        BY <4>2, <3>3
      <4>4. QED
        BY <1>3, <3>1, <3>2, <4>1, <4>3
    <3>. HIDE DEF s
    <3>6. QED
      BY <3>3, <3>4, <3>5, FlattenBegins
  <2>3. QED
    BY <2>1, <2>2
<1>. HIDE DEF body, end, rest
<1>5. /\ body \o end \in Seq(Kinds) /\ body \o end # <<>>
      /\ (body \o end)[1] \in Steps \cup {"UNMOUNT"}
  <2>1. CASE body = <<>>
    BY <1>2, <2>1, ConcatEmptySeq
  <2>2. CASE body # <<>>
    BY <1>2, <1>4, <2>2, ConcatBegins
  <2>3. QED
    BY <2>1, <2>2
<1>6. QED
  BY <1>1, <1>2, <1>5, ConcatBegins

(* An order adds stages, each with what is to be built of it, and runs one, *)
(* if there is any (on_order_received, setup_stages, run_stages).           *)
LEMMA OrderKeeps ==
  ASSUME BuildInv, NEW order \in Orders, Order(order)
  PROVE  BuildInv'
<1>. RestTyped /\ QueuesFit /\ DepthFits /\ CurrentFits /\ UnbuiltFits /\ DeathFits
  BY DEF BuildInv
<1>. order \in Seq(Seq(Steps))
  BY OrdersAssumption
<1>1. \A i \in DOMAIN order : order[i] \in Seq(Steps)
  BY LenProperties
<1>2. /\ status = "up" /\ orders' = orders + 1 /\ orders' \in 1 .. MaxOrders /\ depth' = 0
      /\ UNCHANGED <<status, posted>>
  BY BuildAssumption DEF Order, RestTyped
<1>3. PICK ids \in [DOMAIN order -> Ids \ DOMAIN stages] :
        /\ IsInjective(ids)
        /\ stages' = WithStages(order, ids)
        /\ unbuilt' = unbuilt \cup
             UNION {{ids[i]} \X DOMAIN Batch(order, order[i]) : i \in DOMAIN ids}
  BY DEF Order
<1>. DEFINE added == {ids[i] : i \in DOMAIN ids}
<1>4. DOMAIN stages' = DOMAIN stages \cup added /\ added \subseteq Ids
  BY <1>3 DEF WithStages
<1>5. \A id \in DOMAIN stages : stages'[id] = stages[id]
  BY <1>3 DEF WithStages
<1>6. \A i \in DOMAIN ids :
        stages'[ids[i]] = [batch |-> Batch(order, order[i]), resolver |-> orders + 1]
  <2>. SUFFICES ASSUME NEW i \in DOMAIN ids
                PROVE  stages'[ids[i]] =
                         [batch |-> Batch(order, order[i]), resolver |-> orders + 1]
    OBVIOUS
  <2>1. (CHOOSE j \in DOMAIN ids : ids[j] = ids[i]) = i
    BY <1>3 DEF IsInjective
  <2>2. QED
    BY <1>3, <2>1 DEF WithStages, Resolver
<1>7. \A i \in DOMAIN ids :
        /\ stages'[ids[i]].batch \in Seq(Kinds) /\ stages'[ids[i]].batch # <<>>
        /\ stages'[ids[i]].batch[1] \in Steps \cup {"UNMOUNT"}
        /\ stages'[ids[i]].resolver = orders + 1
        /\ stages'[ids[i]].batch = Batch(order, order[i])
  <2>. SUFFICES ASSUME NEW i \in DOMAIN ids
                PROVE  /\ stages'[ids[i]].batch \in Seq(Kinds) /\ stages'[ids[i]].batch # <<>>
                       /\ stages'[ids[i]].batch[1] \in Steps \cup {"UNMOUNT"}
                       /\ stages'[ids[i]].resolver = orders + 1
                       /\ stages'[ids[i]].batch = Batch(order, order[i])
    OBVIOUS
  <2>1. order[i] \in Seq(Steps)
    BY <1>1, <1>3
  <2>2. /\ stages'[ids[i]].batch = Batch(order, order[i])
        /\ stages'[ids[i]].resolver = orders + 1
    <3>1. stages'[ids[i]] = [batch |-> Batch(order, order[i]), resolver |-> orders + 1]
      BY <1>6
    <3>2. QED
      BY <3>1
  <2>3. QED
    BY <2>1, <2>2, BatchBegins
<1>8. RestTyped' /\ CurrentFits'
  <2>1. CASE DOMAIN stages' = {}
    BY <1>2, <2>1 DEF Order, RestTyped, CurrentFits
  <2>2. CASE DOMAIN stages' # {}
    <3>1. DOMAIN stages' \in SUBSET Nat
      BY <1>4, BuildAssumption DEF QueuesFit
    <3>2. Min(DOMAIN stages') \in DOMAIN stages'
      BY <2>2, <3>1, MinIsOne
    <3>3. current' = Min(DOMAIN stages') /\ answer' = "waiting"
      BY <2>2 DEF Order
    <3>4. QED
      BY <1>2, <3>2, <3>3 DEF RestTyped, CurrentFits
  <2>3. QED
    BY <2>1, <2>2
<1>9. QueuesFit'
  <2>1. DOMAIN stages' \subseteq Ids
    BY <1>4 DEF QueuesFit
  <2>2. ASSUME NEW id \in DOMAIN stages'
        PROVE  /\ stages'[id].batch \in Seq(Kinds) /\ stages'[id].batch # <<>>
               /\ stages'[id].batch[1] \in Steps \cup {"UNMOUNT"}
               /\ stages'[id].resolver \in 1 .. orders'
    <3>1. CASE id \in DOMAIN stages
      BY <1>2, <1>5, <3>1 DEF QueuesFit, RestTyped
    <3>2. CASE id \in added
      BY <1>2, <1>7, <3>2 DEF RestTyped
    <3>3. QED
      BY <1>4, <3>1, <3>2
  <2>3. QED
    BY <2>1, <2>2 DEF QueuesFit
<1>10. UnbuiltFits'
  <2>1. ASSUME NEW id, NEW k, <<id, k>> \in unbuilt'
        PROVE  /\ id \in DOMAIN stages' /\ id \in Ids
               /\ k \in 1 .. Len(stages'[id].batch) /\ k \in Nat
    <3>1. CASE <<id, k>> \in unbuilt
      BY <1>4, <1>5, <3>1, LenProperties DEF UnbuiltFits, QueuesFit
    <3>2. CASE <<id, k>> \notin unbuilt
      <4>1. PICK i \in DOMAIN ids : id = ids[i] /\ k \in DOMAIN Batch(order, order[i])
        BY <1>3, <2>1, <3>2
      <4>2. stages'[id].batch \in Seq(Kinds) /\ k \in DOMAIN stages'[id].batch
        BY <1>7, <4>1
      <4>3. k \in 1 .. Len(stages'[id].batch) /\ k \in Nat
        BY <4>2, LenProperties
      <4>4. QED
        BY <1>4, <4>1, <4>3
    <3>3. QED
      BY <3>1, <3>2
  <2>2. unbuilt' \subseteq Ids \X Nat
    <3>1. \A u \in unbuilt' : u = <<u[1], u[2]>>
      BY <1>3 DEF UnbuiltFits
    <3>2. QED
      BY <2>1, <3>1
  <2>3. answer' = "complete" => DOMAIN stages' = {}
    BY DEF Order
  <2>4. QED
    BY <2>1, <2>2, <2>3 DEF UnbuiltFits
<1>11. DepthFits' /\ DeathFits'
  BY <1>2, BuildAssumption DEF DepthFits, DeathFits
<1>12. QED
  BY <1>8, <1>9, <1>10, <1>11 DEF BuildInv

(* What comes of the instruction that is executed (run_stage, and the       *)
(* execute() of each).                                                      *)
LEMMA FirstOutcomes ==
  ASSUME BuildInv, current # 0
  PROVE  LET stage == stages[current]
             outcomes == Outcomes(Head(stage.batch), stage.resolver # orders) IN
         /\ current \in DOMAIN stages /\ answer = "waiting"
         /\ stage.batch \in Seq(Kinds) /\ stage.batch # <<>>
         /\ "completes" \in outcomes =>
              depth < MaxFolders \/ "WORKDIR same" \in ToSet(stage.batch)
         /\ "dies" \in outcomes =>
              \/ stage.resolver # orders
              \/ ToSet(stage.batch) \cap ({"FROM"} \cup Odd) # {}
<1>. DEFINE stage == stages[current]
            outcomes == Outcomes(Head(stage.batch), stage.resolver # orders)
<1>1. current \in DOMAIN stages /\ answer = "waiting"
  BY DEF BuildInv, CurrentFits
<1>2. /\ stage.batch \in Seq(Kinds) /\ stage.batch # <<>>
      /\ stage.batch[1] \in Steps \cup {"UNMOUNT"}
  BY <1>1 DEF BuildInv, QueuesFit
<1>3. Head(stage.batch) = stage.batch[1] /\ stage.batch[1] \in ToSet(stage.batch)
  <2>1. 1 \in DOMAIN stage.batch
    BY <1>2, EmptySeq, LenProperties
  <2>2. QED
    BY <1>2, <2>1 DEF ToSet
<1>. PICK kind \in Steps \cup {"UNMOUNT"} : kind = Head(stage.batch)
  BY <1>2, <1>3
<1>4. "completes" \in outcomes => depth < MaxFolders \/ kind = "WORKDIR same"
  BY DEF Outcomes, Steps, Odd, FromOutcomes, CopyOutcomes, WorkDirOutcomes, MountOutcomes
<1>5. "dies" \in outcomes => stage.resolver # orders \/ kind \in {"FROM"} \cup Odd
  BY DEF Outcomes, Steps, Odd, FromOutcomes, CopyOutcomes, WorkDirOutcomes, MountOutcomes
<1>6. QED
  BY <1>1, <1>2, <1>3, <1>4, <1>5

(* An instruction that fails, that leads to nothing or that kills the       *)
(* daemon leaves the stages as they are (on_instruction_complete).          *)
LEMMA StaysBuilt ==
  ASSUME BuildInv, UNCHANGED <<stages, orders, depth, unbuilt>>,
         status' \in {"up", "dead"}, status' = status \/ status = "up", posted' \in BOOLEAN,
         posted => posted',
         answer' \in {"none", "waiting", "error", "complete"},
         answer' = answer \/ answer' # "complete",
         current' \in {0, current}, current' # 0 => answer' = answer,
         status' = "dead" =>
           \/ status = "dead" \/ orders > 1 \/ posted
           \/ \E id \in DOMAIN stages :
                ToSet(stages[id].batch) \cap ({"FROM", "WORKDIR same"} \cup Odd) # {}
  PROVE  BuildInv'
<1>. RestTyped /\ QueuesFit /\ DepthFits /\ CurrentFits /\ UnbuiltFits /\ DeathFits
  BY DEF BuildInv
<1>1. RestTyped'
  BY DEF RestTyped
<1>2. QueuesFit' /\ UnbuiltFits'
  BY DEF QueuesFit, UnbuiltFits
<1>3. DepthFits' /\ CurrentFits'
  BY DEF DepthFits, CurrentFits
<1>4. DeathFits'
  BY DEF DeathFits
<1>5. QED
  BY <1>1, <1>2, <1>3, <1>4 DEF BuildInv

(* An instruction that completes is built, and executed again (run_stage,   *)
(* which pops a copy of the queue).                                         *)
LEMMA CompletesKeeps ==
  ASSUME BuildInv, current # 0, status = "up", UNCHANGED orders,
         "completes" \in Outcomes(Head(stages[current].batch), stages[current].resolver # orders),
         Completes
  PROVE  BuildInv'
<1>. RestTyped /\ QueuesFit /\ DepthFits /\ CurrentFits /\ UnbuiltFits /\ DeathFits
  BY DEF BuildInv
<1>1. /\ current \in DOMAIN stages /\ answer = "waiting"
      /\ stages[current].batch \in Seq(Kinds) /\ stages[current].batch # <<>>
      /\ depth < MaxFolders \/ "WORKDIR same" \in ToSet(stages[current].batch)
  BY FirstOutcomes
<1>2. /\ unbuilt' = unbuilt \ {<<current, Len(stages[current].batch)>>}
      /\ UNCHANGED <<posted, answer, orders>>
  BY DEF Completes
<1>3. CASE Tail(stages[current].batch) # <<>>
  <2>1. /\ depth' = depth + 1 /\ UNCHANGED <<stages, current>>
        /\ status' = IF depth' > StackDepth THEN "dead" ELSE status
    BY <1>3 DEF Completes
  <2>2. RestTyped' /\ CurrentFits' /\ QueuesFit'
    BY <1>2, <2>1 DEF RestTyped, CurrentFits, QueuesFit
  <2>3. UnbuiltFits'
    BY <1>2, <2>1 DEF UnbuiltFits
  <2>4. DepthFits'
    BY <2>1, BuildAssumption DEF DepthFits
  <2>5. DeathFits'
    <3>1. status' = "dead" => ~(depth < MaxFolders)
      BY <2>1, BuildAssumption DEF DepthFits
    <3>2. QED
      BY <1>1, <1>2, <2>1, <3>1 DEF DeathFits
  <2>6. QED
    BY <2>2, <2>3, <2>4, <2>5 DEF BuildInv
<1>4. CASE Tail(stages[current].batch) = <<>>
  <2>1. /\ stages' = [id \in DOMAIN stages \ {current} |-> stages[id]]
        /\ current' = 0 /\ UNCHANGED <<status, depth>>
    BY <1>4 DEF Completes
  <2>2. Len(stages[current].batch) = 1
    <3>. PICK batch \in Seq(Kinds) : batch = stages[current].batch
      BY <1>1
    <3>1. batch # <<>> /\ Tail(batch) = <<>>
      BY <1>1, <1>4
    <3>2. PICK rest \in Seq(Kinds) : rest = Tail(batch)
      BY <3>1, HeadTailProperties
    <3>3. Len(rest) = 0
      BY <3>1, <3>2, EmptySeq
    <3>4. Len(rest) = Len(batch) - 1 /\ Len(batch) \in Nat
      BY <3>1, <3>2, HeadTailProperties, LenProperties
    <3>5. QED
      BY <3>3, <3>4
  <2>3. RestTyped' /\ CurrentFits' /\ QueuesFit' /\ DepthFits'
    BY <1>2, <2>1 DEF RestTyped, CurrentFits, QueuesFit, DepthFits
  <2>4. UnbuiltFits'
    <3>1. ASSUME NEW id \in Ids, NEW k \in Nat, <<id, k>> \in unbuilt'
          PROVE  id \in DOMAIN stages' /\ k \in 1 .. Len(stages'[id].batch)
      <4>1. id \in DOMAIN stages /\ k \in 1 .. Len(stages[id].batch)
        BY <1>2, <3>1 DEF UnbuiltFits
      <4>2. ASSUME id = current PROVE FALSE
        <5>. PICK n \in Nat : n = Len(stages[current].batch)
          BY <2>2
        <5>1. n = 1 /\ k \in 1 .. n
          BY <2>2, <4>1, <4>2
        <5>2. k = n
          BY <5>1
        <5>3. <<id, k>> = <<current, Len(stages[current].batch)>>
          BY <4>2, <5>2
        <5>4. QED
          BY <1>2, <3>1, <5>3
      <4>3. QED
        BY <2>1, <4>1, <4>2
    <3>2. QED
      BY <1>1, <1>2, <3>1 DEF UnbuiltFits
  <2>5. DeathFits'
    BY <2>1 DEF DeathFits
  <2>6. QED
    BY <2>3, <2>4, <2>5 DEF BuildInv
<1>5. QED
  BY <1>3, <1>4

LEMMA ExecuteKeeps ==
  ASSUME BuildInv, Execute
  PROVE  BuildInv'
<1>. RestTyped /\ QueuesFit /\ CurrentFits
  BY DEF BuildInv
<1>. DEFINE stage == stages[current]
            outcomes == Outcomes(Head(stage.batch), stage.resolver # orders)
<1>1. status = "up" /\ current # 0 /\ UNCHANGED orders
  BY DEF Execute
<1>2. /\ current \in DOMAIN stages /\ answer = "waiting"
      /\ "dies" \in outcomes =>
           \/ stage.resolver # orders
           \/ ToSet(stage.batch) \cap ({"FROM"} \cup Odd) # {}
  BY <1>1, FirstOutcomes
<1>3. CASE Fails
  <2>1. answer' = "error" /\ current' = 0 /\ UNCHANGED <<status, stages, depth, posted, unbuilt>>
    BY <1>2, <1>3 DEF Fails, AnswerOrder
  <2>2. QED
    BY <1>1, <2>1, StaysBuilt DEF RestTyped
<1>4. CASE "completes" \in outcomes /\ Completes
  BY <1>1, <1>4, CompletesKeeps
<1>5. CASE /\ current' = 0
           /\ posted' = (posted \/ "posts" \in outcomes)
           /\ UNCHANGED <<status, stages, depth, answer, unbuilt>>
  <2>1. posted' \in BOOLEAN /\ (posted => posted')
    BY <1>5 DEF RestTyped
  <2>2. QED
    BY <1>1, <1>5, <2>1, StaysBuilt DEF RestTyped
<1>6. CASE /\ "dies" \in outcomes /\ status' = "dead"
           /\ UNCHANGED <<stages, current, depth, posted, answer, unbuilt>>
  <2>1. \/ orders > 1
        \/ ToSet(stage.batch) \cap ({"FROM", "WORKDIR same"} \cup Odd) # {}
    <3>1. CASE stage.resolver # orders
      <4>1. stage.resolver \in 1 .. orders /\ orders \in 0 .. MaxOrders /\ MaxOrders \in Nat
        BY <1>2, BuildAssumption DEF RestTyped, QueuesFit
      <4>. PICK r \in Int : r = stage.resolver /\ 1 <= r /\ r <= orders
        BY <4>1
      <4>2. r # orders /\ orders \in Int
        BY <3>1, <4>1
      <4>3. orders > 1
        BY <4>2
      <4>4. QED
        BY <4>3
    <3>2. CASE ToSet(stage.batch) \cap ({"FROM"} \cup Odd) # {}
      BY <3>2
    <3>3. QED
      BY <1>2, <1>6, <3>1, <3>2
  <2>2. QED
    BY <1>1, <1>2, <1>6, <2>1, StaysBuilt DEF RestTyped
<1>7. QED
  BY <1>3, <1>4, <1>5, <1>6 DEF Execute

LEMMA BuildGoesOn ==
  ASSUME BuildInv, [BuildNext]_(buildvars)
  PROVE  BuildInv'
<1>1. ASSUME Posted PROVE BuildInv'
  BY <1>1, StaysBuilt DEF Posted, BuildInv, RestTyped
<1>2. ASSUME Leave PROVE BuildInv'
  <2>1. /\ stages' = <<>> /\ orders' = 0 /\ answer' = "none" /\ unbuilt' = {} /\ depth' = 0
        /\ status = "up" /\ current = 0 /\ UNCHANGED <<status, current, posted>>
    BY <1>2 DEF Leave
  <2>2. DOMAIN stages' = {}
    BY <2>1
  <2>3. QED
    BY <2>1, <2>2, BuildAssumption DEF BuildInv, RestTyped, QueuesFit, DepthFits,
       CurrentFits, UnbuiltFits, DeathFits
<1>3. ASSUME UNCHANGED buildvars PROVE BuildInv'
  BY <1>3 DEF buildvars, BuildInv, RestTyped, QueuesFit, DepthFits, CurrentFits,
     UnbuiltFits, DeathFits
<1>4. QED
  BY <1>1, <1>2, <1>3, OrderKeeps, ExecuteKeeps DEF BuildNext

(* Whatever is ordered of a build handler, and however its instructions     *)
(* end, its stages, its stack and its answers stay as BuildInv says.        *)
THEOREM BuildInvariant ==
  BuildSpec => []BuildInv
<1>1. BuildInit => BuildInv
  <2>. SUFFICES ASSUME BuildInit PROVE BuildInv
    OBVIOUS
  <2>1. DOMAIN stages = {}
    BY DEF BuildInit
  <2>2. posted \in BOOLEAN
    BY DEF BuildInit
  <2>3. QED
    BY <2>1, <2>2, BuildAssumption DEF BuildInit, BuildInv, RestTyped, QueuesFit,
       DepthFits, CurrentFits, UnbuiltFits, DeathFits
<1>2. BuildInv /\ [BuildNext]_(buildvars) => BuildInv'
  BY BuildGoesOn
<1>3. QED
  BY <1>1, <1>2, PTL DEF BuildSpec

(* A client is told "image build complete" only when every instruction it   *)
(* ever ordered over the connection has been executed to its end, and no    *)
(* order is answered twice (run_stages, on_instruction_complete).           *)
THEOREM CompletionIsTrue ==
  BuildSpec => []CompleteIsBuilt
<1>1. ASSUME BuildInv PROVE CompleteIsBuilt
  <2>. RestTyped /\ QueuesFit /\ DepthFits /\ CurrentFits /\ UnbuiltFits
    BY <1>1 DEF BuildInv
  <2>1. BuildTypeOK
    BY DEF BuildTypeOK, RestTyped, QueuesFit, DepthFits, CurrentFits, UnbuiltFits
  <2>2. answer = "complete" => unbuilt = {}
    <3>. SUFFICES ASSUME answer = "complete", NEW u \in unbuilt PROVE FALSE
      OBVIOUS
    <3>1. u \in Ids \X Nat
      BY DEF UnbuiltFits
    <3>2. u = <<u[1], u[2]>> /\ u[1] \in Ids /\ u[2] \in Nat
      BY <3>1
    <3>3. <<u[1], u[2]>> \in unbuilt
      BY <3>2
    <3>4. QED
      BY <3>2, <3>3 DEF UnbuiltFits
  <2>3. QED
    BY <2>1, <2>2 DEF CompleteIsBuilt
<1>2. QED
  BY <1>1, BuildInvariant, PTL

(* The first order of a connection, if it is one of COPY and of WORKDIR to  *)
(* folders inside each other, none with words that are odd, leaves the      *)
(* daemon alive, however deep its completions nest (run_stage).             *)
THEOREM PlainOrdersAreSurvived ==
  BuildSpec => []PlainOrderIsSurvived
<1>1. ASSUME BuildInv PROVE PlainOrderIsSurvived
  <2>1. status \in {"up", "dead"} /\ orders \in 0 .. MaxOrders /\ MaxOrders \in Nat
    BY <1>1, BuildAssumption DEF BuildInv, RestTyped
  <2>2. orders <= 1 => ~(orders > 1)
    BY <2>1
  <2>3. QED
    BY <1>1, <2>1, <2>2 DEF BuildInv, DeathFits, PlainOrderIsSurvived
<1>2. QED
  BY <1>1, BuildInvariant, PTL
=============================================================================
