---------------------------- MODULE ImageLibrary ----------------------------
(* The images a daemon has and the containers made of them: image_tb,       *)
(* container_tb and volume_tb with the folders beside them, through what a  *)
(* pull saves, an import, creation_handler, both removal handlers, failed   *)
(* calls and restarts.                                                      *)
(*                                                                          *)
(* Handlers run one at a time; a creation is taken in its stages because a  *)
(* crash may come between them.  Foreign keys are declared and, SQLite's    *)
(* default, not enforced; a query that fails looks like one that finds      *)
(* nothing, and a failed write of the containers' repository like one that  *)
(* was done.  There is one registry.                                        *)
EXTENDS Integers, FiniteSets

CONSTANTS
  Repositories,
  Tags,
  Identifiers,   \* digests of images
  VolumesOf,     \* how many volumes an image's configuration names
  Archives,      \* images that a client has an archive of
  Names,         \* of containers
  MaxSaves,      \* bound: image rows made
  MaxCreations   \* bound: creations ordered

ASSUME VolumesAssumption == VolumesOf \in [Identifiers -> Nat]
ASSUME ArchivesAssumption == Archives \subseteq Identifiers
ASSUME BoundsAssumption == {MaxSaves, MaxCreations} \subseteq Nat

VARIABLES
  image_tb,      \* rows: [id, repository, tag, identifier]
  saves,         \* the last id that was given to one
  configured,    \* images whose config.json is there
  container_tb,  \* rows: [identifier, name, image_id]
  volume_tb,     \* rows: [container, volume]
  folders,       \* containers that have one
  volumes,       \* folders of volumes: [container, volume]
  creating,      \* the creation under way: [stage, name, image, left]
  creations,     \* the last one ordered; its number is the container's
  answers,       \* creation -> [result, image]
  imported,      \* image -> how often an import wrote its config.json: 0, 1, more
  moved,         \* the connection's import handler has given its store away
  dead,          \* the daemon has died
  unwritten,     \* history: images whose config.json could not be written
  unseen,        \* history: image rows deleted over a query that failed
  amiss          \* history: creations of which a call failed behind the answer

images == <<image_tb, saves, configured>>
containers == <<container_tb, volume_tb, folders, volumes>>
creation == <<creating, creations, answers>>
imports == <<imported, moved>>
history == <<unwritten, unseen, amiss>>
vars == <<images, containers, creation, imports, dead, history>>

Creations == 1 .. MaxCreations
Idle == [stage |-> "none"]

Init ==
  /\ image_tb = {} /\ saves = 0 /\ configured = {}
  /\ container_tb = {} /\ volume_tb = {} /\ folders = {} /\ volumes = {}
  /\ creating = Idle /\ creations = 0
  /\ answers = [c \in {} |-> Idle]
  /\ imported = [i \in Archives |-> 0] /\ moved = FALSE
  /\ dead = FALSE
  /\ unwritten = {} /\ unseen = {} /\ amiss = {}

\* The io_context can take an order up.
Free == ~dead /\ creating = Idle

----------------------------------------------------------------------------
(* Images                                                                   *)

NextId == saves + 1

(* The end of a pull: the files, then save_image_details, whose failure is  *)
(* told.  The image had no row when the pull was ordered, and may have one  *)
(* by now: the table refuses another of the same version, which is not told *)
(* apart here, and takes another of a different one.                        *)
Pull(repository, tag, i) ==
  /\ Free
  /\ \/ configured' = configured \cup {i} /\ unwritten' = unwritten \ {i}
     \/ configured' = configured \ {i} /\ unwritten' = unwritten \cup {i}
  /\ \/ /\ saves < MaxSaves
        /\ image_tb' = image_tb \cup
             {[id |-> NextId, repository |-> repository, tag |-> tag, identifier |-> i]}
        /\ saves' = saves + 1
     \/ UNCHANGED <<image_tb, saves>>
  /\ UNCHANGED <<containers, creation, imports, dead, unseen, amiss>>

\* The rows a removal means: all of a repository, or of an identifier.
Meant(term) == {r \in image_tb : term \in {r.repository, r.identifier}}

\* Faulty variant (mutation check): asked by repository only.
HasContainersByRepository(term) ==
  \E c \in container_tb, r \in image_tb : r.repository = term /\ c.image_id = r.id

HasContainers(term) ==
  \E c \in container_tb : \E r \in Meant(term) : c.image_id = r.id

(* image_removal_handler, which bootstrap does not register: refused while  *)
(* the image has containers, as far as the query tells.  The files stay.  A *)
(* failed DELETE counts as done.                                            *)
RemoveImage(term) ==
  /\ Free
  /\ image_tb' = image_tb \ Meant(term)
  /\ \/ ~HasContainers(term) /\ UNCHANGED unseen
     \/ HasContainers(term) /\ unseen' = unseen \cup {r.id : r \in Meant(term)}
  /\ UNCHANGED <<saves, configured, containers, creation, imports, dead, unwritten,
                 amiss>>

\* extract_image_content opens files to append, in a folder outside sha256.
Written(i) == imported' = [imported EXCEPT ![i] = IF @ = 0 THEN 1 ELSE 2]

(* A config.json written twice is none: resolve_image_meta lets its parser  *)
(* throw.  Without a store persist_image_details follows a null pointer.    *)
Throws(i) == imported[i] > 0 \/ moved

(* import_handler: the order's store is the handler's own, moved away.  It  *)
(* stops at an archive that cannot be read, or dies of a config.json that   *)
(* was not written; it never makes a row, since the registry it is saved    *)
(* with is never known, and the answer is an error.                         *)
Import(i) ==
  /\ Free
  /\ moved' = TRUE
  /\ \/ UNCHANGED <<imported, dead>>
     \/ Written(i) /\ dead' = Throws(i)
     \/ dead' = TRUE /\ UNCHANGED imported
  /\ UNCHANGED <<images, containers, creation, history>>

\* Another connection, or another kind of order, makes a handler anew.
Reconnect ==
  /\ Free /\ moved
  /\ moved' = FALSE
  /\ UNCHANGED <<images, containers, creation, imported, dead, history>>

----------------------------------------------------------------------------
(* Creation                                                                 *)

\* Faulty variant (mutation check): only the identifier is compared.
ExistsByIdentifier(name) == \E c \in container_tb : c.identifier = name

Exists(name) == \E c \in container_tb : c.name = name

Answer(c, result, i) ==
  /\ creating' = Idle
  /\ answers' = [d \in DOMAIN answers \cup {c} |->
                   IF d = c THEN [result |-> result, image |-> i] ELSE answers[d]]

\* The container's folder goes, or cannot be removed; what else there is stays.
Fail(c, i) ==
  /\ Answer(c, "failed", i)
  /\ \/ folders' = folders \ {c} /\ UNCHANGED amiss
     \/ amiss' = amiss \cup {c} /\ UNCHANGED folders

(* initialize_creation, of an image that has a row.  Without its config.json*)
(* the parser throws, with the folder made.                                 *)
Create(name, row) ==
  /\ Free /\ creations < MaxCreations
  /\ creations' = creations + 1
  /\ LET c == creations + 1
         i == row.identifier
     IN
     \/ /\ Answer(c, "failed", i)
        /\ UNCHANGED <<folders, dead, amiss>>
     \/ /\ amiss' = IF Exists(name) THEN amiss \cup {c} ELSE amiss
        /\ folders' = folders \cup {c}
        /\ IF i \in configured
           THEN /\ creating' = [stage |-> "layers", name |-> name, image |-> i, left |-> 0]
                /\ UNCHANGED dead
           ELSE dead' = TRUE /\ UNCHANGED creating
        /\ UNCHANGED answers
  /\ UNCHANGED <<images, container_tb, volume_tb, volumes, imports, unwritten, unseen>>

\* copy_to_destination, of each layer, as far as its archive can be read.
Extracted == creating' = [creating EXCEPT !.stage = "register"]

ExtractLayers ==
  /\ ~dead /\ creating.stage = "layers"
  /\ \/ Extracted /\ UNCHANGED <<answers, folders, amiss>>
     \/ Fail(creations, creating.image)
  /\ UNCHANGED <<images, container_tb, volume_tb, volumes, creations, imports, dead,
                 unwritten, unseen>>

(* save: the container's row.  A name that is in use, and a write that      *)
(* fails, make no row and are no error.                                     *)
Saved(row) ==
  \/ /\ \A c \in container_tb : c.name # creating.name
     /\ container_tb' = container_tb \cup
          {[identifier |-> creations, name |-> creating.name, image_id |-> row.id]}
     /\ UNCHANGED amiss
  \/ /\ \E c \in container_tb : c.name = creating.name
     /\ UNCHANGED <<container_tb, amiss>>
  \/ amiss' = amiss \cup {creations} /\ UNCHANGED container_tb

\* fetch_image_details: the rows with an identifier, of whatever tag.
RowsOf(i) == {row \in image_tb : row.identifier = i}

(* register_container: fetch_image_details, then save, whose row refers to  *)
(* one of those with the image's identifier.                                *)
RegisterContainer ==
  /\ ~dead /\ creating.stage = "register"
  /\ \/ /\ \E row \in RowsOf(creating.image) : Saved(row)
        /\ creating' = [creating EXCEPT !.stage = "volumes", !.left = VolumesOf[creating.image]]
        /\ UNCHANGED <<answers, folders>>
     \/ Fail(creations, creating.image) /\ UNCHANGED container_tb
  /\ UNCHANGED <<images, volume_tb, volumes, creations, imports, dead, unwritten, unseen>>

(* add_entry: the volume's row, which needs the container's and is lost     *)
(* without an error.                                                        *)
Entered(v) ==
  LET hasRow == \E c \in container_tb : c.identifier = v.container IN
  \/ hasRow /\ volume_tb' = volume_tb \cup {v} /\ UNCHANGED amiss
  \/ ~hasRow /\ UNCHANGED <<volume_tb, amiss>>
  \/ amiss' = amiss \cup {v.container} /\ UNCHANGED volume_tb

\* create_volumes, one volume: its folder, then its row.
CreateVolume ==
  /\ ~dead /\ creating.stage = "volumes" /\ creating.left > 0
  /\ LET v == [container |-> creations, volume |-> creating.left] IN
     \/ /\ volumes' = volumes \cup {v}
        /\ Entered(v)
        /\ creating' = [creating EXCEPT !.left = @ - 1]
        /\ UNCHANGED <<answers, folders>>
     \/ Fail(creations, creating.image) /\ UNCHANGED <<volumes, volume_tb>>
  /\ UNCHANGED <<images, container_tb, creations, imports, dead, unwritten, unseen>>

\* All volumes are there: the client is sent the container's identifier.
Created ==
  /\ ~dead /\ creating.stage = "volumes" /\ creating.left = 0
  /\ Answer(creations, "done", creating.image)
  /\ UNCHANGED <<images, containers, creations, imports, dead, history>>

(* container_removal_handler, forced: the folder goes; the container's row  *)
(* stays, and so do its volumes.                                            *)
RemoveContainer(c) ==
  /\ Free /\ c.identifier \in folders
  /\ folders' = folders \ {c.identifier}
  /\ answers' = [d \in DOMAIN answers |->
                   IF d = c.identifier THEN [answers[d] EXCEPT !.result = "removed"]
                   ELSE answers[d]]
  /\ UNCHANGED <<images, container_tb, volume_tb, volumes, creating, creations, imports,
                 dead, history>>

\* The daemon dies and is started again, or is started after it has died.
Restart ==
  /\ dead' = FALSE /\ creating' = Idle /\ moved' = FALSE
  /\ UNCHANGED <<images, containers, creations, answers, imported, history>>

Next ==
  \/ \E repository \in Repositories, tag \in Tags, i \in Identifiers :
       Pull(repository, tag, i)
  \/ \E term \in Repositories \cup Identifiers : RemoveImage(term)
  \/ \E i \in Archives : Import(i)
  \/ Reconnect
  \/ \E name \in Names, row \in image_tb : Create(name, row)
  \/ ExtractLayers \/ RegisterContainer \/ CreateVolume \/ Created
  \/ \E c \in container_tb : RemoveContainer(c)
  \/ Restart

Spec == Init /\ [][Next]_vars

----------------------------------------------------------------------------

(* The tables keep their unique columns, and folders and answers are those  *)
(* of creations that were ordered.                                          *)
TypeOK ==
  /\ image_tb \subseteq [id : 1 .. saves, repository : Repositories, tag : Tags,
                         identifier : Identifiers]
  /\ \A r, s \in image_tb : r.id = s.id => r = s
  /\ container_tb \subseteq [identifier : 1 .. creations, name : Names, image_id : 1 .. saves]
  /\ \A c, d \in container_tb : c.identifier = d.identifier \/ c.name = d.name => c = d
  /\ DOMAIN answers \subseteq 1 .. creations /\ folders \subseteq 1 .. creations
  /\ creating = Idle \/ (creating.image \in Identifiers /\ creations \notin DOMAIN answers)
  /\ imported \in [Archives -> 0 .. 2] /\ moved \in BOOLEAN /\ dead \in BOOLEAN

(* Without foreign keys, and with files that no table knows of, what a row  *)
(* refers to is there: the configuration of an image, unless it could not be*)
(* written, so that no creation ends the daemon; the image of a container,  *)
(* unless it was removed over a query that failed; the container and the    *)
(* folder of a volume.                                                      *)
NothingDangles ==
  /\ TypeOK
  /\ \A r \in image_tb : r.identifier \in configured \cup unwritten
  /\ \A c \in container_tb :
       c.image_id \in unseen \/ \E r \in image_tb : r.id = c.image_id
  /\ \A v \in volume_tb :
       v \in volumes /\ \E c \in container_tb : c.identifier = v.container

(* What the client is told of a creation is what it left.  Unless a call    *)
(* failed behind the answer, a container whose identifier was sent has its  *)
(* row, its folder and all its volumes; one that has failed has no folder,  *)
(* and has a row, which keeps its name taken, only when a volume failed.    *)
CreationIsWhole ==
  \A c \in DOMAIN answers \ amiss :
    LET hasRow == \E r \in container_tb : r.identifier = c
        ready == {v \in volume_tb : v.container = c}
    IN
    /\ answers[c].result = "done" =>
         /\ hasRow /\ c \in folders
         /\ Cardinality(ready) = VolumesOf[answers[c].image]
    /\ answers[c].result = "failed" =>
         /\ c \notin folders
         /\ hasRow => Cardinality(ready) < VolumesOf[answers[c].image]
=============================================================================
