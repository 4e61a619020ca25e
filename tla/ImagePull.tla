----------------------------- MODULE ImagePull -----------------------------
(* core::oci::oci_client with its layer_download_tasks, as a                *)
(* domain::images::pull_handler uses it: the chain of requests that leads   *)
(* from a pull order to an image's layers, the downloads, one after the     *)
(* other in the order of start_sequence, and the image's row.               *)
(*                                                                          *)
(* One handler and one client serve the pulls of a connection.  A pull is   *)
(* ordered when no request is under way; overlapping requests, which share  *)
(* one callback in the HTTP client, are not modelled.  A std::map::at that  *)
(* finds nothing, a callback that was never set, and a parser that does not *)
(* understand its input throw through io_context::run: the daemon dies.     *)
(*                                                                          *)
(* What a download does byte by byte is FileTransfer's.  Here it is told    *)
(* complete, with the layer in its file or without (FileTransfer's damages),*)
(* it fails, with an end or without, or it ends and tells nobody.           *)
EXTENDS Integers, Sequences, FiniteSets

CONSTANTS
  Images,     \* digests
  Layers,     \* digests
  LayersOf,   \* an image's layers, in its manifest's order
  SizeOf,     \* a layer's size in bytes
  NoImage,
  MaxPulls    \* bound: pulls ordered

ASSUME LayersAssumption ==
  /\ LayersOf \in [Images -> Seq(Layers)]
  /\ SizeOf \in [Layers -> Nat \ {0}]
ASSUME PullsAssumption == MaxPulls \in Nat

VARIABLES
  request,        \* what the HTTP client waits for: [kind, image]
  sessions,       \* whether the registry has a session
  images,         \* images: digest -> whether its callback is set
  download_tasks, \* digest -> its layers that have a task
  start_sequence, \* pairs of an image and a layer
  resolve_queue,
  runs,           \* downloads in progress: how many of each pair
  files,          \* how often the layer went into each file of an image, by index
  saved,          \* images with a row
  pending,        \* images ordered and neither saved nor failed since
  silent,         \* history: ordered, and given up without an answer
  mixed,          \* history: a pull was ordered over what another had left
  renewed,        \* history: a download went on after it had failed
  damaged,        \* history: layers told complete, with something else in the file
  death,          \* what the daemon died of
  pulls

client == <<images, download_tasks, start_sequence, resolve_queue>>
answers == <<saved, pending, silent>>
history == <<mixed, renewed, damaged, pulls>>
vars == <<request, sessions, client, runs, files, answers, history, death>>

Pairs == Images \X Layers
Idle == [kind |-> "none", image |-> NoImage]
Asking(kind, i) == [kind |-> kind, image |-> i]
Alive == death = "none"

Init ==
  /\ request = Idle
  /\ sessions = FALSE
  /\ images = [i \in {} |-> FALSE]
  /\ download_tasks = [i \in {} |-> {}]
  /\ start_sequence = <<>> /\ resolve_queue = <<>>
  /\ runs = [p \in Pairs |-> 0]
  /\ files = [i \in Images |-> [k \in DOMAIN LayersOf[i] |-> 0]]
  /\ saved = {} /\ pending = {} /\ silent = {}
  /\ mixed = FALSE /\ renewed = FALSE /\ damaged = {}
  /\ death = "none"
  /\ pulls = 0

----------------------------------------------------------------------------
With(f, x, value) == [y \in DOMAIN f \cup {x} |-> IF y = x THEN value ELSE f[y]]
Without(f, x) == [y \in DOMAIN f \ {x} |-> f[y]]

\* Every progress update that is an error goes to the client as an answer.
Failed(i) == pending' = pending \ {i} /\ UNCHANGED <<saved, silent>>

\* Nothing more happens, and the client is not told.
Dropped(i) == silent' = silent \cup (pending \cap {i}) /\ UNCHANGED <<saved, pending>>

Dies(reason) ==
  /\ death' = reason
  /\ UNCHANGED <<request, sessions, client, runs, files, answers, history>>

\* download_tasks.at(p[1]).at(p[2])
HasTask(p) == p[1] \in DOMAIN download_tasks /\ p[2] \in download_tasks[p[1]]

\* The files that the task of a pair writes: the one of the layer's first index.
IndexOf(p) ==
  CHOOSE k \in DOMAIN LayersOf[p[1]] :
    /\ LayersOf[p[1]][k] = p[2]
    /\ \A j \in DOMAIN LayersOf[p[1]] : LayersOf[p[1]][j] = p[2] => k <= j

----------------------------------------------------------------------------
(* The requests before the layers                                           *)

\* pull_handler::on_order_received, of an image that has no row.
Order(i) ==
  /\ Alive /\ request = Idle
  /\ pulls < MaxPulls /\ i \notin saved
  /\ pulls' = pulls + 1
  /\ pending' = pending \cup {i} /\ silent' = silent \ {i}
  /\ mixed' = \/ mixed \/ start_sequence # <<>>
              \/ \E k \in DOMAIN files[i] : files[i][k] > 0
              \/ \E l \in Layers : <<i, l>> \in damaged
  /\ request' = Asking("authorization", i)
  /\ UNCHANGED <<sessions, client, runs, files, saved, renewed, damaged, death>>

(* authorize: an error, a token, or an answer without one, after which      *)
(* nothing happens; a status that is not ok counts as no error, and the     *)
(* image is fetched with the session there is, or is an error without one.  *)
Authorized(i) ==
  /\ Alive /\ request = Asking("authorization", i)
  /\ \/ /\ request' = Idle
        /\ Failed(i) \/ Dropped(i)
        /\ UNCHANGED sessions
     \/ /\ request' = Asking("manifest", i)
        /\ sessions' = TRUE
        /\ UNCHANGED answers
     \/ IF sessions
        THEN request' = Asking("manifest", i) /\ UNCHANGED <<sessions, answers>>
        ELSE request' = Idle /\ Failed(i) /\ UNCHANGED sessions
  /\ UNCHANGED <<client, runs, files, history, death>>

(* fetch_manifest: an error, or an index without this platform; a status    *)
(* that is not ok, or a payload that is neither, ends it silently; an index *)
(* leads to another manifest; the image's manifest to its configuration.    *)
ManifestFetched(i) ==
  /\ Alive /\ request = Asking("manifest", i)
  /\ \/ /\ request' = Idle
        /\ Failed(i) \/ Dropped(i)
        /\ UNCHANGED images
     \/ UNCHANGED <<request, images, answers>>
     \/ /\ request' = Asking("configuration", i)
        /\ images' = IF i \in DOMAIN images THEN images ELSE With(images, i, FALSE)
        /\ UNCHANGED answers
  /\ UNCHANGED <<sessions, download_tasks, start_sequence, resolve_queue, runs, files,
                 history, death>>

(* A payload that is not JSON, or has not the fields that are asked for,    *)
(* throws (authorize, fetch_manifest, add_configuration).                   *)
PayloadThrows(i) ==
  /\ Alive
  /\ request \in {Asking(kind, i) : kind \in {"authorization", "manifest", "configuration"}}
  /\ Dies("not understood")

\* The layers of an image, paired with it.
PairsOf(i) == [k \in DOMAIN LayersOf[i] |-> <<i, LayersOf[i][k]>>]

Tasks(i) == IF i \in DOMAIN download_tasks THEN download_tasks[i] ELSE {}

(* fetch_configuration fails: a TLS error, or a status that is not ok, ends *)
(* it silently.                                                             *)
ConfigurationFails(i) ==
  /\ Alive /\ request = Asking("configuration", i)
  /\ request' = Idle
  /\ Failed(i) \/ Dropped(i)
  /\ UNCHANGED <<sessions, client, runs, files, history, death>>

(* add_configuration and fetch_layers: the callback is set, and every layer *)
(* gets a task and a place in both queues; without its directory the image  *)
(* gets none, and an answer.  An image without layers is never heard of     *)
(* again.                                                                   *)
ConfigurationFetched(i) ==
  /\ Alive /\ request = Asking("configuration", i)
  /\ i \in DOMAIN images
  /\ images' = With(images, i, TRUE)
  /\ \/ /\ request' = Idle
        /\ download_tasks' = With(download_tasks, i, Tasks(i))
        /\ Failed(i)
        /\ UNCHANGED <<start_sequence, resolve_queue>>
     \/ /\ LayersOf[i] # <<>>
        /\ request' = Asking("resolution", i)
        /\ download_tasks' = With(download_tasks, i,
             Tasks(i) \cup {LayersOf[i][k] : k \in DOMAIN LayersOf[i]})
        /\ start_sequence' = start_sequence \o PairsOf(i)
        /\ resolve_queue' = resolve_queue \o PairsOf(i)
        /\ UNCHANGED answers
     \/ /\ LayersOf[i] = <<>>
        /\ request' = Idle
        /\ download_tasks' = With(download_tasks, i, Tasks(i))
        /\ Dropped(i)
        /\ UNCHANGED <<start_sequence, resolve_queue>>
  /\ UNCHANGED <<sessions, runs, files, history, death>>

\* A failed download of an earlier pull has erased the image meanwhile.
ConfigurationUnknown(i) ==
  /\ Alive /\ request = Asking("configuration", i)
  /\ i \notin DOMAIN images
  /\ Dies("image unknown")

(* add_configuration calls the callback that it has moved into the image.   *)
(* Whether a std::function that was moved from is empty, and throws, is not *)
(* specified: with the common libraries it is.                              *)
CallbackMoved(i) ==
  /\ Alive /\ request = Asking("configuration", i)
  /\ i \in DOMAIN images
  /\ Dies("callback moved")

\* resolve_layer, with layers left to resolve after this one.
Resolved(i) ==
  /\ Alive /\ request = Asking("resolution", i)
  /\ Len(resolve_queue) > 1
  /\ resolve_queue' = Tail(resolve_queue)
  /\ UNCHANGED <<request, sessions, images, download_tasks, start_sequence, runs, files,
                 answers, history, death>>

\* The last layer is resolved: what is first in the sequence is started.
AllResolved(i) ==
  /\ Alive /\ request = Asking("resolution", i)
  /\ Len(resolve_queue) = 1
  /\ IF start_sequence # <<>> /\ ~HasTask(Head(start_sequence))
     THEN Dies("task unknown")
     ELSE /\ request' = Idle
          /\ resolve_queue' = <<>>
          /\ runs' = IF start_sequence = <<>> THEN runs
                     ELSE [runs EXCEPT ![Head(start_sequence)] = @ + 1]
          /\ UNCHANGED <<sessions, images, download_tasks, start_sequence, files, answers,
                         history, death>>

\* A redirection of a layer whose task is gone, while others are resolved.
RedirectedUnknown(i) ==
  /\ Alive /\ request = Asking("resolution", i)
  /\ ~HasTask(Head(resolve_queue))
  /\ Dies("task unknown")

----------------------------------------------------------------------------
(* The downloads                                                            *)

\* update_details counts bytes in 16 bits.
Total16(p) == SizeOf[p[2]] % 65536

(* on_download_update of a download in progress whose image is still there  *)
(* divides by the layer's size.                                             *)
Updated(p) ==
  /\ Alive /\ runs[p] > 0
  /\ p[1] \in DOMAIN images
  /\ IF Total16(p) = 0 THEN Dies("divided by zero")
     ELSE IF ~images[p[1]] THEN Dies("no callback")
     ELSE UNCHANGED vars

(* The client tells the task that the file is there.  It may not be: it     *)
(* ended early, was begun again over itself, was appended to what an        *)
(* earlier daemon had left, or a write failed, which nobody looks at.       *)
FileWritten(p) ==
  \/ files' = [files EXCEPT ![p[1]][IndexOf(p)] = @ + 1] /\ UNCHANGED damaged
  \/ damaged' = damaged \cup {p} /\ UNCHANGED files

\* save_image_details, and the answer; a row that is not written is an error.
Saved(i) ==
  /\ pending' = pending \ {i}
  /\ saved' \in {saved, saved \cup {i}}
  /\ UNCHANGED silent

\* Faulty variants (mutation check): all that is left is started; nothing is.
StartedAll(left) ==
  [p \in Pairs |-> IF \E k \in DOMAIN left : left[k] = p THEN 1 ELSE 0]
StartedNone(left) == [p \in Pairs |-> 0]

\* The one that is first is started.
Started(left) ==
  [p \in Pairs |-> IF left # <<>> /\ p = Head(left) THEN 1 ELSE 0]

\* Faulty variant (mutation check): the last one is not waited for.
FinishedEarly(left) == Len(left) <= 1

Finished(left) == left = <<>>

\* Faulty variant (mutation check): the tasks go with the first that ends.
TasksAfterFirst(i, left) == Without(download_tasks, i)

TasksAfter(i, left) ==
  IF Finished(left) THEN Without(download_tasks, i) ELSE download_tasks

(* on_download_complete: whatever is first leaves the sequence; what is     *)
(* first then is started, and when there is nothing left this image is      *)
(* complete.  To take from an empty sequence is undefined: nothing happens  *)
(* or the daemon dies.                                                      *)
DownloadComplete(p) ==
  /\ Alive /\ runs[p] > 0
  /\ LET i == p[1]
         known == i \in DOMAIN images /\ i \in DOMAIN download_tasks
         left == IF start_sequence = <<>> THEN <<>> ELSE Tail(start_sequence)
         nextKnown == left # <<>> => HasTask(Head(left))
     IN
     \/ start_sequence = <<>> /\ Dies("sequence empty")
     \/ ~known /\ Dies("image unknown")
     \/ known /\ ~nextKnown /\ Dies("task unknown")
     \/ known /\ nextKnown /\ ~images[i] /\ Dies("no callback")
     \/ /\ known /\ nextKnown /\ images[i]
        /\ FileWritten(p)
        /\ start_sequence' = left
        /\ runs' = [q \in Pairs |->
             runs[q] + Started(left)[q] - (IF q = p THEN 1 ELSE 0)]
        /\ download_tasks' = TasksAfter(i, left)
        /\ IF Finished(left) THEN Saved(i) ELSE UNCHANGED answers
        /\ UNCHANGED <<request, sessions, images, resolve_queue, mixed, renewed, pulls, death>>

(* on_download_failure: the image goes, with an answer, and the layer's     *)
(* file.  Its tasks stay, as what is erased is a copy of them, unless there *)
(* are none; so does the sequence.  A file that cannot be removed is a      *)
(* failure, without end.  The download itself may go on (see FileTransfer). *)
DownloadFails(p, goesOn) ==
  /\ Alive /\ runs[p] > 0
  /\ LET i == p[1] IN
     \/ i \in DOMAIN images /\ ~images[i] /\ Dies("no callback")
     \/ i \notin DOMAIN download_tasks /\ Dies("image unknown")
     \/ HasTask(p) /\ Dies("recursion")
     \/ /\ i \in DOMAIN images => images[i]
        /\ i \in DOMAIN download_tasks
        /\ images' = Without(images, i)
        /\ IF i \in DOMAIN images THEN Failed(i) ELSE UNCHANGED answers
        /\ files' = IF HasTask(p) THEN [files EXCEPT ![i][IndexOf(p)] = 0] ELSE files
        /\ damaged' = IF HasTask(p) THEN damaged \ {p} ELSE damaged
        /\ download_tasks' = IF download_tasks[i] \subseteq {p[2]}
                             THEN Without(download_tasks, i) ELSE download_tasks
        /\ runs' = IF goesOn THEN runs ELSE [runs EXCEPT ![p] = @ - 1]
        /\ renewed' = (renewed \/ goesOn)
        /\ UNCHANGED <<request, sessions, start_sequence, resolve_queue, mixed, pulls, death>>

(* A download ends where the client tells nobody: its answer is neither a   *)
(* redirection nor a range, or the TLS stream is lost while a range is      *)
(* waited for.  The image, its tasks and the sequence stay as they are.     *)
DownloadEndsSilently(p) ==
  /\ Alive /\ runs[p] > 0
  /\ runs' = [runs EXCEPT ![p] = @ - 1]
  /\ Dropped(p[1])
  /\ UNCHANGED <<request, sessions, client, files, history, death>>

(* A range that is not made of numbers, or none where one must be, and a    *)
(* folder that may not be touched throw (on_server_response, is_valid).     *)
DownloadThrows(p) == Alive /\ runs[p] > 0 /\ Dies("not understood")

Next ==
  \/ \E i \in Images :
       \/ Order(i) \/ Authorized(i) \/ ManifestFetched(i)
       \/ ConfigurationFails(i) \/ ConfigurationFetched(i)
       \/ ConfigurationUnknown(i) \/ CallbackMoved(i) \/ PayloadThrows(i)
       \/ Resolved(i) \/ AllResolved(i) \/ RedirectedUnknown(i)
  \/ \E p \in Pairs :
       \/ Updated(p) \/ DownloadComplete(p) \/ \E goesOn \in BOOLEAN : DownloadFails(p, goesOn)
       \/ DownloadEndsSilently(p) \/ DownloadThrows(p)

Spec == Init /\ [][Next]_vars

----------------------------------------------------------------------------

(* Digests are known ones, tasks are of the image's own layers, and what is *)
(* saved is not waited for.                                                 *)
TypeOK ==
  /\ request \in [kind : {"none", "authorization", "manifest", "configuration", "resolution"},
                  image : Images \cup {NoImage}]
  /\ sessions \in BOOLEAN
  /\ images \in [DOMAIN images -> BOOLEAN] /\ DOMAIN images \subseteq Images
  /\ DOMAIN download_tasks \subseteq Images
  /\ \A i \in DOMAIN download_tasks :
       download_tasks[i] \subseteq {LayersOf[i][k] : k \in DOMAIN LayersOf[i]}
  /\ start_sequence \in Seq(Pairs) /\ resolve_queue \in Seq(Pairs)
  /\ runs \in [Pairs -> Nat]
  /\ \A i \in Images : files[i] \in [DOMAIN LayersOf[i] -> Nat]
  /\ saved \cup pending \cup silent \subseteq Images
  /\ saved \cap pending = {}
  /\ mixed \in BOOLEAN /\ renewed \in BOOLEAN /\ damaged \subseteq Pairs
  /\ death \in {"none", "divided by zero", "image unknown", "task unknown",
                "sequence empty", "no callback", "callback moved", "recursion", "not understood"}
  /\ pulls \in 0 .. MaxPulls

(* An image that has a row has all its layers, each in its file, once - or  *)
(* was told of that layer that it was complete, with something else in the  *)
(* file (damaged, layer by layer) - if its layers are different ones, no    *)
(* download went on after a failure and no pull was ordered over the        *)
(* sequence or the files of another.                                        *)
SavedIsWhole ==
  TypeOK /\
  (~mixed /\ ~renewed =>
    \A i \in saved :
      (\A j, k \in DOMAIN LayersOf[i] : j # k => LayersOf[i][j] # LayersOf[i][k])
      => \A k \in DOMAIN LayersOf[i] :
           files[i][k] = 1 \/ <<i, LayersOf[i][k]>> \in damaged)

(* A pull that has no answer is still being worked on - a request is under  *)
(* way for it, or a download of one of its layers, which runs and has not   *)
(* ended - or it was given up in one of the places that tell nobody: an     *)
(* answer without a token, another payload, an image without layers, a      *)
(* download that ended silently.  (Unless it was ordered over another.)     *)
NotForgotten ==
  Alive /\ ~mixed =>
    \A i \in pending \ silent :
      request.image = i \/ \E l \in Layers : runs[<<i, l>>] > 0

(* The layers of an image are downloaded one at a time, in the order of the *)
(* sequence: what runs is the first, and nothing else does.                 *)
OneAtATime ==
  ~mixed /\ ~renewed =>
    \A p \in Pairs : runs[p] > 0 =>
      /\ runs[p] = 1 /\ start_sequence # <<>> /\ Head(start_sequence) = p
      /\ \A q \in Pairs \ {p} : runs[q] = 0

(* No lookup of an image or of a task, and no step of the sequence, fails,  *)
(* unless a pull was ordered over what another had left or a download went  *)
(* on after a failure.                                                      *)
LookupsSucceed ==
  death \in {"image unknown", "task unknown", "sequence empty", "no callback"} =>
    mixed \/ renewed
=============================================================================
