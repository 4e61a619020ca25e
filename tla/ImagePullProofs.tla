-------------------------- MODULE ImagePullProofs --------------------------
(* The proofs about ImagePull.  Each exempts what a pull that was ordered   *)
(* over another's remains does.  As long as there was none, a pull is in    *)
(* one of four phases: the layers are not known yet, they are resolved,     *)
(* they are downloaded, or the pull was given up over a layer, after which  *)
(* the sequence is never empty again and every order would be over it.      *)
EXTENDS ImagePull, SequenceTheorems, TLAPS

\* The layers of an image.
LayersIn(i) == {LayersOf[i][k] : k \in DOMAIN LayersOf[i]}

\* They are different ones.
Distinct(i) ==
  \A j, k \in DOMAIN LayersOf[i] : j # k => LayersOf[i][j] # LayersOf[i][k]

\* The sequence is what follows the first m layers of an image.
LeftAfter(i, m) ==
  /\ Len(start_sequence) = Len(LayersOf[i]) - m
  /\ \A k \in 1 .. Len(start_sequence) : start_sequence[k] = <<i, LayersOf[i][m + k]>>

(* Of an image's files those of its first m layers have their layer, once,  *)
(* or were told complete without; the others are as they were.              *)
WrittenUpTo(i, m) ==
  \A k \in DOMAIN LayersOf[i] :
    IF k <= m THEN files[i][k] = 1 \/ <<i, LayersOf[i][k]>> \in damaged
              ELSE files[i][k] = 0

NothingRuns == \A p \in Pairs : runs[p] = 0

\* The image has its callback, and every layer of it a task.
Ready(i) ==
  /\ i \in DOMAIN images /\ images[i] = TRUE
  /\ i \in DOMAIN download_tasks /\ download_tasks[i] = LayersIn(i)

Waiting == pending \ silent

(* The layers are not known yet: there is no request, or the chain has not  *)
(* come to the layers of its image, whose files are as they were.           *)
Quiet ==
  /\ request.kind # "resolution"
  /\ start_sequence = <<>> /\ resolve_queue = <<>> /\ NothingRuns
  /\ request = Idle => Waiting = {}
  /\ request # Idle =>
       /\ request.image \in Images \ saved
       /\ Waiting \subseteq {request.image}
       /\ WrittenUpTo(request.image, 0)
  /\ request.kind = "configuration" => request.image \in DOMAIN images

\* The layers of an image are being resolved, and nothing is started.
Resolving ==
  \E i \in Images \ saved :
    /\ request = Asking("resolution", i)
    /\ Ready(i) /\ LeftAfter(i, 0) /\ LayersOf[i] # <<>>
    /\ resolve_queue # <<>>
    /\ \A k \in DOMAIN resolve_queue : resolve_queue[k] \in {i} \X LayersIn(i)
    /\ NothingRuns
    /\ WrittenUpTo(i, 0)
    /\ Waiting \subseteq {i}

\* The first m layers of an image are there, and the next one is downloaded.
DownloadingAt(i, m) ==
  /\ request = Idle
  /\ m < Len(LayersOf[i])
  /\ Ready(i) /\ LeftAfter(i, m)
  /\ resolve_queue = <<>>
  /\ \A p \in Pairs : runs[p] = IF p = <<i, LayersOf[i][m + 1]>> THEN 1 ELSE 0
  /\ Distinct(i) => WrittenUpTo(i, m)
  /\ Waiting \subseteq {i}

Downloading == \E i \in Images \ saved : \E m \in Nat : DownloadingAt(i, m)

(* A download failed: its image is gone, and what still runs is of no image *)
(* that is known.                                                           *)
GivenUp ==
  /\ request = Idle
  /\ start_sequence # <<>>
  /\ \A p \in Pairs : runs[p] > 0 => renewed /\ p[1] \notin DOMAIN images
  /\ Waiting = {}

InPhase == Quiet \/ Resolving \/ Downloading \/ GivenUp

\* The inductive invariant.
PullInv ==
  /\ SavedIsWhole
  /\ DOMAIN files = Images
  /\ LookupsSucceed
  /\ ~mixed => InPhase

\* The parts of TypeOK, with what it leaves out.
RequestType ==
  request \in [kind : {"none", "authorization", "manifest", "configuration", "resolution"},
               image : Images \cup {NoImage}]
ImagesType == images \in [DOMAIN images -> BOOLEAN] /\ DOMAIN images \subseteq Images
TasksType ==
  /\ DOMAIN download_tasks \subseteq Images
  /\ \A i \in DOMAIN download_tasks : download_tasks[i] \subseteq LayersIn(i)
QueuesType == start_sequence \in Seq(Pairs) /\ resolve_queue \in Seq(Pairs)
RunsType == runs \in [Pairs -> Nat]
FilesType ==
  /\ DOMAIN files = Images /\ \A i \in Images : files[i] \in [DOMAIN LayersOf[i] -> Nat]
  /\ damaged \subseteq Pairs
AnswersType == saved \cup pending \cup silent \subseteq Images /\ saved \cap pending = {}
FlagsType == sessions \in BOOLEAN /\ mixed \in BOOLEAN /\ renewed \in BOOLEAN
DeathType ==
  death \in {"none", "divided by zero", "image unknown", "task unknown",
             "sequence empty", "no callback", "callback moved", "recursion",
             "not understood"}
PullsType == pulls \in 0 .. MaxPulls
PullTypes ==
  /\ RequestType /\ ImagesType /\ TasksType /\ QueuesType /\ RunsType
  /\ FilesType /\ AnswersType /\ FlagsType /\ DeathType /\ PullsType

----------------------------------------------------------------------------
(* The types                                                                *)

(* Pairs, and what an image's layers are as a sequence of them              *)
(* (fetch_layers).                                                          *)
LEMMA PairsOfLayers ==
  ASSUME NEW i \in Images
  PROVE  /\ Len(LayersOf[i]) \in Nat /\ DOMAIN LayersOf[i] = 1 .. Len(LayersOf[i])
         /\ PairsOf(i) \in Seq(Pairs) /\ Len(PairsOf(i)) = Len(LayersOf[i])
         /\ \A k \in DOMAIN LayersOf[i] : PairsOf(i)[k] = <<i, LayersOf[i][k]>>
         /\ \A k \in DOMAIN LayersOf[i] : LayersOf[i][k] \in LayersIn(i)
         /\ LayersIn(i) \subseteq Layers
  <1> DEFINE n == Len(LayersOf[i])
  <1>1. LayersOf[i] \in Seq(Layers)
    BY LayersAssumption
  <1>2. n \in Nat /\ LayersOf[i] \in [1 .. n -> Layers] /\ DOMAIN LayersOf[i] = 1 .. n
    BY <1>1, LenProperties
  <1>3. PairsOf(i) \in [1 .. n -> Pairs]
    BY <1>2 DEF PairsOf, Pairs
  <1>4. PairsOf(i) \in Seq(Pairs) /\ Len(PairsOf(i)) = n
    BY <1>2, <1>3
  <1>5. QED
    BY <1>2, <1>4 DEF PairsOf, LayersIn

(* TypeOK is these parts.                                                   *)
LEMMA TypesInParts ==
  /\ PullTypes <=> TypeOK /\ DOMAIN files = Images
  /\ PullTypes' <=> TypeOK' /\ DOMAIN files' = Images
  BY DEF PullTypes, RequestType, ImagesType, TasksType, QueuesType, RunsType, FilesType,
         AnswersType, FlagsType, DeathType, PullsType, TypeOK, LayersIn

(* An answer, or none, leaves saved what is not waited for (on_order_received). *)
LEMMA AnswersTyped ==
  ASSUME AnswersType, NEW i \in Images,
         Failed(i) \/ Dropped(i) \/ Saved(i) \/ UNCHANGED answers
  PROVE  AnswersType'
  BY DEF AnswersType, Failed, Dropped, Saved, answers

(* What a download that completes does, unless the daemon dies of it        *)
(* (on_download_complete).                                                  *)
Left == IF start_sequence = <<>> THEN <<>> ELSE Tail(start_sequence)

Completed(p) ==
  /\ Alive /\ runs[p] > 0
  /\ p[1] \in DOMAIN images /\ p[1] \in DOMAIN download_tasks
  /\ FileWritten(p)
  /\ start_sequence' = Left
  /\ runs' = [q \in Pairs |->
       runs[q] + Started(Left)[q] - (IF q = p THEN 1 ELSE 0)]
  /\ download_tasks' = TasksAfter(p[1], Left)
  /\ IF Finished(Left) THEN Saved(p[1]) ELSE UNCHANGED answers
  /\ UNCHANGED <<request, sessions, images, resolve_queue, mixed, renewed, pulls, death>>

\* What a download that fails does, unless the daemon dies of it (on_download_failure).
FailedCleanly(p, goesOn) ==
  /\ Alive /\ runs[p] > 0
  /\ p[1] \in DOMAIN download_tasks
  /\ images' = Without(images, p[1])
  /\ IF p[1] \in DOMAIN images THEN Failed(p[1]) ELSE UNCHANGED answers
  /\ files' = IF HasTask(p) THEN [files EXCEPT ![p[1]][IndexOf(p)] = 0] ELSE files
  /\ damaged' = IF HasTask(p) THEN damaged \ {p} ELSE damaged
  /\ download_tasks' = IF download_tasks[p[1]] \subseteq {p[2]}
                       THEN Without(download_tasks, p[1]) ELSE download_tasks
  /\ runs' = IF goesOn THEN runs ELSE [runs EXCEPT ![p] = @ - 1]
  /\ renewed' = (renewed \/ goesOn)
  /\ UNCHANGED <<request, sessions, start_sequence, resolve_queue, mixed, pulls, death>>

\* What the daemon dies of when a lookup does not find what it asks for.
Lookups == {"image unknown", "task unknown", "sequence empty", "no callback"}

\* Why it dies when a download completes, and when one fails.
CompletionFails(p) ==
  \/ start_sequence = <<>>
  \/ ~(p[1] \in DOMAIN images /\ p[1] \in DOMAIN download_tasks)
  \/ Left # <<>> /\ ~HasTask(Head(Left))
  \/ ~images[p[1]]
FailureFails(p) ==
  (p[1] \in DOMAIN images /\ ~images[p[1]]) \/ p[1] \notin DOMAIN download_tasks

(* A download that completes is taken off the sequence, or a lookup ends    *)
(* the daemon (on_download_complete).                                       *)
LEMMA CompletesOrDies ==
  ASSUME NEW p \in Pairs, DownloadComplete(p)
  PROVE  \/ Completed(p)
         \/ /\ CompletionFails(p)
            /\ \E reason \in Lookups : Dies(reason)
            /\ death' # death
  BY DEF DownloadComplete, Completed, CompletionFails, Left, Lookups, Dies, Alive

(* One that fails takes its image, or a lookup ends the daemon, or the      *)
(* removal of its file fails without end (on_download_failure).             *)
LEMMA FailsOrDies ==
  ASSUME NEW p \in Pairs, NEW goesOn \in BOOLEAN, DownloadFails(p, goesOn)
  PROVE  \/ FailedCleanly(p, goesOn)
         \/ Dies("recursion") /\ death' # death
         \/ /\ FailureFails(p)
            /\ \E reason \in Lookups : Dies(reason)
            /\ death' # death
  BY DEF DownloadFails, FailedCleanly, FailureFails, Lookups, Dies, Alive

(* One number more or less in the list of files keeps its type.             *)
LEMMA FileTyped ==
  ASSUME FilesType, NEW i \in Images, NEW k, NEW n,
         k \in DOMAIN LayersOf[i] => n \in Nat,
         files' = [files EXCEPT ![i][k] = n], damaged' \subseteq Pairs
  PROVE  FilesType'
  BY DEF FilesType

(* Every step keeps the types (oci_client.cc, pull_handler.cc).             *)
LEMMA TypesKept ==
  ASSUME PullTypes, [Next]_vars
  PROVE  PullTypes'
  <1>a. /\ RequestType /\ ImagesType /\ TasksType /\ QueuesType /\ RunsType
        /\ FilesType /\ AnswersType /\ FlagsType /\ DeathType /\ PullsType
    BY DEF PullTypes
  <1>b. UNCHANGED request => RequestType'
    BY <1>a DEF RequestType
  <1>c. UNCHANGED images => ImagesType'
    BY <1>a DEF ImagesType
  <1>d. UNCHANGED download_tasks => TasksType'
    BY <1>a DEF TasksType
  <1>e. UNCHANGED <<start_sequence, resolve_queue>> => QueuesType'
    BY <1>a DEF QueuesType
  <1>f. UNCHANGED runs => RunsType'
    BY <1>a DEF RunsType
  <1>g. UNCHANGED files /\ damaged' \subseteq Pairs => FilesType'
    BY <1>a DEF FilesType
  <1>n. damaged \subseteq Pairs
    BY <1>a DEF FilesType
  <1>h. UNCHANGED answers => AnswersType'
    BY <1>a DEF AnswersType, answers
  <1>i. UNCHANGED <<sessions, mixed, renewed>> => FlagsType'
    BY <1>a DEF FlagsType
  <1>j. UNCHANGED death => DeathType'
    BY <1>a DEF DeathType
  <1>k. UNCHANGED pulls => PullsType'
    BY <1>a DEF PullsType
  <1>l. TRUE \in BOOLEAN /\ FALSE \in BOOLEAN
    OBVIOUS
  <1>m. \A i \in Images : Idle' = Idle /\ Idle \in [kind : {"none"}, image : {NoImage}]
    BY DEF Idle
  <1>1. CASE UNCHANGED vars
    BY <1>1, <1>a, <1>b, <1>c, <1>d, <1>e, <1>f, <1>g, <1>n, <1>h, <1>i, <1>j, <1>k
    DEF vars, client, history, PullTypes
  <1>2. ASSUME NEW reason, Dies(reason),
               reason \in {"divided by zero", "image unknown", "task unknown",
                           "sequence empty", "no callback", "callback moved", "recursion",
                           "not understood"}
        PROVE  PullTypes'
    <2>1. DeathType'
      BY <1>2 DEF DeathType, Dies
    <2>2. QED
      BY <1>2, <2>1, <1>a, <1>b, <1>c, <1>d, <1>e, <1>f, <1>g, <1>n, <1>h, <1>i, <1>k
      DEF Dies, client, history, PullTypes
  <1>3. ASSUME NEW i \in Images, Order(i)
        PROVE  PullTypes'
    <2>1. RequestType'
      BY <1>3, <1>a DEF Order, Asking, RequestType
    <2>2. AnswersType'
      BY <1>3, <1>a DEF Order, AnswersType
    <2>3. PullsType'
      BY <1>3, <1>a, PullsAssumption DEF Order, PullsType
    <2>4. mixed' \in BOOLEAN
      BY <1>3 DEF Order
    <2>5. FlagsType'
      BY <1>3, <2>4, <1>a DEF Order, FlagsType
    <2>6. QED
      BY <1>3, <2>1, <2>2, <2>3, <2>5, <1>c, <1>d, <1>e, <1>f, <1>g, <1>n, <1>j
      DEF Order, client, PullTypes
  <1>4. ASSUME NEW i \in Images, Authorized(i)
        PROVE  PullTypes'
    <2>1. RequestType'
      BY <1>4, <1>a DEF Authorized, Asking, Idle, RequestType
    <2>2. AnswersType'
      BY <1>4, <1>a, AnswersTyped DEF Authorized
    <2>3. FlagsType'
      BY <1>4, <1>a DEF Authorized, FlagsType, history
    <2>4. QED
      BY <1>4, <2>1, <2>2, <2>3, <1>c, <1>d, <1>e, <1>f, <1>g, <1>n, <1>j, <1>k
      DEF Authorized, client, history, PullTypes
  <1>5. ASSUME NEW i \in Images, ManifestFetched(i)
        PROVE  PullTypes'
    <2>1. RequestType'
      <3>1. request' \in {Idle, request, Asking("configuration", i)}
        BY <1>5 DEF ManifestFetched
      <3>2. QED
        BY <3>1, <1>a DEF Asking, Idle, RequestType
    <2>2. AnswersType'
      BY <1>5, <1>a, AnswersTyped DEF ManifestFetched
    <2>3. ImagesType'
      BY <1>5, <1>a DEF ManifestFetched, ImagesType, With
    <2>4. QED
      BY <1>5, <2>1, <2>2, <2>3, <1>d, <1>e, <1>f, <1>g, <1>n, <1>i, <1>j, <1>k
      DEF ManifestFetched, history, PullTypes
  <1>6. ASSUME NEW i \in Images, ConfigurationFails(i)
        PROVE  PullTypes'
    <2>1. RequestType'
      BY <1>6, <1>a DEF ConfigurationFails, Idle, RequestType
    <2>2. AnswersType'
      BY <1>6, <1>a, AnswersTyped DEF ConfigurationFails
    <2>3. QED
      BY <1>6, <2>1, <2>2, <1>c, <1>d, <1>e, <1>f, <1>g, <1>n, <1>i, <1>j, <1>k
      DEF ConfigurationFails, client, history, PullTypes
  <1>7. ASSUME NEW i \in Images, ConfigurationFetched(i)
        PROVE  PullTypes'
    <2>1. RequestType'
      BY <1>7, <1>a DEF ConfigurationFetched, Asking, Idle, RequestType
    <2>2. AnswersType'
      BY <1>7, <1>a, AnswersTyped DEF ConfigurationFetched
    <2>3. ImagesType'
      <3>1. images' = With(images, i, TRUE)
        BY <1>7 DEF ConfigurationFetched
      <3>2. QED
        BY <3>1, <1>a, <1>l DEF ImagesType, With
    <2>4. TasksType'
      <3>1. Tasks(i) \subseteq LayersIn(i)
        BY <1>a DEF Tasks, TasksType
      <3>2. PICK t \in SUBSET LayersIn(i) : download_tasks' = With(download_tasks, i, t)
        BY <1>7, <3>1 DEF ConfigurationFetched, LayersIn
      <3>3. QED
        BY <3>2, <1>a DEF TasksType, With
    <2>5. QueuesType'
      <3>1. PairsOf(i) \in Seq(Pairs)
        BY PairsOfLayers
      <3>2. /\ start_sequence \o PairsOf(i) \in Seq(Pairs)
            /\ resolve_queue \o PairsOf(i) \in Seq(Pairs)
        BY <3>1, <1>a, ConcatProperties DEF QueuesType
      <3>3. QED
        BY <1>7, <3>2, <1>a DEF ConfigurationFetched, QueuesType
    <2>6. QED
      BY <1>7, <2>1, <2>2, <2>3, <2>4, <2>5, <1>f, <1>g, <1>n, <1>i, <1>j, <1>k
      DEF ConfigurationFetched, history, PullTypes
  <1>8. ASSUME NEW i \in Images, Resolved(i)
        PROVE  PullTypes'
    <2>1. QueuesType'
      <3>1. resolve_queue # <<>>
        BY <1>8, EmptySeq DEF Resolved
      <3>2. QED
        BY <1>8, <3>1, <1>a, HeadTailProperties DEF Resolved, QueuesType
    <2>2. QED
      BY <1>8, <2>1, <1>a, <1>b, <1>c, <1>d, <1>f, <1>g, <1>n, <1>h, <1>i, <1>j, <1>k
      DEF Resolved, history, PullTypes
  <1>9. ASSUME NEW i \in Images, AllResolved(i), death' = death
        PROVE  PullTypes'
    <2>1. ~Dies("task unknown")
      BY <1>9 DEF AllResolved, Dies, Alive
    <2>2. RequestType'
      <3>1. request' = Idle
        BY <1>9, <2>1 DEF AllResolved
      <3>2. QED
        BY <3>1, <1>a DEF Idle, RequestType
    <2>3. QueuesType'
      BY <1>9, <2>1, <1>a, EmptySeq DEF AllResolved, QueuesType
    <2>4. RunsType'
      <3>1. start_sequence # <<>> => Head(start_sequence) \in Pairs
        BY <1>a, HeadTailProperties DEF QueuesType
      <3>2. runs' = IF start_sequence = <<>> THEN runs
                    ELSE [runs EXCEPT ![Head(start_sequence)] = @ + 1]
        BY <1>9, <2>1 DEF AllResolved
      <3>3. QED
        BY <3>1, <3>2, <1>a DEF RunsType
    <2>5. QED
      BY <1>9, <2>1, <2>2, <2>3, <2>4, <1>c, <1>d, <1>g, <1>n, <1>h, <1>i, <1>j, <1>k
      DEF AllResolved, history, PullTypes
  <1>10. ASSUME NEW p \in Pairs, DownloadComplete(p), death' = death
         PROVE  PullTypes'
    <2>1. Completed(p)
      BY <1>10, CompletesOrDies
    <2>2. p[1] \in Images
      BY DEF Pairs
    <2>3. start_sequence # <<>> => Tail(start_sequence) \in Seq(Pairs)
      BY <1>a, HeadTailProperties DEF QueuesType
    <2>4. Left \in Seq(Pairs)
      BY <2>3, EmptySeq DEF Left
    <2>5. QueuesType'
      BY <2>1, <2>4, <1>a DEF Completed, QueuesType
    <2>6. RunsType'
      <3>1. \A q \in Pairs : Started(Left)[q] \in {0, 1}
        BY DEF Started
      <3>2. runs' = [q \in Pairs |->
               runs[q] + Started(Left)[q] - (IF q = p THEN 1 ELSE 0)]
        BY <2>1 DEF Completed
      <3>3. runs[p] > 0
        BY <2>1 DEF Completed
      <3>4. ASSUME NEW q \in Pairs
            PROVE  runs[q] + Started(Left)[q] - (IF q = p THEN 1 ELSE 0) \in Nat
        BY <3>1, <3>3, <1>a DEF RunsType
      <3>5. QED
        BY <3>2, <3>4 DEF RunsType
    <2>7. FilesType'
      <3> DEFINE k == IndexOf(p)
                 n == files[p[1]][k] + 1
      <3>1. /\ files' \in {files, [files EXCEPT ![p[1]][k] = n]}
            /\ damaged' \subseteq Pairs
        BY <2>1, <1>n DEF Completed, FileWritten
      <3>2. k \in DOMAIN LayersOf[p[1]] => n \in Nat
        <4> HIDE DEF k
        <4>1. QED
          BY <2>2, <1>a DEF FilesType
      <3> HIDE DEF k, n
      <3>3. CASE files' = [files EXCEPT ![p[1]][k] = n]
        BY <2>2, <3>1, <3>2, <3>3, <1>a, FileTyped
      <3>4. QED
        BY <3>1, <3>3, <1>g
    <2>8. TasksType'
      BY <2>1, <1>a DEF Completed, TasksAfter, TasksType, Without
    <2>9. AnswersType'
      BY <2>1, <2>2, <1>a, AnswersTyped DEF Completed
    <2>10. QED
      BY <2>1, <2>5, <2>6, <2>7, <2>8, <2>9, <1>a, <1>b, <1>c, <1>i, <1>j, <1>k
      DEF Completed, history, PullTypes
  <1>11. ASSUME NEW p \in Pairs, NEW goesOn \in BOOLEAN, DownloadFails(p, goesOn),
                death' = death
         PROVE  PullTypes'
    <2>1. FailedCleanly(p, goesOn)
      BY <1>11, FailsOrDies
    <2>2. p[1] \in Images
      BY DEF Pairs
    <2>3. ImagesType'
      BY <2>1, <1>a DEF FailedCleanly, ImagesType, Without
    <2>4. TasksType'
      BY <2>1, <1>a DEF FailedCleanly, TasksType, Without
    <2>5. AnswersType'
      BY <2>1, <2>2, <1>a, AnswersTyped DEF FailedCleanly
    <2>6. FilesType'
      <3>1. /\ files' \in {files, [files EXCEPT ![p[1]][IndexOf(p)] = 0]}
            /\ damaged' \subseteq Pairs
        BY <2>1, <1>n DEF FailedCleanly
      <3> DEFINE k == IndexOf(p)
      <3> HIDE DEF k
      <3>2. files' \in {files, [files EXCEPT ![p[1]][k] = 0]}
        BY <3>1 DEF k
      <3>3. CASE files' = [files EXCEPT ![p[1]][k] = 0]
        BY <2>2, <3>1, <3>3, <1>a, FileTyped
      <3>4. QED
        BY <3>1, <3>2, <3>3, <1>g
    <2>7. RunsType'
      <3>1. runs' \in {runs, [runs EXCEPT ![p] = @ - 1]} /\ runs[p] > 0
        BY <2>1 DEF FailedCleanly
      <3>2. QED
        BY <3>1, <1>a DEF RunsType
    <2>8. FlagsType'
      <3>1. renewed' \in BOOLEAN
        BY <2>1, <1>a DEF FailedCleanly, FlagsType
      <3>2. QED
        BY <2>1, <3>1, <1>a DEF FailedCleanly, FlagsType
    <2>9. QED
      BY <2>1, <2>3, <2>4, <2>5, <2>6, <2>7, <2>8, <1>a, <1>b, <1>e, <1>j, <1>k
      DEF FailedCleanly, PullTypes
  <1>12. ASSUME NEW p \in Pairs, DownloadEndsSilently(p)
         PROVE  PullTypes'
    <2>1. p[1] \in Images
      BY DEF Pairs
    <2>2. AnswersType'
      BY <1>12, <2>1, <1>a, AnswersTyped DEF DownloadEndsSilently
    <2>3. RunsType'
      BY <1>12, <1>a DEF DownloadEndsSilently, RunsType
    <2>4. QED
      BY <1>12, <2>2, <2>3, <1>a, <1>b, <1>c, <1>d, <1>e, <1>g, <1>n, <1>i, <1>j, <1>k
      DEF DownloadEndsSilently, client, history, PullTypes
  <1>13. CASE Next
    <2>1. CASE \E i \in Images : ConfigurationUnknown(i) \/ CallbackMoved(i) \/ PayloadThrows(i)
      BY <2>1, <1>2 DEF ConfigurationUnknown, CallbackMoved, PayloadThrows
    <2>8. CASE \E p \in Pairs : DownloadThrows(p)
      BY <2>8, <1>2 DEF DownloadThrows
    <2>2. CASE \E i \in Images : RedirectedUnknown(i)
      BY <2>2, <1>2 DEF RedirectedUnknown
    <2>3. CASE \E i \in Images : AllResolved(i)
      BY <2>3, <1>2, <1>9 DEF AllResolved
    <2>4. CASE \E p \in Pairs : Updated(p)
      BY <2>4, <1>1, <1>2 DEF Updated
    <2>5. CASE \E p \in Pairs : DownloadComplete(p)
      BY <2>5, <1>2, <1>10, CompletesOrDies DEF Completed, Lookups
    <2>6. CASE \E p \in Pairs : \E goesOn \in BOOLEAN : DownloadFails(p, goesOn)
      BY <2>6, <1>2, <1>11, FailsOrDies DEF FailedCleanly, Lookups
    <2>7. QED
      BY <1>13, <2>1, <2>2, <2>3, <2>4, <2>5, <2>6, <2>8, <1>12, <1>3, <1>4, <1>5, <1>6, <1>7, <1>8
      DEF Next
  <1>14. QED
    BY <1>1, <1>13

----------------------------------------------------------------------------
(* The phases                                                               *)

(* Which phase a pull is in can be told from the request, the sequence and  *)
(* what runs.                                                               *)
LEMMA PhaseTold ==
  ASSUME PullTypes, InPhase
  PROVE  /\ request.kind \in {"authorization", "manifest", "configuration"} => Quiet
         /\ request.kind = "resolution" => Resolving
         /\ start_sequence = <<>> => Quiet
         /\ \A p \in Pairs : runs[p] > 0 => Downloading \/ GivenUp
  <1>1. Resolving =>
          /\ request.kind = "resolution" /\ NothingRuns /\ start_sequence # <<>>
    <2> SUFFICES ASSUME NEW i \in Images \ saved,
                        request = Asking("resolution", i), LeftAfter(i, 0),
                        LayersOf[i] # <<>>, NothingRuns
                 PROVE  request.kind = "resolution" /\ start_sequence # <<>>
      BY DEF Resolving
    <2>1. LayersOf[i] \in Seq(Layers)
      BY LayersAssumption
    <2>2. Len(LayersOf[i]) \in Nat \ {0}
      BY <2>1, EmptySeq
    <2>3. QED
      BY <2>2, EmptySeq DEF LeftAfter, Asking
  <1>2. Downloading => request.kind = "none" /\ start_sequence # <<>>
    <2> SUFFICES ASSUME NEW i \in Images \ saved, NEW m \in Nat, DownloadingAt(i, m)
                 PROVE  request.kind = "none" /\ start_sequence # <<>>
      BY DEF Downloading
    <2>1. Len(LayersOf[i]) \in Nat
      BY PairsOfLayers
    <2>2. QED
      BY <2>1, EmptySeq DEF DownloadingAt, LeftAfter, Idle
  <1>3. GivenUp => request.kind = "none" /\ start_sequence # <<>>
    BY DEF GivenUp, Idle
  <1>4. Quiet => request.kind # "resolution" /\ NothingRuns
    BY DEF Quiet
  <1>5. \A p \in Pairs : runs[p] > 0 => ~NothingRuns
    BY DEF NothingRuns
  <1>6. QED
    BY <1>1, <1>2, <1>3, <1>4, <1>5 DEF InPhase

(* What no phase speaks of does not end one.                                *)
LEMMA PhaseUnchanged ==
  ASSUME InPhase,
         UNCHANGED <<request, client, runs, files, damaged, answers, renewed>>
  PROVE  InPhase'
  <1>1. Quiet => Quiet'
    BY DEF Quiet, NothingRuns, Waiting, WrittenUpTo, client, answers
  <1>2. Resolving => Resolving'
    BY DEF Resolving, NothingRuns, Waiting, WrittenUpTo, Ready, LeftAfter, client, answers
  <1>3. Downloading => Downloading'
    <2> SUFFICES ASSUME NEW i \in Images \ saved, NEW m \in Nat, DownloadingAt(i, m)
                 PROVE  Downloading'
      BY DEF Downloading
    <2>1. LeftAfter(i, m)' /\ Ready(i)' /\ (WrittenUpTo(i, m)' <=> WrittenUpTo(i, m))
      BY DEF DownloadingAt, LeftAfter, Ready, WrittenUpTo, client
    <2>2. DownloadingAt(i, m)' /\ i \notin saved'
      BY <2>1 DEF DownloadingAt, Waiting, client, answers
    <2>3. QED
      BY <2>2 DEF Downloading
  <1>4. GivenUp => GivenUp'
    BY DEF GivenUp, Waiting, client, answers
  <1>5. QED
    BY <1>1, <1>2, <1>3, <1>4 DEF InPhase

(* An order of an image over nothing of another begins the chain            *)
(* (on_order_received).                                                     *)
LEMMA PhaseOfOrder ==
  ASSUME PullTypes, ~mixed => InPhase, NEW i \in Images, Order(i), ~mixed'
  PROVE  Quiet'
  <1>1. start_sequence = <<>> /\ ~mixed /\ \A k \in DOMAIN files[i] : ~(files[i][k] > 0)
    BY DEF Order
  <1>2. Quiet
    BY <1>1, PhaseTold
  <1>3. files[i] \in [DOMAIN LayersOf[i] -> Nat]
    BY DEF PullTypes, FilesType
  <1>4. WrittenUpTo(i, 0)'
    <2>1. \A k \in DOMAIN LayersOf[i] : files[i][k] = 0 /\ ~(k <= 0)
      BY <1>1, <1>3, PairsOfLayers
    <2>2. QED
      BY <2>1 DEF Order, WrittenUpTo
  <1>5. request' = Asking("authorization", i)
    BY DEF Order
  <1>6. Waiting' \subseteq {i}
    BY <1>2 DEF Order, Waiting, Quiet
  <1>7. NothingRuns' /\ start_sequence' = <<>> /\ resolve_queue' = <<>> /\ saved' = saved
    BY <1>2 DEF Order, Quiet, NothingRuns, client
  <1>8. i \notin saved
    BY DEF Order
  <1>9. QED
    BY <1>4, <1>5, <1>6, <1>7, <1>8 DEF Quiet, Asking, Idle

(* The chain to the layers goes on or ends in the same phase (authorize,    *)
(* fetch_manifest).                                                         *)
LEMMA PhaseOfChain ==
  ASSUME PullTypes, InPhase, NEW i \in Images,
         Authorized(i) \/ ManifestFetched(i) \/ ConfigurationFails(i)
  PROVE  Quiet'
  <1> DEFINE Chain == {Asking("authorization", i), Asking("manifest", i),
                       Asking("configuration", i)}
  <1>a. \A r \in Chain :
          r.image = i /\ r # Idle /\ r.kind \in {"authorization", "manifest", "configuration"}
    BY DEF Asking, Idle
  <1>b. request \in Chain
    BY DEF Authorized, ManifestFetched, ConfigurationFails
  <1>1. request.image = i /\ request # Idle
        /\ request.kind \in {"authorization", "manifest", "configuration"}
    BY <1>a, <1>b
  <1>2. Quiet
    BY <1>1, PhaseTold
  <1>3. Failed(i) \/ Dropped(i) \/ UNCHANGED answers
    BY DEF Authorized, ManifestFetched, ConfigurationFails
  <1>4. saved' = saved /\ Waiting' \subseteq Waiting
    BY <1>3 DEF Failed, Dropped, Waiting, answers
  <1>5. ((Failed(i) \/ Dropped(i)) /\ request' = Idle)
        \/ (request' # Idle /\ request'.image = i /\ request'.kind # "resolution")
    <2>1. ((Failed(i) \/ Dropped(i)) /\ request' = Idle) \/ request' \in Chain
      BY <1>b DEF Authorized, ManifestFetched, ConfigurationFails
    <2>2. QED
      BY <2>1, <1>a
  <1>6. request' = Idle => Waiting' = {}
    BY <1>1, <1>2, <1>5 DEF Quiet, Waiting, Failed, Dropped
  <1>7. /\ start_sequence' = <<>> /\ resolve_queue' = <<>> /\ NothingRuns'
        /\ WrittenUpTo(i, 0)' <=> WrittenUpTo(i, 0)
    BY <1>2
    DEF Quiet, Authorized, ManifestFetched, ConfigurationFails, NothingRuns, WrittenUpTo, client,
        history
  <1>8. request'.kind = "configuration" => i \in DOMAIN images'
    <2>1. CASE Authorized(i)
      <3>1. request' \in {Idle, Asking("manifest", i)}
        BY <2>1 DEF Authorized
      <3>2. QED
        BY <3>1 DEF Asking, Idle
    <2>2. CASE ManifestFetched(i)
      <3>1. \/ request' \in {Idle, request} /\ request = Asking("manifest", i)
            \/ i \in DOMAIN images'
        BY <2>2 DEF ManifestFetched, With
      <3>2. QED
        BY <3>1 DEF Asking, Idle
    <2>3. CASE ConfigurationFails(i)
      BY <2>3 DEF ConfigurationFails, Idle
    <2>4. QED
      BY <2>1, <2>2, <2>3
  <1>9. QED
    BY <1>1, <1>2, <1>4, <1>5, <1>6, <1>7, <1>8 DEF Quiet, Idle

(* The layers get their tasks and places, or the chain ends                 *)
(* (add_configuration, fetch_layers).                                       *)
LEMMA PhaseOfLayers ==
  ASSUME PullTypes, InPhase, NEW i \in Images, ConfigurationFetched(i)
  PROVE  Quiet' \/ Resolving'
  <1>1. request = Asking("configuration", i)
    BY DEF ConfigurationFetched
  <1>2. request.kind = "configuration" /\ request.image = i /\ request # Idle
    BY <1>1 DEF Asking, Idle
  <1>3. Quiet
    BY <1>2, PhaseTold
  <1>4. /\ start_sequence = <<>> /\ resolve_queue = <<>> /\ NothingRuns
        /\ i \notin saved /\ Waiting \subseteq {i} /\ WrittenUpTo(i, 0)
    BY <1>2, <1>3 DEF Quiet
  <1>5. NothingRuns' /\ (WrittenUpTo(i, 0)' <=> WrittenUpTo(i, 0))
    BY <1>4 DEF ConfigurationFetched, NothingRuns, WrittenUpTo, history
  <1>6. CASE request' = Idle
    <2>1. Failed(i) \/ Dropped(i)
      BY <1>6 DEF ConfigurationFetched, Asking, Idle
    <2>2. Waiting' = {}
      BY <1>4, <2>1 DEF Failed, Dropped, Waiting
    <2>3. start_sequence' = <<>> /\ resolve_queue' = <<>>
      BY <1>4, <1>6 DEF ConfigurationFetched, Asking, Idle
    <2>4. QED
      BY <1>5, <1>6, <2>2, <2>3 DEF Quiet, Idle
  <1>7. CASE request' # Idle
    <2>1. /\ LayersOf[i] # <<>>
          /\ request' = Asking("resolution", i)
          /\ download_tasks' = With(download_tasks, i, Tasks(i) \cup LayersIn(i))
          /\ start_sequence' = start_sequence \o PairsOf(i)
          /\ resolve_queue' = resolve_queue \o PairsOf(i)
          /\ UNCHANGED answers
          /\ images' = With(images, i, TRUE)
      BY <1>7 DEF ConfigurationFetched, LayersIn
    <2>2. /\ PairsOf(i) \in Seq(Pairs) /\ Len(PairsOf(i)) = Len(LayersOf[i])
          /\ Len(LayersOf[i]) \in Nat /\ DOMAIN LayersOf[i] = 1 .. Len(LayersOf[i])
          /\ \A k \in DOMAIN LayersOf[i] : PairsOf(i)[k] = <<i, LayersOf[i][k]>>
      BY PairsOfLayers
    <2>3. start_sequence' = PairsOf(i) /\ resolve_queue' = PairsOf(i)
      BY <1>4, <2>1, <2>2, ConcatEmptySeq
    <2>4. Tasks(i) \cup LayersIn(i) = LayersIn(i)
      BY DEF PullTypes, TasksType, Tasks
    <2>5. Ready(i)'
      BY <2>1, <2>4 DEF Ready, With
    <2>6. LeftAfter(i, 0)'
      BY <2>2, <2>3 DEF LeftAfter
    <2>7. resolve_queue' # <<>>
      <3>1. LayersOf[i] \in Seq(Layers)
        BY LayersAssumption
      <3>2. Len(LayersOf[i]) # 0
        BY <2>1, <3>1, EmptySeq
      <3>3. QED
        BY <2>2, <2>3, <3>2, EmptySeq
    <2>8. \A k \in DOMAIN resolve_queue' : resolve_queue'[k] \in {i} \X LayersIn(i)
      <3>1. DOMAIN PairsOf(i) = DOMAIN LayersOf[i]
        BY DEF PairsOf
      <3>2. QED
        <4> SUFFICES ASSUME NEW k \in DOMAIN LayersOf[i]
                     PROVE  PairsOf(i)[k] \in {i} \X LayersIn(i)
          BY <2>3, <3>1
        <4>1. LayersOf[i][k] \in LayersIn(i)
          BY DEF LayersIn
        <4>2. PairsOf(i)[k] = <<i, LayersOf[i][k]>>
          BY DEF PairsOf
        <4>3. QED
          BY <4>1, <4>2
    <2>9. saved' = saved /\ Waiting' \subseteq {i}
      BY <2>1, <1>4 DEF answers, Waiting
    <2>10. QED
      BY <1>4, <1>5, <2>1, <2>5, <2>6, <2>7, <2>8, <2>9 DEF Resolving
  <1>8. QED
    BY <1>6, <1>7

(* One layer more is resolved, and there are others (resolve_layer).        *)
LEMMA PhaseOfResolved ==
  ASSUME PullTypes, InPhase, NEW j \in Images, Resolved(j)
  PROVE  Resolving'
  <1>1. request.kind = "resolution" /\ Len(resolve_queue) > 1
        /\ resolve_queue' = Tail(resolve_queue)
    BY DEF Resolved, Asking
  <1>2. Resolving
    BY <1>1, PhaseTold
  <1>3. PICK i \in Images \ saved :
          /\ request = Asking("resolution", i)
          /\ Ready(i) /\ LeftAfter(i, 0) /\ LayersOf[i] # <<>>
          /\ resolve_queue # <<>>
          /\ \A k \in DOMAIN resolve_queue : resolve_queue[k] \in {i} \X LayersIn(i)
          /\ NothingRuns
          /\ WrittenUpTo(i, 0)
          /\ Waiting \subseteq {i}
    BY <1>2 DEF Resolving
  <1>4. resolve_queue \in Seq(Pairs)
    BY DEF PullTypes, QueuesType
  <1>5. /\ Tail(resolve_queue) \in Seq(Pairs)
        /\ Len(Tail(resolve_queue)) = Len(resolve_queue) - 1
        /\ \A k \in 1 .. Len(Tail(resolve_queue)) : Tail(resolve_queue)[k] = resolve_queue[k + 1]
    BY <1>3, <1>4, HeadTailProperties
  <1>6. resolve_queue' # <<>>
    <2>1. Len(resolve_queue) \in Nat
      BY <1>4, LenProperties
    <2>2. Len(Tail(resolve_queue)) # 0
      BY <1>1, <1>5, <2>1
    <2>3. QED
      BY <1>1, <2>2, EmptySeq
  <1>7. \A k \in DOMAIN resolve_queue' : resolve_queue'[k] \in {i} \X LayersIn(i)
    <2>1. DOMAIN resolve_queue = 1 .. Len(resolve_queue) /\ Len(resolve_queue) \in Nat
      BY <1>4, LenProperties
    <2>2. DOMAIN Tail(resolve_queue) = 1 .. Len(Tail(resolve_queue))
      BY <1>5, LenProperties
    <2>3. \A k \in 1 .. Len(resolve_queue) - 1 : k + 1 \in DOMAIN resolve_queue
      BY <2>1
    <2>4. QED
      BY <1>1, <1>3, <1>5, <2>2, <2>3
  <1>8. Ready(i)' /\ LeftAfter(i, 0)' /\ NothingRuns' /\ Waiting' = Waiting
        /\ (WrittenUpTo(i, 0)' <=> WrittenUpTo(i, 0)) /\ saved' = saved /\ request' = request
    BY <1>3 DEF Resolved, Ready, LeftAfter, NothingRuns, Waiting, WrittenUpTo, answers
  <1>9. QED
    BY <1>3, <1>6, <1>7, <1>8 DEF Resolving

(* While an image is resolved, every layer that is left of it has its task. *)
LEMMA ResolvingHasTasks ==
  ASSUME PullTypes, Resolving
  PROVE  /\ HasTask(Head(resolve_queue))
         /\ start_sequence # <<>> /\ HasTask(Head(start_sequence))
  <1>1. PICK i \in Images \ saved :
          /\ Ready(i) /\ LeftAfter(i, 0) /\ LayersOf[i] # <<>>
          /\ resolve_queue # <<>>
          /\ \A k \in DOMAIN resolve_queue : resolve_queue[k] \in {i} \X LayersIn(i)
    BY DEF Resolving
  <1>2. resolve_queue \in Seq(Pairs) /\ start_sequence \in Seq(Pairs)
    BY DEF PullTypes, QueuesType
  <1>3. Head(resolve_queue) \in {i} \X LayersIn(i)
    BY <1>1, <1>2, EmptySeq, LenProperties
  <1>4. LayersOf[i] \in Seq(Layers)
    BY LayersAssumption
  <1>5. Len(LayersOf[i]) \in Nat \ {0}
    BY <1>1, <1>4, EmptySeq
  <1>6. start_sequence # <<>> /\ Head(start_sequence) = <<i, LayersOf[i][1]>>
    BY <1>1, <1>2, <1>5, EmptySeq, LenProperties DEF LeftAfter
  <1>7. LayersOf[i][1] \in LayersIn(i)
    BY <1>5, PairsOfLayers
  <1>8. QED
    BY <1>1, <1>3, <1>6, <1>7 DEF HasTask, Ready

(* The last layer is resolved, and the first is downloaded (resolve_layer). *)
LEMMA PhaseOfStart ==
  ASSUME PullTypes, InPhase, NEW j \in Images, AllResolved(j)
  PROVE  Downloading' /\ death' = death
  <1>1. request.kind = "resolution"
    BY DEF AllResolved, Asking
  <1>2. Resolving
    BY <1>1, PhaseTold
  <1>3. PICK i \in Images \ saved :
          /\ Ready(i) /\ LeftAfter(i, 0) /\ LayersOf[i] # <<>>
          /\ NothingRuns
          /\ WrittenUpTo(i, 0)
          /\ Waiting \subseteq {i}
    BY <1>2 DEF Resolving
  <1>4. /\ request' = Idle /\ resolve_queue' = <<>>
        /\ runs' = [runs EXCEPT ![Head(start_sequence)] = @ + 1]
        /\ UNCHANGED <<sessions, images, download_tasks, start_sequence, files, answers,
                       history, death>>
    BY <1>2, ResolvingHasTasks DEF AllResolved
  <1>5. LayersOf[i] \in Seq(Layers)
    BY LayersAssumption
  <1>6. Len(LayersOf[i]) \in Nat \ {0}
    BY <1>3, <1>5, EmptySeq
  <1>7. start_sequence \in Seq(Pairs) /\ runs \in [Pairs -> Nat]
    BY DEF PullTypes, QueuesType, RunsType
  <1>8. Head(start_sequence) = <<i, LayersOf[i][0 + 1]>>
    BY <1>3, <1>6, <1>7, EmptySeq, LenProperties DEF LeftAfter
  <1>9. \A p \in Pairs : runs'[p] = IF p = <<i, LayersOf[i][0 + 1]>> THEN 1 ELSE 0
    <2>1. PICK h : h = Head(start_sequence)
      OBVIOUS
    <2>2. runs' = [runs EXCEPT ![h] = @ + 1] /\ h = <<i, LayersOf[i][0 + 1]>>
      BY <1>4, <1>8, <2>1
    <2>3. \A p \in Pairs : runs'[p] = IF p = h THEN 1 ELSE 0
      BY <1>3, <1>7, <2>2 DEF NothingRuns
    <2>4. QED
      BY <2>2, <2>3
  <1>10. Ready(i)' /\ LeftAfter(i, 0)' /\ Waiting' = Waiting
         /\ (WrittenUpTo(i, 0)' <=> WrittenUpTo(i, 0)) /\ saved' = saved
    BY <1>3, <1>4 DEF Ready, LeftAfter, Waiting, WrittenUpTo, answers
  <1>11. DownloadingAt(i, 0)'
    BY <1>3, <1>4, <1>6, <1>9, <1>10 DEF DownloadingAt
  <1>12. QED
    BY <1>4, <1>10, <1>11 DEF Downloading

(* What is downloaded is the layer after those that are there, what is left *)
(* then are those after it, and no lookup of theirs fails                   *)
(* (on_download_complete, on_download_failure).                             *)
LEMMA DownloadTold ==
  ASSUME PullTypes, NEW i \in Images \ saved, NEW m \in Nat, DownloadingAt(i, m),
         NEW p \in Pairs, runs[p] > 0
  PROVE  /\ Len(LayersOf[i]) \in Nat /\ m + 1 \in DOMAIN LayersOf[i]
         /\ p = <<i, LayersOf[i][m + 1]>>
         /\ Left \in Seq(Pairs) /\ Len(Left) = Len(LayersOf[i]) - (m + 1)
         /\ \A k \in 1 .. Len(Left) : Left[k] = <<i, LayersOf[i][m + 1 + k]>>
         /\ start_sequence # <<>>
         /\ ~CompletionFails(p) /\ ~FailureFails(p)
  <1>1. Len(LayersOf[i]) \in Nat /\ DOMAIN LayersOf[i] = 1 .. Len(LayersOf[i])
    BY PairsOfLayers
  <1>2. m < Len(LayersOf[i]) /\ Ready(i)
        /\ Len(start_sequence) = Len(LayersOf[i]) - m
        /\ \A k \in 1 .. Len(start_sequence) : start_sequence[k] = <<i, LayersOf[i][m + k]>>
    BY DEF DownloadingAt, LeftAfter
  <1>3. p = <<i, LayersOf[i][m + 1]>>
    BY DEF DownloadingAt
  <1>4. start_sequence \in Seq(Pairs)
    BY DEF PullTypes, QueuesType
  <1>5. start_sequence # <<>>
    BY <1>1, <1>2, EmptySeq
  <1>6. /\ Left \in Seq(Pairs) /\ Len(Left) = Len(start_sequence) - 1
        /\ \A k \in 1 .. Len(Left) : Left[k] = start_sequence[k + 1]
    BY <1>4, <1>5, HeadTailProperties DEF Left
  <1>7. ASSUME NEW k \in 1 .. Len(Left)
        PROVE  Left[k] = <<i, LayersOf[i][m + 1 + k]>>
    <2> DEFINE n == Len(start_sequence)
    <2>a. n \in Nat /\ Len(Left) = n - 1
      BY <1>4, <1>6, LenProperties
    <2> HIDE DEF n
    <2>1. k \in Nat /\ k + 1 \in 1 .. n /\ m + (k + 1) = m + 1 + k
      BY <2>a
    <2>2. QED
      BY <1>2, <1>6, <2>1 DEF n
  <1>8. Left # <<>> => HasTask(Head(Left))
    <2> SUFFICES ASSUME Left # <<>>
                 PROVE  HasTask(Head(Left))
      OBVIOUS
    <2>1. Len(Left) \in Nat \ {0}
      BY <1>6, EmptySeq
    <2>2. Head(Left) = <<i, LayersOf[i][m + 1 + 1]>>
      BY <1>6, <1>7, <2>1
    <2>3. m + 1 + 1 \in DOMAIN LayersOf[i]
      BY <1>1, <1>2, <1>6, <2>1
    <2>4. LayersOf[i][m + 1 + 1] \in LayersIn(i)
      BY <2>3 DEF LayersIn
    <2>5. QED
      BY <1>2, <2>2, <2>4 DEF HasTask, Ready
  <1>9. ~CompletionFails(p) /\ ~FailureFails(p)
    BY <1>2, <1>3, <1>5, <1>8 DEF CompletionFails, FailureFails, Ready
  <1>10. QED
    BY <1>1, <1>2, <1>3, <1>5, <1>6, <1>7, <1>9

(* The file of a layer is the one of its number, if the layers are          *)
(* different ones (the index of fetch_layers).                              *)
LEMMA IndexOfLayer ==
  ASSUME NEW i \in Images, Distinct(i), NEW n \in DOMAIN LayersOf[i]
  PROVE  IndexOf(<<i, LayersOf[i][n]>>) = n
  <1> DEFINE p == <<i, LayersOf[i][n]>>
             First(k) == /\ LayersOf[p[1]][k] = p[2]
                         /\ \A j \in DOMAIN LayersOf[p[1]] : LayersOf[p[1]][j] = p[2] => k <= j
  <1>1. \A k \in DOMAIN LayersOf[i] : LayersOf[i][k] = LayersOf[i][n] => k = n
    BY DEF Distinct
  <1>2. n \in Nat
    BY PairsOfLayers
  <1>3. First(n)
    BY <1>1, <1>2
  <1>4. \A k \in DOMAIN LayersOf[p[1]] : First(k) => k = n
    BY <1>1
  <1>5. QED
    BY <1>3, <1>4 DEF IndexOf

(* One more file is there when a download is complete.                      *)
LEMMA OneMoreWritten ==
  ASSUME PullTypes, NEW i \in Images \ saved, NEW m \in Nat, DownloadingAt(i, m),
         NEW p \in Pairs, Completed(p), Distinct(i)
  PROVE  WrittenUpTo(i, m + 1)'
  <1>1. runs[p] > 0
    BY DEF Completed
  <1>2. Len(LayersOf[i]) \in Nat /\ m + 1 \in DOMAIN LayersOf[i]
        /\ p = <<i, LayersOf[i][m + 1]>>
    BY <1>1, DownloadTold
  <1>3. IndexOf(p) = m + 1 /\ p[1] = i
    BY <1>2, IndexOfLayer
  <1>4. \/ files' = [files EXCEPT ![i][m + 1] = @ + 1] /\ damaged' = damaged
        \/ files' = files /\ damaged' = damaged \cup {<<i, LayersOf[i][m + 1]>>}
    BY <1>2, <1>3 DEF Completed, FileWritten
  <1>5. DOMAIN files = Images /\ DOMAIN files[i] = DOMAIN LayersOf[i]
    BY DEF PullTypes, FilesType
  <1>6. \A k \in DOMAIN LayersOf[i] :
          IF k <= m THEN files[i][k] = 1 \/ <<i, LayersOf[i][k]>> \in damaged
                    ELSE files[i][k] = 0
    BY DEF DownloadingAt, WrittenUpTo
  <1>7. DOMAIN LayersOf[i] \subseteq Nat
    BY PairsOfLayers
  <1>8. ASSUME NEW k \in DOMAIN LayersOf[i]
        PROVE  IF k <= m + 1 THEN files'[i][k] = 1 \/ <<i, LayersOf[i][k]>> \in damaged'
                             ELSE files'[i][k] = 0
    <2>1. m + 1 \in Nat /\ k \in Nat
      BY <1>7
    <2>2. CASE k = m + 1
      <3>1. files[i][k] = 0
        <4>1. ~(k <= m)
          BY <2>1, <2>2
        <4>2. QED
          BY <1>6, <4>1
      <3>2. files'[i][k] = 1 \/ <<i, LayersOf[i][k]>> \in damaged'
        BY <1>4, <1>5, <2>2, <3>1
      <3>3. QED
        BY <2>1, <2>2, <3>2
    <2>3. CASE k # m + 1
      <3>1. files'[i][k] = files[i][k] /\ damaged \subseteq damaged'
        BY <1>2, <1>4, <1>5, <2>3
      <3>2. k <= m <=> k <= m + 1
        BY <2>1, <2>3
      <3>3. QED
        BY <1>6, <3>1, <3>2
    <2>4. QED
      BY <2>2, <2>3
  <1>9. QED
    BY <1>8 DEF WrittenUpTo

(* A download that is complete leads to the next one, or to the end of the  *)
(* pull (on_download_complete).                                             *)
LEMMA PhaseOfCompletion ==
  ASSUME PullTypes, NEW i \in Images \ saved, NEW m \in Nat, DownloadingAt(i, m),
         NEW p \in Pairs, Completed(p)
  PROVE  \/ DownloadingAt(i, m + 1)' /\ saved' = saved
         \/ Quiet' /\ m + 1 = Len(LayersOf[i])
  <1>1. runs[p] > 0
    BY DEF Completed
  <1>2. /\ Len(LayersOf[i]) \in Nat /\ m + 1 \in DOMAIN LayersOf[i]
        /\ p = <<i, LayersOf[i][m + 1]>>
        /\ Left \in Seq(Pairs) /\ Len(Left) = Len(LayersOf[i]) - (m + 1)
        /\ \A k \in 1 .. Len(Left) : Left[k] = <<i, LayersOf[i][m + 1 + k]>>
    BY <1>1, DownloadTold
  <1>3. p[1] = i
    BY <1>2
  <1>4. /\ start_sequence' = Left
        /\ download_tasks' = TasksAfter(i, Left)
        /\ IF Finished(Left) THEN Saved(i) ELSE UNCHANGED answers
        /\ UNCHANGED <<request, sessions, images, resolve_queue, death>>
    BY <1>3 DEF Completed
  <1>5. request' = Idle /\ resolve_queue' = <<>> /\ Waiting \subseteq {i} /\ Ready(i)
    BY <1>4 DEF DownloadingAt
  <1>6. ASSUME NEW q \in Pairs
        PROVE  runs'[q] = Started(Left)[q]
    <2>1. runs'[q] = runs[q] + Started(Left)[q] - (IF q = p THEN 1 ELSE 0)
      BY DEF Completed
    <2>2. runs[q] = IF q = p THEN 1 ELSE 0
      BY <1>2 DEF DownloadingAt
    <2>3. Started(Left)[q] \in {0, 1}
      BY DEF Started
    <2>4. QED
      BY <2>1, <2>2, <2>3
  <1>7. CASE Left = <<>>
    <2>1. m + 1 = Len(LayersOf[i])
      BY <1>2, <1>7, EmptySeq
    <2>2. NothingRuns'
      BY <1>6, <1>7 DEF NothingRuns, Started
    <2>3. Waiting' = {}
      BY <1>4, <1>5, <1>7 DEF Finished, Saved, Waiting
    <2>4. QED
      BY <1>4, <1>5, <1>7, <2>1, <2>2, <2>3 DEF Quiet, Idle
  <1>8. CASE Left # <<>>
    <2>1. m + 1 < Len(LayersOf[i])
      BY <1>2, <1>8, EmptySeq
    <2>2. Ready(i)'
      BY <1>4, <1>5, <1>8 DEF Ready, TasksAfter, Finished
    <2>3. LeftAfter(i, m + 1)'
      BY <1>2, <1>4 DEF LeftAfter
    <2>4. \A q \in Pairs : runs'[q] = IF q = <<i, LayersOf[i][m + 1 + 1]>> THEN 1 ELSE 0
      <3>1. Head(Left) = <<i, LayersOf[i][m + 1 + 1]>>
        <4>1. 1 \in 1 .. Len(Left)
          BY <1>2, <2>1
        <4>2. QED
          BY <1>2, <4>1
      <3>2. \A q \in Pairs : Started(Left)[q] = IF q = Head(Left) THEN 1 ELSE 0
        BY <1>8 DEF Started
      <3>3. QED
        BY <1>6, <3>1, <3>2
    <2>5. UNCHANGED answers
      BY <1>4, <1>8 DEF Finished
    <2>6. Distinct(i) => WrittenUpTo(i, m + 1)'
      BY OneMoreWritten
    <2>7. QED
      BY <1>5, <2>1, <2>2, <2>3, <2>4, <2>5, <2>6 DEF DownloadingAt, answers, Waiting
  <1>9. QED
    BY <1>7, <1>8

(* A download that fails gives the pull up, and one that went on after its  *)
(* failure leaves it so (on_download_failure).                              *)
LEMMA PhaseOfFailure ==
  ASSUME PullTypes, Downloading \/ GivenUp,
         NEW p \in Pairs, NEW goesOn \in BOOLEAN, FailedCleanly(p, goesOn)
  PROVE  GivenUp'
  <1>1. /\ runs[p] > 0
        /\ images' = Without(images, p[1])
        /\ IF p[1] \in DOMAIN images THEN Failed(p[1]) ELSE UNCHANGED answers
        /\ runs' = IF goesOn THEN runs ELSE [runs EXCEPT ![p] = @ - 1]
        /\ renewed' = (renewed \/ goesOn)
        /\ UNCHANGED <<request, start_sequence>>
    BY DEF FailedCleanly
  <1>2. runs \in [Pairs -> Nat]
    BY DEF PullTypes, RunsType
  <1>3. CASE GivenUp
    <2>1. p[1] \notin DOMAIN images /\ renewed
      BY <1>1, <1>3 DEF GivenUp
    <2>2. \A q \in Pairs : runs'[q] > 0 => runs[q] > 0
      BY <1>1, <1>2
    <2>3. DOMAIN images' \subseteq DOMAIN images
      BY <1>1 DEF Without
    <2>4. QED
      BY <1>1, <1>3, <2>1, <2>2, <2>3 DEF GivenUp, Waiting, answers
  <1>4. CASE Downloading
    <2>1. PICK i \in Images \ saved : \E m \in Nat : DownloadingAt(i, m)
      BY <1>4 DEF Downloading
    <2>2. PICK m \in Nat : DownloadingAt(i, m)
      BY <2>1
    <2>3. p = <<i, LayersOf[i][m + 1]>> /\ start_sequence # <<>>
      BY <1>1, <2>2, DownloadTold
    <2>4. request = Idle /\ Waiting \subseteq {i} /\ i \in DOMAIN images
      BY <2>2 DEF DownloadingAt, Ready
    <2>5. \A q \in Pairs : runs[q] = IF q = p THEN 1 ELSE 0
      BY <2>2, <2>3 DEF DownloadingAt
    <2>6. ASSUME NEW q \in Pairs, runs'[q] > 0
          PROVE  renewed' /\ q[1] \notin DOMAIN images'
      <3>1. goesOn /\ q = p
        <4>1. CASE goesOn
          BY <4>1, <1>1, <2>5, <2>6
        <4>2. CASE ~goesOn
          <5>1. runs'[q] = IF q = p THEN runs[q] - 1 ELSE runs[q]
            BY <4>2, <1>1, <1>2
          <5>2. QED
            BY <5>1, <2>5, <2>6
        <4>3. QED
          BY <4>1, <4>2
      <3>2. QED
        BY <1>1, <2>3, <3>1 DEF Without
    <2>7. Waiting' = {}
      BY <1>1, <2>3, <2>4 DEF Failed, Waiting
    <2>8. QED
      BY <1>1, <2>3, <2>4, <2>6, <2>7 DEF GivenUp
  <1>5. QED
    BY <1>3, <1>4

(* A download that ends silently gives the pull up (on_server_response).    *)
LEMMA PhaseOfSilence ==
  ASSUME PullTypes, Downloading \/ GivenUp, NEW p \in Pairs, DownloadEndsSilently(p)
  PROVE  GivenUp'
  <1>1. /\ runs[p] > 0
        /\ runs' = [runs EXCEPT ![p] = @ - 1]
        /\ Dropped(p[1])
        /\ UNCHANGED <<request, images, start_sequence, renewed>>
    BY DEF DownloadEndsSilently, client, history
  <1>2. runs \in [Pairs -> Nat]
    BY DEF PullTypes, RunsType
  <1>3. \A q \in Pairs : runs'[q] = IF q = p THEN runs[q] - 1 ELSE runs[q]
    BY <1>1, <1>2
  <1>4. Waiting' = Waiting \ {p[1]}
    BY <1>1 DEF Waiting, Dropped
  <1>5. CASE GivenUp
    <2>1. \A q \in Pairs : runs'[q] > 0 => runs[q] > 0
      BY <1>1, <1>2, <1>3
    <2>2. QED
      BY <1>1, <1>4, <1>5, <2>1 DEF GivenUp
  <1>6. CASE Downloading
    <2>1. PICK i \in Images \ saved : \E m \in Nat : DownloadingAt(i, m)
      BY <1>6 DEF Downloading
    <2>2. PICK m \in Nat : DownloadingAt(i, m)
      BY <2>1
    <2>3. p = <<i, LayersOf[i][m + 1]>> /\ start_sequence # <<>>
      BY <1>1, <2>2, DownloadTold
    <2>4. request = Idle /\ Waiting \subseteq {i}
      BY <2>2 DEF DownloadingAt
    <2>5. \A q \in Pairs : runs[q] = IF q = p THEN 1 ELSE 0
      BY <2>2, <2>3 DEF DownloadingAt
    <2>6. \A q \in Pairs : runs'[q] = 0
      BY <1>3, <2>5
    <2>7. Waiting' = {}
      BY <1>4, <2>3, <2>4
    <2>8. QED
      BY <1>1, <2>3, <2>4, <2>6, <2>7 DEF GivenUp
  <1>7. QED
    BY <1>5, <1>6

(* What has been ordered over another's remains, or went on, has for good.  *)
LEMMA HistoryStays ==
  ASSUME PullTypes, [Next]_vars
  PROVE  (mixed => mixed') /\ (renewed => renewed')
  <1>1. mixed => mixed'
    BY DEF Next, vars, history, Order, Authorized, ManifestFetched, ConfigurationFails,
           ConfigurationFetched, ConfigurationUnknown, CallbackMoved, Resolved, AllResolved,
           RedirectedUnknown, Updated, DownloadComplete, DownloadFails, Dies,
           PayloadThrows, DownloadEndsSilently, DownloadThrows
  <1>2. ASSUME NEW p \in Pairs, NEW goesOn \in BOOLEAN, DownloadFails(p, goesOn)
        PROVE  renewed => renewed'
    BY <1>2, FailsOrDies DEF FailedCleanly, Dies, history
  <1>3. ASSUME NEW p \in Pairs,
               \/ DownloadComplete(p) \/ Updated(p)
               \/ DownloadEndsSilently(p) \/ DownloadThrows(p)
        PROVE  renewed' = renewed
    BY <1>3, CompletesOrDies
    DEF Completed, Updated, DownloadEndsSilently, DownloadThrows, Dies, history, vars
  <1>4. ASSUME NEW i \in Images,
               \/ Order(i) \/ Authorized(i) \/ ManifestFetched(i)
               \/ ConfigurationFails(i) \/ ConfigurationFetched(i)
               \/ ConfigurationUnknown(i) \/ CallbackMoved(i) \/ PayloadThrows(i)
               \/ Resolved(i) \/ AllResolved(i) \/ RedirectedUnknown(i)
        PROVE  renewed' = renewed
    BY <1>4
    DEF history, Order, Authorized, ManifestFetched, ConfigurationFails, ConfigurationFetched,
        ConfigurationUnknown, CallbackMoved, PayloadThrows, Resolved, AllResolved,
        RedirectedUnknown, Dies
  <1>5. QED
    BY <1>1, <1>2, <1>3, <1>4 DEF Next, vars, history

(* Every step leads from a phase to a phase, as long as no pull is ordered  *)
(* over another's remains.                                                  *)
LEMMA PhaseKept ==
  ASSUME PullTypes, ~mixed => InPhase, [Next]_vars, ~mixed'
  PROVE  InPhase'
  <1>1. ~mixed
    BY HistoryStays
  <1>2. InPhase
    BY <1>1
  <1>3. CASE UNCHANGED vars
    BY <1>2, <1>3, PhaseUnchanged DEF vars, history
  <1>4. ASSUME NEW reason, Dies(reason)
        PROVE  InPhase'
    BY <1>2, <1>4, PhaseUnchanged DEF Dies, history
  <1>5. CASE \E i \in Images : Order(i)
    BY <1>2, <1>5, PhaseOfOrder DEF InPhase
  <1>6. CASE \E i \in Images : Authorized(i) \/ ManifestFetched(i) \/ ConfigurationFails(i)
    BY <1>2, <1>6, PhaseOfChain DEF InPhase
  <1>7. CASE \E i \in Images : ConfigurationFetched(i)
    BY <1>2, <1>7, PhaseOfLayers DEF InPhase
  <1>8. CASE \E i \in Images :
               \/ ConfigurationUnknown(i) \/ CallbackMoved(i) \/ PayloadThrows(i)
               \/ RedirectedUnknown(i)
    BY <1>4, <1>8 DEF ConfigurationUnknown, CallbackMoved, PayloadThrows, RedirectedUnknown
  <1>9. CASE \E i \in Images : Resolved(i)
    BY <1>2, <1>9, PhaseOfResolved DEF InPhase
  <1>10. CASE \E i \in Images : AllResolved(i)
    BY <1>2, <1>10, PhaseOfStart DEF InPhase
  <1>11. CASE \E p \in Pairs : Updated(p)
    BY <1>3, <1>4, <1>11 DEF Updated
  <1>12. CASE \E p \in Pairs : DownloadComplete(p)
    <2>1. PICK p \in Pairs : DownloadComplete(p)
      BY <1>12
    <2>2. CASE ~Completed(p)
      BY <1>4, <2>1, <2>2, CompletesOrDies
    <2>3. CASE Completed(p)
      <3>1. Downloading \/ GivenUp
        BY <1>2, <2>3, PhaseTold DEF Completed
      <3>2. ~GivenUp
        BY <2>3 DEF GivenUp, Completed
      <3>3. PICK i \in Images \ saved : \E m \in Nat : DownloadingAt(i, m)
        BY <3>1, <3>2 DEF Downloading
      <3>4. PICK m \in Nat : DownloadingAt(i, m)
        BY <3>3
      <3>5. \/ DownloadingAt(i, m + 1)' /\ saved' = saved
            \/ Quiet'
        BY <2>3, <3>4, PhaseOfCompletion
      <3>6. m + 1 \in Nat
        OBVIOUS
      <3>7. DownloadingAt(i, m + 1)' /\ saved' = saved => Downloading'
        BY <3>6 DEF Downloading
      <3>8. QED
        BY <3>5, <3>7 DEF InPhase
    <2>4. QED
      BY <2>2, <2>3
  <1>13. CASE \E p \in Pairs : \E goesOn \in BOOLEAN : DownloadFails(p, goesOn)
    <2>1. PICK p \in Pairs : \E goesOn \in BOOLEAN : DownloadFails(p, goesOn)
      BY <1>13
    <2>2. PICK goesOn \in BOOLEAN : DownloadFails(p, goesOn)
      BY <2>1
    <2>3. CASE ~FailedCleanly(p, goesOn)
      BY <1>4, <2>2, <2>3, FailsOrDies
    <2>4. CASE FailedCleanly(p, goesOn)
      <3>1. Downloading \/ GivenUp
        BY <1>2, <2>4, PhaseTold DEF FailedCleanly
      <3>2. QED
        BY <2>4, <3>1, PhaseOfFailure DEF InPhase
    <2>5. QED
      BY <2>3, <2>4
  <1>14. CASE \E p \in Pairs : DownloadEndsSilently(p)
    <2>1. PICK p \in Pairs : DownloadEndsSilently(p)
      BY <1>14
    <2>2. Downloading \/ GivenUp
      BY <1>2, <2>1, PhaseTold DEF DownloadEndsSilently
    <2>3. QED
      BY <2>1, <2>2, PhaseOfSilence DEF InPhase
  <1>15. CASE \E p \in Pairs : DownloadThrows(p)
    BY <1>4, <1>15 DEF DownloadThrows
  <1>16. QED
    BY <1>3, <1>5, <1>6, <1>7, <1>8, <1>9, <1>10, <1>11, <1>12, <1>13, <1>14, <1>15 DEF Next

----------------------------------------------------------------------------
(* What the phases keep                                                     *)

(* What SavedIsWhole says of the files of images that have a row.           *)
SavedWritten ==
  ~mixed /\ ~renewed =>
    \A i \in saved : Distinct(i) => WrittenUpTo(i, Len(LayersOf[i]))

(* TypeOK and this are SavedIsWhole.                                        *)
LEMMA SavedInParts ==
  ASSUME PullTypes
  PROVE  SavedIsWhole <=> SavedWritten
  <1>1. TypeOK
    BY TypesInParts
  <1>2. saved \subseteq Images
    BY DEF PullTypes, AnswersType
  <1>3. \A i \in saved : \A k \in DOMAIN LayersOf[i] : k <= Len(LayersOf[i])
    BY <1>2, PairsOfLayers
  <1>4. QED
    BY <1>1, <1>3 DEF SavedIsWhole, SavedWritten, WrittenUpTo, Distinct

(* The files of an image are written no more once it has a row              *)
(* (on_download_complete, on_download_failure).                             *)
LEMMA WrittenKept ==
  ASSUME PullTypes, ~mixed => InPhase, SavedWritten, [Next]_vars
  PROVE  SavedWritten'
  <1> SUFFICES ASSUME ~mixed', ~renewed'
               PROVE  \A i \in saved' : Distinct(i) => WrittenUpTo(i, Len(LayersOf[i]))'
    BY DEF SavedWritten
  <1>1. ~mixed /\ ~renewed
    BY HistoryStays
  <1>2. \A i \in saved : Distinct(i) => WrittenUpTo(i, Len(LayersOf[i]))
    BY <1>1 DEF SavedWritten
  <1>3. CASE UNCHANGED <<files, damaged, saved>>
    BY <1>2, <1>3 DEF WrittenUpTo
  <1>4. ASSUME NEW p \in Pairs, runs[p] > 0
        PROVE  \E i \in Images \ saved : \E m \in Nat : DownloadingAt(i, m)
    <2>1. Downloading \/ GivenUp
      BY <1>1, <1>4, PhaseTold
    <2>2. QED
      BY <1>1, <1>4, <2>1 DEF Downloading, GivenUp
  <1>5. ASSUME NEW p \in Pairs, Completed(p)
        PROVE  \A i \in saved' : Distinct(i) => WrittenUpTo(i, Len(LayersOf[i]))'
    <2>1. PICK i \in Images \ saved : \E m \in Nat : DownloadingAt(i, m)
      BY <1>4, <1>5 DEF Completed
    <2>2. PICK m \in Nat : DownloadingAt(i, m)
      BY <2>1
    <2>3. p[1] = i
      BY <1>5, <2>2, DownloadTold DEF Completed
    <2>4. (\A j \in Images \ {i} : files'[j] = files[j]) /\ damaged \subseteq damaged'
      BY <1>5, <2>3 DEF Completed, FileWritten, PullTypes, FilesType
    <2>5. \A j \in saved : Distinct(j) => WrittenUpTo(j, Len(LayersOf[j]))'
      BY <1>2, <2>4 DEF WrittenUpTo, PullTypes, AnswersType
    <2>6. CASE saved' = saved
      BY <2>5, <2>6
    <2>7. CASE saved' # saved
      <3>1. m + 1 = Len(LayersOf[i])
        <4>1. CASE DownloadingAt(i, m + 1)' /\ saved' = saved
          BY <4>1, <2>7
        <4>2. QED
          BY <1>5, <2>2, <2>7, <4>1, PhaseOfCompletion
      <3>2. Distinct(i) => WrittenUpTo(i, Len(LayersOf[i]))'
        BY <1>5, <2>2, <3>1, OneMoreWritten
      <3>3. saved' \subseteq saved \cup {i}
        BY <1>5, <2>3 DEF Completed, Saved, answers
      <3>4. QED
        BY <2>5, <3>2, <3>3
    <2>8. QED
      BY <2>6, <2>7
  <1>6. ASSUME NEW p \in Pairs, NEW goesOn \in BOOLEAN, FailedCleanly(p, goesOn)
        PROVE  \A i \in saved' : Distinct(i) => WrittenUpTo(i, Len(LayersOf[i]))'
    <2>1. PICK i \in Images \ saved : \E m \in Nat : DownloadingAt(i, m)
      BY <1>4, <1>6 DEF FailedCleanly
    <2>2. p[1] = i
      BY <1>6, <2>1, DownloadTold DEF FailedCleanly
    <2>3. /\ \A j \in Images \ {i} : files'[j] = files[j]
          /\ \A j \in Images \ {i}, l \in Layers : <<j, l>> \in damaged => <<j, l>> \in damaged'
      BY <1>6, <2>2 DEF FailedCleanly, PullTypes, FilesType
    <2>6. \A j \in Images : \A k \in DOMAIN LayersOf[j] : LayersOf[j][k] \in Layers
      BY PairsOfLayers
    <2>4. saved' = saved
      BY <1>6 DEF FailedCleanly, Failed, answers
    <2>5. QED
      BY <1>2, <2>3, <2>4, <2>6 DEF WrittenUpTo, PullTypes, AnswersType
  <1>7. CASE \E p \in Pairs : DownloadComplete(p)
    BY <1>3, <1>5, <1>7, CompletesOrDies DEF Dies, answers, history
  <1>8. CASE \E p \in Pairs : \E goesOn \in BOOLEAN : DownloadFails(p, goesOn)
    BY <1>3, <1>6, <1>8, FailsOrDies DEF Dies, answers, history
  <1>9. CASE ~(\E p \in Pairs : DownloadComplete(p) \/ \E goesOn \in BOOLEAN : DownloadFails(p, goesOn))
    <2>1. UNCHANGED <<files, damaged, saved>>
      BY <1>9
      DEF Next, vars, answers, history, PayloadThrows, DownloadEndsSilently, DownloadThrows, Order, Authorized, ManifestFetched, ConfigurationFails,
          ConfigurationFetched, ConfigurationUnknown, CallbackMoved, Resolved, AllResolved,
          RedirectedUnknown, Updated, Dies, Failed, Dropped
    <2>2. QED
      BY <1>3, <2>1
  <1>10. QED
    BY <1>7, <1>8, <1>9

(* No lookup fails in a pull over nothing of another (oci_client.cc's at()).*)
LEMMA LookupsKept ==
  ASSUME PullTypes, ~mixed => InPhase, LookupsSucceed, [Next]_vars
  PROVE  LookupsSucceed'
  <1>1. CASE death' = death
    BY <1>1, HistoryStays DEF LookupsSucceed
  <1>2. CASE mixed \/ renewed
    BY <1>2, HistoryStays DEF LookupsSucceed
  <1> SUFFICES ASSUME Next, death' # death, ~mixed, ~renewed
               PROVE  death' \notin Lookups
    BY <1>1, <1>2 DEF LookupsSucceed, Lookups, vars
  <1>3. InPhase
    OBVIOUS
  <1>4. ASSUME NEW i \in Images
        PROVE  ~ConfigurationUnknown(i)
    <2> SUFFICES ASSUME ConfigurationUnknown(i)
                 PROVE  FALSE
      OBVIOUS
    <2>1. request.kind = "configuration" /\ request.image = i
      BY DEF ConfigurationUnknown, Asking
    <2>2. Quiet
      BY <1>3, <2>1, PhaseTold
    <2>3. QED
      BY <2>1, <2>2 DEF Quiet, ConfigurationUnknown
  <1>5. ASSUME NEW i \in Images
        PROVE  ~RedirectedUnknown(i)
    <2> SUFFICES ASSUME RedirectedUnknown(i)
                 PROVE  FALSE
      OBVIOUS
    <2>1. request.kind = "resolution"
      BY DEF RedirectedUnknown, Asking
    <2>2. QED
      BY <1>3, <2>1, PhaseTold, ResolvingHasTasks DEF RedirectedUnknown
  <1>6. ASSUME NEW i \in Images
        PROVE  ~AllResolved(i)
    BY <1>3, PhaseOfStart
  <1>7. ASSUME NEW p \in Pairs, runs[p] > 0
        PROVE  /\ ~CompletionFails(p) /\ ~FailureFails(p)
               /\ p[1] \in DOMAIN images => images[p[1]]
    <2>1. Downloading \/ GivenUp
      BY <1>3, <1>7, PhaseTold
    <2>2. Downloading
      BY <1>7, <2>1 DEF GivenUp
    <2>3. QED
      BY <1>7, <2>2, DownloadTold DEF Downloading, FailureFails
  <1>8. ASSUME NEW p \in Pairs
        PROVE  ~DownloadComplete(p)
    BY <1>7, CompletesOrDies DEF Completed, DownloadComplete
  <1>9. ASSUME NEW p \in Pairs, NEW goesOn \in BOOLEAN, DownloadFails(p, goesOn)
        PROVE  death' = "recursion"
    <2>1. ~FailureFails(p)
      BY <1>7, <1>9 DEF DownloadFails
    <2>2. QED
      BY <1>9, <2>1, FailsOrDies DEF FailedCleanly, Dies
  <1>10. ASSUME NEW p \in Pairs, Updated(p)
         PROVE  death' = "divided by zero"
    BY <1>7, <1>10 DEF Updated, Dies, vars
  <1>11. ASSUME NEW i \in Images, CallbackMoved(i)
         PROVE  death' = "callback moved"
    BY <1>11 DEF CallbackMoved, Dies
  <1>12. ASSUME (\E i \in Images : PayloadThrows(i)) \/ (\E p \in Pairs : DownloadThrows(p))
         PROVE  death' = "not understood"
    BY <1>12 DEF PayloadThrows, DownloadThrows, Dies
  <1>13. death' \in {"recursion", "divided by zero", "callback moved", "not understood"}
    BY <1>4, <1>5, <1>6, <1>8, <1>9, <1>10, <1>11, <1>12
    DEF Next, Order, Authorized, ManifestFetched, ConfigurationFails, ConfigurationFetched, Resolved,
        DownloadEndsSilently
  <1>14. QED
    BY <1>13 DEF Lookups

----------------------------------------------------------------------------
(* The theorems                                                             *)

(* The invariant holds in every state of a pull.                            *)
THEOREM PullCorrect == Spec => []PullInv
  <1> DEFINE Inv == /\ PullTypes /\ SavedWritten /\ LookupsSucceed
                    /\ ~mixed => InPhase
  <1>1. Init => Inv
    <2> SUFFICES ASSUME Init
                 PROVE  Inv
      OBVIOUS
    <2>1. ImagesType /\ TasksType /\ RunsType /\ AnswersType /\ FlagsType
      BY DEF Init, ImagesType, TasksType, RunsType, AnswersType, FlagsType
    <2>2. QueuesType
      BY EmptySeq DEF Init, QueuesType
    <2>3. FilesType
      BY DEF Init, FilesType
    <2>4. RequestType /\ DeathType /\ PullsType
      BY PullsAssumption DEF Init, RequestType, DeathType, PullsType, Idle
    <2>5. LookupsSucceed /\ SavedWritten
      BY DEF Init, LookupsSucceed, SavedWritten
    <2>6. Quiet
      BY DEF Init, Quiet, NothingRuns, Waiting, Idle
    <2>7. QED
      BY <2>1, <2>2, <2>3, <2>4, <2>5, <2>6 DEF PullTypes, InPhase
  <1>2. Inv /\ [Next]_vars => Inv'
    BY TypesKept, PhaseKept, WrittenKept, LookupsKept
  <1>3. Inv => PullInv
    BY TypesInParts, SavedInParts DEF PullInv
  <1>4. QED
    BY <1>1, <1>2, <1>3, PTL DEF Spec

(* An image that has a row has all its layers, each in its file, once, or   *)
(* was told so of that one with something else in the file, if they are     *)
(* different ones and no pull was ordered over another's remains or went on *)
(* after it had failed (save_image_details).                                *)
THEOREM SavedImagesAreWhole == Spec => []SavedIsWhole
  <1>1. PullInv => SavedIsWhole
    BY DEF PullInv
  <1>2. QED
    BY <1>1, PullCorrect, PTL

(* No at() of an image or of a task throws in such a pull (oci_client.cc).  *)
THEOREM LookupsNeverFail == Spec => []LookupsSucceed
  <1>1. PullInv => LookupsSucceed
    BY DEF PullInv
  <1>2. QED
    BY <1>1, PullCorrect, PTL

(* A pull without an answer is being worked on or was given up where nobody *)
(* is told, downloads that end silently among these (on_order_received to   *)
(* on_download_complete).                                                   *)
THEOREM PullsAreNotForgotten == Spec => []NotForgotten
  <1>1. PullInv => NotForgotten
    <2> SUFFICES ASSUME PullInv, ~mixed, NEW i \in Waiting
                 PROVE  request.image = i \/ \E l \in Layers : runs[<<i, l>>] > 0
      BY DEF NotForgotten, Waiting
    <2>1. PullTypes /\ InPhase
      BY TypesInParts DEF PullInv, SavedIsWhole
    <2>2. CASE Quiet \/ Resolving \/ GivenUp
      BY <2>2 DEF Quiet, Resolving, GivenUp, Asking
    <2>3. CASE Downloading
      <3>1. PICK j \in Images \ saved : \E m \in Nat : DownloadingAt(j, m)
        BY <2>3 DEF Downloading
      <3>2. PICK m \in Nat : DownloadingAt(j, m)
        BY <3>1
      <3>3. j = i
        BY <3>2 DEF DownloadingAt
      <3>4. LayersOf[i][m + 1] \in Layers
        <4>1. Len(LayersOf[i]) \in Nat /\ DOMAIN LayersOf[i] = 1 .. Len(LayersOf[i])
          BY <3>3, PairsOfLayers
        <4>2. m + 1 \in DOMAIN LayersOf[i]
          BY <3>2, <3>3, <4>1 DEF DownloadingAt
        <4>3. QED
          BY <3>3, <4>2, PairsOfLayers
      <3>5. <<i, LayersOf[i][m + 1]>> \in Pairs
        BY <3>3, <3>4 DEF Pairs
      <3>6. runs[<<i, LayersOf[i][m + 1]>>] > 0
        BY <3>2, <3>3, <3>5 DEF DownloadingAt
      <3>7. QED
        BY <3>4, <3>6
    <2>4. QED
      BY <2>1, <2>2, <2>3 DEF InPhase
  <1>2. QED
    BY <1>1, PullCorrect, PTL

(* The layers are downloaded one at a time, in the order of the sequence    *)
(* (resolve_layer, on_download_complete).                                   *)
THEOREM OneLayerAtATime == Spec => []OneAtATime
  <1>1. PullInv => OneAtATime
    <2> SUFFICES ASSUME PullInv, ~mixed, ~renewed, NEW p \in Pairs, runs[p] > 0
                 PROVE  /\ runs[p] = 1 /\ start_sequence # <<>> /\ Head(start_sequence) = p
                        /\ \A q \in Pairs \ {p} : runs[q] = 0
      BY DEF OneAtATime
    <2>1. PullTypes /\ InPhase
      BY TypesInParts DEF PullInv, SavedIsWhole
    <2>2. Downloading
      BY <2>1, PhaseTold DEF GivenUp
    <2>3. PICK i \in Images \ saved : \E m \in Nat : DownloadingAt(i, m)
      BY <2>2 DEF Downloading
    <2>4. PICK m \in Nat : DownloadingAt(i, m)
      BY <2>3
    <2>5. Len(LayersOf[i]) \in Nat /\ p = <<i, LayersOf[i][m + 1]>> /\ start_sequence # <<>>
      BY <2>1, <2>4, DownloadTold
    <2>6. Head(start_sequence) = p
      <3>1. start_sequence \in Seq(Pairs)
        BY <2>1 DEF PullTypes, QueuesType
      <3>2. Len(start_sequence) \in Nat \ {0}
        BY <2>5, <3>1, EmptySeq
      <3>3. start_sequence[1] = <<i, LayersOf[i][m + 1]>>
        BY <2>4, <3>2 DEF DownloadingAt, LeftAfter
      <3>4. QED
        BY <2>5, <3>3
    <2>7. \A q \in Pairs : runs[q] = IF q = p THEN 1 ELSE 0
      BY <2>4, <2>5 DEF DownloadingAt
    <2>8. QED
      BY <2>5, <2>6, <2>7
  <1>2. QED
    BY <1>1, PullCorrect, PTL

=============================================================================
