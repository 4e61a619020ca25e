----------------------------- MODULE Connection -----------------------------
(* core::connections::connection and its acceptor, with the handler registry*)
(* of core::commands: one client's orders are read in stages, handed to the *)
(* handler of their operation, and answered through a queue of frames, one  *)
(* write at a time.                                                         *)
(*                                                                          *)
(* External, as the code uses them: asio completes a read into a streambuf  *)
(* without an error once the streambuf is full; async_write_some may write  *)
(* part of a frame; it writes at once if it can, and if not it reads the    *)
(* caller's buffer later, which send_from_queue has given up by then.       *)
EXTENDS FrameFormat

CONSTANTS
  Orders,       \* what the client may order: [target, operation, length]
  Replies,      \* lengths of what a handler may write
  BufferSize,   \* buffer(1024)
  NoHandler,
  MaxOrders,    \* bound: orders of a client
  MaxFrames     \* bound: frames written to a client

ASSUME OrdersAssumption ==
  /\ Orders \subseteq [target : STRING, operation : STRING, length : Nat]
  /\ \A order \in Orders : Representable(order.length)
  /\ Replies \subseteq Nat
ASSUME BoundsAssumption == {BufferSize, MaxOrders, MaxFrames} \subseteq Nat

VARIABLES
  status,    \* "awaited", "open", "closed"; "deaf" when the acceptor has given
             \* up, "dead" when the daemon has died
  gone,      \* the client has closed its end
  ordered,   \* history: what the client has ordered
  incoming,  \* how many of its orders are yet to be read
  reading,   \* the stage of the read that is in progress, and what it knows
  insync,    \* what is read next is the beginning of a frame
  handler,   \* command_handler: [serves, key]
  handled,   \* history: what each handler was given
  queue,     \* sending_queue: [frame, length]
  writing,   \* the write in progress: "none", "deferred" until the socket has
             \* room, "done" or "failed" when it waits for its completion
  wire,      \* what the socket was given: [frame, length, bytes]
  written,   \* history: how many frames were written
  stale      \* a completion is on its way to a connection that is gone

input == <<gone, ordered, incoming, reading, insync>>
dispatch == <<handler, handled>>
output == <<queue, writing, wire, written>>
vars == <<status, input, dispatch, output, stale>>

AtHeader == [stage |-> "header", length |-> 0]

Init ==
  /\ status = "awaited"
  /\ gone = FALSE
  /\ ordered = <<>> /\ incoming = 0
  /\ reading = AtHeader /\ insync = TRUE
  /\ handler = NoHandler /\ handled = <<>>
  /\ queue = <<>> /\ writing = "none" /\ wire = <<>> /\ written = 0
  /\ stale = FALSE

----------------------------------------------------------------------------
(* The registry                                                             *)

\* bootstrap::setup_handlers
Registered ==
  ({"image"} \X {"list", "build", "import", "pull"})
  \cup ({"container"} \X {"build", "start", "stop", "shell", "logs", "list", "removal"})

\* operation_target_map and request_operations_map; "stop" is not in the latter.
NamedTargets == {"image", "container", "registry", "plugin", "client"}
NamedOperations ==
  {"list", "details", "removal", "push", "pull", "build", "import", "authorize",
   "shell", "start", "logs"}

\* Faulty variant (mutation check): only the operation is looked at.
KeyOfOperation(target, operation) == <<"", operation>>

\* command_handler_registry::key
Key(target, operation) ==
  <<IF target \in NamedTargets THEN target ELSE "unknown",
    IF operation \in NamedOperations THEN operation ELSE "unknown">>

KeyOf(order) == Key(order.target, order.operation)

\* A handler of the registry's, kept with the key it was made for.
Made == {[serves |-> r, key |-> Key(r[1], r[2])] : r \in Registered}
ASSUME NoHandlerAssumption == NoHandler \notin Made

\* command_handler_registry::fetch; no two registered keys are the same.
Providers(order) == {r \in Registered : Key(r[1], r[2]) = KeyOf(order)}

----------------------------------------------------------------------------
(* Writing                                                                  *)

(* send_from_queue, with the frame at the front of the queue after the step:*)
(* it is written at once, whole or in part, or put off, or it fails.        *)
Send(front) ==
  \/ /\ writing' = "done"
     /\ \E bytes \in {"whole", "part"} :
          wire' = Append(wire, [frame |-> front.frame, length |-> front.length, bytes |-> bytes])
  \/ writing' = "deferred" /\ UNCHANGED wire
  \/ gone /\ writing' = "failed" /\ UNCHANGED wire

\* Faulty variant (mutation check): every frame is sent when it is written.
WriteAtOnce(length) ==
  LET frame == [frame |-> written + 1, length |-> length] IN
  /\ queue' = Append(queue, frame)
  /\ written' = written + 1
  /\ Send(frame)

\* connection::write: the frame waits its turn behind the ones before it.
Write(length) ==
  LET frame == [frame |-> written + 1, length |-> length] IN
  /\ queue' = Append(queue, frame)
  /\ written' = written + 1
  /\ IF queue = <<>> THEN Send(frame) ELSE UNCHANGED <<writing, wire>>

(* A handler writes whenever it has something to say: while it handles an   *)
(* order, or when an operation of its own completes.                        *)
Reply(length) ==
  /\ status = "open" /\ handler # NoHandler
  /\ written < MaxFrames
  /\ Write(length)
  /\ UNCHANGED <<status, input, dispatch, stale>>

(* The socket has room: the vector the buffer was made of is gone, and what *)
(* is written in its place is undefined.                                    *)
WriteDeferred ==
  /\ status = "open" /\ writing = "deferred"
  /\ \/ /\ writing' = "done"
        /\ wire' = Append(wire, [frame |-> Head(queue).frame, length |-> Head(queue).length,
                                 bytes |-> "undefined"])
     \/ gone /\ writing' = "failed" /\ UNCHANGED wire
  /\ UNCHANGED <<status, input, dispatch, queue, written, stale>>

\* Faulty variant (mutation check): the next frame is not sent.
WriteCompletesOnly ==
  /\ status = "open" /\ writing = "done"
  /\ queue' = Tail(queue)
  /\ writing' = "none" /\ UNCHANGED wire
  /\ UNCHANGED <<status, input, dispatch, written, stale>>

\* Whatever part of it was written, the frame is off the queue.
WriteCompletes ==
  /\ status = "open" /\ writing = "done"
  /\ queue' = Tail(queue)
  /\ IF Tail(queue) = <<>>
     THEN writing' = "none" /\ UNCHANGED wire
     ELSE Send(Head(Tail(queue)))
  /\ UNCHANGED <<status, input, dispatch, written, stale>>

\* Faulty variant (mutation check): the queue outlives the connection.
CloseKeepsQueue(alsoInProgress) ==
  /\ status' \in {"closed", "dead"}
  /\ stale' = alsoInProgress
  /\ gone' = FALSE
  /\ ordered' = <<>> /\ incoming' = 0
  /\ reading' = AtHeader /\ insync' = TRUE
  /\ handler' = NoHandler /\ handled' = <<>>
  /\ writing' = "none" /\ wire' = <<>> /\ written' = 0
  /\ UNCHANGED queue

(* on_error: the handler is told, and the acceptor lets go of the           *)
(* connection, which destroys it.  What it has in progress completes later, *)
(* with a connection that is gone; an error other than the end of the       *)
(* stream is then logged through the logger it had.                         *)
Close(alsoInProgress) ==
  /\ status' \in {"closed", "dead"}
  /\ stale' = alsoInProgress
  /\ gone' = FALSE
  /\ ordered' = <<>> /\ incoming' = 0
  /\ reading' = AtHeader /\ insync' = TRUE
  /\ handler' = NoHandler /\ handled' = <<>>
  /\ queue' = <<>> /\ writing' = "none" /\ wire' = <<>> /\ written' = 0

\* A read is in progress at all times.
WriteFails ==
  /\ status = "open" /\ writing = "failed"
  /\ Close(TRUE)

----------------------------------------------------------------------------
(* Reading                                                                  *)

ClientOrders(order) ==
  /\ status = "open" /\ ~gone
  /\ Len(ordered) < MaxOrders
  /\ ordered' = Append(ordered, order)
  /\ incoming' = incoming + 1
  /\ UNCHANGED <<status, gone, reading, insync, dispatch, output, stale>>

ClientLeaves ==
  /\ status = "open" /\ ~gone
  /\ gone' = TRUE
  /\ UNCHANGED <<status, ordered, incoming, reading, insync, dispatch, output, stale>>

\* The order that is being read.
Current == ordered[Len(ordered) - incoming + 1]

ReadHeader ==
  /\ status = "open" /\ reading.stage = "header"
  /\ insync /\ incoming > 0
  /\ LET boundary == Boundary(Current.length) IN
       reading' = [stage |-> CASE boundary = 126 -> "medium"
                                [] boundary = 127 -> "large"
                                [] OTHER -> "payload",
                   length |-> boundary]
  /\ UNCHANGED <<status, gone, ordered, incoming, insync, dispatch, output, stale>>

\* read_medium_payload_length, read_large_payload_length
ReadLength ==
  /\ status = "open" /\ reading.stage \in {"medium", "large"}
  /\ reading' = [stage |-> "payload",
                 length |-> LengthRead(reading.length, Extension(Current.length))]
  /\ UNCHANGED <<status, gone, ordered, incoming, insync, dispatch, output, stale>>

(* handle_payload: the handler of the same key goes on; for another key a   *)
(* new one is made, if the registry has one, and if not the old one is      *)
(* given the order, if there is one.                                        *)
HandlePayload(order, whole) ==
  /\ handler' \in
       IF (handler = NoHandler \/ handler.key # KeyOf(order)) /\ Providers(order) # {}
       THEN {[serves |-> r, key |-> KeyOf(order)] : r \in Providers(order)}
       ELSE {handler}
  /\ handled' = Append(handled,
       [order |-> order, whole |-> whole,
        by |-> IF handler' = NoHandler THEN <<>> ELSE handler'.serves])

(* The read ends with the payload or with a full streambuf; in that case    *)
(* the rest of the payload is made up, and the bytes that come next are not *)
(* the beginning of a frame.                                                *)
ReadPayload ==
  /\ status = "open" /\ reading.stage = "payload"
  /\ LET fits == reading.length <= BufferSize IN
       /\ HandlePayload([Current EXCEPT !.length = reading.length], fits)
       /\ insync' = fits
  /\ incoming' = incoming - 1
  /\ reading' = AtHeader
  /\ UNCHANGED <<status, gone, ordered, output, stale>>

(* Out of step with the client, anything may be taken for an order.         *)
ReadGarbled ==
  /\ status = "open" /\ ~insync
  /\ Len(handled) < MaxOrders
  /\ \E order \in Orders, whole \in BOOLEAN : HandlePayload(order, whole)
  /\ UNCHANGED <<status, input, output, stale>>

(* The end of the stream, wherever in a frame, or another error, which may  *)
(* come before what the client has sent.                                    *)
ReadFails ==
  /\ status = "open" /\ gone
  /\ Close(writing # "none")

(* What was in progress completes with an error, over freed memory: it      *)
(* harms nothing or the daemon dies of it.                                  *)
StaleCompletion ==
  /\ stale
  /\ stale' = FALSE
  /\ status' \in {status, "dead"}
  /\ UNCHANGED <<input, dispatch, output>>

----------------------------------------------------------------------------
(* The acceptor                                                             *)

\* Each client gets a connection of its own.
Accept ==
  /\ status \in {"awaited", "closed"}
  /\ status' = "open"
  /\ UNCHANGED <<input, dispatch, output, stale>>

\* An accept that fails is not followed by another.
AcceptFails ==
  /\ status \in {"awaited", "closed"}
  /\ status' = "deaf"
  /\ UNCHANGED <<input, dispatch, output, stale>>

Next ==
  \/ Accept \/ AcceptFails
  \/ \E order \in Orders : ClientOrders(order)
  \/ ClientLeaves
  \/ ReadHeader \/ ReadLength \/ ReadPayload \/ ReadGarbled \/ ReadFails
  \/ \E length \in Replies : Reply(length)
  \/ WriteDeferred \/ WriteCompletes \/ WriteFails
  \/ StaleCompletion

Spec == Init /\ [][Next]_vars

----------------------------------------------------------------------------

(* The stages, the queue and the histories hold what they are made for.     *)
TypeOK ==
  /\ status \in {"awaited", "open", "closed", "deaf", "dead"}
  /\ gone \in BOOLEAN /\ insync \in BOOLEAN /\ stale \in BOOLEAN
  /\ ordered \in Seq(Orders) /\ incoming \in 0 .. Len(ordered)
  /\ reading \in [stage : {"header", "medium", "large", "payload"}, length : Nat]
  /\ handler \in Made \cup {NoHandler}
  /\ \A i \in DOMAIN handled : handled[i].by \in Registered \cup {<<>>}
  /\ queue \in Seq([frame : 1 .. written, length : Replies])
  /\ writing \in {"none", "deferred", "done", "failed"}
  /\ wire \in Seq([frame : 1 .. written, length : Replies,
                   bytes : {"whole", "part", "undefined"}])
  /\ written \in 0 .. MaxFrames

(* While a connection is open a write is in progress exactly when there is  *)
(* something to send: the queue never stalls and no two writes are under    *)
(* way at once, whoever writes while a completion is on its way.            *)
WriteInProgress == status = "open" => (queue # <<>> <=> writing # "none")

(* The socket is given the frames in the order they were written, each once *)
(* and none left out, and the ones it was not given are in the queue.       *)
FramesInOrder ==
  /\ \A i \in DOMAIN wire : wire[i].frame = i
  /\ LET given == IF writing = "done" THEN 1 ELSE 0 IN
       /\ Len(wire) + Len(queue) - given = written
       /\ \A i \in DOMAIN queue : queue[i].frame = Len(wire) - given + i

(* As long as no payload was larger than the streambuf, what is handled is  *)
(* what the client ordered, in its order, with its length; and the orders   *)
(* that are not handled are still to be read.                               *)
OrdersArriveIntact ==
  (\A i \in DOMAIN handled : handled[i].order.length <= BufferSize) =>
    /\ insync
    /\ Len(handled) + incoming = Len(ordered)
    /\ \A i \in DOMAIN handled : handled[i].order = ordered[i] /\ handled[i].whole

(* An order of a registered operation goes to a handler made for that       *)
(* operation, whatever was ordered before and whoever shares its key.       *)
OrderReachesItsHandler ==
  \A i \in DOMAIN handled :
    LET asked == <<handled[i].order.target, handled[i].order.operation>> IN
    asked \in Registered => handled[i].by = asked

(* The connection is a FrameQueue: the frame whose write awaits only its    *)
(* completion has been given, and is kept at the front of the queue.        *)
FrameOf(entry) == [frame |-> entry.frame, length |-> entry.length]
waitingFrames == IF writing = "done" THEN Tail(queue) ELSE queue
givenFrames == [i \in DOMAIN wire |-> FrameOf(wire[i])]
Output == INSTANCE FrameQueue
            WITH Frames <- [frame : 1 .. MaxFrames, length : Replies],
                 waiting <- waitingFrames,
                 given <- givenFrames
QueueSpec == Output!Spec
=============================================================================
