-------------------------- MODULE ConnectionProofs --------------------------
(* What holds of a connection for every set of orders and replies, every    *)
(* size of the buffer and every bound.                                      *)
EXTENDS Connection, SequenceTheorems, TLAPS

----------------------------------------------------------------------------
(* The frame format                                                         *)

(* The loop over two bytes, and over eight of which four are zero: the      *)
(* function it computes is the one written out.                             *)
LEMMA LengthInOfTwo ==
  ASSUME NEW b, Len(b) = 2, b[1] \in Nat, b[2] \in Nat
  PROVE  LengthIn(b) = 256 * b[1] + b[2]
  <1> DEFINE upTo == CHOOSE f : f = [k \in 0 .. Len(b) |-> IF k = 0 THEN 0 ELSE 256 * f[k - 1] + b[k]]
             g == [k \in 0 .. Len(b) |-> IF k = 0 THEN 0 ELSE IF k = 1 THEN b[1] ELSE 256 * b[1] + b[2]]
  <1>1. g = [k \in 0 .. Len(b) |-> IF k = 0 THEN 0 ELSE 256 * g[k - 1] + b[k]]
    OBVIOUS
  <1>2. upTo = [k \in 0 .. Len(b) |-> IF k = 0 THEN 0 ELSE 256 * upTo[k - 1] + b[k]]
    BY <1>1
  <1>3. LengthIn(b) = upTo[Len(b)]
    BY DEF LengthIn
  <1> HIDE DEF upTo
  <1>4. upTo[0] = 0 /\ upTo[1] = 256 * upTo[0] + b[1] /\ upTo[2] = 256 * upTo[1] + b[2]
    BY <1>2
  <1>6. upTo[1] = b[1]
    BY <1>4
  <1>7. LengthIn(b) = upTo[2]
    BY <1>3
  <1>8. QED
    BY <1>4, <1>6, <1>7

(* Eight bytes of which the upper four are zero count as the lower four.    *)
LEMMA LengthInOfEight ==
  ASSUME NEW b, Len(b) = 8, \A k \in 1 .. 8 : b[k] \in Nat,
         b[1] = 0, b[2] = 0, b[3] = 0, b[4] = 0
  PROVE  LengthIn(b) = 256 * (256 * (256 * b[5] + b[6]) + b[7]) + b[8]
  <1> DEFINE upTo == CHOOSE f : f = [k \in 0 .. Len(b) |-> IF k = 0 THEN 0 ELSE 256 * f[k - 1] + b[k]]
             g == [k \in 0 .. Len(b) |->
                     IF k <= 4 THEN 0
                     ELSE IF k = 5 THEN b[5]
                     ELSE IF k = 6 THEN 256 * b[5] + b[6]
                     ELSE IF k = 7 THEN 256 * (256 * b[5] + b[6]) + b[7]
                     ELSE 256 * (256 * (256 * b[5] + b[6]) + b[7]) + b[8]]
  <1>1. g = [k \in 0 .. Len(b) |-> IF k = 0 THEN 0 ELSE 256 * g[k - 1] + b[k]]
    OBVIOUS
  <1>2. upTo = [k \in 0 .. Len(b) |-> IF k = 0 THEN 0 ELSE 256 * upTo[k - 1] + b[k]]
    BY <1>1
  <1>3. LengthIn(b) = upTo[Len(b)]
    BY DEF LengthIn
  <1> HIDE DEF upTo
  <1>4. upTo[0] = 0 /\ \A k \in 1 .. 8 : upTo[k] = 256 * upTo[k - 1] + b[k]
    BY <1>2
  <1>5. upTo[4] = 0
    <2>1. upTo[1] = 0
      BY <1>4
    <2>2. upTo[2] = 0
      BY <1>4, <2>1
    <2>3. upTo[3] = 0
      BY <1>4, <2>2
    <2>4. QED
      BY <1>4, <2>3
  <1>6. upTo[5] = b[5]
    BY <1>4, <1>5
  <1>7. upTo[6] = 256 * b[5] + b[6]
    BY <1>4, <1>6
  <1>8. upTo[7] = 256 * (256 * b[5] + b[6]) + b[7]
    BY <1>4, <1>7
  <1>9. upTo[8] = 256 * (256 * (256 * b[5] + b[6]) + b[7]) + b[8]
    BY <1>4, <1>8
  <1>10. QED
    BY <1>3, <1>9

(* A reader makes of a frame's header the length it was written with        *)
(* (connection::write, read_header and the two that read the length).       *)
LEMMA LengthArrives ==
  ASSUME NEW length \in Nat, Representable(length)
  PROVE  LengthRead(Boundary(length), Extension(length)) = length
  <1>0. length < 32768 * 65536
    BY DEF Representable
  <1>1. CASE length < 126
    BY <1>1 DEF LengthRead, Boundary
  <1>2. CASE length >= 126 /\ length < 65536
    <2> DEFINE e == Extension(length)
    <2>1. e = [i \in 1 .. 2 |-> ByteOf(length, 2 - i)]
      BY <1>2 DEF Extension, Boundary
    <2>2. ByteOf(length, 0) = length % 256 /\ ByteOf(length, 1) = (length \div 256) % 256
      BY DEF ByteOf, Place
    <2>3. Len(e) = 2 /\ e[1] = (length \div 256) % 256 /\ e[2] = length % 256
      BY <2>1, <2>2
    <2>4. LengthRead(Boundary(length), e) = 256 * ((length \div 256) % 256) + (length % 256)
      BY <1>2, <2>3, LengthInOfTwo DEF LengthRead, Boundary
    <2>5. QED
      BY <2>4, <1>2
  <1>3. CASE length >= 65536
    <2> DEFINE e == Extension(length)
    <2>1. e = [i \in 1 .. 8 |-> ByteOf(length, 8 - i)]
      BY <1>3 DEF Extension, Boundary
    <2>2. /\ ByteOf(length, 0) = length % 256 /\ ByteOf(length, 1) = (length \div 256) % 256
          /\ ByteOf(length, 2) = (length \div 65536) % 256 
          /\ ByteOf(length, 3) = (length \div (256 * 65536)) % 256
          /\ \A k \in 4 .. 7 : ByteOf(length, k) = 0
      BY DEF ByteOf, Place
    <2>3. /\ Len(e) = 8 /\ \A k \in 1 .. 8 : e[k] \in Nat
          /\ e[1] = 0 /\ e[2] = 0 /\ e[3] = 0 /\ e[4] = 0
          /\ e[5] = (length \div (256 * 65536)) % 256 /\ e[6] = (length \div 65536) % 256
          /\ e[7] = (length \div 256) % 256 /\ e[8] = length % 256
      BY <2>1, <2>2
    <2>4. LengthRead(Boundary(length), e) 
           = 256 * (256 * (256 * e[5] + e[6]) + e[7]) + e[8]
      BY <1>3, <2>3, LengthInOfEight DEF LengthRead, Boundary
    <2>5. QED
      BY <2>3, <2>4, <1>0, <1>3
  <1>4. QED
    BY <1>1, <1>2, <1>3

----------------------------------------------------------------------------
(* Writing                                                                  *)

Queued == [frame : 1 .. written, length : Replies]
Given == [frame : 1 .. written, length : Replies, bytes : {"whole", "part", "undefined"}]

OutputTypes ==
  /\ queue \in Seq(Queued)
  /\ writing \in {"none", "deferred", "done", "failed"}
  /\ wire \in Seq(Given)
  /\ written \in 0 .. MaxFrames

\* WriteInProgress, before a connection is open as well.
WritingWhatIsQueued == queue # <<>> <=> writing # "none"

OutputInv == OutputTypes /\ WritingWhatIsQueued /\ FramesInOrder

(* What the socket was given grows by nothing or by the frame in front.     *)
LEMMA SendGives ==
  ASSUME NEW front, NEW S, wire \in Seq(S), Send(front),
         \A b \in {"whole", "part"} :
           [frame |-> front.frame, length |-> front.length, bytes |-> b] \in S
  PROVE  wire' \in Seq(S) /\ writing' \in {"deferred", "done", "failed"}
  <1>1. CASE wire' = wire
    BY <1>1 DEF Send
  <1>2. ASSUME NEW b \in {"whole", "part"},
               wire' = Append(wire, [frame |-> front.frame, length |-> front.length,
                                     bytes |-> b])
        PROVE  wire' \in Seq(S)
    BY <1>2, AppendProperties
  <1>3. QED
    BY <1>1, <1>2 DEF Send

(* The frame at the front is given to the socket at its place, or is still  *)
(* the first of the queue.                                                  *)
LEMMA SendKeepsOrder ==
  ASSUME OutputTypes', queue' # <<>>,
         wire \in Seq(Given'),
         \A i \in DOMAIN wire : wire[i].frame = i,
         Len(wire) + Len(queue') = written',
         \A i \in DOMAIN queue' : queue'[i].frame = Len(wire) + i,
         Send(Head(queue'))
  PROVE  (WritingWhatIsQueued /\ FramesInOrder)'
  <1>1. CASE writing' = "done"
    <2>1. PICK bytes \in {"whole", "part"} :
            wire' = Append(wire, [frame |-> Head(queue').frame, length |-> Head(queue').length,
                                  bytes |-> bytes])
      BY <1>1 DEF Send
    <2>2. Head(queue').frame = Len(wire) + 1
      BY DEF OutputTypes
    <2>3. \A i \in DOMAIN wire' : wire'[i].frame = i
      BY <2>1, <2>2
    <2>4. Len(wire') = Len(wire) + 1
      BY <2>1
    <2>5. QED
      BY <1>1, <2>3, <2>4 DEF OutputTypes, WritingWhatIsQueued, FramesInOrder
  <1>2. CASE writing' # "done"
    <2>1. wire' = wire /\ writing' # "none"
      BY <1>2 DEF Send
    <2>2. Len(wire) \in Nat /\ Len(queue') \in Nat
      BY LenProperties DEF OutputTypes
    <2>3. FramesInOrder'
      BY <1>2, <2>1, <2>2 DEF FramesInOrder
    <2>4. QED
      BY <2>1, <2>3 DEF WritingWhatIsQueued
  <1>3. QED
    BY <1>1, <1>2

(* A frame is queued behind the ones before it, and sent if it is the first.*)
LEMMA WriteKeepsOrder ==
  ASSUME OutputInv, NEW length \in Replies, written < MaxFrames, Write(length)
  PROVE  OutputInv'
  <1> DEFINE frame == [frame |-> written + 1, length |-> length]
  <1>1. written' = written + 1 /\ written' \in 0 .. MaxFrames
    BY BoundsAssumption DEF Write, OutputInv, OutputTypes
  <1>2. frame \in Queued' /\ Queued \subseteq Queued' /\ Given \subseteq Given'
    BY <1>1 DEF Queued, Given, OutputInv, OutputTypes
  <1>3. queue' = Append(queue, frame) /\ queue \in Seq(Queued') /\ wire \in Seq(Given')
    BY <1>2, SeqMonotonic DEF Write, OutputInv, OutputTypes
  <1>4. queue' \in Seq(Queued') /\ queue' # <<>>
    BY <1>2, <1>3
  <1>5. CASE queue = <<>>
    <2>1. Send(Head(queue')) /\ writing = "none"
      BY <1>3, <1>5 DEF Write, OutputInv, WritingWhatIsQueued
    <2>2. OutputTypes'
      <3>1. Head(queue') = frame
        BY <1>3, <1>5
      <3>2. \A b \in {"whole", "part"} :
              [frame |-> frame.frame, length |-> frame.length, bytes |-> b] \in Given'
        BY <1>2 DEF Queued, Given
      <3>3. wire' \in Seq(Given') /\ writing' \in {"deferred", "done", "failed"}
        BY <1>3, <2>1, <3>1, <3>2, SendGives
      <3>4. QED
        BY <1>1, <1>4, <3>3 DEF OutputTypes
    <2>3. \A i \in DOMAIN wire : wire[i].frame = i
      BY DEF OutputInv, FramesInOrder
    <2>4. Len(wire) = written
      BY <1>5, <2>1 DEF OutputInv, OutputTypes, FramesInOrder
    <2>5. Len(queue') = 1 /\ queue'[1] = frame
      BY <1>3, <1>5
    <2>6. QED
      BY <1>1, <1>3, <1>4, <2>1, <2>2, <2>3, <2>4, <2>5, SendKeepsOrder DEF OutputInv
  <1>6. CASE queue # <<>>
    <2>1. writing' = writing /\ wire' = wire
      BY <1>6 DEF Write
    <2>2. OutputTypes'
      BY <1>1, <1>3, <1>4, <2>1 DEF OutputInv, OutputTypes
    <2>3. WritingWhatIsQueued'
      BY <1>4, <1>6, <2>1 DEF OutputInv, WritingWhatIsQueued
    <2>4. /\ Len(queue) \in Nat /\ Len(wire) \in Nat /\ written \in Nat
          /\ Len(queue') = Len(queue) + 1 /\ queue'[Len(queue) + 1] = frame
          /\ DOMAIN queue' = 1 .. Len(queue) + 1
          /\ \A i \in 1 .. Len(queue) : queue'[i] = queue[i] /\ i \in DOMAIN queue
      BY <1>2, <1>3, AppendProperties, LenProperties DEF OutputInv, OutputTypes
    <2>5. FramesInOrder'
      <3> DEFINE given == IF writing = "done" THEN 1 ELSE 0
      <3>1. /\ Len(wire) + Len(queue) - given = written
            /\ \A i \in DOMAIN queue : queue[i].frame = Len(wire) - given + i
            /\ \A i \in DOMAIN wire : wire[i].frame = i
        BY DEF OutputInv, FramesInOrder
      <3>2. Len(wire) + Len(queue') - given = written'
        BY <1>1, <2>4, <3>1
      <3>3. \A i \in DOMAIN queue' : queue'[i].frame = Len(wire) - given + i
        BY <2>4, <3>1
      <3>4. QED
        BY <2>1, <3>1, <3>2, <3>3 DEF FramesInOrder
    <2>6. QED
      BY <2>2, <2>3, <2>5 DEF OutputInv
  <1>7. QED
    BY <1>5, <1>6

(* A completed write takes its frame off the queue, and the next is sent.   *)
LEMMA CompletionKeepsOrder ==
  ASSUME OutputInv, WriteCompletes
  PROVE  OutputInv'
  <1> USE DEF OutputInv, OutputTypes
  <1>1. queue # <<>> /\ writing = "done" /\ queue' = Tail(queue) /\ written' = written
    BY DEF WriteCompletes, WritingWhatIsQueued
  <1>2. Queued' = Queued /\ Given' = Given
    BY <1>1 DEF Queued, Given
  <1>3. queue' \in Seq(Queued')
    BY <1>1, <1>2
  <1>4. /\ Len(wire) + Len(queue') = written
        /\ \A i \in DOMAIN queue' : queue'[i].frame = Len(wire) + i
        /\ \A i \in DOMAIN wire : wire[i].frame = i
    BY <1>1 DEF FramesInOrder
  <1>5. CASE queue' = <<>>
    <2>1. writing' = "none" /\ wire' = wire
      BY <1>1, <1>5 DEF WriteCompletes
    <2>2. OutputTypes' /\ WritingWhatIsQueued'
      BY <1>1, <1>2, <1>3, <1>5, <2>1 DEF WritingWhatIsQueued
    <2>3. Len(wire) \in Nat /\ Len(queue') \in Nat
      BY <1>3, LenProperties
    <2>4. FramesInOrder'
      BY <1>1, <1>4, <2>1, <2>3 DEF FramesInOrder
    <2>5. QED
      BY <2>2, <2>4
  <1>6. CASE queue' # <<>>
    <2>1. Send(Head(queue'))
      BY <1>1, <1>6 DEF WriteCompletes
    <2>2. OutputTypes'
      <3>1. Head(queue') \in Queued
        BY <1>2, <1>3, <1>6
      <3>2. \A b \in {"whole", "part"} :
              [frame |-> Head(queue').frame, length |-> Head(queue').length, bytes |-> b] \in Given
        BY <3>1 DEF Queued, Given
      <3>3. wire' \in Seq(Given) /\ writing' \in {"deferred", "done", "failed"}
        BY <2>1, <3>2, SendGives
      <3>4. QED
        BY <1>1, <1>2, <1>3, <3>3
    <2>3. QED
      BY <1>1, <1>2, <1>4, <1>6, <2>1, <2>2, SendKeepsOrder
  <1>7. QED
    BY <1>5, <1>6

(* What was put off is written later, at its place.                         *)
LEMMA DeferralKeepsOrder ==
  ASSUME OutputInv, WriteDeferred
  PROVE  OutputInv'
  <1> USE DEF OutputInv, OutputTypes
  <1>1. queue # <<>> /\ writing = "deferred" /\ UNCHANGED <<queue, written>>
    BY DEF WriteDeferred, WritingWhatIsQueued
  <1>2. Queued' = Queued /\ Given' = Given
    BY <1>1 DEF Queued, Given
  <1>3. Head(queue) \in Queued /\ Head(queue).frame = Len(wire) + 1
    BY <1>1 DEF FramesInOrder
  <1>4. CASE writing' = "done"
    <2>1. wire' = Append(wire, [frame |-> Head(queue).frame, length |-> Head(queue).length,
                                bytes |-> "undefined"])
      BY <1>4 DEF WriteDeferred
    <2>2. wire' \in Seq(Given)
      BY <1>3, <2>1 DEF Queued, Given
    <2>3. /\ Len(wire) \in Nat /\ Len(queue) \in Nat /\ written \in Nat
          /\ Len(wire') = Len(wire) + 1 /\ wire'[Len(wire) + 1].frame = Len(wire) + 1
          /\ DOMAIN wire' = 1 .. Len(wire) + 1
          /\ \A i \in 1 .. Len(wire) : wire'[i] = wire[i] /\ i \in DOMAIN wire
      BY <1>3, <2>1
    <2>4. /\ Len(wire) + Len(queue) = written
          /\ \A i \in DOMAIN queue : queue[i].frame = Len(wire) + i
          /\ \A i \in DOMAIN wire : wire[i].frame = i
      BY <1>1, <2>3 DEF FramesInOrder
    <2>5. FramesInOrder'
      <3> HIDE DEF OutputInv, OutputTypes
      <3>1. \A i \in DOMAIN wire' : wire'[i].frame = i
        BY <2>3, <2>4
      <3>2. Len(wire') + Len(queue) - 1 = written
        BY <2>3, <2>4
      <3>3. DOMAIN queue \subseteq Int
        BY LenProperties DEF OutputInv, OutputTypes
      <3>4. \A i \in DOMAIN queue : Len(wire') - 1 + i = Len(wire) + i
        BY <2>3, <3>3
      <3>5. QED
        BY <1>1, <1>4, <2>4, <3>1, <3>2, <3>4 DEF FramesInOrder
    <2>6. QED
      BY <1>1, <1>2, <1>4, <2>2, <2>5 DEF WritingWhatIsQueued
  <1>5. CASE writing' # "done"
    BY <1>1, <1>2, <1>5 DEF WriteDeferred, WritingWhatIsQueued, FramesInOrder
  <1>6. QED
    BY <1>4, <1>5

(* A connection that is closed has nothing to send.                         *)
LEMMA NothingToSend ==
  ASSUME queue = <<>>, writing = "none", wire = <<>>, written = 0
  PROVE  OutputInv
  BY BoundsAssumption, EmptySeq
  DEF OutputInv, OutputTypes, WritingWhatIsQueued, FramesInOrder

(* What is to be sent changes when a handler writes, when the socket has    *)
(* room or is done, and when the connection closes; nothing else touches it.*)
LEMMA OutputSteps ==
  ASSUME [Next]_vars
  PROVE  \/ \E length \in Replies : Reply(length)
         \/ WriteDeferred \/ WriteCompletes
         \/ \E alsoInProgress \in BOOLEAN : Close(alsoInProgress)
         \/ UNCHANGED output
  BY DEF Next, vars, Accept, AcceptFails, ClientOrders, ClientLeaves, ReadHeader, ReadLength,
         ReadPayload, ReadGarbled, ReadFails, WriteFails, StaleCompletion

(* The queue, the write in progress and the histories of what was sent fit  *)
(* each other in every state: the two properties below are parts of it.     *)
THEOREM OutputCorrect == Spec => []OutputInv
  <1>1. Init => OutputInv
    BY NothingToSend DEF Init
  <1>2. OutputInv /\ [Next]_vars => OutputInv'
    <2> SUFFICES ASSUME OutputInv, [Next]_vars
                 PROVE  OutputInv'
      OBVIOUS
    <2>1. ASSUME NEW length \in Replies, Reply(length)
          PROVE  OutputInv'
      BY <2>1, WriteKeepsOrder DEF Reply
    <2>2. CASE WriteDeferred
      BY <2>2, DeferralKeepsOrder
    <2>3. CASE WriteCompletes
      BY <2>3, CompletionKeepsOrder
    <2>4. ASSUME NEW alsoInProgress, Close(alsoInProgress)
          PROVE  OutputInv'
      <3>1. queue' = <<>> /\ writing' = "none" /\ wire' = <<>> /\ written' = 0
        BY <2>4 DEF Close
      <3>2. QED
        BY <3>1, BoundsAssumption, EmptySeq
        DEF OutputInv, OutputTypes, WritingWhatIsQueued, FramesInOrder
    <2>5. CASE UNCHANGED output
      BY <2>5 DEF output, OutputInv, OutputTypes, Queued, Given, WritingWhatIsQueued, FramesInOrder
    <2>6. QED
      BY OutputSteps, <2>1, <2>2, <2>3, <2>4, <2>5
  <1>3. QED
    BY <1>1, <1>2, PTL DEF Spec

(* While a connection is open a write is in progress exactly when there is  *)
(* something to send, and the socket is given every frame once, in order    *)
(* (write, send_from_queue and its completion).                             *)
THEOREM QueueNeverStalls == Spec => []WriteInProgress
  <1>1. OutputInv => WriteInProgress
    BY DEF OutputInv, WritingWhatIsQueued, WriteInProgress
  <1>2. QED
    BY <1>1, OutputCorrect, PTL

(* What the socket was given and what is queued are the frames that were    *)
(* written, by their numbers, in that order and each once; how much of a    *)
(* frame the socket takes is left open (connection::write, send_from_queue).*)
THEOREM FramesStayInOrder == Spec => []FramesInOrder
  <1>1. OutputInv => FramesInOrder
    BY DEF OutputInv
  <1>2. QED
    BY <1>1, OutputCorrect, PTL

(* What was given to the socket grows by the frame that is written.         *)
LEMMA GivenGrows ==
  ASSUME NEW S, wire \in Seq(S), NEW entry \in S, wire' = Append(wire, entry)
  PROVE  givenFrames' = Append(givenFrames, FrameOf(entry))
  <1> DEFINE Bare == {FrameOf(e) : e \in S}
             grown == Append(givenFrames, FrameOf(entry))
  <1>1. /\ Len(wire) \in Nat /\ DOMAIN wire = 1 .. Len(wire)
        /\ \A i \in 1 .. Len(wire) : wire[i] \in S
    BY LenProperties, ElementOfSeq
  <1>2. givenFrames \in Seq(Bare) /\ Len(givenFrames) = Len(wire)
    <2>1. givenFrames \in [1 .. Len(wire) -> Bare]
      BY <1>1 DEF givenFrames
    <2>2. QED
      BY <1>1, <2>1, SeqDef, LenProperties
  <1>3. /\ DOMAIN wire' = 1 .. Len(wire) + 1 /\ wire'[Len(wire) + 1] = entry
        /\ \A i \in 1 .. Len(wire) : wire'[i] = wire[i]
    BY <1>1, AppendProperties
  <1>4. /\ grown \in Seq(Bare)
        /\ Len(grown) = Len(wire) + 1
        /\ grown[Len(wire) + 1] = FrameOf(entry)
        /\ \A i \in 1 .. Len(wire) : grown[i] = FrameOf(wire[i])
    BY <1>1, <1>2, AppendProperties DEF givenFrames
  <1>5. givenFrames' = [i \in DOMAIN wire' |-> FrameOf(wire'[i])]
    BY DEF givenFrames
  <1>6. \A i \in 1 .. Len(wire) + 1 : FrameOf(wire'[i]) = grown[i]
    <2> TAKE i \in 1 .. Len(wire) + 1
    <2>1. i \in 1 .. Len(wire) \/ i = Len(wire) + 1
      BY <1>1
    <2>2. QED
      BY <2>1, <1>3, <1>4
  <1>7. grown = [i \in 1 .. Len(wire) + 1 |-> grown[i]]
    <2> HIDE DEF grown, Bare
    <2>1. \A s \in Seq(Bare) : s = [i \in 1 .. Len(s) |-> s[i]]
      OBVIOUS
    <2>2. QED
      BY <1>4, <2>1
  <1>8. QED
    BY <1>3, <1>5, <1>6, <1>7

(* A frame at the front is given or not, and the queue of those before it   *)
(* is as it was.                                                            *)
LEMMA SendGivesFront ==
  ASSUME NEW last, NEW front \in [frame : 1 .. last, length : Replies], Send(front),
         wire \in Seq([frame : 1 .. last, length : Replies,
                       bytes : {"whole", "part", "undefined"}])
  PROVE  \/ writing' = "done" /\ givenFrames' = Append(givenFrames, front)
         \/ writing' # "done" /\ givenFrames' = givenFrames
  <1>1. CASE writing' = "done"
    <2>1. PICK bytes \in {"whole", "part"} :
            wire' = Append(wire, [frame |-> front.frame, length |-> front.length,
                                  bytes |-> bytes])
      BY <1>1 DEF Send
    <2> DEFINE entry == [frame |-> front.frame, length |-> front.length, bytes |-> bytes]
    <2>2. /\ entry \in [frame : 1 .. last, length : Replies,
                         bytes : {"whole", "part", "undefined"}]
          /\ FrameOf(entry) = front
      BY DEF FrameOf
    <2>3. givenFrames' = Append(givenFrames, FrameOf(entry))
      BY <2>1, <2>2, GivenGrows
    <2>4. QED
      BY <1>1, <2>2, <2>3
  <1>2. CASE writing' # "done"
    BY <1>2 DEF Send, givenFrames
  <1>3. QED
    BY <1>1, <1>2

(* A write puts its frame behind those that wait, or it passes nobody.      *)
LEMMA WriteImplementsQueue ==
  ASSUME OutputInv, NEW length \in Replies, written < MaxFrames, Write(length)
  PROVE  Output!Next
  <1> DEFINE frame == [frame |-> written + 1, length |-> length]
  <1>1. frame \in [frame : 1 .. MaxFrames, length : Replies]
    BY BoundsAssumption DEF OutputInv, OutputTypes
  <1>2. queue' = Append(queue, frame) /\ queue \in Seq(Queued) /\ wire \in Seq(Given)
    BY DEF Write, OutputInv, OutputTypes
  <1>3. CASE queue = <<>>
    <2>1. writing = "none" /\ waitingFrames = <<>>
      BY <1>3 DEF OutputInv, WritingWhatIsQueued, waitingFrames
    <2>2. Send(frame)
      BY <1>3 DEF Write
    <2>3. queue' = <<frame>> /\ Tail(queue') = <<>>
      BY <1>2, <1>3
    <2>4. \/ writing' = "done" /\ givenFrames' = Append(givenFrames, frame)
          \/ writing' # "done" /\ givenFrames' = givenFrames
      <3>1. wire \in Seq(Given') /\ frame \in Queued'
        <4>1. written' = written + 1 /\ written \in Nat
          BY DEF Write, OutputInv, OutputTypes
        <4>2. Given \subseteq Given' /\ frame \in Queued'
          BY <4>1 DEF Given, Queued
        <4>3. QED
          BY <1>2, <4>2, SeqMonotonic
      <3>2. QED
        BY <2>2, <3>1, SendGivesFront DEF Given, Queued
    <2>5. CASE writing' = "done" /\ givenFrames' = Append(givenFrames, frame)
      <3>1. waitingFrames' = <<>>
        BY <2>3, <2>5 DEF waitingFrames
      <3>2. Output!Pass(frame)
        BY <2>1, <2>5, <3>1 DEF Output!Pass
      <3>3. QED
        BY <1>1, <3>2 DEF Output!Next
    <2>6. CASE writing' # "done" /\ givenFrames' = givenFrames
      <3>1. waitingFrames' = Append(waitingFrames, frame)
        BY <1>2, <1>3, <2>1, <2>6 DEF waitingFrames
      <3>2. Output!Put(frame)
        BY <2>6, <3>1 DEF Output!Put
      <3>3. QED
        BY <1>1, <3>2 DEF Output!Next
    <2>7. QED
      BY <2>4, <2>5, <2>6
  <1>4. CASE queue # <<>>
    <2>1. writing' = writing /\ wire' = wire
      BY <1>4 DEF Write
    <2>2. givenFrames' = givenFrames
      BY <2>1 DEF givenFrames
    <2>3. Tail(Append(queue, frame)) = Append(Tail(queue), frame)
      BY <1>2, <1>4
    <2>4. waitingFrames' = Append(waitingFrames, frame)
      BY <1>2, <2>1, <2>3 DEF waitingFrames
    <2>5. Output!Put(frame)
      BY <2>2, <2>4 DEF Output!Put
    <2>6. QED
      BY <1>1, <2>5 DEF Output!Next
  <1>5. QED
    BY <1>3, <1>4

(* A frame that was put off is given to the socket, or waits on.            *)
LEMMA DeferralImplementsQueue ==
  ASSUME OutputInv, WriteDeferred
  PROVE  [Output!Next]_<<waitingFrames, givenFrames>>
  <1>1. queue # <<>> /\ writing = "deferred" /\ queue' = queue
    BY DEF WriteDeferred, OutputInv, WritingWhatIsQueued
  <1>2. wire \in Seq(Given) /\ Head(queue) \in Queued
    BY <1>1 DEF OutputInv, OutputTypes
  <1>3. waitingFrames = queue
    BY <1>1 DEF waitingFrames
  <1>4. CASE writing' = "done"
    <2> DEFINE entry == [frame |-> Head(queue).frame, length |-> Head(queue).length,
                         bytes |-> "undefined"]
    <2>1. wire' = Append(wire, entry)
      BY <1>4 DEF WriteDeferred
    <2>2. entry \in Given /\ FrameOf(entry) = Head(queue)
      BY <1>2 DEF Given, Queued, FrameOf
    <2>3. givenFrames' = Append(givenFrames, FrameOf(entry))
      BY <1>2, <2>1, <2>2, GivenGrows
    <2>4. waitingFrames' = Tail(queue)
      BY <1>1, <1>4 DEF waitingFrames
    <2>5. Output!Give
      BY <1>1, <1>3, <2>2, <2>3, <2>4 DEF Output!Give
    <2>6. QED
      BY <2>5 DEF Output!Next
  <1>5. CASE writing' # "done"
    <2>1. wire' = wire
      BY <1>5 DEF WriteDeferred
    <2>2. givenFrames' = givenFrames /\ waitingFrames' = waitingFrames
      BY <1>1, <1>3, <1>5, <2>1 DEF givenFrames, waitingFrames
    <2>3. QED
      BY <2>2
  <1>6. QED
    BY <1>4, <1>5

(* The frame that is done leaves the queue, and the next one is given to    *)
(* the socket or waits on.                                                  *)
LEMMA CompletionImplementsQueue ==
  ASSUME OutputInv, WriteCompletes
  PROVE  [Output!Next]_<<waitingFrames, givenFrames>>
  <1>1. writing = "done" /\ queue' = Tail(queue) /\ waitingFrames = queue'
    BY DEF WriteCompletes, waitingFrames
  <1>2. queue # <<>> /\ queue \in Seq(Queued) /\ wire \in Seq(Given)
    BY <1>1 DEF OutputInv, OutputTypes, WritingWhatIsQueued
  <1>3. CASE queue' = <<>>
    <2>1. writing' = "none" /\ wire' = wire
      BY <1>1, <1>3 DEF WriteCompletes
    <2>2. givenFrames' = givenFrames /\ waitingFrames' = waitingFrames
      BY <1>1, <2>1 DEF givenFrames, waitingFrames
    <2>3. QED
      BY <2>2
  <1>4. CASE queue' # <<>>
    <2>1. Send(Head(queue')) /\ Head(queue') \in Queued
      BY <1>1, <1>2, <1>4 DEF WriteCompletes
    <2>2. \/ writing' = "done" /\ givenFrames' = Append(givenFrames, Head(queue'))
          \/ writing' # "done" /\ givenFrames' = givenFrames
      BY <1>2, <2>1, SendGivesFront DEF Given, Queued
    <2>3. CASE writing' = "done" /\ givenFrames' = Append(givenFrames, Head(queue'))
      <3>1. waitingFrames' = Tail(waitingFrames)
        BY <1>1, <2>3 DEF waitingFrames
      <3>2. Output!Give
        BY <1>1, <1>4, <2>3, <3>1 DEF Output!Give
      <3>3. QED
        BY <3>2 DEF Output!Next
    <2>4. CASE writing' # "done" /\ givenFrames' = givenFrames
      <3>1. waitingFrames' = waitingFrames
        BY <1>1, <2>4 DEF waitingFrames
      <3>2. QED
        BY <2>4, <3>1
    <2>5. QED
      BY <2>2, <2>3, <2>4
  <1>5. QED
    BY <1>3, <1>4

(* What a connection writes goes through a queue: whatever the socket does, *)
(* each step puts a frame behind the others, gives the first one, lets one  *)
(* through that nobody is before, ends the connection, or does none of it   *)
(* (connection::write, send_from_queue, on_error).                          *)
THEOREM ImplementsQueue == Spec => QueueSpec
  <1>1. Init => Output!Init
    BY DEF Init, Output!Init, waitingFrames, givenFrames
  <1>2. OutputInv /\ [Next]_vars => [Output!Next]_<<waitingFrames, givenFrames>>
    <2> SUFFICES ASSUME OutputInv, [Next]_vars
                 PROVE  [Output!Next]_<<waitingFrames, givenFrames>>
      OBVIOUS
    <2>1. ASSUME NEW length \in Replies, Reply(length)
          PROVE  Output!Next
      BY WriteImplementsQueue, <2>1 DEF Reply
    <2>2. CASE WriteDeferred
      BY <2>2, DeferralImplementsQueue
    <2>3. CASE WriteCompletes
      BY <2>3, CompletionImplementsQueue
    <2>4. ASSUME NEW alsoInProgress, Close(alsoInProgress)
          PROVE  Output!Next
      <3>1. waitingFrames' = <<>> /\ givenFrames' = <<>>
        BY <2>4 DEF Close, waitingFrames, givenFrames
      <3>2. QED
        BY <3>1 DEF Output!Next, Output!End
    <2>5. CASE UNCHANGED output
      BY <2>5 DEF output, waitingFrames, givenFrames
    <2>6. QED
      BY OutputSteps, <2>1, <2>2, <2>3, <2>4, <2>5
  <1>3. QED
    BY <1>1, <1>2, OutputCorrect, PTL DEF Spec, QueueSpec, Output!Spec

----------------------------------------------------------------------------
(* The registry                                                             *)

Order == [target : STRING, operation : STRING, length : Nat]

HandlerInv == handler \in Made \cup {NoHandler}

(* Nothing is registered twice: only stop has no name, and there is one     *)
(* (setup_handlers, command_handler_registry::key).                         *)
LEMMA KeysDiffer ==
  ASSUME NEW r \in Registered, NEW q \in Registered, Key(r[1], r[2]) = Key(q[1], q[2])
  PROVE  r = q
  BY DEF Registered, Key, NamedTargets, NamedOperations

(* handle_payload gives an order that somebody registered for to him.       *)
LEMMA HandledByItsHandler ==
  ASSUME HandlerInv, NEW order, NEW whole, HandlePayload(order, whole)
  PROVE  LET asked == <<order.target, order.operation>> IN
         /\ HandlerInv'
         /\ \E by \in Registered \cup {<<>>} :
              /\ handled' = Append(handled, [order |-> order, whole |-> whole, by |-> by])
              /\ asked \in Registered => by = asked
  <1> DEFINE asked == <<order.target, order.operation>>
             by == IF handler' = NoHandler THEN <<>> ELSE handler'.serves
  <1>1. \A h \in Made : /\ h.serves \in Registered /\ h.key = Key(h.serves[1], h.serves[2])
                        /\ h # NoHandler
    BY NoHandlerAssumption DEF Made
  <1>2. asked \in Registered => asked \in Providers(order)
    BY DEF Providers, KeyOf
  <1>3. \A r \in Providers(order) :
          /\ [serves |-> r, key |-> KeyOf(order)] \in Made
          /\ asked \in Registered => r = asked
    BY KeysDiffer DEF Providers, KeyOf, Made
  <1>4. handled' = Append(handled, [order |-> order, whole |-> whole, by |-> by])
    BY DEF HandlePayload
  <1>5. CASE (handler = NoHandler \/ handler.key # KeyOf(order)) /\ Providers(order) # {}
    <2>1. PICK r \in Providers(order) : handler' = [serves |-> r, key |-> KeyOf(order)]
      BY <1>5 DEF HandlePayload
    <2>2. handler' \in Made /\ by = r /\ r \in Registered
      BY <1>1, <1>3, <2>1 DEF Providers
    <2>3. QED
      BY <1>3, <1>4, <2>2 DEF HandlerInv
  <1>6. CASE ~((handler = NoHandler \/ handler.key # KeyOf(order)) /\ Providers(order) # {})
    <2>1. handler' = handler
      BY <1>6 DEF HandlePayload
    <2>2. HandlerInv' /\ by \in Registered \cup {<<>>}
      BY <1>1, <2>1 DEF HandlerInv
    <2>3. ASSUME asked \in Registered
          PROVE  by = asked
      <3>1. handler \in Made /\ handler.key = KeyOf(order)
        BY <1>2, <1>6, <2>3 DEF HandlerInv
      <3>2. handler.serves = asked
        BY <1>1, <2>3, <3>1, KeysDiffer DEF KeyOf
      <3>3. QED
        BY <1>1, <2>1, <3>1, <3>2
    <2>4. QED
      BY <1>4, <2>2, <2>3
  <1>7. QED
    BY <1>5, <1>6

----------------------------------------------------------------------------
(* Reading                                                                  *)

InputTypes ==
  /\ status \in {"awaited", "open", "closed", "deaf", "dead"}
  /\ gone \in BOOLEAN /\ insync \in BOOLEAN /\ stale \in BOOLEAN
  /\ ordered \in Seq(Orders) /\ incoming \in 0 .. Len(ordered)
  /\ reading \in [stage : {"header", "medium", "large", "payload"}, length : Nat]
  /\ handled \in Seq([order : Order, whole : BOOLEAN, by : Registered \cup {<<>>}])

\* In the middle of a frame, what is kept is of the order that is being read.
ReadingKnows ==
  reading.stage # "header" =>
    /\ insync /\ incoming > 0
    /\ reading.length = IF reading.stage = "payload" THEN Current.length
                        ELSE Boundary(Current.length)

InputInv ==
  InputTypes /\ HandlerInv /\ ReadingKnows /\ OrdersArriveIntact /\ OrderReachesItsHandler

(* While something is coming in, it is one of the orders that were sent.    *)
LEMMA CurrentOrder ==
  ASSUME InputTypes, incoming > 0
  PROVE  Current \in Orders /\ Current \in Order /\ Current.length \in Nat
  <1>1. Len(ordered) - incoming + 1 \in 1 .. Len(ordered)
    BY LenProperties DEF InputTypes
  <1>2. Current \in Orders
    BY <1>1, ElementOfSeq DEF InputTypes, Current
  <1>3. QED
    BY <1>2, OrdersAssumption DEF Order

(* What the client orders meanwhile does not change what is being read.     *)
LEMMA OrderedKeepsReading ==
  ASSUME InputInv, NEW order \in Orders, ClientOrders(order)
  PROVE  InputInv'
  <1>1. /\ ordered' = Append(ordered, order) /\ incoming' = incoming + 1
        /\ UNCHANGED <<status, gone, reading, insync, handler, handled, stale>>
    BY DEF ClientOrders, dispatch
  <1>2. /\ ordered' \in Seq(Orders) /\ Len(ordered') = Len(ordered) + 1 /\ Len(ordered) \in Nat
        /\ \A i \in 1 .. Len(ordered) : ordered'[i] = ordered[i]
    BY <1>1, AppendProperties, LenProperties DEF InputInv, InputTypes
  <1>3. InputTypes' /\ HandlerInv' /\ OrderReachesItsHandler'
    BY <1>1, <1>2 DEF InputInv, InputTypes, HandlerInv, OrderReachesItsHandler
  <1>4. ReadingKnows'
    <2>1. incoming > 0 => Current' = Current
      BY <1>1, <1>2 DEF Current, InputInv, InputTypes
    <2>2. QED
      BY <1>1, <1>2, <2>1 DEF InputInv, InputTypes, ReadingKnows
  <1>5. OrdersArriveIntact'
    <2>1. ASSUME \A i \in DOMAIN handled : handled[i].order.length <= BufferSize
          PROVE  /\ insync
                 /\ Len(handled) + incoming' = Len(ordered')
                 /\ \A i \in DOMAIN handled : handled[i].order = ordered'[i] /\ handled[i].whole
      <3>1. /\ insync
            /\ Len(handled) + incoming = Len(ordered)
            /\ \A i \in DOMAIN handled : handled[i].order = ordered[i] /\ handled[i].whole
        BY <2>1 DEF InputInv, OrdersArriveIntact
      <3>2. DOMAIN handled = 1 .. Len(handled) /\ Len(handled) \in Nat
        BY LenProperties DEF InputInv, InputTypes
      <3>3. DOMAIN handled \subseteq 1 .. Len(ordered)
        BY <1>2, <3>1, <3>2 DEF InputInv, InputTypes
      <3>4. Len(handled) + incoming' = Len(ordered')
        <4>1. incoming \in Int
          BY DEF InputInv, InputTypes
        <4>2. QED
          BY <1>1, <1>2, <3>1, <3>2, <4>1
      <3>5. \A i \in DOMAIN handled : ordered'[i] = ordered[i]
        BY <1>2, <3>3
      <3>6. QED
        BY <3>1, <3>4, <3>5
    <2>2. QED
      BY <1>1, <2>1 DEF OrdersArriveIntact
  <1>6. QED
    BY <1>3, <1>4, <1>5 DEF InputInv

(* The header says how the length follows, or the length itself; and the    *)
(* length that follows is the order's.                                      *)
LEMMA HeaderKnows ==
  ASSUME InputInv, ReadHeader
  PROVE  InputInv'
  <1>1. UNCHANGED <<status, gone, ordered, incoming, insync, handler, handled, stale>>
    BY DEF ReadHeader, dispatch
  <1>2. incoming > 0 /\ insync
    BY DEF ReadHeader
  <1>3. Current.length \in Nat /\ Current' = Current
    BY <1>1, <1>2, CurrentOrder DEF InputInv, Current
  <1>4. /\ reading' \in [stage : {"header", "medium", "large", "payload"}, length : Nat]
        /\ reading'.length = Boundary(Current.length)
        /\ reading'.stage = "payload" => Boundary(Current.length) = Current.length
    <2>1. Boundary(Current.length) \in Nat
      BY <1>3 DEF Boundary
    <2>2. Boundary(Current.length) \notin {126, 127} => Boundary(Current.length) = Current.length
      BY <1>3 DEF Boundary
    <2>3. QED
      BY <2>1, <2>2 DEF ReadHeader
  <1>5. InputTypes' /\ ReadingKnows'
    BY <1>1, <1>2, <1>3, <1>4 DEF InputInv, InputTypes, ReadingKnows
  <1>6. QED
    BY <1>1, <1>5 DEF InputInv, HandlerInv, OrdersArriveIntact, OrderReachesItsHandler

(* The length of a medium or large payload is the order's (read_medium_     *)
(* payload_length, read_large_payload_length).                              *)
LEMMA LengthKnows ==
  ASSUME InputInv, ReadLength
  PROVE  InputInv'
  <1>1. UNCHANGED <<status, gone, ordered, incoming, insync, handler, handled, stale>>
    BY DEF ReadLength, dispatch
  <1>2. insync /\ incoming > 0 /\ reading.length = Boundary(Current.length)
    BY DEF ReadLength, InputInv, ReadingKnows
  <1>3. Current \in Orders /\ Current.length \in Nat /\ Current' = Current
    BY <1>1, <1>2, CurrentOrder DEF InputInv, Current
  <1>4. LengthRead(reading.length, Extension(Current.length)) = Current.length
    BY <1>2, <1>3, LengthArrives, OrdersAssumption
  <1>5. reading' = [stage |-> "payload", length |-> Current.length]
    BY <1>4 DEF ReadLength
  <1>6. InputTypes' /\ ReadingKnows'
    BY <1>1, <1>2, <1>3, <1>5 DEF InputInv, InputTypes, ReadingKnows
  <1>7. QED
    BY <1>1, <1>6 DEF InputInv, HandlerInv, OrdersArriveIntact, OrderReachesItsHandler

(* What is handled, from whatever it was read, has the types and a handler  *)
(* of its own.                                                              *)
LEMMA HandledTypes ==
  ASSUME InputInv, NEW order \in Order, NEW whole \in BOOLEAN, HandlePayload(order, whole)
  PROVE  /\ handled' \in Seq([order : Order, whole : BOOLEAN, by : Registered \cup {<<>>}])
         /\ Len(handled) \in Nat /\ Len(handled') = Len(handled) + 1
         /\ DOMAIN handled' = 1 .. Len(handled) + 1 /\ DOMAIN handled = 1 .. Len(handled)
         /\ \A i \in 1 .. Len(handled) : handled'[i] = handled[i]
         /\ handled'[Len(handled) + 1].order = order
         /\ handled'[Len(handled) + 1].whole = whole
         /\ HandlerInv' /\ OrderReachesItsHandler'
  <1>1. handled \in Seq([order : Order, whole : BOOLEAN, by : Registered \cup {<<>>}])
    BY DEF InputInv, InputTypes
  <1>2. PICK by \in Registered \cup {<<>>} :
          /\ handled' = Append(handled, [order |-> order, whole |-> whole, by |-> by])
          /\ <<order.target, order.operation>> \in Registered =>
               by = <<order.target, order.operation>>
    BY HandledByItsHandler DEF InputInv
  <1>3. HandlerInv'
    BY HandledByItsHandler DEF InputInv
  <1>4. /\ handled' \in Seq([order : Order, whole : BOOLEAN, by : Registered \cup {<<>>}])
        /\ Len(handled) \in Nat /\ Len(handled') = Len(handled) + 1
        /\ DOMAIN handled' = 1 .. Len(handled) + 1 /\ DOMAIN handled = 1 .. Len(handled)
        /\ \A i \in 1 .. Len(handled) : handled'[i] = handled[i]
        /\ handled'[Len(handled) + 1] = [order |-> order, whole |-> whole, by |-> by]
    BY <1>1, <1>2, AppendProperties, LenProperties
  <1>5. OrderReachesItsHandler'
    <2>1. \A i \in 1 .. Len(handled) :
            <<handled[i].order.target, handled[i].order.operation>> \in Registered =>
              handled[i].by = <<handled[i].order.target, handled[i].order.operation>>
      BY <1>4 DEF InputInv, OrderReachesItsHandler
    <2>2. /\ handled'[Len(handled) + 1].order = order
          /\ handled'[Len(handled) + 1].by = by
      BY <1>4
    <2>3. \A i \in DOMAIN handled' : i \in 1 .. Len(handled) \/ i = Len(handled) + 1
      BY <1>4
    <2>4. QED
      BY <1>2, <1>4, <2>1, <2>2, <2>3 DEF OrderReachesItsHandler
  <1>6. QED
    BY <1>3, <1>4, <1>5

(* The payload that is read is that of the order, in its turn.              *)
LEMMA PayloadArrives ==
  ASSUME InputInv, ReadPayload
  PROVE  InputInv'
  <1> DEFINE fits == reading.length <= BufferSize
  <1>1. insync /\ incoming > 0 /\ reading.length = Current.length
    BY DEF ReadPayload, InputInv, ReadingKnows
  <1>2. Current \in Order /\ Current.length \in Nat
    BY <1>1, CurrentOrder DEF InputInv
  <1>3. [Current EXCEPT !.length = reading.length] = Current
    BY <1>1, <1>2 DEF Order
  <1>4. /\ HandlePayload(Current, fits) /\ insync' = fits
        /\ incoming' = incoming - 1 /\ reading' = AtHeader
        /\ UNCHANGED <<status, gone, ordered, stale>>
    BY <1>3 DEF ReadPayload
  <1>5. fits \in BOOLEAN
    OBVIOUS
  <1>6. /\ handled' \in Seq([order : Order, whole : BOOLEAN, by : Registered \cup {<<>>}])
        /\ Len(handled) \in Nat /\ Len(handled') = Len(handled) + 1
        /\ DOMAIN handled' = 1 .. Len(handled) + 1 /\ DOMAIN handled = 1 .. Len(handled)
        /\ \A i \in 1 .. Len(handled) : handled'[i] = handled[i]
        /\ handled'[Len(handled) + 1].order = Current
        /\ handled'[Len(handled) + 1].whole = fits
        /\ HandlerInv' /\ OrderReachesItsHandler'
    BY <1>2, <1>4, <1>5, HandledTypes
  <1>7. InputTypes' /\ ReadingKnows'
    <2>1. incoming \in Nat /\ Len(ordered) \in Nat /\ incoming <= Len(ordered)
      BY LenProperties DEF InputInv, InputTypes
    <2>2. incoming' \in 0 .. Len(ordered)
      BY <1>1, <1>4, <2>1
    <2>3. QED
      BY <1>4, <1>5, <1>6, <2>2 DEF InputInv, InputTypes, ReadingKnows, AtHeader
  <1>8. OrdersArriveIntact'
    <2>1. ASSUME \A i \in DOMAIN handled' : handled'[i].order.length <= BufferSize
          PROVE  /\ insync'
                 /\ Len(handled') + incoming' = Len(ordered)
                 /\ \A i \in DOMAIN handled' : handled'[i].order = ordered[i] /\ handled'[i].whole
      <3>1. \A i \in DOMAIN handled : handled[i].order.length <= BufferSize
        BY <1>6, <2>1
      <3>2. /\ Len(handled) + incoming = Len(ordered)
            /\ \A i \in DOMAIN handled : handled[i].order = ordered[i] /\ handled[i].whole
        BY <3>1 DEF InputInv, OrdersArriveIntact
      <3>3. incoming \in Int
        BY DEF InputInv, InputTypes
      <3>4. Len(ordered) - incoming + 1 = Len(handled) + 1
        <4>1. Len(handled) \in Nat
          BY <1>6
        <4>2. Len(handled) + incoming = Len(ordered)
          BY <3>2
        <4>3. QED
          BY <4>1, <4>2, <3>3
      <3>5. Current = ordered[Len(handled) + 1]
        BY <3>4 DEF Current
      <3>6. fits
        BY <1>1, <1>6, <2>1
      <3>7. Len(handled') + incoming' = Len(ordered)
        <4>1. Len(handled') = Len(handled) + 1 /\ Len(handled) \in Nat /\ incoming' = incoming - 1
          BY <1>4, <1>6
        <4>2. Len(handled) + incoming = Len(ordered)
          BY <3>2
        <4>3. QED
          BY <4>1, <4>2, <3>3
      <3>8. \A i \in DOMAIN handled' : i \in 1 .. Len(handled) \/ i = Len(handled) + 1
        BY <1>6
      <3>9. \A i \in DOMAIN handled' : handled'[i].order = ordered[i] /\ handled'[i].whole
        BY <1>6, <3>2, <3>5, <3>6, <3>8
      <3>10. QED
        BY <1>4, <3>6, <3>7, <3>9
    <2>2. QED
      BY <1>4, <2>1 DEF OrdersArriveIntact
  <1>9. QED
    BY <1>6, <1>7, <1>8 DEF InputInv

(* What is garbled follows a payload that was too large.                    *)
LEMMA GarbledAfterLarge ==
  ASSUME InputInv, ReadGarbled
  PROVE  InputInv'
  <1>1. PICK order \in Orders, whole \in BOOLEAN : HandlePayload(order, whole)
    BY DEF ReadGarbled
  <1>2. ~insync /\ UNCHANGED <<status, gone, ordered, incoming, reading, insync, stale>>
    BY DEF ReadGarbled, input
  <1>3. order \in Order
    BY OrdersAssumption DEF Order
  <1>4. /\ handled' \in Seq([order : Order, whole : BOOLEAN, by : Registered \cup {<<>>}])
        /\ Len(handled) \in Nat
        /\ DOMAIN handled' = 1 .. Len(handled) + 1 /\ DOMAIN handled = 1 .. Len(handled)
        /\ \A i \in 1 .. Len(handled) : handled'[i] = handled[i]
        /\ HandlerInv' /\ OrderReachesItsHandler'
    BY <1>1, <1>3, HandledTypes
  <1>5. InputTypes' /\ ReadingKnows'
    BY <1>2, <1>4 DEF InputInv, InputTypes, ReadingKnows
  <1>6. OrdersArriveIntact'
    <2>1. PICK i \in DOMAIN handled : ~(handled[i].order.length <= BufferSize)
      BY <1>2 DEF InputInv, OrdersArriveIntact
    <2>2. i \in DOMAIN handled' /\ handled'[i] = handled[i]
      BY <1>4, <2>1
    <2>3. QED
      BY <2>1, <2>2 DEF OrdersArriveIntact
  <1>7. QED
    BY <1>4, <1>5, <1>6 DEF InputInv

(* A connection that is closed begins anew.                                 *)
LEMMA CloseForgets ==
  ASSUME NEW alsoInProgress \in BOOLEAN, Close(alsoInProgress)
  PROVE  InputInv'
  <1>1. /\ status' \in {"closed", "dead"} /\ stale' \in BOOLEAN
        /\ gone' = FALSE /\ ordered' = <<>> /\ incoming' = 0
        /\ reading' = AtHeader /\ insync' = TRUE
        /\ handler' = NoHandler /\ handled' = <<>>
    BY DEF Close
  <1>2. InputTypes' /\ HandlerInv' /\ ReadingKnows'
    <2>1. /\ ordered' \in Seq(Orders) /\ incoming' \in 0 .. Len(ordered')
          /\ handled' \in Seq([order : Order, whole : BOOLEAN, by : Registered \cup {<<>>}])
      BY <1>1, EmptySeq
    <2>2. reading' = [stage |-> "header", length |-> 0]
      BY <1>1 DEF AtHeader
    <2>3. reading' \in [stage : {"header", "medium", "large", "payload"}, length : Nat]
      BY <2>2
    <2>4. InputTypes'
      BY <1>1, <2>1, <2>3 DEF InputTypes
    <2>5. HandlerInv' /\ ReadingKnows'
      BY <1>1, <2>2 DEF HandlerInv, ReadingKnows
    <2>6. QED
      BY <2>4, <2>5
  <1>3. OrdersArriveIntact' /\ OrderReachesItsHandler'
    BY <1>1 DEF OrdersArriveIntact, OrderReachesItsHandler
  <1>4. QED
    BY <1>2, <1>3 DEF InputInv

(* What is being read is known to be of the order whose frame it is in, in  *)
(* every state: the properties of what is handled are parts of it.          *)
THEOREM InputCorrect == Spec => []InputInv
  <1>1. Init => InputInv
    <2> SUFFICES ASSUME Init PROVE InputInv
      OBVIOUS
    <2>1. InputTypes /\ HandlerInv /\ ReadingKnows
      <3>1. /\ ordered \in Seq(Orders) /\ incoming \in 0 .. Len(ordered)
            /\ handled \in Seq([order : Order, whole : BOOLEAN, by : Registered \cup {<<>>}])
        BY EmptySeq DEF Init
      <3>2. reading = [stage |-> "header", length |-> 0]
        BY DEF Init, AtHeader
      <3>3. reading \in [stage : {"header", "medium", "large", "payload"}, length : Nat]
        BY <3>2
      <3>4. InputTypes
        BY <3>1, <3>3 DEF Init, InputTypes
      <3>5. HandlerInv /\ ReadingKnows
        BY <3>2 DEF Init, HandlerInv, ReadingKnows
      <3>6. QED
        BY <3>4, <3>5
    <2>2. OrdersArriveIntact /\ OrderReachesItsHandler
      BY DEF Init, OrdersArriveIntact, OrderReachesItsHandler
    <2>3. QED
      BY <2>1, <2>2 DEF InputInv
  <1>2. InputInv /\ [Next]_vars => InputInv'
    <2> SUFFICES ASSUME InputInv, [Next]_vars
                 PROVE  InputInv'
      OBVIOUS
    <2>1. ASSUME NEW order \in Orders, ClientOrders(order)
          PROVE  InputInv'
      BY <2>1, OrderedKeepsReading
    <2>2. CASE ReadHeader
      BY <2>2, HeaderKnows
    <2>3. CASE ReadLength
      BY <2>3, LengthKnows
    <2>4. CASE ReadPayload
      BY <2>4, PayloadArrives
    <2>5. CASE ReadGarbled
      BY <2>5, GarbledAfterLarge
    <2>6. CASE ReadFails \/ WriteFails
      BY <2>6, CloseForgets DEF ReadFails, WriteFails
    <2>7. ASSUME UNCHANGED <<ordered, incoming, reading, insync, dispatch>>,
                 status' \in {"awaited", "open", "closed", "deaf", "dead"},
                 gone' \in BOOLEAN, stale' \in BOOLEAN
          PROVE  InputInv'
      <3>1. InputTypes' /\ HandlerInv' /\ ReadingKnows'
        BY <2>7 DEF dispatch, InputInv, InputTypes, HandlerInv, ReadingKnows, Current
      <3>2. OrdersArriveIntact' /\ OrderReachesItsHandler'
        BY <2>7 DEF dispatch, InputInv, OrdersArriveIntact, OrderReachesItsHandler
      <3>3. QED
        BY <3>1, <3>2 DEF InputInv
    <2>8. /\ status \in {"awaited", "open", "closed", "deaf", "dead"}
          /\ gone \in BOOLEAN /\ stale \in BOOLEAN
      BY DEF InputInv, InputTypes
    <2>9. CASE ClientLeaves \/ WriteDeferred \/ WriteCompletes \/ (\E l \in Replies : Reply(l))
      BY <2>7, <2>8, <2>9 DEF ClientLeaves, WriteDeferred, WriteCompletes, Reply, input
    <2>10. CASE Accept \/ AcceptFails \/ StaleCompletion
      BY <2>7, <2>8, <2>10 DEF Accept, AcceptFails, StaleCompletion, input
    <2>11. CASE UNCHANGED vars
      BY <2>7, <2>8, <2>11 DEF vars, input
    <2>12. QED
      BY <2>1, <2>2, <2>3, <2>4, <2>5, <2>6, <2>9, <2>10, <2>11 DEF Next
  <1>3. QED
    BY <1>1, <1>2, PTL DEF Spec

(* The stages, the queue and the histories hold what they are made for.     *)
THEOREM TypeCorrect == Spec => []TypeOK
  <1>1. InputInv /\ OutputInv => TypeOK
    <2> SUFFICES ASSUME InputInv, OutputInv
                 PROVE  TypeOK
      OBVIOUS
    <2>1. \A i \in DOMAIN handled : handled[i].by \in Registered \cup {<<>>}
      <3>1. handled \in Seq([order : Order, whole : BOOLEAN, by : Registered \cup {<<>>}])
        BY DEF InputInv, InputTypes
      <3>2. ASSUME NEW S, handled \in Seq(S), NEW i \in DOMAIN handled
            PROVE  handled[i] \in S
        <4>1. i \in 1 .. Len(handled)
          BY <3>2, LenProperties
        <4>2. QED
          BY <3>2, <4>1, ElementOfSeq
      <3>3. ASSUME NEW i \in DOMAIN handled
            PROVE  handled[i].by \in Registered \cup {<<>>}
        <4>1. handled[i] \in [order : Order, whole : BOOLEAN, by : Registered \cup {<<>>}]
          BY <3>1, <3>2
        <4>2. QED
          BY <4>1
      <3>4. QED
        BY <3>3
    <2>2. QED
      BY <2>1
      DEF InputInv, InputTypes, HandlerInv, OutputInv, OutputTypes, Queued, Given, TypeOK
  <1>2. QED
    BY <1>1, InputCorrect, OutputCorrect, PTL

(* What is handled is what was ordered, as long as no payload was larger    *)
(* than the streambuf, whatever the lengths, the stages they are read in    *)
(* and what the client orders meanwhile (read_header to handle_payload).    *)
THEOREM OrdersIntact == Spec => []OrdersArriveIntact
  <1>1. InputInv => OrdersArriveIntact
    BY DEF InputInv
  <1>2. QED
    BY <1>1, InputCorrect, PTL

(* An order somebody registered for is handled by him (handle_payload and   *)
(* the registry).                                                           *)
THEOREM HandlersServeTheirOrders == Spec => []OrderReachesItsHandler
  <1>1. InputInv => OrderReachesItsHandler
    BY DEF InputInv
  <1>2. QED
    BY <1>1, InputCorrect, PTL

=============================================================================
