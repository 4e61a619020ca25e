---------------------------- MODULE FileTransfer ----------------------------
(* core::http::file_transfer_client over a core::oci::layer_download_task:  *)
(* the file of one layer, fetched in ranges and appended to as they come.   *)
(* What is asked for next follows from the range the server says it has     *)
(* answered with, and the end from the sum of the lengths it has announced. *)
(*                                                                          *)
(* External: the server, which may answer with less than it was asked for,  *)
(* or with something else, and the connection, which may fail at any time   *)
(* (a lost TLS stream is treated apart).                                    *)
EXTENDS Integers, Sequences

CONSTANTS
  Sizes,        \* sizes of the layers on the server
  ChunkSize,    \* layer_download_task::chunk_size
  MaxAttempts   \* bound: times the layer is downloaded

ASSUME SizesAssumption == Sizes \subseteq Nat \ {0}
ASSUME ChunkAssumption == ChunkSize \in Nat \ {0} /\ MaxAttempts \in Nat

VARIABLES
  size,      \* of the layer
  file,      \* the offsets of the bytes in the file, in the order they are there
  step,      \* what is waited for; "moved": the answer to a GET that was
             \* redirected; "silent": nothing, and nobody was told
  status,    \* _download->status: [end, total, current]
  chunk,     \* _download->chunk_size
  request,   \* _download->current_request: [start, end]
  wants,     \* the rest of the range that is still to be read
  reported,  \* what the task was told: how often "complete" and "failed"
  damage,    \* history: what has gone wrong with this attempt's file
  attempts

progress == <<status, chunk, request, wants>>
vars == <<size, file, step, progress, reported, damage, attempts>>

\* "leftover": the file was there before; "early": the end was reported too
\* early; "renewed": it went on after a failure; "unwritten": a write was lost;
\* "restarted": it was begun again over what it had written.
Damages == {"leftover", "early", "renewed", "unwritten", "restarted"}

NoStatus == [end |-> 0, total |-> 0, current |-> 0]
NoReports == [complete |-> 0, failed |-> 0]

Init ==
  /\ size \in Sizes
  /\ file \in {<<>>, <<0>>}   \* an earlier daemon may have begun it
  /\ step = "idle"
  /\ status = NoStatus /\ chunk = 0 /\ wants = 0
  /\ request = [start |-> 0, end |-> 0]
  /\ reported = NoReports
  /\ damage = {}
  /\ attempts = 0

----------------------------------------------------------------------------
Smaller(a, b) == IF a <= b THEN a ELSE b

\* The bytes from one offset to another.
Bytes(from, to) == [i \in 1 .. (to - from + 1) |-> from + i - 1]

(* layer_download_task::write opens the file to append to it, and does not  *)
(* look at what becomes of the write.                                       *)
Written(bytes, also) ==
  \/ file' = file \o bytes /\ damage' = damage \cup also
  \/ bytes # <<>> /\ UNCHANGED file /\ damage' = damage \cup also \cup {"unwritten"}

(* on_download_failure: the task tells the client, which has the file       *)
(* removed.  Failures are counted to two.                                   *)
Fail ==
  /\ reported' = [reported EXCEPT !.failed = Smaller(@ + 1, 2)]
  /\ file' \in {<<>>, file}
  /\ UNCHANGED <<size, progress, attempts>>

\* download, with a file that is_valid, or not; a file may be there already.
Begin ==
  /\ step \in {"idle", "silent", "over"}
  /\ attempts < MaxAttempts
  /\ attempts' = attempts + 1
  /\ damage' = IF file = <<>> THEN {} ELSE {"leftover"}
  /\ status' = NoStatus /\ chunk' = 0 /\ wants' = 0
  /\ request' = [start |-> 0, end |-> 0]
  /\ UNCHANGED <<size, file>>
  /\ \/ step' = "connecting" /\ reported' = NoReports
     \/ step' = "over" /\ reported' = [complete |-> 0, failed |-> 1]

Connected ==
  /\ step = "connecting"
  /\ step' = "head"
  /\ UNCHANGED <<size, file, progress, reported, damage, attempts>>

(* Connecting, asking for the details, following a redirection or reading   *)
(* fails.                                                                   *)
Broken ==
  /\ step \in {"connecting", "head", "asking", "get", "moved", "body"}
  /\ step' = "over"
  /\ Fail
  /\ UNCHANGED damage

(* The answer to HEAD, and to GET, that is neither a redirection nor a      *)
(* range is not looked at any further.                                      *)
Unusable ==
  /\ step \in {"head", "get", "moved"}
  /\ step' = "silent"
  /\ UNCHANGED <<size, file, progress, reported, damage, attempts>>

(* The first range is the destination's chunk, or the file.                 *)
HeadAnswered ==
  /\ step = "head"
  /\ step' = "asking"
  /\ status' = [end |-> 0, total |-> size, current |-> 0]
  /\ request' = [start |-> 0, end |-> Smaller(ChunkSize, size) - 1]
  /\ UNCHANGED <<size, file, chunk, wants, reported, damage, attempts>>

Asked ==
  /\ step = "asking"
  /\ step' = "get"
  /\ UNCHANGED <<size, file, progress, reported, damage, attempts>>

(* handle_redirect asks the same of another host, and waits for the answer  *)
(* as if it had asked for the details.                                      *)
Redirected ==
  /\ step \in {"head", "get", "moved"}
  /\ step' = IF step = "get" THEN "moved" ELSE step
  /\ UNCHANGED <<size, file, progress, reported, damage, attempts>>

(* The TLS stream is lost while an answer is waited for: handle_retry       *)
(* reconnects and asks for the details again, but has no case for a range.  *)
(* A reconnection that fails to shut the stream down tells nobody.  (Bound: *)
(* an attempt begins again over what it has written only once.)             *)
StreamLost ==
  /\ \/ step = "get" /\ step' = "silent" /\ UNCHANGED damage
     \/ step \in {"head", "moved"} /\ step' = "silent" /\ UNCHANGED damage
     \/ /\ step \in {"head", "moved"} /\ step' = "head"
        /\ file = <<>> \/ "restarted" \notin damage
        /\ damage' = IF file = <<>> THEN damage ELSE damage \cup {"restarted"}
  /\ UNCHANGED <<size, file, progress, reported, attempts>>

(* The TLS stream is lost while a range is asked for: it is asked for again *)
(* on a new connection, and the failure is reported all the same.           *)
StreamLostAsking ==
  /\ step = "asking"
  /\ step' \in {"asking", "silent"}
  /\ Fail
  /\ damage' = damage \cup {"renewed"}

\* on_server_response and read_partial_content agree that the file is there.
Complete ==
  /\ step' = "over"
  /\ reported' = [reported EXCEPT !.complete = @ + 1]
  /\ UNCHANGED request

\* Faulty variant (mutation check): the end of the last request is gone by.
NextRangeOfRequest(s, c) ==
  LET start == request.end + 1
      last == s.total - 1
      length == IF c + start < last THEN c ELSE last - start + 1
  IN  [start |-> start, end |-> start + length - 1]

\* What is asked for after a range has been read.
NextRange(s, c) ==
  LET start == s.end + 1
      last == s.total - 1
      length == IF c + start < last THEN c ELSE last - start + 1
  IN  [start |-> start, end |-> start + length - 1]

(* The answer to GET: n bytes from the start of the range, k of which come  *)
(* with the header.  If all of them do, the end is reported.                *)
GetAnswered(n, k) ==
  /\ step \in {"get", "moved"}
  /\ n <= request.end - request.start + 1 /\ k <= n
  /\ status' = [end |-> request.start + n - 1, total |-> status.total,
                current |-> status.current + n]
  /\ chunk' = n
  /\ wants' = n - k
  /\ Written(Bytes(request.start, request.start + k - 1),
             IF n = k /\ status'.current < status.total THEN {"early"} ELSE {})
  /\ IF n = k THEN Complete ELSE step' = "body" /\ UNCHANGED <<request, reported>>
  /\ UNCHANGED <<size, attempts>>

\* Faulty variant (mutation check): complete once the last range is asked for.
BodyReadToLast ==
  /\ step = "body"
  /\ Written(Bytes(status.end - wants + 1, status.end), {})
  /\ wants' = 0
  /\ IF status.current + chunk < status.total
     THEN /\ step' = "asking"
          /\ request' = NextRange(status, chunk)
          /\ UNCHANGED reported
     ELSE Complete
  /\ UNCHANGED <<size, status, chunk, attempts>>

\* Faulty variant (mutation check): the failed read is told, and read on.
BodyReadTellsTwice ==
  /\ step = "body"
  /\ Written(Bytes(status.end - wants + 1, status.end), {})
  /\ wants' = 0
  /\ reported' = [reported EXCEPT !.complete = @ + 1]
  /\ IF status.current < status.total
     THEN /\ step' = "asking"
          /\ request' = NextRange(status, chunk)
     ELSE /\ step' = "over"
          /\ UNCHANGED request
  /\ UNCHANGED <<size, status, chunk, attempts>>

\* The rest of the range is there.
BodyRead ==
  /\ step = "body"
  /\ Written(Bytes(status.end - wants + 1, status.end), {})
  /\ wants' = 0
  /\ IF status.current < status.total
     THEN /\ step' = "asking"
          /\ request' = NextRange(status, chunk)
          /\ UNCHANGED reported
     ELSE Complete
  /\ UNCHANGED <<size, status, chunk, attempts>>

\* The daemon dies and is started again; the file stays.
Crash ==
  /\ step' = "idle"
  /\ status' = NoStatus /\ chunk' = 0 /\ wants' = 0
  /\ request' = [start |-> 0, end |-> 0]
  /\ reported' = NoReports /\ damage' = {}
  /\ UNCHANGED <<size, file, attempts>>

Next ==
  \/ Begin \/ Connected \/ Broken \/ Unusable
  \/ HeadAnswered \/ Asked \/ Redirected \/ StreamLost \/ StreamLostAsking
  \/ \E n \in 1 .. size, k \in 0 .. size : GetAnswered(n, k)
  \/ BodyRead
  \/ Crash

Spec == Init /\ [][Next]_vars

----------------------------------------------------------------------------

(* Offsets are offsets of the file, and counts are counts.                  *)
TypeOK ==
  /\ size \in Sizes
  /\ file \in Seq(0 .. (size - 1))
  /\ step \in {"idle", "connecting", "head", "asking", "get", "moved", "body", "silent",
              "over"}
  /\ status \in [end : Nat, total : {0, size}, current : 0 .. size]
  /\ chunk \in 0 .. size /\ wants \in 0 .. size
  /\ request \in [start : Nat, end : Nat]
  /\ reported \in [complete : 0 .. 1, failed : 0 .. 2]
  /\ damage \subseteq Damages
  /\ attempts \in 0 .. MaxAttempts

(* A layer that is reported complete is the layer: every byte of it, once,  *)
(* in its place, whatever part of each range the server answers with and    *)
(* however it is cut between header and body - unless the file was there    *)
(* before, a range came whole with its header before the last, it was gone  *)
(* on with after a failure or begun again, or a write was lost.  What is    *)
(* kept of ranges and totals stays within the layer (TypeOK).               *)
CompleteIsWhole ==
  /\ TypeOK
  /\ reported.complete > 0 /\ damage = {} => file = Bytes(0, size - 1)

(* Each range begins where the file ends: none is fetched twice, and none   *)
(* left out, and together they end with the layer.                          *)
RangesFollow ==
  step \in {"asking", "get", "moved"} =>
    /\ request.start = status.current
    /\ request.start <= request.end /\ request.end < size
    /\ damage = {} => file = Bytes(0, request.start - 1)

(* A download is answered once, with its end or with a failure, unless it   *)
(* was gone on with after a failure.                                        *)
AnsweredOnce ==
  "renewed" \notin damage => reported.complete + reported.failed <= 1
=============================================================================
