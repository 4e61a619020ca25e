----------------------------- MODULE HttpProofs -----------------------------
(* What holds of the two clients of core::http.  First of the transfer of a *)
(* layer of any size, fetched in ranges of any size, however the server     *)
(* cuts them.  Then of async_client, for any hosts and any number of        *)
(* requests, retries, redirections and parts of a body.                     *)
EXTENDS FileTransfer, HttpExchange, FiniteSetTheorems, SequenceTheorems, TLAPS

----------------------------------------------------------------------------
(* The transfer of a layer                                                  *)

\* Nothing has gone wrong with the file, which ends where the next byte goes.
HoldsUpTo(offset) == damage = {} => file = Bytes(0, offset - 1)

\* A range is asked for of a layer whose size is known.
AskingFits ==
  /\ RangesFollow
  /\ step \in {"asking", "get", "moved"} => status.total = size

\* The rest of a range is what the last counted bytes of it are.
BodyFits ==
  step = "body" =>
    /\ status.total = size /\ status.end = status.current - 1
    /\ chunk > 0 /\ wants \in 1 .. status.current
    /\ HoldsUpTo(status.current - wants)

\* A transfer that has asked for no range has written nothing.
FreshFits == step \in {"connecting", "head"} => HoldsUpTo(0)

\* The task has not been told of the end of what goes on.
ReportsFit ==
  step # "over" =>
    /\ reported.complete = 0
    /\ "renewed" \notin damage => reported.failed = 0

TransferInv ==
  CompleteIsWhole /\ AskingFits /\ BodyFits /\ FreshFits /\ ReportsFit /\ AnsweredOnce

(* Bytes of the layer are offsets of it.                                    *)
LEMMA BytesAreOffsets ==
  ASSUME NEW from \in Nat, NEW to \in Int, NEW last \in Int, from <= to + 1, to <= last
  PROVE  /\ Bytes(from, to) \in Seq(0 .. last)
         /\ Len(Bytes(from, to)) = to - from + 1
  <1>1. to - from + 1 \in Nat
    OBVIOUS
  <1>2. Bytes(from, to) \in [1 .. (to - from + 1) -> 0 .. last]
    BY <1>1 DEF Bytes
  <1>3. Bytes(from, to) \in Seq(0 .. last)
    BY <1>1, <1>2
  <1>4. QED
    BY <1>1, <1>2, <1>3, LenProperties

(* Bytes written behind the ones before them (layer_download_task::write).  *)
LEMMA BytesAppended ==
  ASSUME NEW from \in Nat, NEW to \in Int, from <= to + 1
  PROVE  Bytes(0, from - 1) \o Bytes(from, to) = Bytes(0, to)
  <1> DEFINE S == 0 .. to
             first == Bytes(0, from - 1)
             rest == Bytes(from, to)
             all == Bytes(0, to)
  <1>0. 0 \in Nat /\ from - 1 \in Int /\ 0 <= from - 1 + 1 /\ from - 1 <= to /\ to <= to
        /\ 0 <= to + 1
    OBVIOUS
  <1>1. first \in Seq(S) /\ Len(first) = from
    <2>1. first \in Seq(S) /\ Len(first) = from - 1 - 0 + 1
      BY <1>0, BytesAreOffsets
    <2>2. QED
      BY <2>1
  <1>2. rest \in Seq(S) /\ Len(rest) = to - from + 1
    BY <1>0, BytesAreOffsets
  <1>3. all \in Seq(S) /\ Len(all) = to + 1
    <2>1. all \in Seq(S) /\ Len(all) = to - 0 + 1
      BY <1>0, BytesAreOffsets
    <2>2. QED
      BY <2>1
  <1>4. \A i \in 1 .. from : first[i] = i - 1
    BY DEF Bytes
  <1>5. \A i \in 1 .. (to - from + 1) : rest[i] = from + i - 1
    BY DEF Bytes
  <1>6. \A i \in 1 .. (to + 1) : all[i] = i - 1
    BY DEF Bytes
  <1> HIDE DEF first, rest, all, S
  <1>7. /\ first \o rest \in Seq(S) /\ Len(first \o rest) = to + 1
        /\ \A i \in 1 .. (to + 1) :
             (first \o rest)[i] = IF i <= from THEN first[i] ELSE rest[i - from]
    <2>1. /\ first \o rest \in Seq(S) /\ Len(first \o rest) = Len(first) + Len(rest)
          /\ \A i \in 1 .. Len(first) + Len(rest) :
               (first \o rest)[i] = IF i <= Len(first) THEN first[i] ELSE rest[i - Len(first)]
      BY <1>1, <1>2, ConcatProperties
    <2>2. Len(first) + Len(rest) = to + 1
      BY <1>1, <1>2
    <2>3. QED
      BY <1>1, <2>1, <2>2
  <1>8. \A i \in 1 .. (to + 1) : (first \o rest)[i] = all[i]
    BY <1>4, <1>5, <1>6, <1>7
  <1>9. first \o rest = all
    BY <1>3, <1>7, <1>8, SeqEqual
  <1>10. QED
    BY <1>9 DEF first, rest, all

(* What is written goes where the next byte goes, or damages the file.      *)
LEMMA WrittenFollows ==
  ASSUME TypeOK, NEW from \in Nat, NEW to \in Int, from <= to + 1, to < size,
         NEW also \in SUBSET Damages, Written(Bytes(from, to), also), HoldsUpTo(from)
  PROVE  /\ file' \in Seq(0 .. (size - 1))
         /\ damage \subseteq damage' /\ also \subseteq damage' /\ damage' \subseteq Damages
         /\ damage' = {} => file' = Bytes(0, to)
  <1>1. size \in Nat /\ file \in Seq(0 .. (size - 1)) /\ damage \subseteq Damages
    BY SizesAssumption DEF TypeOK
  <1>2. Bytes(from, to) \in Seq(0 .. (size - 1))
    <2>1. size - 1 \in Int /\ to <= size - 1
      BY <1>1
    <2>2. QED
      BY <2>1, BytesAreOffsets
  <1>3. CASE file' = file \o Bytes(from, to) /\ damage' = damage \cup also
    <2>1. file' \in Seq(0 .. (size - 1))
      BY <1>1, <1>2, <1>3, ConcatProperties
    <2>2. QED
      BY <1>1, <1>3, <2>1, BytesAppended DEF HoldsUpTo
  <1>4. CASE UNCHANGED file /\ damage' = damage \cup also \cup {"unwritten"}
    BY <1>1, <1>4 DEF Damages
  <1>5. QED
    BY <1>3, <1>4 DEF Written

(* The end is reported of a layer whose last byte has been written.         *)
LEMMA CompleteKeeps ==
  ASSUME TransferInv, step # "over", Complete, TypeOK', damage \subseteq damage',
         UNCHANGED size, damage' = {} => file' = Bytes(0, size - 1)
  PROVE  TransferInv'
  <1>1. step' = "over" /\ reported'.complete = reported.complete + 1
        /\ reported'.failed = reported.failed
    BY DEF Complete, TransferInv, CompleteIsWhole, TypeOK
  <1>2. CompleteIsWhole'
    BY DEF CompleteIsWhole
  <1>3. AskingFits' /\ BodyFits' /\ FreshFits' /\ ReportsFit'
    BY <1>1 DEF AskingFits, RangesFollow, BodyFits, FreshFits, ReportsFit
  <1>4. AnsweredOnce'
    <2>1. reported.complete = 0 /\ ("renewed" \notin damage => reported.failed = 0)
      BY DEF TransferInv, ReportsFit
    <2>2. QED
      BY <1>1, <2>1 DEF AnsweredOnce
  <1>5. QED
    BY <1>2, <1>3, <1>4 DEF TransferInv

(* Bytes of a range come with the header, all of them or not (GetAnswered). *)
LEMMA HeaderKeeps ==
  ASSUME TransferInv, NEW n \in 1 .. size, NEW k \in 0 .. size, GetAnswered(n, k)
  PROVE  TransferInv'
  <1>1. TypeOK /\ size \in Nat \ {0}
    BY SizesAssumption DEF TransferInv, CompleteIsWhole, TypeOK
  <1>2. /\ step \in {"get", "moved"} /\ status.total = size /\ status.current \in Nat
        /\ request.start = status.current /\ request.end < size /\ request.end \in Nat
        /\ HoldsUpTo(status.current)
    BY <1>1 DEF GetAnswered, TransferInv, AskingFits, RangesFollow, HoldsUpTo, TypeOK
  <1>3. /\ n <= request.end - request.start + 1 /\ k <= n
        /\ status' = [end |-> request.start + n - 1, total |-> status.total,
                      current |-> status.current + n]
        /\ chunk' = n /\ wants' = n - k /\ UNCHANGED <<size, attempts>>
    BY DEF GetAnswered
  <1>4. /\ status'.end = status'.current - 1 /\ status'.total = size
        /\ status'.current = status.current + n /\ status'.current \in 1 .. size
        /\ status' \in [end : Nat, total : {0, size}, current : 0 .. size]
    BY <1>1, <1>2, <1>3
  <1> DEFINE also == IF n = k /\ status'.current < status.total THEN {"early"} ELSE {}
             to == request.start + k - 1
  <1>5. /\ file' \in Seq(0 .. (size - 1))
        /\ damage \subseteq damage' /\ also \subseteq damage' /\ damage' \subseteq Damages
        /\ damage' = {} => file' = Bytes(0, to)
    <2>1. also \in SUBSET Damages
      BY DEF Damages
    <2>2. request.start \in Nat /\ to \in Int /\ request.start <= to + 1 /\ to < size
      BY <1>1, <1>2, <1>3
    <2>3. Written(Bytes(request.start, to), also) /\ HoldsUpTo(request.start)
      BY <1>2 DEF GetAnswered
    <2> HIDE DEF also, to
    <2>4. QED
      BY <1>1, <2>1, <2>2, <2>3, WrittenFollows
  <1>6. CASE n = k
    <2>1. Complete
      BY <1>6 DEF GetAnswered
    <2>2. step' = "over" /\ UNCHANGED request /\ reported' \in [complete : 0 .. 1, failed : 0 .. 2]
      BY <1>1, <1>2, <2>1 DEF Complete, TransferInv, ReportsFit, TypeOK
    <2>3. TypeOK'
      BY <1>1, <1>3, <1>4, <1>5, <2>2 DEF TypeOK
    <2>4. damage' = {} => file' = Bytes(0, size - 1)
      <3>1. damage' = {} => ~(status'.current < size)
        BY <1>2, <1>5, <1>6
      <3>2. damage' = {} => to = size - 1
        <4>1. to = status'.current - 1
          BY <1>1, <1>2, <1>3, <1>4, <1>6
        <4>2. damage' = {} => status'.current = size
          BY <1>1, <1>4, <3>1
        <4>3. QED
          BY <4>1, <4>2
      <3>3. QED
        BY <1>5, <3>2
    <2>5. QED
      BY <1>2, <1>3, <1>5, <2>1, <2>3, <2>4, CompleteKeeps
  <1>7. CASE n # k
    <2>1. step' = "body" /\ UNCHANGED <<request, reported>>
      BY <1>7 DEF GetAnswered
    <2>2. wants' \in 1 .. status'.current /\ to = status'.current - wants' - 1
      BY <1>1, <1>2, <1>3, <1>4, <1>7
    <2>3. TypeOK'
      BY <1>1, <1>3, <1>4, <1>5, <2>1, <2>2 DEF TypeOK
    <2>4. reported.complete = 0 /\ ("renewed" \notin damage => reported.failed = 0)
      BY <1>2 DEF TransferInv, ReportsFit
    <2>5. CompleteIsWhole'
      BY <2>1, <2>3, <2>4 DEF CompleteIsWhole
    <2>6. BodyFits'
      BY <1>3, <1>4, <1>5, <2>2 DEF BodyFits, HoldsUpTo
    <2>7. AskingFits' /\ FreshFits'
      BY <2>1 DEF AskingFits, RangesFollow, FreshFits
    <2>8. ReportsFit' /\ AnsweredOnce'
      BY <1>5, <2>1, <2>4 DEF ReportsFit, AnsweredOnce
    <2>9. QED
      BY <2>5, <2>6, <2>7, <2>8 DEF TransferInv
  <1>8. QED
    BY <1>6, <1>7

(* What is asked for next begins where the file ends and stays within the   *)
(* layer (read_partial_content).                                            *)
LEMMA NextRangeInside ==
  ASSUME NEW s, s.end + 1 \in Nat, NEW c \in Nat \ {0}, s.total \in Nat, s.end + 1 < s.total
  PROVE  LET r == NextRange(s, c) IN
         /\ r \in [start : Nat, end : Nat] /\ r.start = s.end + 1
         /\ r.start <= r.end /\ r.end < s.total
  BY DEF NextRange

(* The rest of a range is read: the next is asked for, or the end reported. *)
LEMMA BodyKeeps ==
  ASSUME TransferInv, BodyRead
  PROVE  TransferInv'
  <1>1. TypeOK /\ size \in Nat \ {0}
    BY SizesAssumption DEF TransferInv, CompleteIsWhole, TypeOK
  <1>2. /\ step = "body" /\ wants' = 0
        /\ Written(Bytes(status.end - wants + 1, status.end), {})
        /\ UNCHANGED <<size, status, chunk, attempts>>
    BY DEF BodyRead
  <1>3. /\ status.total = size /\ status.end = status.current - 1
        /\ chunk \in Nat \ {0} /\ wants \in 1 .. status.current
        /\ HoldsUpTo(status.current - wants) /\ status.current \in 0 .. size
    BY <1>1, <1>2 DEF TransferInv, BodyFits, TypeOK
  <1>4. reported.complete = 0 /\ ("renewed" \notin damage => reported.failed = 0)
    BY <1>2 DEF TransferInv, ReportsFit
  <1>5. /\ file' \in Seq(0 .. (size - 1)) /\ damage \subseteq damage' /\ damage' \subseteq Damages
        /\ damage' = {} => file' = Bytes(0, status.current - 1)
    <2> DEFINE from == status.current - wants
               to == status.current - 1
    <2>1. from \in Nat /\ to \in Int /\ from <= to + 1 /\ to < size
          /\ status.end - wants + 1 = from /\ status.end = to
      BY <1>1, <1>3
    <2>2. Written(Bytes(from, to), {}) /\ HoldsUpTo(from)
      BY <1>2, <1>3, <2>1
    <2>3. {} \in SUBSET Damages
      OBVIOUS
    <2> HIDE DEF from
    <2>4. QED
      BY <1>1, <2>1, <2>2, <2>3, WrittenFollows
  <1>6. CASE status.current < status.total
    <2>1. step' = "asking" /\ request' = NextRange(status, chunk) /\ UNCHANGED reported
      BY <1>6 DEF BodyRead
    <2>2. status.end + 1 = status.current /\ status.end + 1 \in Nat /\ status.total \in Nat
      BY <1>1, <1>3
    <2>3. /\ request' \in [start : Nat, end : Nat] /\ request'.start = status.current
          /\ request'.start <= request'.end /\ request'.end < size
      <3>1. status.end + 1 < status.total
        BY <1>6, <2>2
      <3>2. QED
        BY <1>3, <2>1, <2>2, <3>1, NextRangeInside
    <2>4. TypeOK'
      BY <1>1, <1>2, <1>5, <2>1, <2>3 DEF TypeOK
    <2>5. CompleteIsWhole'
      BY <1>4, <2>1, <2>4 DEF CompleteIsWhole
    <2>6. AskingFits'
      BY <1>2, <1>3, <1>5, <2>1, <2>3 DEF AskingFits, RangesFollow
    <2>7. BodyFits' /\ FreshFits'
      BY <2>1 DEF BodyFits, FreshFits
    <2>8. ReportsFit' /\ AnsweredOnce'
      BY <1>4, <1>5, <2>1 DEF ReportsFit, AnsweredOnce
    <2>9. QED
      BY <2>5, <2>6, <2>7, <2>8 DEF TransferInv
  <1>7. CASE ~(status.current < status.total)
    <2>1. Complete
      BY <1>7 DEF BodyRead
    <2>2. status.current = size
      BY <1>1, <1>3, <1>7
    <2>3. TypeOK'
      <3>1. step' = "over" /\ UNCHANGED request
            /\ reported' \in [complete : 0 .. 1, failed : 0 .. 2]
        BY <1>1, <1>4, <2>1 DEF Complete, TypeOK
      <3>2. QED
        BY <1>1, <1>2, <1>5, <3>1 DEF TypeOK
    <2>4. QED
      BY <1>2, <1>5, <2>1, <2>2, <2>3, CompleteKeeps
  <1>8. QED
    BY <1>6, <1>7

(* The task is told of a failure: nothing is known of the file any more, or *)
(* it is as it was (on_download_failure).                                   *)
LEMMA FailKeepsTypes ==
  ASSUME TypeOK, Fail
  PROVE  /\ file' \in Seq(0 .. (size' - 1)) /\ UNCHANGED <<size, progress, attempts>>
         /\ reported' \in [complete : 0 .. 1, failed : 0 .. 2]
         /\ reported'.complete = reported.complete
         /\ reported.failed = 0 => reported'.failed = 1
  <1>1. <<>> \in Seq(0 .. (size - 1))
    BY EmptySeq
  <1>2. /\ reported.complete \in 0 .. 1 /\ reported.failed \in 0 .. 2
        /\ reported' = [complete |-> reported.complete,
                        failed |-> IF reported.failed + 1 <= 2 THEN reported.failed + 1 ELSE 2]
    BY DEF Fail, TypeOK, Smaller
  <1>3. file' \in Seq(0 .. (size' - 1)) /\ UNCHANGED <<size, progress, attempts>>
    BY <1>1 DEF Fail, TypeOK
  <1>4. QED
    BY <1>2, <1>3

(* The transfer waits for something else, without a range that is read: the *)
(* file is as it was (a redirection, a new connection, a request sent, an   *)
(* answer nobody looks at).                                                 *)
LEMMA WaitingKeeps ==
  ASSUME TransferInv, TypeOK', UNCHANGED <<size, file, progress, reported>>,
         damage \subseteq damage', step # "over",
         step' \in {"connecting", "head"} => HoldsUpTo(0)',
         step' \in {"asking", "get", "moved"} => step \in {"asking", "get", "moved"},
         step' \notin {"body", "over"}
  PROVE  TransferInv'
  <1>2. CompleteIsWhole'
    BY DEF TransferInv, CompleteIsWhole, ReportsFit
  <1>3. AskingFits'
    BY DEF TransferInv, AskingFits, RangesFollow, progress
  <1>4. BodyFits' /\ FreshFits'
    BY DEF BodyFits, FreshFits
  <1>5. ReportsFit' /\ AnsweredOnce'
    BY DEF TransferInv, ReportsFit, AnsweredOnce
  <1>6. QED
    BY <1>2, <1>3, <1>4, <1>5 DEF TransferInv

(* Every action keeps the strengthened invariant.                           *)
THEOREM TransferCorrect == Spec => []TransferInv
  <1>1. Init => TransferInv
    <2> SUFFICES ASSUME Init
                 PROVE  TransferInv
      OBVIOUS
    <2>1. size \in Nat \ {0} /\ size \in Sizes /\ MaxAttempts \in Nat
      BY SizesAssumption, ChunkAssumption DEF Init
    <2>2. file \in Seq(0 .. (size - 1))
      <3>1. 0 \in 0 .. (size - 1)
        BY <2>1
      <3>2. <<0>> \in Seq(0 .. (size - 1)) /\ <<>> \in Seq(0 .. (size - 1))
        BY <3>1, EmptySeq
      <3>3. QED
        BY <3>2 DEF Init
    <2>3. TypeOK
      BY <2>1, <2>2 DEF Init, TypeOK, NoStatus, NoReports, Damages
    <2>4. QED
      BY <2>3
      DEF Init, NoReports, TransferInv, CompleteIsWhole, AskingFits, RangesFollow,
          BodyFits, FreshFits, ReportsFit, AnsweredOnce
  <1>2. TransferInv /\ [Next]_vars => TransferInv'
    <2> SUFFICES ASSUME TransferInv, [Next]_vars
                 PROVE  TransferInv'
      OBVIOUS
    <2>1. TypeOK /\ size \in Nat \ {0} /\ ChunkSize \in Nat \ {0} /\ MaxAttempts \in Nat
      BY SizesAssumption, ChunkAssumption DEF TransferInv, CompleteIsWhole, TypeOK
    <2>2. Bytes(0, -1) = <<>>
      BY DEF Bytes
    <2>3. CASE Begin
      <3>1. /\ step' \in {"connecting", "over"} /\ UNCHANGED <<size, file>>
            /\ status' = NoStatus /\ chunk' = 0 /\ wants' = 0
            /\ request' = [start |-> 0, end |-> 0]
            /\ damage' \subseteq Damages /\ (damage' = {} => file' = <<>>)
            /\ reported' \in [complete : {0}, failed : 0 .. 1]
            /\ step' = "connecting" => reported'.failed = 0
        BY <2>3 DEF Begin, Damages, NoReports
      <3>2. attempts' \in 0 .. MaxAttempts
        BY <2>1, <2>3 DEF Begin, TypeOK
      <3>3. TypeOK'
        <4>1. status' \in [end : Nat, total : {0, size}, current : 0 .. size]
          BY <2>1, <3>1 DEF NoStatus
        <4>2. chunk' \in 0 .. size /\ wants' \in 0 .. size
              /\ request' \in [start : Nat, end : Nat]
          BY <2>1, <3>1
        <4>3. QED
          BY <2>1, <3>1, <3>2, <4>1, <4>2 DEF TypeOK
      <3>4. CompleteIsWhole' /\ AnsweredOnce' /\ ReportsFit'
        BY <3>1, <3>3 DEF CompleteIsWhole, AnsweredOnce, ReportsFit
      <3>5. AskingFits' /\ BodyFits'
        BY <3>1 DEF AskingFits, RangesFollow, BodyFits
      <3>6. FreshFits'
        BY <2>2, <3>1 DEF FreshFits, HoldsUpTo
      <3>7. QED
        BY <3>4, <3>5, <3>6 DEF TransferInv
    <2>4. CASE Connected
      <3>1. TypeOK'
        BY <2>1, <2>4 DEF Connected, progress, TypeOK
      <3>2. QED
        BY <2>4, <3>1, WaitingKeeps DEF Connected, TransferInv, FreshFits, HoldsUpTo
    <2>5. CASE Broken
      <3>1. /\ file' \in Seq(0 .. (size' - 1)) /\ UNCHANGED <<size, progress, attempts>>
            /\ reported' \in [complete : 0 .. 1, failed : 0 .. 2]
            /\ reported'.complete = reported.complete
            /\ reported.failed = 0 => reported'.failed = 1
        BY <2>1, <2>5, FailKeepsTypes DEF Broken
      <3>2. step' = "over" /\ UNCHANGED damage /\ step # "over"
        BY <2>5 DEF Broken
      <3>3. TypeOK'
        BY <2>1, <3>1, <3>2 DEF TypeOK, progress
      <3>4. CompleteIsWhole' /\ AnsweredOnce' /\ ReportsFit'
        BY <3>1, <3>2, <3>3 DEF TransferInv, CompleteIsWhole, AnsweredOnce, ReportsFit
      <3>5. AskingFits' /\ BodyFits' /\ FreshFits'
        BY <3>2 DEF AskingFits, RangesFollow, BodyFits, FreshFits
      <3>6. QED
        BY <3>4, <3>5 DEF TransferInv
    <2>6. CASE Unusable
      <3>1. TypeOK'
        BY <2>1, <2>6 DEF Unusable, progress, TypeOK
      <3>2. QED
        BY <2>6, <3>1, WaitingKeeps DEF Unusable
    <2>7. CASE HeadAnswered
      <3>1. /\ step = "head" /\ step' = "asking"
            /\ status' = [end |-> 0, total |-> size, current |-> 0]
            /\ request' = [start |-> 0, end |-> Smaller(ChunkSize, size) - 1]
            /\ UNCHANGED <<size, file, chunk, wants, reported, damage, attempts>>
        BY <2>7 DEF HeadAnswered
      <3>2. /\ request' \in [start : Nat, end : Nat] /\ request'.start = 0
            /\ request'.start <= request'.end /\ request'.end < size
        BY <2>1, <3>1 DEF Smaller
      <3>3. TypeOK'
        BY <2>1, <3>1, <3>2 DEF TypeOK
      <3>4. CompleteIsWhole' /\ AnsweredOnce' /\ ReportsFit'
        BY <3>1, <3>3 DEF TransferInv, CompleteIsWhole, AnsweredOnce, ReportsFit
      <3>5. AskingFits'
        BY <3>1, <3>2 DEF TransferInv, FreshFits, HoldsUpTo, AskingFits, RangesFollow
      <3>6. BodyFits' /\ FreshFits'
        BY <3>1 DEF BodyFits, FreshFits
      <3>7. QED
        BY <3>4, <3>5, <3>6 DEF TransferInv
    <2>8. CASE Asked
      <3>1. TypeOK'
        BY <2>1, <2>8 DEF Asked, progress, TypeOK
      <3>2. QED
        BY <2>8, <3>1, WaitingKeeps DEF Asked
    <2>9. CASE Redirected
      <3>1. TypeOK'
        BY <2>1, <2>9 DEF Redirected, progress, TypeOK
      <3>2. QED
        BY <2>9, <3>1, WaitingKeeps DEF Redirected, TransferInv, FreshFits, HoldsUpTo
    <2>10. CASE StreamLost
      <3>1. /\ step \in {"head", "get", "moved"} /\ step' \in {"head", "silent"}
            /\ damage \subseteq damage' /\ damage' \subseteq Damages
            /\ UNCHANGED <<size, file, progress, reported, attempts>>
            /\ damage' = {} /\ step' = "head" => file' = <<>>
        BY <2>1, <2>10 DEF StreamLost, Damages, TypeOK
      <3>2. TypeOK'
        BY <2>1, <3>1 DEF progress, TypeOK
      <3>3. QED
        BY <2>2, <3>1, <3>2, WaitingKeeps DEF HoldsUpTo
    <2>11. CASE StreamLostAsking
      <3>1. /\ file' \in Seq(0 .. (size' - 1)) /\ UNCHANGED <<size, progress, attempts>>
            /\ reported' \in [complete : 0 .. 1, failed : 0 .. 2]
            /\ reported'.complete = reported.complete
        BY <2>1, <2>11, FailKeepsTypes DEF StreamLostAsking
      <3>2. /\ step = "asking" /\ step' \in {"asking", "silent"}
            /\ "renewed" \in damage' /\ damage' \subseteq Damages
        BY <2>1, <2>11 DEF StreamLostAsking, TypeOK, Damages
      <3>3. TypeOK'
        BY <2>1, <3>1, <3>2 DEF TypeOK, progress
      <3>4. CompleteIsWhole' /\ AnsweredOnce' /\ ReportsFit'
        BY <3>1, <3>2, <3>3 DEF TransferInv, CompleteIsWhole, AnsweredOnce, ReportsFit
      <3>5. AskingFits'
        BY <3>1, <3>2 DEF TransferInv, AskingFits, RangesFollow, progress
      <3>6. BodyFits' /\ FreshFits'
        BY <3>2 DEF BodyFits, FreshFits
      <3>7. QED
        BY <3>4, <3>5, <3>6 DEF TransferInv
    <2>12. CASE Crash
      <3>1. /\ step' = "idle" /\ UNCHANGED <<size, file, attempts>>
            /\ status' = NoStatus /\ chunk' = 0 /\ wants' = 0
            /\ request' = [start |-> 0, end |-> 0]
            /\ reported' = NoReports /\ damage' = {}
        BY <2>12 DEF Crash
      <3>2. TypeOK'
        <4>1. status' \in [end : Nat, total : {0, size}, current : 0 .. size]
          BY <2>1, <3>1 DEF NoStatus
        <4>2. chunk' \in 0 .. size /\ wants' \in 0 .. size
              /\ request' \in [start : Nat, end : Nat]
              /\ reported' \in [complete : 0 .. 1, failed : 0 .. 2]
          BY <2>1, <3>1 DEF NoReports
        <4>3. QED
          BY <2>1, <3>1, <4>1, <4>2 DEF TypeOK
      <3>3. QED
        BY <3>1, <3>2
        DEF NoReports, TransferInv, CompleteIsWhole, AskingFits, RangesFollow,
            BodyFits, FreshFits, ReportsFit, AnsweredOnce
    <2>13. CASE UNCHANGED vars
      BY <2>13
      DEF vars, progress, TransferInv, CompleteIsWhole, TypeOK, AskingFits, RangesFollow,
          BodyFits, FreshFits, HoldsUpTo, ReportsFit, AnsweredOnce
    <2>14. QED
      BY <2>3, <2>4, <2>5, <2>6, <2>7, <2>8, <2>9, <2>10, <2>11, <2>12, <2>13,
         HeaderKeeps, BodyKeeps DEF Next
  <1>3. QED
    BY <1>1, <1>2, PTL DEF Spec

(* A layer that is reported complete is the layer, for layers and ranges of *)
(* every size, unless one of the named damages was done to the file         *)
(* (on_server_response, read_partial_content, layer_download_task::write).  *)
THEOREM CompleteFilesAreWhole == Spec => []CompleteIsWhole
  BY TransferCorrect, PTL DEF TransferInv

(* What is asked for begins where the file ends, is not empty and stays     *)
(* within the layer (on_header, read_partial_content).                      *)
THEOREM RangesAreContiguous == Spec => []RangesFollow
  BY TransferCorrect, PTL DEF TransferInv, AskingFits

(* A download is answered with its end or with one failure, unless it went  *)
(* on after a failure (on_download_failure, handle_retry).                  *)
THEOREM EachIsAnsweredOnce == Spec => []AnsweredOnce
  BY TransferCorrect, PTL DEF TransferInv

----------------------------------------------------------------------------
(* The exchange of requests and responses                                   *)

\* The parts of responses, and what is known of the parser within one call.
PartTypes == [of : Requests, part : {"head", "body", "end", "piece"}]
Tallies ==
  [at : {"start", "body", "chunks", "stopped"}, left : 0 .. MaxLength, last : BOOLEAN,
   body : Seq(PartTypes), done : Nat]

RestTypes ==
  /\ current \in 0 .. MaxRequests /\ method \in [Requests -> {"none", "get", "head"}]
  /\ host \in Hosts \cup {NoHost}
  /\ op \in {"idle", "connect", "write", "header", "delay", "body", "closing", "chunks"}
  /\ response \in [Requests -> Responses \cup {[kind |-> "none", length |-> 0]}]
  /\ parser \in [at : {"start", "body", "chunks", "stopped"}, left : 0 .. MaxLength,
                 last : BOOLEAN]
  /\ live \subseteq verified /\ verified \subseteq Hosts
  /\ retried \in 0 .. MaxHops /\ redirected \in 0 .. MaxHops
  /\ given \subseteq Requests /\ cut \subseteq Requests /\ dead \in BOOLEAN

SequencesTyped ==
  coming \in Seq(PartTypes) /\ raw \in Seq(PartTypes) /\ buffer \in Seq(PartTypes)

AnswersTyped ==
  /\ answers \in [Requests -> Nat]
  /\ answer \in [to : 0 .. current, failed : BOOLEAN, body : Seq(PartTypes)]

\* The request has come to its end.
Past(c) == c < current \/ op = "idle"

\* Something an earlier response has left may be in the way of the next.
Disturbed == \E c \in 1 .. current : c \in cut \/ (Past(c) /\ Disturbs(c))

\* The request that is under way has not been answered.
WorkingFits ==
  op # "idle" =>
    /\ current # 0 /\ host \in Hosts /\ method[current] \in {"get", "head"}
    /\ answers[current] = 0 /\ current \notin given /\ answer.to < current

FutureFits ==
  \A c \in Requests : c > current =>
    /\ answers[c] = 0 /\ c \notin given \cup cut /\ response[c].kind = "none"

\* What the client waits for is of the response's kind.
KindFits ==
  /\ op \in {"connect", "write", "header", "delay"} =>
       response[current].kind \in {"none", "redirect"}
  /\ op = "body" => response[current].kind \in {"length", "close"}
  /\ op = "closing" => response[current].kind = "closed"
  /\ op = "chunks" => response[current].kind = "chunked"

BufferFits ==
  /\ \A i \in DOMAIN buffer : buffer[i].part \in {"body", "piece"}
  /\ buffer # <<>> => Disturbed /\ op \notin {"body", "closing", "chunks"}

\* The only head of s, if it has one, comes after h parts, and its end later.
HeadAfter(s, h) ==
  /\ \A i \in 1 .. h : s[i].part \in {"body", "piece"}
  /\ h < Len(s) => s[h + 1].part = "head"
  /\ \A i \in h + 2 .. Len(s) : s[i].part \in {"body", "end"}

RawFits == \E h \in 0 .. Len(raw) : HeadAfter(raw, h)

ClosingFits == op = "closing" => \A i \in DOMAIN coming : coming[i].part = "body"

\* The k-th part after the head of the response to c, as Following has it: to a HEAD
\* there is none, unless it read what others had left.
Headless(c) == method[c] = "head" /\ c \notin misled
Bodies(c) == IF Headless(c) THEN 0 ELSE response[c].length
Size(c) == Bodies(c) + (IF response[c].kind = "chunked" /\ ~Headless(c) THEN 1 ELSE 0)
PartAt(c, k) ==
  [of |-> c, part |-> IF k = 0 THEN "head" ELSE IF k <= Bodies(c) THEN "body" ELSE "end"]

\* What has been read of a response, after h parts that are none of it, and what
\* is still to come make the response.
OwnResponse(h) ==
  /\ HeadAfter(raw, h)
  /\ h = 0 \/ Disturbed
  /\ Len(raw) + Len(coming) = h + 1 + Size(current)
  /\ \A i \in h + 1 .. Len(raw) : raw[i] = PartAt(current, i - h - 1)
  /\ \A i \in 1 .. Len(coming) : coming[i] = PartAt(current, Len(raw) + i - h - 1)

OwnFits == op \in {"body", "chunks"} => \E h \in 0 .. Len(raw) - 1 : OwnResponse(h)

LeftFits ==
  op = "body" =>
    /\ left \in 1 .. MaxLength
    /\ left = Len(coming) \/ (Len(coming) = 0 /\ left = response[current].length)

\* The parser rests between messages unless something is in the way.
ParserFits ==
  /\ parser.at = "body" => \E c \in 1 .. current : LeavesParserInBody(c)
  /\ parser.at # "start" => Disturbed

AnswerFits ==
  \/ answer.failed \/ answer.to = 0
  \/ response[answer.to].kind = "closed"
  \/ \E c \in 1 .. answer.to - 1 : LeavesParserInBody(c)
  \/ /\ \A i \in DOMAIN answer.body : answer.body[i] = [of |-> answer.to, part |-> "body"]
     /\ Len(answer.body) = response[answer.to].length

\* What is said of the answers, and of who waits for one.
HistoryFits ==
  AnswersTyped /\ WorkingFits /\ FutureFits /\ AnswerFits /\ RequestAnsweredOnce

\* What is said of what has been read.
ReadingFits ==
  KindFits /\ BufferFits /\ RawFits /\ ClosingFits /\ OwnFits /\ LeftFits

ExchangeInv ==
  RestTypes /\ SequencesTyped /\ HistoryFits /\ ReadingFits /\ ParserFits

\* A HEAD that waits for a header has not read one, and follows no redirection; chunks
\* come from a host that was connected.
HeadFits ==
  /\ op \in {"connect", "write", "header"} => method[current] = "get" \/ current \notin misled
  /\ op = "delay" => method[current] = "get"
  /\ op = "chunks" => host \in verified

\* What is left in a connection some request has left there, and a request reads it
\* only after that.
RemainsFit ==
  /\ behind \subseteq verified /\ full \in BOOLEAN
  /\ leftover \subseteq 1 .. current /\ misled \subseteq 1 .. current
  /\ behind # {} => leftover # {}
  /\ \A c \in misled : \E d \in 1 .. c : d \in leftover
  /\ HeadFits

----------------------------------------------------------------------------

(* Any set of numbers has a smallest one: strict inclusion of the intervals *)
(* up to them is well-founded.                                              *)
LEMMA SmallestNumber ==
  ASSUME NEW T \in SUBSET Nat, T # {}
  PROVE  \E m \in T : \A n \in T : m <= n
<1>. DEFINE Up == {1 .. n : n \in T}
            R == StrictSubsetOrdering(Nat)
            S == FiniteSubsetsOf(Nat)
<1>1. IsWellFoundedOn(R, S)
  BY FS_StrictSubsetOrderingWellFounded
<1>2. Up \subseteq S /\ Up # {}
  <2>1. ASSUME NEW n \in Nat PROVE 1 .. n \in S
    BY FS_Interval DEF FiniteSubsetsOf
  <2>. HIDE DEF S
  <2>2. QED
    BY <2>1
<1>3. \E x \in Up : \A y \in Up : ~(<<y, x>> \in R)
  <2>. HIDE DEF Up, R, S
  <2>1. QED
    BY <1>1, <1>2, WFMin
<1>4. PICK m \in T : \A n \in T : ~(<<1 .. n, 1 .. m>> \in R)
  BY <1>3
<1>5. ASSUME NEW n \in T, n < m PROVE FALSE
  <2>1. 1 .. n \in SUBSET Nat /\ 1 .. m \in SUBSET Nat /\ 1 .. n # 1 .. m
        /\ 1 .. n \subseteq 1 .. m
    BY <1>5
  <2>2. <<1 .. n, 1 .. m>> \in R
    BY <2>1 DEF StrictSubsetOrdering
  <2>3. QED
    BY <1>4, <2>2
<1>6. QED
  BY <1>4, <1>5

(* A set with 0 and with each number whose predecessor it has is of all the *)
(* numbers up to N.                                                         *)
LEMMA CountsUp ==
  ASSUME NEW N \in Nat, NEW S, 0 \in S, \A n \in 1 .. N : n - 1 \in S => n \in S
  PROVE  \A n \in 0 .. N : n \in S
<1>. DEFINE T == {n \in 0 .. N : n \notin S}
<1>. SUFFICES ASSUME T # {} PROVE FALSE
  OBVIOUS
<1>1. PICK m \in T : \A n \in T : m <= n
  <2>. HIDE DEF T
  <2>1. T \in SUBSET Nat
    BY DEF T
  <2>2. QED
    BY <2>1, SmallestNumber
<1>2. m \in 1 .. N /\ m - 1 \notin T
  BY <1>1
<1>3. QED
  BY <1>1, <1>2

----------------------------------------------------------------------------
(* The parser                                                               *)

Begun == [at |-> parser.at, left |-> parser.left, last |-> parser.last,
          body |-> <<>>, done |-> 0]

\* The tallies of the parser over the first n parts of s.
IsParsing(f, s, n) ==
  f = [k \in 0 .. n |-> IF k = 0 THEN Begun ELSE Consumed(f[k - 1], s[k])]

(* The parser can be run over any parts.                                    *)
LEMMA ParsingExists ==
  ASSUME NEW s, NEW N \in Nat
  PROVE  \E f : IsParsing(f, s, N)
<1>. DEFINE S == {n \in 0 .. N : \E f : IsParsing(f, s, n)}
<1>1. 0 \in S
  <2>1. IsParsing([k \in 0 .. 0 |-> Begun], s, 0)
    BY DEF IsParsing
  <2>2. QED
    BY <2>1
<1>2. ASSUME NEW n \in 1 .. N, n - 1 \in S PROVE n \in S
  <2>1. PICK f : IsParsing(f, s, n - 1)
    BY <1>2
  <2>. DEFINE g == [k \in 0 .. n |-> IF k < n THEN f[k] ELSE Consumed(f[k - 1], s[k])]
  <2>2. ASSUME NEW k \in 0 .. n
        PROVE  g[k] = IF k = 0 THEN Begun ELSE Consumed(g[k - 1], s[k])
    <3>1. CASE k < n
      <4>1. k \in 0 .. n - 1 /\ g[k] = f[k] /\ (k # 0 => g[k - 1] = f[k - 1])
        BY <3>1
      <4>2. \A j \in 0 .. n - 1 : f[j] = IF j = 0 THEN Begun ELSE Consumed(f[j - 1], s[j])
        BY <2>1 DEF IsParsing
      <4>. HIDE DEF g
      <4>3. QED
        BY <4>1, <4>2
    <3>2. CASE k = n
      BY <3>2
    <3>3. QED
      BY <3>1, <3>2
  <2>3. IsParsing(g, s, n)
    BY <2>2 DEF IsParsing
  <2>4. QED
    BY <2>3
<1>3. N \in S
  <2>. HIDE DEF S
  <2>1. QED
    BY <1>1, <1>2, CountsUp
<1>4. QED
  BY <1>3

(* What the parser makes of s it makes part by part (parse_chunks).         *)
LEMMA ParsedByParts ==
  ASSUME NEW s, Len(s) \in Nat
  PROVE  \E f : /\ f[0] = Begun
                /\ \A n \in 1 .. Len(s) : f[n] = Consumed(f[n - 1], s[n])
                /\ Parsed(s) = f[Len(s)]
<1>. DEFINE f == CHOOSE g : IsParsing(g, s, Len(s))
<1>1. IsParsing(f, s, Len(s))
  BY ParsingExists
<1>2. Parsed(s) = f[Len(s)]
  BY DEF Parsed, IsParsing, Begun
<1>3. \A k \in 0 .. Len(s) : f[k] = IF k = 0 THEN Begun ELSE Consumed(f[k - 1], s[k])
  <2>. HIDE DEF f
  <2>1. QED
    BY <1>1 DEF IsParsing
<1>. HIDE DEF f
<1>4. QED
  BY <1>2, <1>3

\* How a part p takes the parser from q to r.
Taking(q, p, r) ==
  /\ q.at = "stopped" => r = q
  /\ q.at = "start" /\ p.part = "head" =>
       /\ r.at = IF response[p.of].kind = "chunked" THEN "chunks" ELSE "body"
       /\ r.left = response[p.of].length /\ (r.last => response[p.of].kind = "close")
       /\ r.done = q.done /\ r.body = q.body
  /\ q.at = "start" /\ p.part # "head" => r.at = "stopped" /\ r.done = q.done
  /\ q.at = "body" /\ q.left > 1 =>
       /\ r.at = "body" /\ r.left = q.left - 1 /\ (r.last => q.last)
       /\ r.done = q.done /\ r.body = Append(q.body, p)
  /\ q.at = "body" /\ q.left = 1 =>
       /\ r.at = (IF q.last THEN "stopped" ELSE "start") /\ (r.last => q.last)
       /\ r.done = q.done + 1 /\ r.body = Append(q.body, p)
  /\ q.at = "body" /\ q.left = 0 => r.at = "stopped" /\ r.done = q.done
  /\ q.at = "chunks" /\ p.part = "body" =>
       /\ r.at = "chunks" /\ (r.last => q.last)
       /\ r.done = q.done /\ r.body = Append(q.body, p)
  /\ q.at = "chunks" /\ p.part = "end" =>
       /\ r.at = (IF q.last THEN "stopped" ELSE "start") /\ (r.last => q.last)
       /\ r.done = q.done + 1 /\ r.body = q.body
  /\ q.at = "chunks" /\ p.part \notin {"body", "end"} => r.at = "stopped" /\ r.done = q.done

(* What the parser makes of one part (llhttp, as Consumed has it).          *)
LEMMA ConsumedPart ==
  ASSUME RestTypes, NEW q \in Tallies, NEW part \in PartTypes
  PROVE  Consumed(q, part) \in Tallies /\ Taking(q, part, Consumed(q, part))
<1>. DEFINE r == Consumed(q, part)
            announced == response[part.of]
<1>1. announced.length \in 0 .. MaxLength /\ MaxLength \in Nat
  BY BoundsAssumption DEF RestTypes, Responses, PartTypes
<1>2. /\ q.at \in {"start", "body", "chunks", "stopped"} /\ q.left \in 0 .. MaxLength
      /\ q.last \in BOOLEAN /\ q.body \in Seq(PartTypes) /\ q.done \in Nat
      /\ part.part \in {"head", "body", "end", "piece"}
  BY DEF Tallies, PartTypes
<1>3. Append(q.body, part) \in Seq(PartTypes)
  BY <1>2, AppendProperties
<1>. HIDE DEF announced
<1>4. CASE q.at = "stopped"
  BY <1>4 DEF Taking, Consumed
<1>5. CASE q.at = "start" /\ part.part = "head"
  BY <1>1, <1>2, <1>5 DEF Taking, Consumed, Tallies, announced
<1>6. CASE q.at = "start" /\ part.part # "head"
  BY <1>2, <1>6 DEF Taking, Consumed, Tallies
<1>7. CASE q.at = "body" /\ q.left > 1
  <2>1. r = [Collected(q, part) EXCEPT !.left = @ - 1]
    BY <1>7 DEF Consumed
  <2>2. r = [at |-> q.at, left |-> q.left - 1, last |-> q.last,
             body |-> Append(q.body, part), done |-> q.done]
    BY <2>1 DEF Collected, Tallies
  <2>3. q.left - 1 \in 0 .. MaxLength
    BY <1>1, <1>2, <1>7
  <2>4. r \in Tallies
    BY <1>2, <1>3, <2>2, <2>3 DEF Tallies
  <2>5. /\ r.at = q.at /\ r.left = q.left - 1 /\ r.last = q.last
        /\ r.done = q.done /\ r.body = Append(q.body, part)
    BY <2>2
  <2>6. QED
    BY <1>7, <2>4, <2>5 DEF Taking
<1>8. CASE q.at = "body" /\ q.left = 1
  <2>1. r = Completed([Collected(q, part) EXCEPT !.left = 0])
    BY <1>2, <1>8 DEF Consumed
  <2>2. r = [at |-> IF q.last THEN "stopped" ELSE "start", left |-> 0, last |-> q.last,
             body |-> Append(q.body, part), done |-> q.done + 1]
    BY <2>1 DEF Collected, Completed, Tallies
  <2>3. r \in Tallies
    BY <1>1, <1>2, <1>3, <2>2 DEF Tallies
  <2>4. /\ r.at = (IF q.last THEN "stopped" ELSE "start") /\ r.last = q.last
        /\ r.done = q.done + 1 /\ r.body = Append(q.body, part)
    BY <2>2
  <2>5. QED
    BY <1>2, <1>8, <2>3, <2>4 DEF Taking
<1>9. CASE q.at = "body" /\ q.left = 0
  BY <1>1, <1>2, <1>9 DEF Taking, Consumed, Tallies
<1>10. CASE q.at = "chunks" /\ part.part = "body"
  BY <1>2, <1>3, <1>10 DEF Taking, Consumed, Collected, Tallies
<1>11. CASE q.at = "chunks" /\ part.part = "end"
  <2>1. r = Completed([q EXCEPT !.left = 0])
    BY <1>11 DEF Consumed
  <2>2. r = [at |-> IF q.last THEN "stopped" ELSE "start", left |-> 0, last |-> q.last,
             body |-> q.body, done |-> q.done + 1]
    BY <2>1 DEF Completed, Tallies
  <2>3. r \in Tallies
    BY <1>1, <1>2, <2>2 DEF Tallies
  <2>4. /\ r.at = (IF q.last THEN "stopped" ELSE "start") /\ r.last = q.last
        /\ r.done = q.done + 1 /\ r.body = q.body
    BY <2>2
  <2>5. QED
    BY <1>2, <1>11, <2>3, <2>4 DEF Taking
<1>12. CASE q.at = "chunks" /\ part.part \notin {"body", "end"}
  BY <1>2, <1>12 DEF Taking, Consumed, Tallies
<1>13. QED
  BY <1>2, <1>4, <1>5, <1>6, <1>7, <1>8, <1>9, <1>10, <1>11, <1>12

(* Each tally of the parser over parts is one.                              *)
LEMMA TalliesOfParts ==
  ASSUME RestTypes, NEW s \in Seq(PartTypes)
  PROVE  \E f : /\ f[0] = Begun /\ Begun \in Tallies
                /\ \A n \in 1 .. Len(s) : f[n] = Consumed(f[n - 1], s[n])
                /\ \A n \in 0 .. Len(s) : f[n] \in Tallies
                /\ Parsed(s) = f[Len(s)]
<1>1. Len(s) \in Nat /\ \A n \in 1 .. Len(s) : s[n] \in PartTypes
  BY LenProperties, ElementOfSeq
<1>2. Begun \in Tallies
  <2>1. <<>> \in Seq(PartTypes)
    BY EmptySeq
  <2>2. QED
    BY <2>1 DEF Begun, Tallies, RestTypes
<1>3. PICK f : /\ f[0] = Begun
               /\ \A n \in 1 .. Len(s) : f[n] = Consumed(f[n - 1], s[n])
               /\ Parsed(s) = f[Len(s)]
  BY <1>1, ParsedByParts
<1>. DEFINE S == {n \in 0 .. Len(s) : f[n] \in Tallies}
<1>4. 0 \in S
  BY <1>1, <1>2, <1>3
<1>5. ASSUME NEW n \in 1 .. Len(s), n - 1 \in S PROVE n \in S
  <2>1. f[n - 1] \in Tallies
    BY <1>5
  <2>2. Consumed(f[n - 1], s[n]) \in Tallies
    BY <1>1, <2>1, ConsumedPart
  <2>3. QED
    BY <1>1, <1>3, <2>2
<1>6. \A n \in 0 .. Len(s) : n \in S
  <2>. HIDE DEF S
  <2>1. QED
    BY <1>1, <1>4, <1>5, CountsUp
<1>7. QED
  BY <1>2, <1>3, <1>6

(* Parts with one head complete one message at most, unless the parser was  *)
(* in a body before, and none if they leave it in one.                      *)
LEMMA OneMessage ==
  ASSUME RestTypes, NEW s \in Seq(PartTypes), NEW h \in 0 .. Len(s), HeadAfter(s, h),
         parser.at # "body"
  PROVE  /\ Parsed(s).done \in {0, 1}
         /\ Parsed(s).at = "body" => Parsed(s).done = 0
<1>1. PICK f : /\ f[0] = Begun
               /\ \A n \in 1 .. Len(s) : f[n] = Consumed(f[n - 1], s[n])
               /\ \A n \in 0 .. Len(s) : f[n] \in Tallies
               /\ Parsed(s) = f[Len(s)]
  BY TalliesOfParts
<1>2. Len(s) \in Nat /\ \A n \in 1 .. Len(s) : s[n] \in PartTypes
  BY LenProperties, ElementOfSeq
<1>. DEFINE Fine(n) ==
              /\ f[n].done \in {0, 1}
              /\ f[n].done = 1 => f[n].at \in {"start", "stopped"} /\ n > h + 1
              /\ n <= h => f[n].at # "body" /\ (n # 0 => f[n].at # "start")
            S == {n \in 0 .. Len(s) : Fine(n)}
<1>3. 0 \in S
  BY <1>1, <1>2 DEF Begun
<1>4. ASSUME NEW n \in 1 .. Len(s), n - 1 \in S PROVE n \in S
  <2>1. Fine(n - 1) /\ f[n - 1] \in Tallies /\ s[n] \in PartTypes /\ h \in Nat
    BY <1>1, <1>2, <1>4
  <2>. PICK q \in Tallies : q = f[n - 1]
    BY <2>1
  <2>. PICK p \in PartTypes : p = s[n]
    BY <2>1
  <2>. PICK r \in Tallies : r = f[n]
    BY <1>1
  <2>2. r = Consumed(q, p)
    BY <1>1
  <2>3. /\ q.done \in {0, 1}
        /\ q.done = 1 => q.at \in {"start", "stopped"} /\ n - 1 > h + 1
        /\ n - 1 <= h => q.at # "body" /\ (n - 1 # 0 => q.at # "start")
        /\ q.at \in {"start", "body", "chunks", "stopped"} /\ q.left \in Nat
    BY <2>1 DEF Tallies
  <2>4. /\ n <= h => p.part \in {"body", "piece"}
        /\ n = h + 1 => p.part = "head"
        /\ n > h + 1 => p.part \in {"body", "end"}
    BY <1>2 DEF HeadAfter
  <2>5. Taking(q, p, r)
    BY <2>2, ConsumedPart
  <2>6. /\ r.done \in {0, 1}
        /\ r.done = 1 => r.at \in {"start", "stopped"} /\ n > h + 1
        /\ n <= h => r.at \notin {"body", "start"}
    <3>1. CASE q.at = "stopped"
      BY <2>3, <2>5, <3>1 DEF Taking
    <3>2. CASE q.at = "start" /\ p.part = "head"
      BY <2>3, <2>4, <2>5, <3>2 DEF Taking
    <3>3. CASE q.at = "start" /\ p.part # "head"
      BY <2>3, <2>4, <2>5, <3>3 DEF Taking
    <3>4. CASE q.at = "body"
      <4>1. n > h + 1
        BY <2>1, <2>3, <2>4, <3>4
      <4>2. q.left > 1 \/ q.left = 1 \/ q.left = 0
        BY <2>3
      <4>3. QED
        BY <2>3, <2>5, <3>4, <4>1, <4>2 DEF Taking
    <3>5. CASE q.at = "chunks"
      BY <2>1, <2>3, <2>4, <2>5, <3>5 DEF Taking
    <3>6. QED
      BY <2>3, <3>1, <3>2, <3>3, <3>4, <3>5
  <2>7. QED
    BY <1>2, <2>6
<1>5. \A n \in 0 .. Len(s) : n \in S
  <2>. HIDE DEF S
  <2>1. QED
    BY <1>2, <1>3, <1>4, CountsUp
<1>6. QED
  BY <1>1, <1>2, <1>5

(* A head that does not find the parser between messages stops it: nothing  *)
(* that comes with it is a message.                                         *)
LEMMA Unheard ==
  ASSUME RestTypes, NEW s \in Seq(PartTypes), NEW h \in 0 .. Len(s), HeadAfter(s, h),
         parser.at # "body", h < Len(s), parser.at # "start" \/ h > 0
  PROVE  Parsed(s).done = 0
<1>1. PICK f : /\ f[0] = Begun
               /\ \A n \in 1 .. Len(s) : f[n] = Consumed(f[n - 1], s[n])
               /\ \A n \in 0 .. Len(s) : f[n] \in Tallies
               /\ Parsed(s) = f[Len(s)]
  BY TalliesOfParts
<1>2. Len(s) \in Nat /\ \A n \in 1 .. Len(s) : s[n] \in PartTypes
  BY LenProperties, ElementOfSeq
<1>. DEFINE Fine(n) ==
              /\ f[n].done = 0
              /\ n <= h => f[n].at # "body" /\ (n # 0 => f[n].at # "start")
              /\ n > h => f[n].at = "stopped"
            S == {n \in 0 .. Len(s) : Fine(n)}
<1>3. 0 \in S
  BY <1>1, <1>2 DEF Begun
<1>4. ASSUME NEW n \in 1 .. Len(s), n - 1 \in S PROVE n \in S
  <2>1. Fine(n - 1) /\ f[n - 1] \in Tallies /\ s[n] \in PartTypes /\ h \in Nat
    BY <1>1, <1>2, <1>4
  <2>. PICK q \in Tallies : q = f[n - 1]
    BY <2>1
  <2>. PICK p \in PartTypes : p = s[n]
    BY <2>1
  <2>. PICK r \in Tallies : r = f[n]
    BY <1>1
  <2>2. Taking(q, p, r)
    BY <1>1, ConsumedPart
  <2>3. /\ q.done = 0
        /\ n - 1 <= h => q.at # "body" /\ (n - 1 # 0 => q.at # "start")
        /\ n - 1 > h => q.at = "stopped"
        /\ q.at \in {"start", "body", "chunks", "stopped"} /\ q.left \in Nat
    BY <2>1 DEF Tallies
  <2>4. n - 1 = h => q.at \in {"chunks", "stopped"}
    <3>1. n = 1 => q.at = parser.at
      BY <1>1 DEF Begun
    <3>2. QED
      BY <2>1, <2>3, <3>1
  <2>5. /\ n <= h => p.part \in {"body", "piece"}
        /\ n = h + 1 => p.part = "head"
    BY <1>2 DEF HeadAfter
  <2>6. /\ r.done = 0
        /\ n <= h => r.at \notin {"body", "start"}
        /\ n > h => r.at = "stopped"
    <3>1. CASE q.at = "stopped"
      BY <2>1, <2>2, <2>3, <3>1 DEF Taking
    <3>2. CASE q.at = "start"
      BY <2>1, <2>2, <2>3, <2>4, <2>5, <3>2 DEF Taking
    <3>3. CASE q.at = "body"
      BY <2>1, <2>3, <2>4, <3>3
    <3>4. CASE q.at = "chunks"
      BY <2>1, <2>2, <2>3, <2>5, <3>4 DEF Taking
    <3>5. QED
      BY <2>3, <3>1, <3>2, <3>3, <3>4
  <2>7. QED
    BY <1>2, <2>6
<1>5. \A n \in 0 .. Len(s) : n \in S
  <2>. HIDE DEF S
  <2>1. QED
    BY <1>2, <1>3, <1>4, CountsUp
<1>6. QED
  BY <1>1, <1>2, <1>5

\* The first m parts of a body of the current request.
Own(b, m) == Len(b) = m /\ \A i \in DOMAIN b : b[i] = [of |-> current, part |-> "body"]

\* One part of a body more.
LEMMA OwnGrows ==
  ASSUME NEW m \in Nat, NEW b \in Seq(PartTypes), Own(b, m),
         NEW p \in PartTypes, p = [of |-> current, part |-> "body"]
  PROVE  Own(Append(b, p), m + 1)
<1>1. DOMAIN b = 1 .. m /\ Len(b) = m
  BY LenProperties DEF Own
<1>2. /\ Len(Append(b, p)) = m + 1 /\ DOMAIN Append(b, p) = 1 .. m + 1
      /\ \A i \in 1 .. m : Append(b, p)[i] = b[i]
      /\ Append(b, p)[m + 1] = p
  BY <1>1, AppendProperties, LenProperties
<1>3. ASSUME NEW i \in 1 .. m + 1 PROVE Append(b, p)[i] = p
  BY <1>1, <1>2 DEF Own
<1>4. QED
  BY <1>2, <1>3 DEF Own

\* The tally after the head of the current response, of this kind and length, and
\* m parts more, of which K are the body.
Midway(q, kind, L, K, m) ==
  /\ q.last => kind = "close"
  /\ kind # "chunked" /\ m < L =>
       q.at = "body" /\ q.left = L - m /\ q.done = 0 /\ Own(q.body, m)
  /\ kind # "chunked" /\ m = L =>
       (q.at = "start" \/ kind = "close") /\ q.done = 1 /\ Own(q.body, L)
  /\ kind = "chunked" /\ m <= K => q.at = "chunks" /\ q.done = 0 /\ Own(q.body, m)
  /\ kind = "chunked" /\ m = K + 1 => q.at = "start" /\ q.done = 1 /\ Own(q.body, K)

\* The first part after a head.
LEMMA MidwayBegins ==
  ASSUME NEW q \in Tallies, NEW p \in PartTypes, NEW r \in Tallies, Taking(q, p, r),
         NEW L \in Nat \ {0}, NEW K \in Nat, NEW kind \in {"length", "close", "chunked"},
         response[current].kind = kind, response[current].length = L,
         p = [of |-> current, part |-> "head"],
         q.at = "start", q.done = 0, q.body = <<>>
  PROVE  Midway(r, kind, L, K, 0)
<1>1. /\ r.at = IF kind = "chunked" THEN "chunks" ELSE "body"
      /\ r.left = L /\ (r.last => kind = "close") /\ r.done = 0 /\ r.body = <<>>
  BY DEF Taking
<1>2. Own(<<>>, 0)
  BY DEF Own
<1>3. QED
  BY <1>1, <1>2 DEF Midway

\* A part of the body.
LEMMA MidwayGoesOn ==
  ASSUME NEW q \in Tallies, NEW p \in PartTypes, NEW r \in Tallies, Taking(q, p, r),
         NEW L \in Nat \ {0}, NEW m \in Nat, m < L,
         NEW kind \in {"length", "close", "chunked"},
         p = [of |-> current, part |-> "body"],
         Midway(q, kind, L, L, m)
  PROVE  Midway(r, kind, L, L, m + 1)
<1>1. /\ p.part = "body" /\ q.body \in Seq(PartTypes) /\ q.left \in Nat
      /\ q.last \in BOOLEAN
  BY BoundsAssumption DEF Tallies
<1>2. CASE kind # "chunked"
  <2>1. /\ (q.last => kind = "close") /\ q.at = "body" /\ q.left = L - m
        /\ q.done = 0 /\ Own(q.body, m)
    BY <1>2 DEF Midway
  <2>2. CASE m + 1 < L
    <3>1. q.left > 1
      BY <2>1, <2>2
    <3>2. /\ r.at = "body" /\ r.left = q.left - 1 /\ (r.last => q.last) /\ r.done = 0
          /\ r.body = Append(q.body, p)
      BY <2>1, <3>1 DEF Taking
    <3>3. Own(r.body, m + 1)
      BY <1>1, <2>1, <3>2, OwnGrows
    <3>4. r.left = L - (m + 1) /\ m + 1 # L
      BY <2>1, <2>2, <3>2
    <3>5. QED
      BY <1>2, <2>1, <2>2, <3>2, <3>3, <3>4 DEF Midway
  <2>3. CASE m + 1 = L
    <3>1. q.left = 1
      BY <2>1, <2>3
    <3>2. /\ r.at = (IF q.last THEN "stopped" ELSE "start") /\ (r.last => q.last)
          /\ r.done = 1 /\ r.body = Append(q.body, p)
      BY <2>1, <3>1 DEF Taking
    <3>3. Own(r.body, m + 1)
      BY <1>1, <2>1, <3>2, OwnGrows
    <3>4. QED
      BY <1>2, <2>1, <2>3, <3>2, <3>3 DEF Midway
  <2>4. QED
    BY <2>2, <2>3
<1>3. CASE kind = "chunked"
  <2>1. ~q.last /\ q.at = "chunks" /\ q.done = 0 /\ Own(q.body, m)
    BY <1>3 DEF Midway
  <2>2. r.at = "chunks" /\ ~r.last /\ r.done = 0 /\ r.body = Append(q.body, p)
    BY <1>1, <2>1 DEF Taking
  <2>3. Own(r.body, m + 1)
    BY <1>1, <2>1, <2>2, OwnGrows
  <2>4. m + 1 # L + 1
    OBVIOUS
  <2>5. QED
    BY <1>3, <2>2, <2>3, <2>4 DEF Midway
<1>4. QED
  BY <1>2, <1>3

\* The end of the chunks.
LEMMA MidwayEnds ==
  ASSUME NEW q \in Tallies, NEW p \in PartTypes, NEW r \in Tallies, Taking(q, p, r),
         NEW L \in Nat \ {0}, NEW K \in Nat, p.part = "end",
         Midway(q, "chunked", L, K, K)
  PROVE  Midway(r, "chunked", L, K, K + 1)
<1>1. ~q.last /\ q.at = "chunks" /\ q.done = 0 /\ Own(q.body, K)
  BY DEF Midway
<1>2. r.at = "start" /\ ~r.last /\ r.done = 1 /\ r.body = q.body
  BY <1>1 DEF Taking
<1>3. QED
  BY <1>1, <1>2 DEF Midway

\* p comes m parts after the head, of which the first K are the body.
IsPartAt(p, m, K) ==
  p = [of |-> current, part |-> IF m = 0 THEN "head" ELSE IF m <= K THEN "body" ELSE "end"]

\* A part of the body, or the end of the chunks.
LEMMA MidwayNext ==
  ASSUME NEW q \in Tallies, NEW p \in PartTypes, NEW r \in Tallies, Taking(q, p, r),
         NEW kind \in {"length", "close", "chunked"},
         NEW L \in Nat \ {0}, NEW K \in Nat, K \in {0, L},
         NEW k \in Nat, k <= K, k = K => kind = "chunked" /\ K = L,
         IsPartAt(p, k + 1, K), Midway(q, kind, L, K, k)
  PROVE  Midway(r, kind, L, K, k + 1)
<1>1. CASE k < K
  <2>1. K = L /\ k < L
    BY <1>1
  <2>2. k + 1 # 0 /\ k + 1 <= K
    BY <1>1
  <2>3. p = [of |-> current, part |-> "body"]
    BY <2>2 DEF IsPartAt
  <2>4. Midway(q, kind, L, L, k)
    BY <2>1
  <2>5. Midway(r, kind, L, L, k + 1)
    BY <2>1, <2>3, <2>4, MidwayGoesOn
  <2>6. QED
    BY <2>1, <2>5
<1>2. CASE k = K
  <2>1. k + 1 # 0 /\ ~(k + 1 <= K)
    BY <1>2
  <2>2. p.part = "end"
    BY <2>1 DEF IsPartAt
  <2>3. kind = "chunked"
    BY <1>2
  <2>4. Midway(q, "chunked", L, K, K)
    BY <1>2, <2>3
  <2>5. Midway(r, "chunked", L, K, K + 1)
    BY <2>2, <2>4, MidwayEnds
  <2>6. QED
    BY <1>2, <2>3, <2>5
<1>3. k < K \/ k = K
  OBVIOUS
<1>4. QED
  BY <1>1, <1>2, <1>3

\* The head, or a part after it.
LEMMA MidwayStep ==
  ASSUME NEW q \in Tallies, NEW p \in PartTypes, NEW r \in Tallies, Taking(q, p, r),
         NEW kind \in {"length", "close", "chunked"},
         NEW L \in Nat \ {0}, NEW K \in Nat, K \in {0, L},
         response[current].kind = kind, response[current].length = L,
         NEW m \in Nat, m <= K \/ (m = K + 1 /\ kind = "chunked" /\ K = L),
         IsPartAt(p, m, K), m # 0 => Midway(q, kind, L, K, m - 1),
         m = 0 => q.at = "start" /\ q.done = 0 /\ q.body = <<>>
  PROVE  Midway(r, kind, L, K, m)
<1>1. CASE m = 0
  <2>1. p = [of |-> current, part |-> "head"]
    BY <1>1 DEF IsPartAt
  <2>2. Midway(r, kind, L, K, 0)
    BY <1>1, <2>1, MidwayBegins
  <2>3. QED
    BY <1>1, <2>2
<1>2. CASE m # 0
  <2>. PICK k \in Nat : k = m - 1 /\ m = k + 1
    BY <1>2
  <2>1. k <= K /\ (k = K => kind = "chunked" /\ K = L)
    OBVIOUS
  <2>2. IsPartAt(p, k + 1, K) /\ Midway(q, kind, L, K, k)
    BY <1>2
  <2>3. Midway(r, kind, L, K, k + 1)
    BY <2>1, <2>2, MidwayNext
  <2>4. QED
    BY <2>3
<1>3. QED
  BY <1>1, <1>2

(* A parser that rests between messages makes of a response, or of what     *)
(* comes first of it, its body, when there is one and it is all there.      *)
LEMMA OwnMessage ==
  ASSUME RestTypes, current \in Requests, NEW s \in Seq(PartTypes), parser.at = "start",
         response[current].kind \in {"length", "close", "chunked"},
         Len(s) \in 1 .. 1 + Size(current),
         \A n \in 1 .. Len(s) : s[n] = PartAt(current, n - 1)
  PROVE  /\ Parsed(s).done \in {0, 1}
         /\ Parsed(s).done = 1 => Own(Parsed(s).body, response[current].length)
         /\ Parsed(s).done = 1 => Parsed(s).at = "start" \/ response[current].kind = "close"
         /\ Len(s) = 1 + Size(current) /\ method[current] = "get" => Parsed(s).done = 1
<1>1. PICK f : /\ f[0] = Begun
               /\ \A n \in 1 .. Len(s) : f[n] = Consumed(f[n - 1], s[n])
               /\ \A n \in 0 .. Len(s) : f[n] \in Tallies
               /\ Parsed(s) = f[Len(s)]
  BY TalliesOfParts
<1>. PICK kind \in {"length", "close", "chunked"} : kind = response[current].kind
  OBVIOUS
<1>. PICK L \in Nat \ {0} : L = response[current].length
  BY BoundsAssumption DEF RestTypes, Responses
<1>2. response[current].kind = kind /\ response[current].length = L
  OBVIOUS
<1>. PICK K \in Nat : K \in {0, L} /\ K = Bodies(current)
  BY DEF Bodies
<1>8. K = IF Headless(current) THEN 0 ELSE L
  BY DEF Bodies
<1>. PICK Z \in Nat : Z = Size(current) /\ Z = IF kind = "chunked" /\ K = L THEN K + 1 ELSE K
  BY <1>8 DEF Size
<1>3. Len(s) \in Nat /\ Len(s) <= 1 + Z /\ \A n \in 1 .. Len(s) : s[n] \in PartTypes
  BY LenProperties, ElementOfSeq
<1>. DEFINE S == {n \in 0 .. Len(s) : n # 0 => Midway(f[n], kind, L, K, n - 1)}
<1>4. 0 \in S
  BY <1>3
<1>5. ASSUME NEW n \in 1 .. Len(s), n - 1 \in S PROVE n \in S
  <2>. PICK m \in Nat : m = n - 1 /\ m <= Z
    BY <1>3
  <2>. PICK p \in PartTypes : p = s[n]
    BY <1>3
  <2>. PICK q \in Tallies : q = f[n - 1]
    BY <1>1, <1>3
  <2>. PICK r \in Tallies : r = f[n]
    BY <1>1
  <2>1. Taking(q, p, r)
    BY <1>1, ConsumedPart
  <2>2. IsPartAt(p, m, K)
    BY DEF PartAt, IsPartAt
  <2>3. m # 0 => Midway(q, kind, L, K, m - 1)
    BY <1>5
  <2>4. Midway(r, kind, L, K, m)
    <3>1. m = 0 => q.at = "start" /\ q.done = 0 /\ q.body = <<>>
      BY <1>1 DEF Begun
    <3>2. m <= K \/ (m = K + 1 /\ kind = "chunked" /\ K = L)
      OBVIOUS
    <3>. HIDE DEF S
    <3>3. QED
      BY <1>2, <2>1, <2>2, <2>3, <3>1, <3>2, MidwayStep, SMTT(120)
  <2>5. QED
    BY <1>3, <2>4
<1>6. \A n \in 0 .. Len(s) : n \in S
  <2>. HIDE DEF S
  <2>1. QED
    BY <1>3, <1>4, <1>5, CountsUp
<1>. PICK m \in Nat : m = Len(s) - 1 /\ m <= Z
  BY <1>3
<1>. PICK q \in Tallies : q = Parsed(s)
  BY <1>1, <1>3
<1>7. Midway(q, kind, L, K, m)
  BY <1>1, <1>3, <1>6
<1>9. method[current] = "get" => K = L
  BY <1>8 DEF Headless
<1>10. CASE kind = "chunked" /\ m = L + 1
  BY <1>7, <1>10 DEF Midway, Own
<1>11. CASE kind = "chunked" /\ m <= K
  BY <1>7, <1>9, <1>11 DEF Midway
<1>12. CASE kind # "chunked" /\ m < L
  BY <1>7, <1>9, <1>12 DEF Midway
<1>13. CASE kind # "chunked" /\ m = L
  BY <1>7, <1>13 DEF Midway, Own
<1>14. QED
  BY <1>10, <1>11, <1>12, <1>13

----------------------------------------------------------------------------
(* A step within a request                                                  *)

\* What such a step leaves alone: nothing of an earlier request changes.
Within ==
  /\ op # "idle" /\ current' = current /\ method' = method
  /\ \A c \in Requests : c # current => response'[c] = response[c]
  /\ cut' \in {cut, cut \cup {current}}
  /\ given' \in {given, given \cup {current}}

\* Of the requests before the one under way nothing changes.
LEMMA EarlierStays ==
  ASSUME RestTypes, RestTypes', Within, NEW c \in 1 .. current - 1
  PROVE  /\ c \in Requests /\ c # current
         /\ LeavesParserInBody(c)' <=> LeavesParserInBody(c)
         /\ Disturbs(c) => Disturbs(c)'
<1>1. c \in Requests /\ c # current
  BY BoundsAssumption DEF RestTypes, Requests
<1>2. response'[c] = response[c] /\ (c \in given' <=> c \in given) /\ (c \in cut => c \in cut')
  BY <1>1 DEF Within
<1>3. QED
  BY <1>1, <1>2 DEF LeavesParserInBody, Disturbs

\* What is in the way stays there.
LEMMA DisturbedStays ==
  ASSUME RestTypes, RestTypes', Within, Disturbed
  PROVE  Disturbed'
<1>1. current \in Nat
  BY BoundsAssumption DEF RestTypes
<1>2. PICK c \in 1 .. current : c \in cut \/ (Past(c) /\ Disturbs(c))
  BY DEF Disturbed
<1>3. CASE c \in cut
  BY <1>3 DEF Within, Disturbed
<1>4. CASE Past(c) /\ Disturbs(c)
  <2>1. c \in 1 .. current - 1
    BY <1>1, <1>4 DEF Within, Past
  <2>2. Past(c)' /\ Disturbs(c)'
    BY <1>4, <2>1, EarlierStays DEF Within, Past
  <2>3. QED
    BY <2>2 DEF Within, Disturbed
<1>5. QED
  BY <1>2, <1>3, <1>4

\* What a request that has come to its end leaves in the way of the next.
LEMMA EndDisturbs ==
  ASSUME current \in Requests, current' = current,
         current \in cut' \/ (op' = "idle" /\ Disturbs(current)')
  PROVE  Disturbed'
<1>1. current \in 1 .. current
  BY DEF Requests
<1>2. QED
  BY <1>1 DEF Disturbed, Past

(* An answer that has been given stays as good as it was.                   *)
LEMMA AnswerStays ==
  ASSUME RestTypes, RestTypes', HistoryFits, Within, answer' = answer
  PROVE  AnswerFits'
<1>1. answer.to \in 0 .. current - 1 /\ current \in Nat
  BY BoundsAssumption DEF HistoryFits, WorkingFits, AnswersTyped, RestTypes, Within
<1>2. answer.to # 0 => answer.to \in Requests /\ response'[answer.to] = response[answer.to]
  <2>. PICK c \in Nat : c = answer.to
    BY <1>1
  <2>1. c # 0 => c \in Requests /\ c # current
    BY <1>1, BoundsAssumption DEF RestTypes, Requests
  <2>2. QED
    BY <2>1 DEF Within
<1>3. AnswerFits
  BY DEF HistoryFits
<1>4. CASE \E c \in 1 .. answer.to - 1 : LeavesParserInBody(c)
  <2>1. PICK c \in 1 .. answer.to - 1 : LeavesParserInBody(c)
    BY <1>4
  <2>2. c \in 1 .. current - 1
    BY <1>1
  <2>3. LeavesParserInBody(c)'
    BY <2>1, <2>2, EarlierStays
  <2>4. QED
    BY <2>3 DEF AnswerFits
<1>5. CASE ~ \E c \in 1 .. answer.to - 1 : LeavesParserInBody(c)
  <2>1. \/ answer.failed \/ answer.to = 0
        \/ response[answer.to].kind = "closed"
        \/ /\ \A i \in DOMAIN answer.body : answer.body[i] = [of |-> answer.to, part |-> "body"]
           /\ Len(answer.body) = response[answer.to].length
    BY <1>3, <1>5 DEF AnswerFits
  <2>2. QED
    BY <1>2, <2>1 DEF AnswerFits
<1>6. QED
  BY <1>4, <1>5

(* What is said of the requests before the current one stays.               *)
LEMMA EarlierAnswers ==
  ASSUME RestTypes, RestTypes', HistoryFits, Within, NEW c \in 1 .. current - 1,
         answers'[c] = answers[c]
  PROVE  /\ answers'[c] <= 1 \/ \E d \in 1 .. c - 1 : LeavesParserInBody(d)'
         /\ \/ answers'[c] >= 1
            \/ response'[c].kind \in {"none", "bare", "closed", "redirect"}
            \/ method'[c] = "head"
            \/ \E d \in 1 .. c : d \in cut'
            \/ \E d \in 1 .. c - 1 : Disturbs(d)'
<1>1. current \in Nat /\ c \in Requests /\ c < current /\ c # current
  BY BoundsAssumption, EarlierStays DEF RestTypes
<1>2. response'[c] = response[c] /\ method'[c] = method[c] /\ cut \subseteq cut'
  BY <1>1 DEF Within
<1>3. \A d \in 1 .. c - 1 :
        (LeavesParserInBody(d) => LeavesParserInBody(d)') /\ (Disturbs(d) => Disturbs(d)')
  <2>1. ASSUME NEW d \in 1 .. c - 1 PROVE d \in 1 .. current - 1
    BY <1>1
  <2>2. QED
    BY <2>1, EarlierStays
<1>4. /\ answers[c] <= 1 \/ \E d \in 1 .. c - 1 : LeavesParserInBody(d)
      /\ \/ answers[c] >= 1
         \/ response[c].kind \in {"none", "bare", "closed", "redirect"} \/ method[c] = "head"
         \/ \E d \in 1 .. c : d \in cut
         \/ \E d \in 1 .. c - 1 : Disturbs(d)
  BY <1>1 DEF HistoryFits, RequestAnsweredOnce
<1>5. QED
  BY <1>2, <1>3, <1>4

(* What has not been asked yet has no answer.                               *)
LEMMA FutureStays ==
  ASSUME RestTypes, RestTypes', HistoryFits, Within,
         \A c \in Requests : c # current => answers'[c] = answers[c]
  PROVE  FutureFits'
<1>1. current \in Nat
  BY BoundsAssumption DEF RestTypes
<1>2. ASSUME NEW c \in Requests, c > current
      PROVE  answers'[c] = 0 /\ c \notin given' \cup cut' /\ response'[c].kind = "none"
  <2>1. c # current /\ answers[c] = 0 /\ c \notin given \cup cut /\ response[c].kind = "none"
    BY <1>1, <1>2 DEF HistoryFits, FutureFits, Requests
  <2>2. QED
    BY <2>1 DEF Within
<1>3. current' = current
  BY DEF Within
<1>4. QED
  BY <1>2, <1>3 DEF FutureFits

(* A step that leaves the request without an answer, and goes on.           *)
LEMMA WaitKeeps ==
  ASSUME RestTypes, RestTypes', HistoryFits, Within, op' # "idle", host' \in Hosts,
         UNCHANGED <<answers, answer, given>>
  PROVE  HistoryFits'
<1>1. AnswersTyped' /\ WorkingFits'
  BY DEF HistoryFits, AnswersTyped, WorkingFits, Within
<1>2. FutureFits'
  BY FutureStays
<1>3. AnswerFits'
  BY AnswerStays
<1>4. RequestAnsweredOnce'
  <2>1. current \in Nat /\ Requests \subseteq Nat \ {0} /\ current' = current
    BY BoundsAssumption DEF RestTypes, Requests, Within
  <2>2. SUFFICES ASSUME NEW c \in Requests
        PROVE  /\ answers'[c] <= 1 \/ \E d \in 1 .. c - 1 : LeavesParserInBody(d)'
               /\ c < current =>
                    \/ answers'[c] >= 1
                    \/ response'[c].kind \in {"none", "bare", "closed", "redirect"}
                    \/ method'[c] = "head"
                    \/ \E d \in 1 .. c : d \in cut'
                    \/ \E d \in 1 .. c - 1 : Disturbs(d)'
    BY <2>1 DEF RequestAnsweredOnce
  <2>3. CASE c < current
    <3>1. c \in 1 .. current - 1
      BY <2>1, <2>3
    <3>2. QED
      BY <3>1, EarlierAnswers
  <2>4. CASE c = current
    BY <2>1, <2>4 DEF HistoryFits, WorkingFits, Within
  <2>5. CASE c > current
    BY <2>1, <2>5 DEF HistoryFits, FutureFits
  <2>6. QED
    BY <2>1, <2>3, <2>4, <2>5
<1>5. QED
  BY <1>1, <1>2, <1>3, <1>4 DEF HistoryFits

(* A request that comes to its end, once the requests before it are left    *)
(* as they were.                                                            *)
LEMMA EndOnce ==
  ASSUME RestTypes, RestTypes', HistoryFits, Within, op' = "idle",
         \A c \in Requests : c # current => answers'[c] = answers[c],
         answers'[current] \in Nat,
         answers'[current] <= 1 \/ \E d \in 1 .. current - 1 : LeavesParserInBody(d),
         \/ answers'[current] >= 1
         \/ response'[current].kind \in {"none", "bare", "closed", "redirect"}
         \/ method[current] = "head"
         \/ current \in cut'
         \/ Disturbed
  PROVE  RequestAnsweredOnce'
<1>1. current \in Nat /\ current \in Requests /\ Requests \subseteq Nat \ {0} /\ current' = current
      /\ method' = method
  BY BoundsAssumption DEF RestTypes, Requests, Within, HistoryFits, WorkingFits
<1>2. SUFFICES ASSUME NEW c \in Requests
      PROVE  /\ answers'[c] <= 1 \/ \E d \in 1 .. c - 1 : LeavesParserInBody(d)'
             /\ c < current \/ c = current =>
                  \/ answers'[c] >= 1
                  \/ response'[c].kind \in {"none", "bare", "closed", "redirect"}
                  \/ method'[c] = "head"
                  \/ \E d \in 1 .. c : d \in cut'
                  \/ \E d \in 1 .. c - 1 : Disturbs(d)'
  BY <1>1 DEF RequestAnsweredOnce
<1>3. CASE c < current
  <2>1. c \in 1 .. current - 1 /\ answers'[c] = answers[c]
    BY <1>1, <1>3
  <2>2. QED
    BY <2>1, EarlierAnswers
<1>4. CASE c = current
  <2>1. \A d \in 1 .. current - 1 :
          /\ LeavesParserInBody(d) => LeavesParserInBody(d)'
          /\ Disturbs(d) => Disturbs(d)'
    BY EarlierStays
  <2>2. ASSUME Disturbed
        PROVE  (\E d \in 1 .. current : d \in cut') \/ \E d \in 1 .. current - 1 : Disturbs(d)'
    <3>1. PICK d \in 1 .. current : d \in cut \/ (Past(d) /\ Disturbs(d))
      BY <2>2 DEF Disturbed
    <3>2. d \in cut => d \in cut'
      BY DEF Within
    <3>3. Past(d) => d \in 1 .. current - 1
      BY <1>1 DEF Past, Within
    <3>4. QED
      BY <2>1, <3>1, <3>2, <3>3
  <2>3. current \in 1 .. current
    BY <1>1
  <2>4. QED
    BY <1>1, <1>4, <2>1, <2>2, <2>3
<1>5. CASE c > current
  BY <1>1, <1>5 DEF HistoryFits, FutureFits
<1>6. QED
  BY <1>1, <1>3, <1>4, <1>5

(* A step that answers the request (on_request_failure, on_response_failure,*)
(* on_message_complete).                                                    *)
LEMMA AnswerKeeps ==
  ASSUME RestTypes, RestTypes', HistoryFits, Within, op' = "idle", given' = given,
         NEW n \in Nat \ {0}, answers' = [answers EXCEPT ![current] = @ + n],
         n = 1 \/ \E d \in 1 .. current - 1 : LeavesParserInBody(d),
         NEW failed \in BOOLEAN, NEW body \in Seq(PartTypes),
         answer' = [to |-> current, failed |-> failed, body |-> body],
         \/ failed
         \/ response'[current].kind = "closed"
         \/ \E d \in 1 .. current - 1 : LeavesParserInBody(d)
         \/ Own(body, response'[current].length)
  PROVE  HistoryFits'
<1>1. current \in Nat /\ current \in Requests /\ current' = current
      /\ answers \in [Requests -> Nat] /\ answers[current] = 0
  BY BoundsAssumption
  DEF RestTypes, Requests, Within, HistoryFits, WorkingFits, AnswersTyped
<1>2. /\ \A c \in Requests : c # current => answers'[c] = answers[c]
      /\ answers'[current] = n /\ answers' \in [Requests -> Nat]
  BY <1>1
<1>3. AnswersTyped'
  <2>1. answer' \in [to : 0 .. current, failed : BOOLEAN, body : Seq(PartTypes)]
    BY <1>1
  <2>2. QED
    BY <1>1, <1>2, <2>1 DEF AnswersTyped
<1>4. WorkingFits'
  BY DEF WorkingFits
<1>5. FutureFits'
  BY <1>2, FutureStays
<1>6. AnswerFits'
  <2>1. answer'.to = current /\ answer'.failed = failed /\ answer'.body = body
    OBVIOUS
  <2>2. CASE failed
    BY <2>1, <2>2 DEF AnswerFits
  <2>3. CASE response'[current].kind = "closed"
    BY <2>1, <2>3 DEF AnswerFits
  <2>4. CASE \E d \in 1 .. current - 1 : LeavesParserInBody(d)
    <3>1. PICK d \in 1 .. current - 1 : LeavesParserInBody(d)
      BY <2>4
    <3>2. LeavesParserInBody(d)'
      BY <3>1, EarlierStays
    <3>3. QED
      BY <2>1, <3>2 DEF AnswerFits
  <2>5. CASE Own(body, response'[current].length)
    BY <2>1, <2>5 DEF AnswerFits, Own
  <2>6. QED
    BY <2>2, <2>3, <2>4, <2>5
<1>7. RequestAnsweredOnce'
  BY <1>2, EndOnce
<1>8. QED
  BY <1>3, <1>4, <1>5, <1>6, <1>7 DEF HistoryFits

(* A step that gives the request up.                                        *)
LEMMA GiveUpKeeps ==
  ASSUME RestTypes, RestTypes', HistoryFits, Within, op' = "idle",
         UNCHANGED <<answers, answer>>,
         \/ response'[current].kind \in {"none", "bare", "closed", "redirect"}
         \/ method[current] = "head"
         \/ current \in cut'
         \/ Disturbed
  PROVE  HistoryFits'
<1>1. current' = current /\ answers \in [Requests -> Nat] /\ answers[current] = 0
  BY DEF Within, HistoryFits, WorkingFits, AnswersTyped
<1>2. AnswersTyped' /\ WorkingFits'
  BY <1>1 DEF HistoryFits, AnswersTyped, WorkingFits
<1>3. FutureFits'
  BY FutureStays
<1>4. AnswerFits'
  BY AnswerStays
<1>5. RequestAnsweredOnce'
  BY <1>1, EndOnce
<1>6. QED
  BY <1>2, <1>3, <1>4, <1>5 DEF HistoryFits

----------------------------------------------------------------------------
(* What is parsed                                                           *)

\* s is the response to the current request, or what comes first of it, and before
\* it h parts that a disturbance has left; it is all of it, or was cut short.
IsOwn(s, h) ==
  /\ h = 0 \/ Disturbed
  /\ h < Len(s) /\ Len(s) <= h + 1 + Size(current)
  /\ \A i \in h + 1 .. Len(s) : s[i] = PartAt(current, i - h - 1)

\* How Parse can end over s.
ParseEnds(s) ==
  /\ op' = "idle" /\ response' = response
  /\ parser' = Resting \/ (op # "chunks" /\ parser'.at = Parsed(s).at)
  /\ \/ /\ Parsed(s).done > 0
        /\ answers' = [answers EXCEPT ![current] = @ + Parsed(s).done]
        /\ answer' = [to |-> current, failed |-> FALSE, body |-> Parsed(s).body]
        /\ given' = given
     \/ /\ Parsed(s).done = 0
        /\ given' = given \cup {current}
        /\ UNCHANGED <<answers, answer>>

\* The parser over any parts gives a tally.
LEMMA ParsedTyped ==
  ASSUME RestTypes, NEW s \in Seq(PartTypes)
  PROVE  Parsed(s) \in Tallies
<1>1. Len(s) \in Nat
  BY LenProperties
<1>2. QED
  BY <1>1, TalliesOfParts

(* After an earlier response that left the parser inside its body anything  *)
(* may be found.                                                            *)
LEMMA ParseInBody ==
  ASSUME RestTypes, RestTypes', HistoryFits, ParserFits, Within,
         NEW s \in Seq(PartTypes), ParseEnds(s), parser.at = "body"
  PROVE  HistoryFits' /\ ParserFits'
<1>1. current \in Nat /\ current \in Requests /\ current' = current /\ current \notin given
  BY BoundsAssumption DEF RestTypes, Requests, Within, HistoryFits, WorkingFits
<1>2. PICK d \in 1 .. current : LeavesParserInBody(d)
  BY DEF ParserFits
<1>3. d \in 1 .. current - 1
  BY <1>1, <1>2 DEF LeavesParserInBody
<1>4. Disturbed
  BY <1>1, <1>2, <1>3 DEF Disturbed, Past, Disturbs
<1>5. ParserFits'
  <2>1. Disturbed'
    BY <1>4, DisturbedStays
  <2>2. LeavesParserInBody(d)'
    BY <1>2, <1>3, EarlierStays
  <2>3. QED
    BY <1>1, <1>2, <2>1, <2>2 DEF ParserFits
<1>6. HistoryFits'
  <2>1. CASE Parsed(s).done > 0
    <3>. PICK n \in Nat \ {0}, b \in Seq(PartTypes) : n = Parsed(s).done /\ b = Parsed(s).body
      BY <2>1, ParsedTyped DEF Tallies
    <3>1. /\ op' = "idle" /\ answers' = [answers EXCEPT ![current] = @ + n]
          /\ answer' = [to |-> current, failed |-> FALSE, body |-> b] /\ given' = given
      BY <2>1 DEF ParseEnds
    <3>2. QED
      BY <1>2, <1>3, <3>1, AnswerKeeps
  <2>2. CASE ~(Parsed(s).done > 0)
    <3>1. op' = "idle" /\ UNCHANGED <<answers, answer>>
      BY <2>2 DEF ParseEnds
    <3>2. QED
      BY <1>4, <3>1, GiveUpKeeps
  <2>3. QED
    BY <2>1, <2>2
<1>7. QED
  BY <1>5, <1>6

(* A response that ends with its connection: raw is parsed once more, and   *)
(* says nothing of it.                                                      *)
LEMMA ParseClosing ==
  ASSUME RestTypes, RestTypes', HistoryFits, KindFits, ParserFits, Within, op = "closing",
         NEW s \in Seq(PartTypes), NEW h \in 0 .. Len(s), HeadAfter(s, h), ParseEnds(s),
         parser.at # "body"
  PROVE  HistoryFits' /\ ParserFits'
<1>1. /\ current \in Requests /\ current \in 1 .. current /\ current' = current
      /\ response'[current].kind = "closed" /\ op' = "idle"
  BY BoundsAssumption
  DEF RestTypes, Requests, Within, HistoryFits, WorkingFits, KindFits, ParseEnds
<1>2. PICK n \in {0, 1} : n = Parsed(s).done /\ (Parsed(s).at = "body" => n = 0)
  BY OneMessage
<1>3. ParserFits'
  <2>1. Disturbed'
    BY <1>1, EndDisturbs DEF Disturbs
  <2>2. parser'.at = "body" => LeavesParserInBody(current)'
    BY <1>1, <1>2 DEF ParseEnds, Resting, LeavesParserInBody
  <2>3. QED
    BY <1>1, <2>1, <2>2 DEF ParserFits
<1>4. HistoryFits'
  <2>1. CASE n = 1
    <3>. PICK b \in Seq(PartTypes) : b = Parsed(s).body
      BY ParsedTyped DEF Tallies
    <3>1. /\ answers' = [answers EXCEPT ![current] = @ + n] /\ given' = given /\ n \in Nat \ {0}
          /\ answer' = [to |-> current, failed |-> FALSE, body |-> b]
      BY <1>2, <2>1 DEF ParseEnds
    <3>2. QED
      BY <1>1, <2>1, <3>1, AnswerKeeps
  <2>2. CASE n = 0
    <3>1. UNCHANGED <<answers, answer>>
      BY <1>2, <2>2 DEF ParseEnds
    <3>2. QED
      BY <1>1, <3>1, GiveUpKeeps
  <2>3. QED
    BY <2>1, <2>2
<1>5. QED
  BY <1>3, <1>4

(* The response itself, behind what a disturbance has left.                 *)
LEMMA ParseOwn ==
  ASSUME RestTypes, RestTypes', HistoryFits, KindFits, ParserFits, Within,
         op \in {"body", "chunks"},
         NEW s \in Seq(PartTypes), NEW h \in 0 .. Len(s), HeadAfter(s, h), ParseEnds(s),
         IsOwn(s, h), Len(s) = h + 1 + Size(current) \/ current \in cut',
         parser.at # "body"
  PROVE  HistoryFits' /\ ParserFits'
<1>1. /\ current \in Requests /\ current \in 1 .. current /\ current' = current
      /\ op' = "idle" /\ response' = response
      /\ response[current].kind \in {"length", "close", "chunked"}
      /\ (op = "body" => response[current].kind \in {"length", "close"})
      /\ method[current] \in {"get", "head"}
  BY BoundsAssumption
  DEF RestTypes, Requests, Within, HistoryFits, WorkingFits, KindFits, ParseEnds
<1>2. PICK n \in {0, 1} : n = Parsed(s).done /\ (Parsed(s).at = "body" => n = 0)
  BY OneMessage
<1>3. Len(s) \in Nat /\ h \in Nat /\ h < Len(s)
  BY LenProperties DEF IsOwn
<1>4. CASE parser.at = "start" /\ h = 0
  <2>1. /\ Len(s) \in 1 .. 1 + Size(current)
        /\ \A i \in 1 .. Len(s) : s[i] = PartAt(current, i - 1)
    <3>1. Size(current) \in Nat
      <4>1. response[current].length \in Nat
        BY <1>1, BoundsAssumption DEF RestTypes, Responses
      <4>2. QED
        BY <4>1 DEF Size, Bodies
    <3>. PICK z \in Nat : z = Size(current)
      BY <3>1
    <3>2. Len(s) <= 1 + z
      BY <1>3, <1>4 DEF IsOwn
    <3>3. \A i \in 1 .. Len(s) : s[i] = PartAt(current, i - 1)
      <4>1. \A i \in h + 1 .. Len(s) : s[i] = PartAt(current, i - h - 1)
        BY DEF IsOwn
      <4>2. \A i \in 1 .. Len(s) : i \in h + 1 .. Len(s) /\ i - h - 1 = i - 1
        BY <1>3, <1>4
      <4>3. QED
        BY <4>1, <4>2
    <3>4. QED
      BY <1>3, <3>2, <3>3
  <2>2. /\ n = 1 => Own(Parsed(s).body, response[current].length)
        /\ n = 1 => Parsed(s).at = "start" \/ response[current].kind = "close"
        /\ Len(s) = 1 + Size(current) /\ method[current] = "get" => n = 1
    BY <1>1, <1>2, <1>4, <2>1, OwnMessage
  <2>3. ParserFits'
    <3>1. parser'.at = "body" => LeavesParserInBody(current)'
      BY <1>1, <1>2 DEF ParseEnds, Resting, LeavesParserInBody
    <3>2. parser'.at # "start" => Disturbs(current)'
      <4>1. CASE n = 1
        BY <1>1, <1>2, <2>2, <4>1 DEF ParseEnds, Resting, Disturbs
      <4>2. CASE n = 0
        BY <1>1, <1>2, <4>2 DEF ParseEnds, Resting, Disturbs, LeavesParserInBody
      <4>3. QED
        BY <4>1, <4>2
    <3>3. parser'.at # "start" => Disturbed'
      BY <1>1, <3>2, EndDisturbs
    <3>4. QED
      BY <1>1, <3>1, <3>3 DEF ParserFits
  <2>4. HistoryFits'
    <3>1. CASE n = 1
      <4>. PICK b \in Seq(PartTypes) : b = Parsed(s).body
        BY ParsedTyped DEF Tallies
      <4>1. /\ answers' = [answers EXCEPT ![current] = @ + n] /\ given' = given /\ n \in Nat \ {0}
            /\ answer' = [to |-> current, failed |-> FALSE, body |-> b]
        BY <1>2, <3>1 DEF ParseEnds
      <4>2. Own(b, response'[current].length)
        BY <1>1, <2>2, <3>1
      <4>3. QED
        BY <1>1, <3>1, <4>1, <4>2, AnswerKeeps
    <3>2. CASE n = 0
      <4>1. UNCHANGED <<answers, answer>>
        BY <1>2, <3>2 DEF ParseEnds
      <4>2. method[current] = "head" \/ current \in cut'
        BY <1>1, <1>4, <2>2, <3>2
      <4>3. QED
        BY <1>1, <4>1, <4>2, GiveUpKeeps
    <3>3. QED
      BY <3>1, <3>2
  <2>5. QED
    BY <2>3, <2>4
<1>5. CASE ~(parser.at = "start" /\ h = 0)
  <2>1. n = 0
    BY <1>2, <1>3, <1>5, Unheard
  <2>2. Disturbed
    BY <1>3, <1>5 DEF ParserFits, IsOwn
  <2>3. Disturbed'
    BY <2>2, DisturbedStays
  <2>4. parser'.at = "body" => LeavesParserInBody(current)'
    BY <1>1, <1>2, <2>1 DEF ParseEnds, Resting, LeavesParserInBody
  <2>5. UNCHANGED <<answers, answer>>
    BY <1>2, <2>1 DEF ParseEnds
  <2>6. QED
    BY <1>1, <2>2, <2>3, <2>4, <2>5, GiveUpKeeps DEF ParserFits
<1>6. QED
  BY <1>4, <1>5

----------------------------------------------------------------------------
(* The actions                                                              *)

\* While the client waits for no part of a body.
LEMMA NothingRead ==
  ASSUME RawFits, raw' \in {raw, <<>>}, op' \notin {"body", "closing", "chunks"},
         op' = "idle" \/ response'[current'].kind \in {"none", "redirect"},
         BufferFits'
  PROVE  ReadingFits'
<1>1. KindFits' /\ ClosingFits' /\ OwnFits' /\ LeftFits'
  BY DEF KindFits, ClosingFits, OwnFits, LeftFits
<1>2. RawFits'
  <2>1. CASE raw' = raw
    BY <2>1 DEF RawFits, HeadAfter
  <2>2. CASE raw' = <<>>
    BY <2>2 DEF RawFits, HeadAfter
  <2>3. QED
    BY <2>1, <2>2
<1>3. QED
  BY <1>1, <1>2 DEF ReadingFits

\* While nothing is parsed.
LEMMA ParserStays ==
  ASSUME RestTypes, RestTypes', HistoryFits, ParserFits, Within, parser' = parser
  PROVE  ParserFits'
<1>1. current \in Nat /\ current' = current /\ current \notin given
  BY BoundsAssumption DEF RestTypes, Within, HistoryFits, WorkingFits
<1>2. parser.at # "start" => Disturbed'
  BY DisturbedStays DEF ParserFits
<1>3. ASSUME parser.at = "body" PROVE \E c \in 1 .. current : LeavesParserInBody(c)'
  <2>1. PICK c \in 1 .. current : LeavesParserInBody(c)
    BY <1>3 DEF ParserFits
  <2>2. c \in 1 .. current - 1
    BY <1>1, <2>1 DEF LeavesParserInBody
  <2>3. QED
    BY <2>1, <2>2, EarlierStays
<1>4. QED
  BY <1>1, <1>2, <1>3 DEF ParserFits

\* While nothing is read.
LEMMA BufferStays ==
  ASSUME RestTypes, RestTypes', BufferFits, Within, buffer' = buffer,
         op' \notin {"body", "closing", "chunks"}
  PROVE  BufferFits'
  BY DisturbedStays DEF BufferFits

\* on_request_failure, on_response_failure
LEMMA FailKeeps ==
  ASSUME RestTypes, RestTypes', HistoryFits, Within, FailRequest
  PROVE  HistoryFits' /\ op' = "idle"
<1>1. <<>> \in Seq(PartTypes) /\ 1 \in Nat \ {0}
  BY EmptySeq
<1>2. /\ op' = "idle" /\ given' = given /\ answers' = [answers EXCEPT ![current] = @ + 1]
      /\ answer' = [to |-> current, failed |-> TRUE, body |-> <<>>]
  BY DEF FailRequest, Answer
<1>. PICK n \in Nat \ {0}, failed \in BOOLEAN, body \in Seq(PartTypes) :
       n = 1 /\ failed /\ body = <<>>
  BY <1>1
<1>3. /\ answers' = [answers EXCEPT ![current] = @ + n]
      /\ answer' = [to |-> current, failed |-> failed, body |-> body]
  BY <1>2
<1>4. QED
  BY <1>2, <1>3, AnswerKeeps

\* What is known when a request is under way.
LEMMA UnderWay ==
  ASSUME RestTypes, HistoryFits, op # "idle"
  PROVE  /\ current \in Requests /\ current \in Nat \ {0} /\ current \in 1 .. current
         /\ host \in Hosts /\ method[current] \in {"get", "head"}
         /\ current \notin given /\ answers[current] = 0
  BY BoundsAssumption DEF RestTypes, Requests, HistoryFits, WorkingFits

\* connect, with the handshake.
LEMMA ConnectKeeps ==
  ASSUME ExchangeInv, Connect
  PROVE  ExchangeInv'
<1>1. /\ RestTypes /\ HistoryFits /\ ReadingFits /\ ParserFits /\ op = "connect"
      /\ UNCHANGED <<current, session, parser, hops, cut, dead>>
  BY DEF ExchangeInv, Connect
<1>2. given' = given /\ op' \in {"write", "idle"}
  BY DEF Connect, Wait, FailRequest, Answer
<1>3. Within
  BY <1>1, <1>2 DEF Within, session
<1>4. RestTypes'
  <2>1. live' \subseteq verified' /\ verified' \subseteq Hosts
    BY <1>1, UnderWay DEF Connect, RestTypes, links
  <2>2. QED
    BY <1>1, <1>2, <2>1 DEF RestTypes, session, hops
<1>5. SequencesTyped'
  BY <1>1 DEF ExchangeInv, SequencesTyped, session
<1>6. HistoryFits'
  <2>1. CASE FailRequest
    BY <1>1, <1>3, <1>4, <2>1, FailKeeps
  <2>2. CASE Wait("write")
    <3>1. op' # "idle" /\ host' \in Hosts /\ UNCHANGED <<answers, answer, given>>
      BY <1>1, <2>2, UnderWay DEF Wait, session
    <3>2. QED
      BY <1>1, <1>3, <1>4, <3>1, WaitKeeps
  <2>3. QED
    BY <2>1, <2>2 DEF Connect
<1>7. ReadingFits'
  <2>1. BufferFits'
    BY <1>1, <1>2, <1>3, <1>4, BufferStays DEF ReadingFits, session
  <2>2. RawFits /\ raw' = raw /\ response'[current'].kind \in {"none", "redirect"}
    BY <1>1 DEF ReadingFits, KindFits, session
  <2>3. QED
    BY <1>2, <2>1, <2>2, NothingRead
<1>8. ParserFits'
  BY <1>1, <1>3, <1>4, ParserStays
<1>9. QED
  BY <1>4, <1>5, <1>6, <1>7, <1>8 DEF ExchangeInv

\* async_write
LEMMA WriteKeeps ==
  ASSUME ExchangeInv, Write
  PROVE  ExchangeInv'
<1>1. /\ RestTypes /\ HistoryFits /\ ReadingFits /\ ParserFits /\ op = "write"
      /\ UNCHANGED <<current, session, parser, verified, hops, cut, dead>>
  BY DEF ExchangeInv, Write
<1>2. given' = given /\ op' \in {"header", "idle"}
  BY DEF Write, Wait, FailRequest, Answer
<1>3. Within
  BY <1>1, <1>2 DEF Within, session
<1>4. RestTypes'
  <2>1. live' \subseteq verified' /\ verified' \subseteq Hosts
    BY <1>1 DEF Write, RestTypes
  <2>2. QED
    BY <1>1, <1>2, <2>1 DEF RestTypes, session, hops
<1>5. SequencesTyped'
  BY <1>1 DEF ExchangeInv, SequencesTyped, session
<1>6. HistoryFits'
  <2>1. CASE FailRequest
    BY <1>1, <1>3, <1>4, <2>1, FailKeeps
  <2>2. CASE Wait("header")
    <3>1. op' # "idle" /\ host' \in Hosts /\ UNCHANGED <<answers, answer, given>>
      BY <1>1, <2>2, UnderWay DEF Wait, session
    <3>2. QED
      BY <1>1, <1>3, <1>4, <3>1, WaitKeeps
  <2>3. QED
    BY <2>1, <2>2 DEF Write
<1>7. ReadingFits'
  <2>1. BufferFits'
    BY <1>1, <1>2, <1>3, <1>4, BufferStays DEF ReadingFits, session
  <2>2. RawFits /\ raw' = raw /\ response'[current'].kind \in {"none", "redirect"}
    BY <1>1 DEF ReadingFits, KindFits, session
  <2>3. QED
    BY <1>2, <2>1, <2>2, NothingRead
<1>8. ParserFits'
  BY <1>1, <1>3, <1>4, ParserStays
<1>9. QED
  BY <1>4, <1>5, <1>6, <1>7, <1>8 DEF ExchangeInv

\* handle_redirect
LEMMA RedirectKeeps ==
  ASSUME ExchangeInv, Redirect
  PROVE  ExchangeInv'
<1>1. /\ RestTypes /\ HistoryFits /\ ReadingFits /\ ParserFits /\ op = "delay"
      /\ UNCHANGED <<current, method, left, response, coming, buffer, parser, links, hops,
                     cut, dead>>
  BY DEF ExchangeInv, Redirect
<1>2. /\ given' = given /\ op' \in {"write", "connect", "idle"} /\ raw' \in {raw, <<>>}
      /\ host' \in Hosts
  BY <1>1, UnderWay DEF Redirect, SendTo, Wait, FailRequest, Answer
<1>3. Within
  BY <1>1, <1>2 DEF Within
<1>4. RestTypes'
  BY <1>1, <1>2 DEF RestTypes, hops, links
<1>5. SequencesTyped'
  <2>1. raw' \in Seq(PartTypes)
    BY <1>2, EmptySeq DEF ExchangeInv, SequencesTyped
  <2>2. QED
    BY <1>1, <2>1 DEF ExchangeInv, SequencesTyped
<1>6. HistoryFits'
  <2>1. CASE FailRequest
    BY <1>1, <1>3, <1>4, <2>1, FailKeeps
  <2>2. CASE \E h \in Hosts : SendTo(h) /\ raw' = <<>>
    <3>1. op' # "idle" /\ UNCHANGED <<answers, answer, given>>
      BY <2>2 DEF SendTo, Wait
    <3>2. QED
      BY <1>1, <1>2, <1>3, <1>4, <3>1, WaitKeeps
  <2>3. QED
    BY <2>1, <2>2 DEF Redirect
<1>7. ReadingFits'
  <2>1. BufferFits'
    BY <1>1, <1>2, <1>3, <1>4, BufferStays DEF ReadingFits
  <2>2. RawFits /\ response'[current'].kind \in {"none", "redirect"}
    BY <1>1 DEF ReadingFits, KindFits
  <2>3. QED
    BY <1>2, <2>1, <2>2, NothingRead
<1>8. ParserFits'
  BY <1>1, <1>3, <1>4, ParserStays
<1>9. QED
  BY <1>4, <1>5, <1>6, <1>7, <1>8 DEF ExchangeInv

\* read_response_header, when the header does not come, or not all of it.
LEMMA HeaderFailsKeeps ==
  ASSUME ExchangeInv, HeaderFails \/ HeaderOverflows
  PROVE  ExchangeInv'
<1>1. /\ RestTypes /\ SequencesTyped /\ HistoryFits /\ ReadingFits /\ ParserFits
      /\ op = "header"
      /\ live' = live \ {host} \/ (live' = live /\ verified' = verified)
      /\ UNCHANGED <<current, method, host, left, response, coming, raw, parser, redirected, dead>>
  <2>1. CASE HeaderFails
    BY <2>1 DEF ExchangeInv, HeaderFails
  <2>2. CASE HeaderOverflows
    BY <2>2 DEF ExchangeInv, HeaderOverflows, links, hops
  <2>3. QED
    BY <2>1, <2>2
<1>2. /\ current \in Requests /\ current \in 1 .. current /\ host \in Hosts
      /\ response[current].kind \in {"none", "redirect"}
  BY <1>1, UnderWay DEF ReadingFits, KindFits
<1>3. /\ op' \in {"connect", "idle"} /\ given' \in {given, given \cup {current}}
      /\ verified' \in {verified, verified \ {host}} /\ retried' \in 0 .. MaxHops
  <2>1. retried \in Nat /\ MaxHops \in Nat /\ retried \in 0 .. MaxHops
    BY <1>1, BoundsAssumption DEF RestTypes
  <2>2. CASE Retry
    BY <2>1, <2>2 DEF Retry, Reconnects, GiveUp, Wait
  <2>3. CASE FailRequest /\ UNCHANGED <<verified, retried>>
    BY <2>1, <2>3 DEF FailRequest, Answer
  <2>4. QED
    BY <2>2, <2>3 DEF HeaderFails, HeaderOverflows, links, hops
<1>4. \/ buffer' = buffer /\ cut' = cut
      \/ buffer' = Append(buffer, Part("piece")) /\ cut' = cut \cup {current}
  BY DEF HeaderFails, HeaderOverflows
<1>5. Within
  BY <1>1, <1>3, <1>4 DEF Within
<1>6. RestTypes'
  <2>1. live' \subseteq verified' /\ verified' \subseteq Hosts
    BY <1>1, <1>3 DEF RestTypes
  <2>2. QED
    BY <1>1, <1>2, <1>3, <1>4, <2>1 DEF RestTypes
<1>7. Part("piece") \in PartTypes /\ Part("piece").part = "piece"
  BY <1>2 DEF Part, PartTypes
<1>8. SequencesTyped'
  <2>1. buffer' \in Seq(PartTypes)
    <3>. PICK p \in PartTypes : p = Part("piece")
      BY <1>7
    <3>1. buffer \in Seq(PartTypes) /\ Append(buffer, p) \in Seq(PartTypes)
      BY <1>1, AppendProperties DEF SequencesTyped
    <3>2. QED
      BY <1>4, <3>1
  <2>2. QED
    BY <1>1, <2>1 DEF SequencesTyped
<1>9. HistoryFits'
  <2>1. CASE FailRequest
    BY <1>1, <1>5, <1>6, <2>1, FailKeeps
  <2>2. CASE Reconnects
    <3>1. op' # "idle" /\ host' \in Hosts /\ UNCHANGED <<answers, answer, given>>
      BY <1>1, <1>2, <2>2 DEF Reconnects, Wait
    <3>2. QED
      BY <1>1, <1>5, <1>6, <3>1, WaitKeeps
  <2>3. CASE GiveUp
    <3>1. op' = "idle" /\ UNCHANGED <<answers, answer>> /\ response' = response
      BY <1>1, <2>3 DEF GiveUp
    <3>2. QED
      BY <1>1, <1>2, <1>5, <1>6, <3>1, GiveUpKeeps
  <2>4. QED
    BY <2>1, <2>2, <2>3 DEF HeaderFails, HeaderOverflows, Retry
<1>10. BufferFits'
  <2>1. CASE buffer' = buffer
    BY <1>1, <1>3, <1>5, <1>6, <2>1, BufferStays DEF ReadingFits
  <2>2. CASE buffer' = Append(buffer, Part("piece")) /\ cut' = cut \cup {current}
    <3>1. Disturbed'
      BY <1>1, <1>2, <2>2, EndDisturbs
    <3>2. \A i \in DOMAIN buffer' : buffer'[i].part \in {"body", "piece"}
      <4>1. /\ DOMAIN buffer = 1 .. Len(buffer) /\ Len(buffer) \in Nat
            /\ DOMAIN buffer' = 1 .. Len(buffer) + 1
            /\ \A i \in 1 .. Len(buffer) : buffer'[i] = buffer[i]
            /\ buffer'[Len(buffer) + 1] = Part("piece")
        BY <1>1, <1>7, <2>2, AppendProperties, LenProperties DEF SequencesTyped
      <4>2. QED
        BY <1>1, <1>7, <4>1 DEF ReadingFits, BufferFits
    <3>3. QED
      BY <1>3, <3>1, <3>2 DEF BufferFits
  <2>3. QED
    BY <1>4, <2>1, <2>2
<1>11. ReadingFits'
  <2>1. RawFits /\ raw' = raw /\ response'[current'].kind \in {"none", "redirect"}
    BY <1>1, <1>2 DEF ReadingFits
  <2>2. QED
    BY <1>3, <1>10, <2>1, NothingRead
<1>12. ParserFits'
  BY <1>1, <1>5, <1>6, ParserStays
<1>13. QED
  BY <1>6, <1>8, <1>9, <1>11, <1>12 DEF ExchangeInv

\* read_response_header, over a buffer that was full before it.
LEMMA HeaderOverFullKeeps ==
  ASSUME ExchangeInv, HeaderOverFull
  PROVE  ExchangeInv'
<1>1. /\ RestTypes /\ SequencesTyped /\ HistoryFits /\ ReadingFits /\ ParserFits
      /\ op = "header" /\ buffer' \in {buffer, <<>>}
      /\ UNCHANGED <<current, method, host, left, response, coming, raw, parser>>
      /\ UNCHANGED <<verified, live, retried, redirected, cut, dead>>
  BY DEF ExchangeInv, HeaderOverFull, links, hops
<1>2. current \in Requests /\ response[current].kind \in {"none", "redirect"}
  BY <1>1, UnderWay DEF ReadingFits, KindFits
<1>3. op' = "idle" /\ given' \in {given, given \cup {current}}
  BY DEF HeaderOverFull, FailRequest, Answer, GiveUp
<1>4. Within
  BY <1>1, <1>3 DEF Within
<1>5. RestTypes'
  BY <1>1, <1>2, <1>3 DEF RestTypes
<1>6. SequencesTyped'
  BY <1>1, EmptySeq DEF SequencesTyped
<1>7. HistoryFits'
  <2>1. CASE FailRequest
    BY <1>1, <1>4, <1>5, <2>1, FailKeeps
  <2>2. CASE GiveUp
    <3>1. UNCHANGED <<answers, answer>>
      BY <2>2 DEF GiveUp
    <3>2. QED
      BY <1>1, <1>2, <1>3, <1>4, <1>5, <3>1, GiveUpKeeps
  <2>3. QED
    BY <2>1, <2>2 DEF HeaderOverFull
<1>8. BufferFits'
  <2>1. CASE buffer' = buffer
    BY <1>1, <1>3, <1>4, <1>5, <2>1, BufferStays DEF ReadingFits
  <2>2. CASE buffer' = <<>>
    BY <2>2 DEF BufferFits
  <2>3. QED
    BY <1>1, <2>1, <2>2
<1>9. ReadingFits'
  BY <1>1, <1>3, <1>8, NothingRead DEF ReadingFits
<1>10. ParserFits'
  BY <1>1, <1>4, <1>5, ParserStays
<1>11. QED
  BY <1>5, <1>6, <1>7, <1>9, <1>10 DEF ExchangeInv

\* get, head
LEMMA AskKeeps ==
  ASSUME ExchangeInv, NEW h \in Hosts, NEW m \in {"get", "head"}, Ask(h, m)
  PROVE  ExchangeInv'
<1>1. /\ RestTypes /\ SequencesTyped /\ HistoryFits /\ ReadingFits /\ ParserFits
      /\ op = "idle" /\ current < MaxRequests /\ current' = current + 1 /\ given' = given
      /\ UNCHANGED <<left, response, coming, raw, buffer, parser, links, cut, dead>>
  BY DEF ExchangeInv, Ask, SendTo, Wait
<1>. PICK c \in Requests : /\ c = current + 1 /\ c # 0 /\ current \in Nat /\ current = c - 1
                           /\ \A d \in Requests : d < c <=> d <= current
  BY <1>1, BoundsAssumption DEF RestTypes, Requests
<1>2. ASSUME NEW d \in Requests PROVE \A e \in 1 .. d : e \in Requests
  BY BoundsAssumption DEF Requests
<1>3. /\ current' = c
      /\ \/ /\ method' = [method EXCEPT ![c] = m] /\ retried' = 0 /\ redirected' = 0
            /\ host' = h /\ op' \in {"write", "connect"} /\ UNCHANGED <<answers, answer>>
         \/ /\ answers' = [answers EXCEPT ![c] = 1]
            /\ answer' = [to |-> c, failed |-> TRUE, body |-> <<>>]
            /\ UNCHANGED <<method, host, op, hops>>
  BY <1>1 DEF Ask, SendTo, Wait
<1>4. /\ answers[c] = 0 /\ c \notin given \cup cut /\ response[c].kind = "none"
      /\ answers \in [Requests -> Nat] /\ answer.to \in 0 .. current /\ FutureFits
      /\ answer \in [to : 0 .. current, failed : BOOLEAN, body : Seq(PartTypes)]
  BY <1>1 DEF HistoryFits, FutureFits, AnswersTyped
<1>5. RestTypes'
  <2>1. method' \in [Requests -> {"none", "get", "head"}]
    BY <1>1, <1>3 DEF RestTypes
  <2>2. current' \in 0 .. MaxRequests /\ retried' \in 0 .. MaxHops /\ redirected' \in 0 .. MaxHops
    BY <1>1, <1>3, BoundsAssumption DEF RestTypes, Requests, hops
  <2>3. host' \in Hosts \cup {NoHost} /\ op' \in {"idle", "write", "connect"}
    BY <1>1, <1>3 DEF RestTypes
  <2>4. QED
    BY <1>1, <2>1, <2>2, <2>3 DEF RestTypes, links
<1>6. SequencesTyped'
  BY <1>1 DEF SequencesTyped
<1>7. AnswersTyped'
  <2>1. answers' \in [Requests -> Nat]
    BY <1>3, <1>4
  <2>2. answer' \in [to : 0 .. c, failed : BOOLEAN, body : Seq(PartTypes)]
    <3>1. CASE answer' = answer
      BY <1>4, <3>1
    <3>2. CASE answer' = [to |-> c, failed |-> TRUE, body |-> <<>>]
      BY <3>2, EmptySeq
    <3>3. QED
      BY <1>3, <3>1, <3>2
  <2>3. QED
    BY <1>3, <2>1, <2>2 DEF AnswersTyped
<1>8. WorkingFits'
  <2>1. CASE op' # "idle"
    <3>1. method'[c] = m /\ host' = h /\ UNCHANGED <<answers, answer>>
      BY <1>1, <1>3, <2>1 DEF RestTypes
    <3>2. answer'.to < c
      BY <1>4, <3>1
    <3>3. QED
      BY <1>1, <1>3, <1>4, <3>1, <3>2 DEF WorkingFits
  <2>2. QED
    BY <2>1 DEF WorkingFits
<1>9. \A d \in Requests : d # c => answers'[d] = answers[d] /\ method'[d] = method[d]
  BY <1>1, <1>3, <1>4 DEF RestTypes
<1>10. FutureFits'
  <2>1. ASSUME NEW d \in Requests, d > c
        PROVE  answers'[d] = 0 /\ d \notin given' \cup cut' /\ response'[d].kind = "none"
    <3>1. d > current /\ d # c
      BY <2>1 DEF Requests
    <3>2. QED
      BY <1>1, <1>4, <1>9, <3>1 DEF FutureFits
  <2>2. QED
    BY <1>3, <2>1 DEF FutureFits
<1>11. \A d \in Requests : /\ LeavesParserInBody(d)' <=> LeavesParserInBody(d)
                           /\ Disturbs(d)' <=> Disturbs(d)
  BY <1>1 DEF LeavesParserInBody, Disturbs
<1>12. AnswerFits'
  <2>1. CASE answer' = answer
    <3>1. \A d \in 1 .. answer.to - 1 : d \in Requests
      <4>. PICK a \in Nat : a = answer.to /\ a <= current
        BY <1>4
      <4>1. \A d \in 1 .. a - 1 : d \in 1 .. c
        OBVIOUS
      <4>2. QED
        BY <1>2, <4>1
    <3>2. QED
      BY <1>1, <1>11, <2>1, <3>1 DEF HistoryFits, AnswerFits
  <2>2. CASE answer'.failed
    BY <2>2 DEF AnswerFits
  <2>3. QED
    BY <1>3, <2>1, <2>2
<1>13. RequestAnsweredOnce'
  <2>1. ASSUME NEW d \in Requests
        PROVE  /\ answers'[d] <= 1 \/ \E e \in 1 .. d - 1 : LeavesParserInBody(e)'
               /\ d < c \/ (d = c /\ op' = "idle") =>
                    \/ answers'[d] >= 1
                    \/ response'[d].kind \in {"none", "bare", "closed", "redirect"}
                    \/ method'[d] = "head"
                    \/ \E e \in 1 .. d : e \in cut'
                    \/ \E e \in 1 .. d - 1 : Disturbs(e)'
    <3>1. CASE d = c
      <4>1. answers'[c] \in {0, 1} /\ response'[c].kind = "none"
        BY <1>1, <1>3, <1>4
      <4>2. QED
        BY <3>1, <4>1
    <3>2. CASE d # c
      <4>1. \A e \in 1 .. d - 1 : e \in Requests
        BY <1>2 DEF Requests
      <4>2. d < c => d < current \/ (d = current /\ op = "idle")
        BY <1>1 DEF Requests
      <4>3. /\ answers[d] <= 1 \/ \E e \in 1 .. d - 1 : LeavesParserInBody(e)
            /\ d < current \/ (d = current /\ op = "idle") =>
                 \/ answers[d] >= 1
                 \/ response[d].kind \in {"none", "bare", "closed", "redirect"}
                 \/ method[d] = "head"
                 \/ \E e \in 1 .. d : e \in cut
                 \/ \E e \in 1 .. d - 1 : Disturbs(e)
        BY <1>1 DEF HistoryFits, RequestAnsweredOnce
      <4>4. answers'[d] = answers[d] /\ method'[d] = method[d] /\ cut' = cut /\ response' = response
        BY <1>1, <1>9, <3>2
      <4>5. QED
        BY <1>11, <3>2, <4>1, <4>2, <4>3, <4>4
    <3>3. QED
      BY <3>1, <3>2
  <2>2. QED
    BY <1>3, <2>1 DEF RequestAnsweredOnce
<1>14. Disturbed => Disturbed'
  <2>1. ASSUME NEW d \in 1 .. current, d \in cut \/ (Past(d) /\ Disturbs(d))
        PROVE  d \in 1 .. c /\ (d \in cut' \/ (d < c /\ Disturbs(d)'))
    <3>1. d \in 1 .. c /\ d \in Requests /\ d < c
      BY <1>2 DEF Requests
    <3>2. QED
      BY <1>1, <1>11, <2>1, <3>1
  <2>2. QED
    BY <1>3, <2>1 DEF Disturbed, Past
<1>15. ReadingFits'
  <2>1. op' \in {"idle", "write", "connect"}
    BY <1>1, <1>3
  <2>2. BufferFits'
    BY <1>1, <1>14, <2>1 DEF ReadingFits, BufferFits
  <2>3. RawFits /\ raw' = raw /\ response'[current'].kind \in {"none", "redirect"}
    BY <1>1, <1>3, <1>4 DEF ReadingFits
  <2>4. QED
    BY <2>1, <2>2, <2>3, NothingRead
<1>16. ParserFits'
  <2>1. ASSUME NEW d \in 1 .. current, LeavesParserInBody(d)
        PROVE  d \in 1 .. c /\ LeavesParserInBody(d)'
    BY <1>1, <2>1 DEF LeavesParserInBody
  <2>2. QED
    BY <1>1, <1>3, <1>14, <2>1 DEF ParserFits
<1>17. HistoryFits'
  BY <1>7, <1>8, <1>10, <1>12, <1>13 DEF HistoryFits
<1>18. QED
  BY <1>5, <1>6, <1>15, <1>16, <1>17 DEF ExchangeInv

----------------------------------------------------------------------------
(* Sequences, taken apart and joined                                        *)

\* The first parts of a sequence.
LEMMA PrefixOf ==
  ASSUME NEW S, NEW F \in Seq(S), NEW n \in 0 .. Len(F)
  PROVE  /\ SubSeq(F, 1, n) \in Seq(S) /\ Len(SubSeq(F, 1, n)) = n
         /\ \A i \in 1 .. n : SubSeq(F, 1, n)[i] = F[i]
<1>1. Len(F) \in Nat /\ n \in Nat /\ \A i \in 1 .. n : F[i] \in S
  BY LenProperties, ElementOfSeq
<1>2. /\ SubSeq(F, 1, n) \in Seq(S)
      /\ Len(SubSeq(F, 1, n)) = IF 1 <= n THEN n - 1 + 1 ELSE 0
      /\ \A i \in 1 .. n - 1 + 1 : SubSeq(F, 1, n)[i] = F[1 + i - 1]
  BY <1>1, SubSeqProperties
<1>3. n - 1 + 1 = n /\ \A i \in 1 .. n : 1 + i - 1 = i
  BY <1>1
<1>4. QED
  BY <1>1, <1>2, <1>3

\* The other parts of it.
LEMMA SuffixOf ==
  ASSUME NEW S, NEW F \in Seq(S), NEW n \in 0 .. Len(F)
  PROVE  /\ SubSeq(F, n + 1, Len(F)) \in Seq(S) /\ Len(SubSeq(F, n + 1, Len(F))) = Len(F) - n
         /\ \A i \in 1 .. Len(F) - n : SubSeq(F, n + 1, Len(F))[i] = F[n + i]
<1>. PICK z \in Nat : z = Len(F)
  BY LenProperties
<1>1. n \in Nat /\ \A i \in n + 1 .. z : F[i] \in S
  BY ElementOfSeq
<1>2. /\ SubSeq(F, n + 1, z) \in Seq(S)
      /\ Len(SubSeq(F, n + 1, z)) = IF n + 1 <= z THEN z - (n + 1) + 1 ELSE 0
      /\ \A i \in 1 .. z - (n + 1) + 1 : SubSeq(F, n + 1, z)[i] = F[n + 1 + i - 1]
  <2>1. n + 1 \in Int /\ z \in Int
    BY <1>1
  <2>2. QED
    BY <1>1, <2>1, SubSeqProperties
<1>3. z - (n + 1) + 1 = z - n /\ \A i \in 1 .. z - n : n + 1 + i - 1 = n + i
  BY <1>1
<1>4. QED
  BY <1>1, <1>2, <1>3

\* Two sequences, one after the other.
LEMMA JoinOf ==
  ASSUME NEW S, NEW a \in Seq(S), NEW b \in Seq(S)
  PROVE  /\ a \o b \in Seq(S) /\ Len(a \o b) = Len(a) + Len(b)
         /\ \A i \in 1 .. Len(a) : (a \o b)[i] = a[i]
         /\ \A i \in 1 .. Len(b) : (a \o b)[Len(a) + i] = b[i]
<1>. PICK m \in Nat, n \in Nat : m = Len(a) /\ n = Len(b)
  BY LenProperties
<1>1. /\ a \o b \in Seq(S) /\ Len(a \o b) = m + n
      /\ \A i \in 1 .. m + n : (a \o b)[i] = IF i <= m THEN a[i] ELSE b[i - m]
  BY ConcatProperties
<1>2. \A i \in 1 .. m : i \in 1 .. m + n /\ i <= m
  OBVIOUS
<1>3. \A i \in 1 .. n : m + i \in 1 .. m + n /\ ~(m + i <= m) /\ m + i - m = i
  OBVIOUS
<1>4. QED
  BY <1>1, <1>2, <1>3

\* What is read of a response and what is to come of it, after this step.
LEMMA OwnNext ==
  ASSUME NEW c \in Requests, current' = c,
         NEW s, raw' = s, NEW t, coming' = t, Len(s) \in Nat, NEW h \in 0 .. Len(s), h < Len(s),
         HeadAfter(s, h), h = 0 \/ Disturbed',
         Len(s) + Len(t) = h + 1 + Size(c)',
         \A i \in h + 1 .. Len(s) : s[i] = PartAt(c, i - h - 1)',
         \A i \in 1 .. Len(t) : t[i] = PartAt(c, Len(s) + i - h - 1)'
  PROVE  RawFits' /\ OwnFits'
<1>1. h \in 0 .. Len(s) - 1
  OBVIOUS
<1>2. \A i \in 1 .. h : s[i].part \in {"body", "piece"}
  BY DEF HeadAfter
<1>3. h < Len(s) => s[h + 1].part = "head"
  BY DEF HeadAfter
<1>4. \A i \in h + 2 .. Len(s) : s[i].part \in {"body", "end"}
  BY DEF HeadAfter
<1>5. RawFits'
  BY <1>2, <1>3, <1>4 DEF RawFits, HeadAfter
<1>6. OwnResponse(h)'
  BY <1>2, <1>3, <1>4 DEF OwnResponse, HeadAfter, Size, Bodies, PartAt
<1>7. OwnFits'
  BY <1>1, <1>6 DEF OwnFits
<1>8. QED
  BY <1>5, <1>7

\* What follows a header.
LEMMA FollowingParts ==
  ASSUME current \in Requests, NEW r \in Responses,
         Headless(current)' <=> method[current] = "head" /\ host \notin behind
  PROVE  /\ Following(r) \in Seq(PartTypes)
         /\ Len(Following(r)) =
              IF Headless(current)' THEN 0
              ELSE IF r.kind = "chunked" THEN r.length + 1 ELSE r.length
         /\ \A k \in 1 .. Len(Following(r)) :
              Following(r)[k] = [of |-> current, part |-> IF k <= r.length THEN "body" ELSE "end"]
<1>1. r.length \in Nat
  BY BoundsAssumption DEF Responses
<1>. PICK L \in Nat : L = r.length
  BY <1>1
<1>. PICK b \in PartTypes, e \in PartTypes :
       /\ b = Part("body") /\ e = Part("end")
       /\ b = [of |-> current, part |-> "body"] /\ e = [of |-> current, part |-> "end"]
  BY DEF Part, PartTypes
<1>2. CASE Headless(current)'
  BY <1>2, EmptySeq DEF Following
<1>3. CASE ~Headless(current)'
  <2>. DEFINE B == [k \in 1 .. L |-> b]
              E == IF r.kind = "chunked" THEN <<e>> ELSE <<>>
  <2>1. Following(r) = B \o E
    BY <1>3 DEF Following
  <2>2. B \in Seq(PartTypes) /\ Len(B) = L /\ \A k \in 1 .. L : B[k] = b
    BY IsASeq, LenProperties
  <2>3. /\ E \in Seq(PartTypes) /\ Len(E) = IF r.kind = "chunked" THEN 1 ELSE 0
        /\ r.kind = "chunked" => E[1] = e
    BY EmptySeq
  <2>. HIDE DEF B, E
  <2>4. /\ B \o E \in Seq(PartTypes) /\ Len(B \o E) = Len(B) + Len(E)
        /\ \A i \in 1 .. Len(B) + Len(E) :
             (B \o E)[i] = IF i <= Len(B) THEN B[i] ELSE E[i - Len(B)]
    BY <2>2, <2>3, ConcatProperties
  <2>. PICK s \in Seq(PartTypes) : s = B \o E
    BY <2>4
  <2>5. /\ Len(s) = IF r.kind = "chunked" THEN L + 1 ELSE L
        /\ \A i \in 1 .. Len(s) : s[i] = IF i <= L THEN b ELSE e
    <3>1. CASE r.kind = "chunked"
      BY <2>2, <2>3, <2>4, <3>1
    <3>2. CASE r.kind # "chunked"
      BY <2>2, <2>3, <2>4, <3>2
    <3>3. QED
      BY <3>1, <3>2
  <2>6. Following(r) = s
    BY <2>1
  <2>7. QED
    BY <1>3, <2>5, <2>6
<1>4. QED
  BY <1>2, <1>3

\* A header between what an earlier read has left and what came with it.
HeaderBetween(b, head, p, s) ==
  /\ Len(s) = Len(b) + 1 + Len(p) /\ HeadAfter(s, Len(b)) /\ s[Len(b) + 1] = head
  /\ \A i \in Len(b) + 2 .. Len(s) : s[i] = p[i - Len(b) - 1]

\* s is a, then e, then b.
Joined(a, e, b, s) ==
  /\ Len(s) = Len(a) + 1 + Len(b)
  /\ \A i \in 1 .. Len(a) : s[i] = a[i]
  /\ s[Len(a) + 1] = e
  /\ \A i \in 1 .. Len(b) : s[Len(a) + 1 + i] = b[i]

\* One part between two sequences.
LEMMA JoinThree ==
  ASSUME NEW S, NEW a \in Seq(S), NEW e \in S, NEW b \in Seq(S)
  PROVE  \E s \in Seq(S) : s = a \o <<e>> \o b /\ Joined(a, e, b, s)
<1>1. <<e>> \in Seq(S) /\ Len(<<e>>) = 1 /\ <<e>>[1] = e
  OBVIOUS
<1>. PICK m \in Seq(S) : m = <<e>> /\ Len(m) = 1 /\ m[1] = e
  BY <1>1
<1>. PICK A \in Nat, B \in Nat : A = Len(a) /\ B = Len(b)
  BY LenProperties
<1>2. /\ a \o m \in Seq(S) /\ Len(a \o m) = Len(a) + Len(m)
      /\ \A i \in 1 .. Len(a) : (a \o m)[i] = a[i]
      /\ \A i \in 1 .. Len(m) : (a \o m)[Len(a) + i] = m[i]
  BY JoinOf
<1>. PICK t \in Seq(S) : t = a \o m
  BY <1>2
<1>3. Len(t) = A + 1 /\ (\A i \in 1 .. A : t[i] = a[i]) /\ t[A + 1] = e
  BY <1>2
<1>4. /\ t \o b \in Seq(S) /\ Len(t \o b) = Len(t) + Len(b)
      /\ \A i \in 1 .. Len(t) : (t \o b)[i] = t[i]
      /\ \A i \in 1 .. Len(b) : (t \o b)[Len(t) + i] = b[i]
  BY JoinOf
<1>. PICK s \in Seq(S) : s = t \o b
  BY <1>4
<1>5. /\ Len(s) = A + 1 + B /\ \A i \in 1 .. A + 1 : s[i] = t[i]
      /\ \A i \in 1 .. B : s[A + 1 + i] = b[i]
  BY <1>3, <1>4
<1>6. (\A i \in 1 .. A : s[i] = a[i]) /\ s[A + 1] = e
  BY <1>3, <1>5
<1>7. s = a \o <<e>> \o b
  OBVIOUS
<1>8. QED
  BY <1>5, <1>6, <1>7 DEF Joined

\* The header that session.raw.assign puts behind what the buffer holds.
LEMMA HeadPlaced ==
  ASSUME NEW b \in Seq(PartTypes), \A i \in DOMAIN b : b[i].part \in {"body", "piece"},
         NEW p \in Seq(PartTypes), \A i \in 1 .. Len(p) : p[i].part \in {"body", "end"},
         NEW head \in PartTypes, head.part = "head"
  PROVE  \E s \in Seq(PartTypes) : s = b \o <<head>> \o p /\ HeaderBetween(b, head, p, s)
<1>. PICK B \in Nat, P \in Nat : B = Len(b) /\ P = Len(p)
  BY LenProperties
<1>. PICK s \in Seq(PartTypes) : s = b \o <<head>> \o p /\ Joined(b, head, p, s)
  BY JoinThree
<1>1. /\ Len(s) = B + 1 + P /\ \A i \in 1 .. B : s[i] = b[i]
      /\ s[B + 1] = head /\ \A i \in 1 .. P : s[B + 1 + i] = p[i]
  BY DEF Joined
<1>2. ASSUME NEW i \in B + 2 .. Len(s) PROVE s[i] = p[i - B - 1] /\ i - B - 1 \in 1 .. P
  <2>1. i - B - 1 \in 1 .. P /\ B + 1 + (i - B - 1) = i
    BY <1>1
  <2>2. QED
    BY <1>1, <2>1
<1>3. \A i \in 1 .. B : s[i].part \in {"body", "piece"}
  BY <1>1, LenProperties
<1>4. \A i \in B + 2 .. Len(s) : s[i].part \in {"body", "end"}
  BY <1>2
<1>5. HeadAfter(s, B)
  BY <1>3, <1>4, <1>1 DEF HeadAfter
<1>6. QED
  BY <1>2, <1>5, <1>1 DEF HeaderBetween

\* F are the z parts after the header of the response r to c.
Follows(F, z, c, r) ==
  /\ z = IF Headless(c)' THEN 0
         ELSE IF r.kind = "chunked" THEN r.length + 1 ELSE r.length
  /\ \A k \in 1 .. z : F[k] = [of |-> c, part |-> IF k <= r.length THEN "body" ELSE "end"]

\* s are h parts, a header of c and the first n of the z parts F, and t the others.
Placed(F, z, n, c, h, s, t) ==
  /\ HeadAfter(s, h) /\ Len(s) = h + 1 + n /\ s[h + 1] = [of |-> c, part |-> "head"]
  /\ \A i \in h + 2 .. Len(s) : s[i] = F[i - h - 1]
  /\ Len(t) = z - n /\ \A i \in 1 .. z - n : t[i] = F[n + i]

\* Of a response with z parts F after its header, n have been read: with the header,
\* behind h parts that were in the buffer, they are s; the others are t.
LEMMA ReadSplit ==
  ASSUME RestTypes, RestTypes', Within, NEW c \in Requests, current = c,
         NEW r \in Responses, response'[c] = r, 
         NEW z \in Nat, NEW F, Follows(F, z, c, r),
         NEW n \in 0 .. z, NEW h \in Nat, h # 0 => Disturbed,
         NEW s, NEW t, Placed(F, z, n, c, h, s, t), raw' = s, coming' = t
  PROVE  RawFits' /\ OwnFits'
<1>1. /\ HeadAfter(s, h) /\ Len(s) = h + 1 + n /\ s[h + 1] = [of |-> c, part |-> "head"]
      /\ \A i \in h + 2 .. Len(s) : s[i] = F[i - h - 1]
      /\ Len(t) = z - n /\ \A i \in 1 .. z - n : t[i] = F[n + i]
  BY DEF Placed
<1>2. current' = c /\ method'[c] = method[c] /\ response'[c] = r
  BY DEF Within
<1>3. Bodies(c)' = IF Headless(c)' THEN 0 ELSE r.length
  BY <1>2 DEF Bodies
<1>4. Size(c)' = z
  <2>1. r.length \in Nat
    BY BoundsAssumption DEF Responses
  <2>2. QED
    BY <1>2, <1>3, <2>1 DEF Size, Follows
<1>5. ASSUME NEW k \in 1 .. z PROVE PartAt(c, k)' = F[k]
  <2>1. k # 0 /\ ~Headless(c)'
    BY DEF Follows
  <2>2. QED
    BY <1>3, <2>1 DEF PartAt, Follows
<1>6. PartAt(c, 0)' = [of |-> c, part |-> "head"]
  BY DEF PartAt
<1>7. ASSUME NEW i \in h + 1 .. Len(s) PROVE s[i] = PartAt(c, i - h - 1)'
  <2>1. CASE i = h + 1
    <3>1. i - h - 1 = 0
      BY <2>1
    <3>2. QED
      BY <1>1, <1>6, <2>1, <3>1
  <2>2. CASE i # h + 1
    <3>1. i - h - 1 \in 1 .. z /\ i \in h + 2 .. Len(s)
      BY <1>1, <2>2
    <3>. PICK k \in 1 .. z : k = i - h - 1
      BY <3>1
    <3>2. s[i] = F[k]
      BY <1>1, <3>1
    <3>3. QED
      BY <1>5, <3>2
  <2>3. QED
    BY <2>1, <2>2
<1>8. ASSUME NEW i \in 1 .. Len(t) PROVE t[i] = PartAt(c, Len(s) + i - h - 1)'
  <2>1. n + i \in 1 .. z /\ Len(s) + i - h - 1 = n + i /\ t[i] = F[n + i]
    BY <1>1
  <2>2. QED
    BY <1>5, <2>1
<1>9. h = 0 \/ Disturbed'
  BY DisturbedStays
<1>10. Len(s) \in Nat /\ h \in 0 .. Len(s) /\ h < Len(s) /\ Len(s) + Len(t) = h + 1 + z
  <2>. PICK a \in Nat, b \in Nat : a = Len(s) /\ b = Len(t) /\ a = h + 1 + n /\ b = z - n
    BY <1>1
  <2>1. h \in 0 .. a /\ h < a
    OBVIOUS
  <2>2. a + b = h + 1 + z
    OBVIOUS
  <2>3. QED
    BY <2>1, <2>2
<1>11. QED
  BY <1>1, <1>2, <1>4, <1>7, <1>8, <1>9, <1>10, OwnNext

\* p are the first n of the z parts F, and t the others.
Split(F, z, n, p, t) ==
  /\ Len(p) = n /\ \A i \in 1 .. n : p[i] = F[i]
  /\ Len(t) = z - n /\ \A i \in 1 .. z - n : t[i] = F[n + i]

\* What has come with a header, and what is still to come.
LEMMA FollowingSplit ==
  ASSUME RestTypes, current \in Requests, NEW r \in Responses,
         Headless(current)' <=> method[current] = "head" /\ host \notin behind,
         NEW n \in 0 .. Len(Following(r))
  PROVE  \E F \in Seq(PartTypes), z \in Nat, p \in Seq(PartTypes), t \in Seq(PartTypes) :
           /\ Follows(F, z, current, r) /\ n \in 0 .. z /\ Split(F, z, n, p, t)
           /\ p = SubSeq(Following(r), 1, n)
           /\ t = SubSeq(Following(r), n + 1, Len(Following(r)))
<1>. PICK F \in Seq(PartTypes), z \in Nat : F = Following(r) /\ z = Len(F)
  BY FollowingParts, LenProperties
<1>1. Follows(F, z, current, r)
  BY FollowingParts DEF Follows
<1>2. n \in 0 .. Len(F)
  OBVIOUS
<1>3. /\ SubSeq(F, 1, n) \in Seq(PartTypes) /\ Len(SubSeq(F, 1, n)) = n
      /\ \A i \in 1 .. n : SubSeq(F, 1, n)[i] = F[i]
  BY <1>2, PrefixOf
<1>4. /\ SubSeq(F, n + 1, Len(F)) \in Seq(PartTypes) /\ Len(SubSeq(F, n + 1, Len(F))) = Len(F) - n
      /\ \A i \in 1 .. Len(F) - n : SubSeq(F, n + 1, Len(F))[i] = F[n + i]
  BY <1>2, SuffixOf
<1>5. Split(F, z, n, SubSeq(F, 1, n), SubSeq(F, n + 1, Len(F)))
  BY <1>3, <1>4 DEF Split
<1>6. QED
  BY <1>1, <1>2, <1>3, <1>4, <1>5

\* What has come with the header is of the body, or its end.
LEMMA SplitParts ==
  ASSUME NEW F, NEW z \in Nat, NEW c, NEW r \in Responses, Follows(F, z, c, r),
         NEW n \in 0 .. z, NEW p, NEW t, Split(F, z, n, p, t)
  PROVE  Len(p) = n /\ \A i \in 1 .. Len(p) : p[i] = F[i] /\ p[i].part \in {"body", "end"}
<1>1. Len(p) = n /\ \A i \in 1 .. n : i \in 1 .. z /\ p[i] = F[i]
  BY DEF Split
<1>2. ASSUME NEW k \in 1 .. z PROVE F[k].part \in {"body", "end"}
  <2>1. F[k] = [of |-> c, part |-> IF k <= r.length THEN "body" ELSE "end"]
    BY DEF Follows
  <2>2. QED
    BY <2>1
<1>3. QED
  BY <1>1, <1>2

\* What a header and what came with it make behind what was left in the buffer.
LEMMA PlacedBehind ==
  ASSUME NEW b \in Seq(PartTypes), \A i \in DOMAIN b : b[i].part \in {"body", "piece"},
         NEW F, NEW z \in Nat, NEW c, NEW r \in Responses, Follows(F, z, c, r),
         NEW n \in 0 .. z, NEW p \in Seq(PartTypes), NEW t, Split(F, z, n, p, t),
         NEW head \in PartTypes, head = [of |-> c, part |-> "head"]
  PROVE  \E s \in Seq(PartTypes) :
           s = b \o <<head>> \o p /\ Placed(F, z, n, c, Len(b), s, t)
<1>1. Len(p) = n /\ \A i \in 1 .. Len(p) : p[i] = F[i] /\ p[i].part \in {"body", "end"}
  BY SplitParts
<1>2. (\A i \in 1 .. Len(p) : p[i].part \in {"body", "end"}) /\ head.part = "head"
  BY <1>1
<1>. PICK s \in Seq(PartTypes) : s = b \o <<head>> \o p /\ HeaderBetween(b, head, p, s)
  BY <1>2, HeadPlaced
<1>3. /\ Len(s) = Len(b) + 1 + Len(p) /\ HeadAfter(s, Len(b)) /\ s[Len(b) + 1] = head
      /\ \A i \in Len(b) + 2 .. Len(s) : s[i] = p[i - Len(b) - 1]
  BY DEF HeaderBetween
<1>. PICK h \in Nat : h = Len(b)
  BY LenProperties
<1>4. ASSUME NEW i \in h + 2 .. Len(s) PROVE s[i] = F[i - h - 1]
  <2>1. s[i] = p[i - h - 1] /\ i - h - 1 \in 1 .. n
    BY <1>1, <1>3
  <2>2. QED
    BY <1>1, <2>1
<1>5. Len(t) = z - n /\ \A i \in 1 .. z - n : t[i] = F[n + i]
  BY DEF Split
<1>6. QED
  BY <1>1, <1>3, <1>4, <1>5 DEF Placed

\* A response that is read on.
LEMMA ReadOn ==
  ASSUME RestTypes, RestTypes', SequencesTyped, HistoryFits, ReadingFits, Within,
         NEW r \in Responses, NEW F, NEW z \in Nat, Follows(F, z, current, r),
         NEW n \in 0 .. z, NEW p \in Seq(PartTypes), NEW t \in Seq(PartTypes),
         Split(F, z, n, p, t),
         response'[current] = r, buffer' = <<>>, coming' = t, raw' = Assigned(p),
         op' \in {"body", "chunks"}, op' = "chunks" <=> r.kind = "chunked",
         r.kind \in {"length", "close", "chunked"},
         op' = "body" => left' = WaitedFor(r, p)
  PROVE  SequencesTyped' /\ ReadingFits'
<1>1. current \in Requests /\ current' = current
  BY UnderWay DEF Within
<1>. PICK c \in Requests : c = current
  BY <1>1
<1>. PICK head \in PartTypes : /\ head = Part("head") /\ head.part = "head"
                               /\ head = [of |-> c, part |-> "head"]
  BY DEF Part, PartTypes
<1>2. /\ buffer \in Seq(PartTypes) /\ \A i \in DOMAIN buffer : buffer[i].part \in {"body", "piece"}
      /\ buffer # <<>> => Disturbed
  BY DEF SequencesTyped, ReadingFits, BufferFits
<1>. PICK h \in Nat : h = Len(buffer) /\ (h # 0 => buffer # <<>>)
  BY <1>2, LenProperties
<1>. PICK b \in Seq(PartTypes) : b = buffer
  BY <1>2
<1>3. Follows(F, z, c, r)
  OBVIOUS
<1>. PICK s \in Seq(PartTypes) : s = b \o <<head>> \o p /\ Placed(F, z, n, c, h, s, t)
  <2>1. \A i \in DOMAIN b : b[i].part \in {"body", "piece"}
    BY <1>2
  <2>2. PICK s \in Seq(PartTypes) : s = b \o <<head>> \o p /\ Placed(F, z, n, c, Len(b), s, t)
    BY <1>3, <2>1, PlacedBehind
  <2>3. QED
    BY <2>2
<1>4. raw' = s
  BY DEF Assigned
<1>5. RawFits' /\ OwnFits'
  <2>1. response'[c] = r /\ coming' = t /\ (h # 0 => Disturbed)
    BY <1>2
  <2>2. QED
    BY <1>4, <1>3, <2>1, ReadSplit
<1>6. LeftFits'
  <2>. SUFFICES ASSUME op' = "body" PROVE LeftFits'
    BY DEF LeftFits
  <2>. PICK L \in Nat \ {0} : L = r.length /\ L \in 1 .. MaxLength
    BY BoundsAssumption DEF Responses
  <2>1. left' = IF n < L THEN L - n ELSE L
    BY DEF WaitedFor, Split
  <2>2. z \in {0, L}
    BY DEF Follows
  <2>3. left' \in 1 .. MaxLength /\ (left' = z - n \/ (z - n = 0 /\ left' = L))
    BY <2>1, <2>2, BoundsAssumption
  <2>4. response'[current'].length = L /\ Len(coming') = z - n
    BY <1>1 DEF Split
  <2>5. QED
    BY <2>3, <2>4 DEF LeftFits
<1>7. KindFits' /\ BufferFits' /\ ClosingFits'
  BY <1>1 DEF KindFits, BufferFits, ClosingFits
<1>8. SequencesTyped'
  BY <1>4, EmptySeq DEF SequencesTyped
<1>9. QED
  BY <1>5, <1>6, <1>7, <1>8 DEF ReadingFits

\* A header after which nothing is read on.
LEMMA HeaderEnds ==
  ASSUME RestTypes, RestTypes', HistoryFits, ReadingFits, ParserFits, Within,
         op = "header", op' \in {"idle", "delay"}, raw' = raw, buffer' = <<>>, parser' = parser,
         op' = "delay" => response'[current].kind = "redirect"
  PROVE  ReadingFits' /\ ParserFits'
<1>1. current' = current
  BY DEF Within
<1>2. BufferFits'
  BY DEF BufferFits
<1>3. ReadingFits'
  BY <1>1, <1>2, NothingRead DEF ReadingFits
<1>4. ParserFits'
  BY ParserStays
<1>5. QED
  BY <1>3, <1>4

\* Where Taken can lead.
LEMMA TakenTo ==
  ASSUME NEW r \in Responses, NEW parts, Taken(r, parts), redirected \in 0 .. MaxHops
  PROVE  /\ op' \in {"body", "closing", "chunks", "idle", "delay"}
         /\ given' \in {given, given \cup {current}}
         /\ redirected' \in 0 .. MaxHops /\ parser' = parser
<1>1. MaxHops \in Nat
  BY BoundsAssumption
<1>2. CASE r.kind \in {"length", "close"}
  BY <1>2 DEF Taken, Wait
<1>3. CASE r.kind = "closed"
  BY <1>3 DEF Taken, Wait
<1>4. CASE r.kind = "chunked"
  BY <1>4 DEF Taken, Wait
<1>5. CASE r.kind = "redirect"
  BY <1>1, <1>5 DEF Taken, Wait, Answer
<1>6. CASE r.kind = "bare"
  BY <1>6 DEF Taken, GiveUp
<1>7. r.kind \in Kinds
  BY DEF Responses, Kinds
<1>8. QED
  BY <1>2, <1>3, <1>4, <1>5, <1>6, <1>7 DEF Kinds

\* A header that has come, with what came with it.
LEMMA TakenKeeps ==
  ASSUME RestTypes, RestTypes', SequencesTyped, HistoryFits, ReadingFits, ParserFits, Within,
         op = "header", buffer' = <<>>, host' = host,
         NEW r \in Responses, NEW F, NEW z \in Nat, Follows(F, z, current, r),
         NEW n \in 0 .. z, NEW p \in Seq(PartTypes), NEW t \in Seq(PartTypes),
         Split(F, z, n, p, t), response'[current] = r, coming' = t, Taken(r, p)
  PROVE  SequencesTyped' /\ HistoryFits' /\ ReadingFits' /\ ParserFits'
<1>1. /\ current' = current /\ current \in Requests /\ host' \in Hosts
      /\ method[current] \in {"get", "head"}
  BY UnderWay DEF Within
<1>2. CASE r.kind \in {"length", "close", "chunked"}
  <2>1. /\ raw' = Assigned(p) /\ parser' = parser /\ op' \in {"body", "chunks"}
        /\ op' = "chunks" <=> r.kind = "chunked"
        /\ op' = "body" => left' = WaitedFor(r, p)
        /\ UNCHANGED <<answers, answer, given>>
    BY <1>2 DEF Taken, Wait
  <2>2. SequencesTyped' /\ ReadingFits'
    BY <1>2, <2>1, ReadOn
  <2>3. HistoryFits'
    BY <1>1, <2>1, WaitKeeps
  <2>4. ParserFits'
    BY <2>1, ParserStays
  <2>5. QED
    BY <2>2, <2>3, <2>4
<1>3. CASE r.kind = "closed"
  <2>1. raw' = raw /\ parser' = parser /\ op' = "closing" /\ UNCHANGED <<answers, answer, given>>
    BY <1>3 DEF Taken, Wait
  <2>2. SequencesTyped'
    BY <2>1, EmptySeq DEF SequencesTyped
  <2>3. ClosingFits'
    <3>1. Len(t) = z - n /\ \A i \in 1 .. z - n : t[i] = F[n + i]
      BY DEF Split
    <3>2. ASSUME NEW i \in DOMAIN t PROVE t[i].part = "body"
      <4>1. i \in 1 .. z - n /\ n + i \in 1 .. z
        BY <3>1, LenProperties
      <4>. PICK k \in 1 .. z : k = n + i
        BY <4>1
      <4>2. z # 0
        BY <4>1
      <4>3. z = r.length
        BY <1>3, <4>2 DEF Follows
      <4>4. F[k] = [of |-> current, part |-> "body"]
        BY <4>3 DEF Follows
      <4>5. QED
        BY <3>1, <4>1, <4>4
    <3>3. QED
      BY <3>2 DEF ClosingFits
  <2>4. KindFits' /\ BufferFits' /\ OwnFits' /\ LeftFits'
    BY <1>1, <1>3, <2>1 DEF KindFits, BufferFits, OwnFits, LeftFits
  <2>5. RawFits'
    BY <2>1 DEF ReadingFits, RawFits, HeadAfter
  <2>6. HistoryFits'
    BY <1>1, <2>1, WaitKeeps
  <2>7. ParserFits'
    BY <2>1, ParserStays
  <2>8. QED
    BY <2>2, <2>3, <2>4, <2>5, <2>6, <2>7 DEF ReadingFits
<1>4. CASE r.kind \in {"redirect", "bare"}
  <2>1. raw' = raw /\ parser' = parser
    BY <1>4 DEF Taken
  <2>2. SequencesTyped'
    BY <2>1, EmptySeq DEF SequencesTyped
  <2>3. CASE Answer(FALSE, <<>>, 1)
    <3>. PICK k \in Nat \ {0}, failed \in BOOLEAN, body \in Seq(PartTypes) :
           k = 1 /\ ~failed /\ body = <<>>
      <4>1. 1 \in Nat \ {0} /\ <<>> \in Seq(PartTypes)
        BY EmptySeq
      <4>2. QED
        BY <4>1
    <3>1. /\ op' = "idle" /\ given' = given /\ answers' = [answers EXCEPT ![current] = @ + k]
          /\ answer' = [to |-> current, failed |-> failed, body |-> body]
      BY <2>3 DEF Answer
    <3>2. Own(body, response'[current].length)
      BY <1>4 DEF Responses, Own
    <3>3. HistoryFits'
      BY <3>1, <3>2, AnswerKeeps
    <3>4. QED
      BY <2>1, <2>2, <3>1, <3>3, HeaderEnds
  <2>4. CASE Wait("delay") /\ r.kind = "redirect"
    <3>1. op' = "delay" /\ UNCHANGED <<answers, answer, given>>
      BY <2>4 DEF Wait
    <3>2. HistoryFits'
      BY <1>1, <3>1, WaitKeeps
    <3>3. QED
      BY <2>1, <2>2, <2>4, <3>1, <3>2, HeaderEnds
  <2>5. CASE GiveUp
    <3>1. op' = "idle" /\ UNCHANGED <<answers, answer>>
      BY <2>5 DEF GiveUp
    <3>2. HistoryFits'
      BY <1>4, <3>1, GiveUpKeeps
    <3>3. QED
      BY <2>1, <2>2, <3>1, <3>2, HeaderEnds
  <2>6. QED
    BY <1>4, <2>3, <2>4, <2>5 DEF Taken
<1>5. r.kind \in Kinds
  BY DEF Responses, Kinds
<1>6. QED
  BY <1>2, <1>3, <1>4, <1>5 DEF Kinds

\* read_response_header, when a header comes.
LEMMA HeaderReadKeeps ==
  ASSUME ExchangeInv, RemainsFit, HeaderRead
  PROVE  ExchangeInv'
<1>1. /\ RestTypes /\ SequencesTyped /\ HistoryFits /\ ReadingFits /\ ParserFits /\ op = "header"
      /\ buffer' = <<>> /\ UNCHANGED <<current, method, host, links, retried, cut, dead>>
  BY DEF ExchangeInv, HeaderRead
<1>2. current \in Requests /\ method[current] \in {"get", "head"}
      /\ response[current].kind \in {"none", "redirect"}
  BY <1>1, UnderWay DEF ReadingFits, KindFits
<1>. Headless(current)' <=> method[current] = "head" /\ host \notin behind
  <2>1. current' = current /\ method' = method
    BY <1>1
  <2>2. method[current] = "head" => current \notin misled
    BY <1>1 DEF RemainsFit, HeadFits
  <2>3. misled' = IF host \in behind THEN misled \cup {current} ELSE misled
    BY DEF HeaderRead
  <2>4. QED
    BY <2>1, <2>2, <2>3 DEF Headless
<1>. PICK r \in Responses :
       \/ \E n \in 0 .. Len(Following(r)) :
            /\ response' = [response EXCEPT ![current] = r]
            /\ coming' = SubSeq(Following(r), n + 1, Len(Following(r)))
            /\ Taken(r, SubSeq(Following(r), 1, n))
       \/ /\ FailRequest \/ GiveUp
          /\ UNCHANGED <<response, coming, raw, left, parser, redirected>>
  BY DEF HeaderRead
<1>3. CASE \E n \in 0 .. Len(Following(r)) :
             /\ response' = [response EXCEPT ![current] = r]
             /\ coming' = SubSeq(Following(r), n + 1, Len(Following(r)))
             /\ Taken(r, SubSeq(Following(r), 1, n))
  <2>. PICK n \in 0 .. Len(Following(r)) :
             /\ response' = [response EXCEPT ![current] = r]
             /\ coming' = SubSeq(Following(r), n + 1, Len(Following(r)))
             /\ Taken(r, SubSeq(Following(r), 1, n))
    BY <1>3
  <2>1. PICK F \in Seq(PartTypes), z \in Nat, p \in Seq(PartTypes), t \in Seq(PartTypes) :
           /\ Follows(F, z, current, r) /\ n \in 0 .. z /\ Split(F, z, n, p, t)
           /\ p = SubSeq(Following(r), 1, n)
           /\ t = SubSeq(Following(r), n + 1, Len(Following(r)))
    BY <1>1, <1>2, FollowingSplit
  <2>2. Taken(r, p) /\ coming' = t
    BY <2>1
  <2>3. /\ op' \in {"body", "closing", "chunks", "idle", "delay"}
        /\ given' \in {given, given \cup {current}}
        /\ redirected' \in 0 .. MaxHops /\ parser' = parser
    BY <1>1, <2>2, TakenTo DEF RestTypes
  <2>4. /\ response'[current] = r
        /\ response' \in [Requests -> Responses \cup {[kind |-> "none", length |-> 0]}]
        /\ \A c \in Requests : c # current => response'[c] = response[c]
    BY <1>1, <1>2 DEF RestTypes
  <2>5. Within
    BY <1>1, <2>3, <2>4 DEF Within
  <2>6. RestTypes'
    BY <1>1, <1>2, <2>3, <2>4 DEF RestTypes, links
  <2>7. SequencesTyped' /\ HistoryFits' /\ ReadingFits' /\ ParserFits'
    BY <1>1, <2>1, <2>2, <2>4, <2>5, <2>6, TakenKeeps
  <2>8. QED
    BY <2>6, <2>7 DEF ExchangeInv
<1>4. CASE /\ FailRequest \/ GiveUp
           /\ UNCHANGED <<response, coming, raw, left, parser, redirected>>
  <2>1. op' = "idle" /\ given' \in {given, given \cup {current}}
    BY <1>4 DEF FailRequest, Answer, GiveUp
  <2>2. Within
    BY <1>1, <1>4, <2>1 DEF Within
  <2>3. RestTypes'
    BY <1>1, <1>2, <1>4, <2>1 DEF RestTypes, links
  <2>4. SequencesTyped'
    BY <1>1, <1>4, EmptySeq DEF SequencesTyped
  <2>5. ReadingFits' /\ ParserFits'
    BY <1>1, <1>4, <2>1, <2>2, <2>3, HeaderEnds
  <2>6. HistoryFits'
    <3>1. CASE FailRequest
      BY <1>1, <2>2, <2>3, <3>1, FailKeeps
    <3>2. CASE GiveUp
      <4>1. UNCHANGED <<answers, answer>>
        BY <3>2 DEF GiveUp
      <4>2. response'[current].kind \in {"none", "redirect"}
        BY <1>2, <1>4
      <4>3. QED
        BY <1>1, <2>1, <2>2, <2>3, <4>1, <4>2, GiveUpKeeps
    <3>3. QED
      BY <1>4, <3>1, <3>2
  <2>7. QED
    BY <2>3, <2>4, <2>5, <2>6 DEF ExchangeInv
<1>5. QED
  BY <1>3, <1>4

----------------------------------------------------------------------------
(* What is read of a body                                                   *)

\* How many parts a response has after its header.
LEMMA SizeFits ==
  ASSUME RestTypes, current \in Requests
  PROVE  /\ Bodies(current) \in Nat /\ Size(current) \in Nat
         /\ Size(current) \in {Bodies(current), Bodies(current) + 1}
         /\ response[current].kind # "chunked" => Size(current) = Bodies(current)
<1>1. response[current].length \in Nat
  BY BoundsAssumption DEF RestTypes, Responses
<1>2. Bodies(current) \in Nat
  BY <1>1 DEF Bodies
<1>3. QED
  BY <1>2 DEF Size

\* As OwnResponse, of s read and t to come.
OwnParts(h, s, t) ==
  /\ HeadAfter(s, h) /\ h < Len(s)
  /\ Len(s) + Len(t) = h + 1 + Size(current)
  /\ \A i \in h + 1 .. Len(s) : s[i] = PartAt(current, i - h - 1)
  /\ \A i \in 1 .. Len(t) : t[i] = PartAt(current, Len(s) + i - h - 1)

\* What has not come yet is of the body, but for the last part of chunks.
LEMMA ComingBodies ==
  ASSUME RestTypes, SequencesTyped, current \in Requests, NEW h \in 0 .. Len(raw) - 1,
         OwnResponse(h), NEW i \in 1 .. Len(coming),
         response[current].kind # "chunked" \/ i < Len(coming)
  PROVE  coming[i].part = "body"
<1>. PICK R \in Nat, C \in Nat : R = Len(raw) /\ C = Len(coming)
  BY LenProperties DEF SequencesTyped
<1>. PICK B \in Nat, Z \in Nat :
       /\ B = Bodies(current) /\ Z = Size(current) /\ Z \in {B, B + 1}
       /\ response[current].kind # "chunked" => Z = B
  BY SizeFits
<1>1. R + C = h + 1 + Z
  BY DEF OwnResponse
<1>2. h \in Nat /\ h < R
  OBVIOUS
<1>3. i \in 1 .. C /\ (Z = B \/ i < C)
  OBVIOUS
<1>4. R + i - h - 1 \in Nat /\ R + i - h - 1 # 0 /\ R + i - h - 1 <= B
  <2>1. R + i - h - 1 \in Nat /\ R + i - h - 1 # 0
    BY <1>2, <1>3
  <2>2. CASE Z = B
    BY <1>1, <1>3, <2>1, <2>2
  <2>3. CASE i < C
    BY <1>1, <1>3, <2>1, <2>3
  <2>4. QED
    BY <1>3, <2>1, <2>2, <2>3
<1>. PICK k \in Nat : k = R + i - h - 1 /\ k # 0 /\ k <= B
  BY <1>4
<1>5. coming[i] = PartAt(current, k)
  BY DEF OwnResponse
<1>6. QED
  BY <1>5 DEF PartAt

\* n parts more are read.
LEMMA ReadMore ==
  ASSUME RestTypes, SequencesTyped, current \in Requests, NEW h \in 0 .. Len(raw) - 1,
         OwnResponse(h), NEW n \in 0 .. Len(coming)
  PROVE  \E s \in Seq(PartTypes), t \in Seq(PartTypes) :
           /\ s = raw \o Read(n) /\ t = Rest(n)
           /\ OwnParts(h, s, t) /\ Len(t) = Len(coming) - n
<1>1. raw \in Seq(PartTypes) /\ coming \in Seq(PartTypes)
  BY DEF SequencesTyped
<1>. PICK R \in Nat, C \in Nat : R = Len(raw) /\ C = Len(coming)
  BY <1>1, LenProperties
<1>. PICK Z \in Nat : Z = Size(current)
  BY SizeFits
<1>. PICK p \in Seq(PartTypes) : p = Read(n)
  BY <1>1, PrefixOf DEF Read
<1>. PICK t \in Seq(PartTypes) : t = Rest(n)
  BY <1>1, SuffixOf DEF Rest
<1>2. Len(p) = n /\ \A i \in 1 .. n : p[i] = coming[i]
  BY <1>1, PrefixOf DEF Read
<1>3. Len(t) = C - n /\ \A i \in 1 .. C - n : t[i] = coming[n + i]
  BY <1>1, SuffixOf DEF Rest
<1>. PICK s \in Seq(PartTypes) : s = raw \o p
  BY <1>1, JoinOf
<1>4. /\ Len(s) = Len(raw) + Len(p) /\ \A i \in 1 .. Len(raw) : s[i] = raw[i]
      /\ \A i \in 1 .. Len(p) : s[Len(raw) + i] = p[i]
  BY <1>1, JoinOf
<1>5. /\ Len(s) = R + n /\ \A i \in 1 .. R : s[i] = raw[i]
      /\ \A i \in 1 .. n : s[R + i] = coming[i]
  BY <1>2, <1>4
<1>6. R + C = h + 1 + Z /\ h \in Nat /\ h < R
  BY DEF OwnResponse
<1>7. \A i \in h + 1 .. R : raw[i] = PartAt(current, i - h - 1)
  BY DEF OwnResponse
<1>8. \A i \in 1 .. C : coming[i] = PartAt(current, R + i - h - 1)
  BY DEF OwnResponse
<1>9. ASSUME NEW i \in h + 1 .. R + n PROVE s[i] = PartAt(current, i - h - 1)
  <2>1. CASE i <= R
    <3>1. i \in 1 .. R /\ i \in h + 1 .. R
      BY <1>6, <2>1
    <3>2. QED
      BY <1>5, <1>7, <3>1
  <2>2. CASE i > R
    <3>1. i - R \in 1 .. n
      BY <1>6, <2>2
    <3>. PICK k \in 1 .. n : k = i - R
      BY <3>1
    <3>2. R + k = i /\ k \in 1 .. C
      OBVIOUS
    <3>3. QED
      BY <1>5, <1>8, <3>2
  <2>3. i <= R \/ i > R
    BY <1>6
  <2>4. QED
    BY <2>1, <2>2, <2>3, Zenon
<1>10. ASSUME NEW i \in 1 .. C - n PROVE t[i] = PartAt(current, R + n + i - h - 1)
  <2>. PICK k \in 1 .. C : k = n + i
    OBVIOUS
  <2>1. t[i] = PartAt(current, R + k - h - 1) /\ R + k - h - 1 = R + n + i - h - 1
    BY <1>3, <1>8
  <2>2. QED
    BY <2>1
<1>11. HeadAfter(s, h)
  <2>1. /\ \A i \in 1 .. h : raw[i].part \in {"body", "piece"}
        /\ h < Len(raw) => raw[h + 1].part = "head"
    BY DEF OwnResponse, HeadAfter
  <2>2. \A i \in 1 .. h : i \in 1 .. R /\ s[i].part \in {"body", "piece"}
    BY <1>5, <1>6, <2>1
  <2>3. h + 1 \in 1 .. R /\ s[h + 1].part = "head"
    BY <1>5, <1>6, <2>1
  <2>4. ASSUME NEW i \in h + 2 .. R + n PROVE s[i].part \in {"body", "end"}
    <3>. PICK k \in Nat : k = i - h - 1 /\ k # 0
      BY <1>6
    <3>1. i \in h + 1 .. R + n
      BY <1>6
    <3>2. s[i] = PartAt(current, k)
      BY <1>9, <3>1
    <3>3. QED
      BY <3>2 DEF PartAt
  <2>5. QED
    BY <1>5, <2>2, <2>3, <2>4 DEF HeadAfter
<1>12. OwnParts(h, s, t)
  <2>1. h < R + n /\ R + n + (C - n) = h + 1 + Z
    BY <1>6
  <2>2. QED
    BY <1>3, <1>5, <1>9, <1>10, <1>11, <2>1 DEF OwnParts
<1>13. QED
  BY <1>3, <1>12

----------------------------------------------------------------------------
(* The end of a body                                                        *)

(* What is read and not parsed is of a body.                                *)
LEMMA LeftOver ==
  ASSUME SequencesTyped, BufferFits, op \in {"body", "closing", "chunks"},
         NEW n \in 0 .. Len(coming), \A i \in 1 .. n : coming[i].part = "body"
  PROVE  \E b \in Seq(PartTypes) :
           /\ b = buffer \o Read(n)
           /\ \A i \in DOMAIN b : b[i].part \in {"body", "piece"}
           /\ b # <<>> => n # 0
<1>1. buffer = <<>> /\ buffer \in Seq(PartTypes) /\ coming \in Seq(PartTypes)
  BY DEF BufferFits, SequencesTyped
<1>. PICK p \in Seq(PartTypes) : p = Read(n)
  BY <1>1, PrefixOf DEF Read
<1>2. Len(p) = n /\ \A i \in 1 .. n : p[i] = coming[i]
  BY <1>1, PrefixOf DEF Read
<1>3. buffer \o p = p
  BY <1>1, ConcatEmptySeq
<1>4. DOMAIN p = 1 .. n
  BY <1>2, LenProperties
<1>5. n = 0 => p = <<>>
  BY <1>2, EmptySeq
<1>6. QED
  BY <1>2, <1>3, <1>4, <1>5

\* When the request has come to its end, no part of a body is waited for.
LEMMA EndFits ==
  ASSUME RawFits', BufferFits', op' = "idle"
  PROVE  ReadingFits'
  BY DEF ReadingFits, KindFits, ClosingFits, OwnFits, LeftFits

\* Parse(s, u, reset)
ParsedOver(s, u) ==
  /\ ParseEnds(s) /\ buffer' \in {<<>>, u}
  /\ given' \in {given, given \cup {current}}
  /\ parser' \in [at : {"start", "body", "chunks", "stopped"}, left : 0 .. MaxLength,
                  last : BOOLEAN]

\* parse_chunks, with what it makes of s.
LEMMA ParseStep ==
  ASSUME RestTypes, NEW s \in Seq(PartTypes), NEW u, response' = response,
         (op # "chunks" /\ Parse(s, u, FALSE)) \/ (op = "chunks" /\ Parse(s, u, TRUE))
  PROVE  ParsedOver(s, u)
<1>1. Parsed(s) \in Tallies /\ Resting.at = "start"
  BY ParsedTyped DEF Resting
<1>. PICK p \in Tallies : p = Parsed(s)
  BY <1>1
<1>2. /\ p.at \in {"start", "body", "chunks", "stopped"} /\ p.left \in 0 .. MaxLength
      /\ p.last \in BOOLEAN /\ p.done \in Nat
  BY DEF Tallies
<1>3. Resting \in [at : {"start", "body", "chunks", "stopped"}, left : 0 .. MaxLength,
                   last : BOOLEAN]
  BY BoundsAssumption DEF Resting
<1>4. /\ op' = "idle"
      /\ \/ /\ p.done > 0 /\ answers' = [answers EXCEPT ![current] = @ + p.done]
            /\ answer' = [to |-> current, failed |-> FALSE, body |-> p.body]
            /\ given' = given /\ buffer' = <<>>
         \/ /\ p.done = 0 /\ given' = given \cup {current}
            /\ UNCHANGED <<answers, answer>> /\ buffer' = u
  BY <1>2 DEF Parse, Answer, GiveUp
<1>5. \/ parser' = Resting
      \/ op # "chunks" /\ parser' = [at |-> p.at, left |-> p.left, last |-> p.last]
  BY DEF Parse
<1>6. parser' \in [at : {"start", "body", "chunks", "stopped"}, left : 0 .. MaxLength,
                   last : BOOLEAN]
  BY <1>2, <1>3, <1>5
<1>7. parser' = Resting \/ (op # "chunks" /\ parser'.at = p.at)
  BY <1>5
<1>8. ParseEnds(s)
  BY <1>4, <1>7 DEF ParseEnds
<1>9. QED
  BY <1>4, <1>6, <1>8 DEF ParsedOver

(* A response of known length, or in chunks, of which s have been read and  *)
(* t are to come, is parsed.                                                *)
LEMMA OwnEnds ==
  ASSUME RestTypes, RestTypes', HistoryFits, KindFits, ParserFits, Within,
         op \in {"body", "chunks"}, NEW h \in Nat, h = 0 \/ Disturbed,
         NEW s \in Seq(PartTypes), NEW t \in Seq(PartTypes), OwnParts(h, s, t), ParseEnds(s),
         Len(t) = 0 \/ current \in cut'
  PROVE  HistoryFits' /\ ParserFits'
<1>1. CASE parser.at = "body"
  BY <1>1, ParseInBody
<1>2. CASE parser.at # "body"
  <2>1. /\ HeadAfter(s, h) /\ h < Len(s) /\ Len(s) + Len(t) = h + 1 + Size(current)
        /\ \A i \in h + 1 .. Len(s) : s[i] = PartAt(current, i - h - 1)
    BY DEF OwnParts
  <2>2. Len(s) \in Nat /\ Len(t) \in Nat /\ Size(current) \in Nat
    BY UnderWay, SizeFits, LenProperties
  <2>3. /\ h \in 0 .. Len(s) /\ Len(s) <= h + 1 + Size(current)
        /\ Len(t) = 0 => Len(s) = h + 1 + Size(current)
    BY <2>1, <2>2
  <2>4. IsOwn(s, h)
    BY <2>1, <2>3 DEF IsOwn
  <2>5. QED
    BY <1>2, <2>1, <2>3, <2>4, ParseOwn
<1>3. QED
  BY <1>1, <1>2

(* The connection ends, or fails, before the body does (read_body and       *)
(* read_next_chunk at the end of the stream).                               *)
LEMMA EndsEarly ==
  ASSUME ExchangeInv, op \in {"body", "chunks"}, NEW n \in 0 .. Len(coming),
         n < Len(coming) \/ Len(coming) = 0, Ended(n),
         NEW u, u = buffer \o Read(n),
         \/ op # "chunks" /\ Parse(raw, u, FALSE)
         \/ op = "chunks" /\ Parse(raw, u, TRUE)
         \/ FailRequest /\ parser' = parser /\ buffer' = u,
         UNCHANGED <<current, method, host, left, response, raw, verified, hops, dead>>
  PROVE  ExchangeInv'
<1>1. /\ RestTypes /\ SequencesTyped /\ HistoryFits /\ ReadingFits /\ ParserFits
      /\ KindFits /\ BufferFits /\ RawFits /\ raw \in Seq(PartTypes) /\ coming \in Seq(PartTypes)
  BY DEF ExchangeInv, ReadingFits, SequencesTyped
<1>2. current \in Requests /\ current' = current
  BY <1>1, UnderWay
<1>. PICK h \in 0 .. Len(raw) - 1 : OwnResponse(h)
  BY <1>1 DEF ReadingFits, OwnFits
<1>3. h \in Nat /\ h < Len(raw) /\ (h = 0 \/ Disturbed)
  BY <1>1, LenProperties DEF OwnResponse
<1>. PICK C \in Nat : C = Len(coming)
  BY <1>1, LenProperties
<1>4. response[current].kind # "chunked" \/ op = "chunks"
  BY <1>1 DEF KindFits
<1>5. ASSUME NEW i \in 1 .. n PROVE coming[i].part = "body"
  <2>1. i \in 1 .. C /\ i < C
    OBVIOUS
  <2>2. QED
    BY <1>1, <1>2, <2>1, ComingBodies
<1>. PICK b \in Seq(PartTypes) : /\ b = buffer \o Read(n)
                                 /\ \A i \in DOMAIN b : b[i].part \in {"body", "piece"}
                                 /\ b # <<>> => n # 0
  BY <1>1, <1>5, LeftOver
<1>6. live' = live \ {host} /\ coming' = <<>> /\ (C = 0 \/ cut' = cut \cup {current})
      /\ cut' \in {cut, cut \cup {current}}
  BY DEF Ended
<1>7. OwnParts(h, raw, coming)
  BY <1>3 DEF OwnResponse, OwnParts
<1>8. \/ ParsedOver(raw, b)
      \/ FailRequest /\ parser' = parser /\ buffer' = b
  <2>1. CASE op # "chunks" /\ Parse(raw, u, FALSE)
    BY <1>1, <2>1, ParseStep
  <2>2. CASE op = "chunks" /\ Parse(raw, u, TRUE)
    BY <1>1, <2>2, ParseStep
  <2>3. CASE FailRequest /\ parser' = parser /\ buffer' = u
    BY <2>3
  <2>4. QED
    BY <2>1, <2>2, <2>3
<1>9. /\ op' = "idle" /\ given' \in {given, given \cup {current}} /\ buffer' \in {<<>>, b}
      /\ parser' \in [at : {"start", "body", "chunks", "stopped"}, left : 0 .. MaxLength,
                      last : BOOLEAN]
  <2>1. CASE ParsedOver(raw, b)
    BY <2>1 DEF ParsedOver, ParseEnds
  <2>2. CASE FailRequest /\ parser' = parser /\ buffer' = b
    BY <1>1, <2>2 DEF FailRequest, Answer, RestTypes
  <2>3. QED
    BY <1>8, <2>1, <2>2
<1>10. Within
  BY <1>6, <1>9 DEF Within
<1>11. RestTypes'
  <2>1. live' \subseteq verified' /\ verified' \subseteq Hosts
    BY <1>1, <1>6 DEF RestTypes
  <2>2. given' \subseteq Requests /\ cut' \subseteq Requests
    BY <1>1, <1>2, <1>6, <1>9 DEF RestTypes
  <2>3. QED
    BY <1>1, <1>9, <2>1, <2>2 DEF RestTypes, hops
<1>12. SequencesTyped'
  BY <1>1, <1>6, <1>9, EmptySeq DEF SequencesTyped
<1>13. HistoryFits' /\ ParserFits'
  <2>1. CASE ParsedOver(raw, b)
    <3>1. ParseEnds(raw) /\ (Len(coming) = 0 \/ current \in cut')
      BY <1>6, <2>1 DEF ParsedOver
    <3>2. QED
      BY <1>1, <1>3, <1>7, <1>10, <1>11, <3>1, OwnEnds
  <2>2. CASE FailRequest /\ parser' = parser
    BY <1>1, <1>10, <1>11, <2>2, FailKeeps, ParserStays
  <2>3. QED
    BY <1>8, <2>1, <2>2
<1>14. RawFits'
  BY <1>1 DEF RawFits, HeadAfter
<1>15. BufferFits'
  <2>1. ASSUME b # <<>> PROVE Disturbed'
    <3>1. current \in cut'
      BY <1>6, <2>1
    <3>2. QED
      BY <1>2, <3>1, EndDisturbs
  <2>2. CASE buffer' = <<>>
    BY <2>2 DEF BufferFits
  <2>3. CASE buffer' = b
    BY <1>9, <2>1, <2>3 DEF BufferFits
  <2>4. QED
    BY <1>9, <2>2, <2>3
<1>16. QED
  BY <1>9, <1>11, <1>12, <1>13, <1>14, <1>15, EndFits DEF ExchangeInv

\* read_body, when all of it comes.
LEMMA BodyArrivesKeeps ==
  ASSUME ExchangeInv, BodyArrives
  PROVE  ExchangeInv'
<1>1. /\ RestTypes /\ SequencesTyped /\ HistoryFits /\ ReadingFits /\ ParserFits
      /\ KindFits /\ BufferFits /\ RawFits /\ raw \in Seq(PartTypes) /\ coming \in Seq(PartTypes)
      /\ op = "body" /\ left <= Len(coming)
      /\ UNCHANGED <<current, method, host, left, response, links, hops, cut, dead>>
  BY DEF ExchangeInv, ReadingFits, SequencesTyped, BodyArrives
<1>2. current \in Requests /\ current' = current
  BY <1>1, UnderWay
<1>. PICK h \in 0 .. Len(raw) - 1 : OwnResponse(h)
  BY <1>1 DEF ReadingFits, OwnFits
<1>3. h \in Nat /\ (h = 0 \/ Disturbed)
  BY <1>1, LenProperties DEF OwnResponse
<1>4. left \in Nat /\ left = Len(coming) /\ left \in 0 .. Len(coming)
  BY <1>1, LenProperties, BoundsAssumption DEF ReadingFits, LeftFits
<1>. PICK n \in 0 .. Len(coming) : n = left /\ n = Len(coming) /\ n \in Nat
  BY <1>4
<1>. PICK s \in Seq(PartTypes), t \in Seq(PartTypes) :
       /\ s = raw \o Read(n) /\ t = Rest(n)
       /\ OwnParts(h, s, t) /\ Len(t) = Len(coming) - n
  BY <1>1, <1>2, ReadMore
<1>5. raw' = s /\ coming' = t /\ Len(t) = 0
  BY DEF BodyArrives
<1>6. Parse(s, <<>>, FALSE)
  BY <1>5 DEF BodyArrives
<1>7. ParsedOver(s, <<>>)
  BY <1>1, <1>6, ParseStep
<1>8. /\ op' = "idle" /\ given' \in {given, given \cup {current}} /\ buffer' = <<>>
      /\ parser' \in [at : {"start", "body", "chunks", "stopped"}, left : 0 .. MaxLength,
                      last : BOOLEAN]
      /\ ParseEnds(s)
  BY <1>7 DEF ParsedOver, ParseEnds
<1>9. Within
  BY <1>1, <1>8 DEF Within
<1>10. RestTypes'
  <2>1. given' \subseteq Requests
    BY <1>1, <1>2, <1>8 DEF RestTypes
  <2>2. QED
    BY <1>1, <1>8, <2>1 DEF RestTypes, links, hops
<1>11. SequencesTyped'
  BY <1>5, <1>8, EmptySeq DEF SequencesTyped
<1>12. HistoryFits' /\ ParserFits'
  BY <1>1, <1>3, <1>5, <1>8, <1>9, <1>10, OwnEnds
<1>13. RawFits'
  <2>1. h < Len(s) /\ HeadAfter(s, h) /\ Len(s) \in Nat
    BY LenProperties DEF OwnParts
  <2>2. h \in 0 .. Len(s)
    BY <1>3, <2>1
  <2>3. QED
    BY <1>5, <2>1, <2>2 DEF RawFits, HeadAfter
<1>14. BufferFits'
  BY <1>8 DEF BufferFits
<1>15. QED
  BY <1>8, <1>10, <1>11, <1>12, <1>13, <1>14, EndFits DEF ExchangeInv

\* read_body, at the end of the stream.
LEMMA BodyEndsKeeps ==
  ASSUME ExchangeInv, BodyEnds
  PROVE  ExchangeInv'
<1>1. /\ op = "body"
      /\ UNCHANGED <<current, method, host, left, response, raw, verified, hops, dead>>
  BY DEF BodyEnds
<1>2. PICK n \in 0 .. Len(coming) :
        /\ n < left
        /\ Ended(n)
        /\ \/ Parse(raw, buffer \o Read(n), FALSE)
           \/ FailRequest /\ UNCHANGED parser /\ buffer' = buffer \o Read(n)
  BY DEF BodyEnds
<1>3. n < Len(coming) \/ Len(coming) = 0
  BY <1>1, <1>2 DEF ExchangeInv, ReadingFits, LeftFits
<1>. PICK u : u = buffer \o Read(n)
  OBVIOUS
<1>4. \/ op # "chunks" /\ Parse(raw, u, FALSE)
      \/ FailRequest /\ parser' = parser /\ buffer' = u
  BY <1>1, <1>2
<1>5. QED
  BY <1>1, <1>2, <1>3, <1>4, EndsEarly

\* read_next_chunk, at the end of the stream.
LEMMA ChunksEndKeeps ==
  ASSUME ExchangeInv, ChunksEnd
  PROVE  ExchangeInv'
<1>1. /\ op = "chunks"
      /\ UNCHANGED <<current, method, host, left, response, raw, verified, hops, dead>>
  BY DEF ChunksEnd
<1>2. PICK n \in 0 .. Len(coming) :
        /\ n < Len(coming) \/ coming = <<>>
        /\ Ended(n)
        /\ \/ Parse(raw, buffer \o Read(n), TRUE)
           \/ FailRequest /\ UNCHANGED parser /\ buffer' = buffer \o Read(n)
  BY DEF ChunksEnd
<1>3. n < Len(coming) \/ Len(coming) = 0
  BY <1>2
<1>. PICK u : u = buffer \o Read(n)
  OBVIOUS
<1>4. \/ op = "chunks" /\ Parse(raw, u, TRUE)
      \/ FailRequest /\ parser' = parser /\ buffer' = u
  BY <1>1, <1>2
<1>5. QED
  BY <1>1, <1>2, <1>3, <1>4, EndsEarly

\* A piece of a part behind parts of a body.
LEMMA PieceBehind ==
  ASSUME NEW b \in Seq(PartTypes), \A i \in DOMAIN b : b[i].part \in {"body", "piece"},
         NEW p \in PartTypes, p.part = "piece"
  PROVE  \E s \in Seq(PartTypes) :
           s = b \o <<p>> /\ \A i \in DOMAIN s : s[i].part \in {"body", "piece"}
<1>. PICK m \in Nat : m = Len(b)
  BY LenProperties
<1>. PICK none \in Seq(PartTypes) : none = <<>> /\ Len(none) = 0
  BY EmptySeq
<1>. PICK s \in Seq(PartTypes) : s = b \o <<p>> \o none /\ Joined(b, p, none, s)
  BY JoinThree
<1>1. Len(s) = m + 1 /\ s[m + 1] = p /\ \A i \in 1 .. m : s[i] = b[i]
  BY DEF Joined
<1>2. s = b \o <<p>>
  <2>1. b \o <<p>> \in Seq(PartTypes)
    BY ConcatProperties
  <2>2. QED
    BY <2>1, ConcatEmptySeq
<1>3. DOMAIN s = 1 .. m + 1 /\ DOMAIN b = 1 .. m
  BY <1>1, LenProperties
<1>4. ASSUME NEW i \in 1 .. m + 1 PROVE s[i].part \in {"body", "piece"}
  <2>1. CASE i = m + 1
    BY <1>1, <2>1
  <2>2. CASE i # m + 1
    <3>1. i \in 1 .. m
      BY <2>2
    <3>2. QED
      BY <1>1, <1>3, <3>1
  <2>3. QED
    BY <2>1, <2>2
<1>5. QED
  BY <1>2, <1>3, <1>4

\* read_next_chunk, when the buffer is full without the end of one.
LEMMA ChunksOverflowKeeps ==
  ASSUME ExchangeInv, ChunksOverflow
  PROVE  ExchangeInv'
<1>1. /\ RestTypes /\ SequencesTyped /\ HistoryFits /\ ReadingFits /\ ParserFits
      /\ KindFits /\ BufferFits /\ RawFits /\ raw \in Seq(PartTypes) /\ coming \in Seq(PartTypes)
      /\ op = "chunks" /\ FailRequest /\ coming' = <<>> /\ cut' = cut \cup {current}
      /\ UNCHANGED <<current, method, host, left, response, raw, parser>>
      /\ UNCHANGED <<verified, live, retried, redirected, dead>>
  BY DEF ExchangeInv, ReadingFits, SequencesTyped, ChunksOverflow, links, hops
<1>2. current \in Requests /\ current' = current
  BY <1>1, UnderWay
<1>. PICK h \in 0 .. Len(raw) - 1 : OwnResponse(h)
  BY <1>1 DEF ReadingFits, OwnFits
<1>. PICK C \in Nat : C = Len(coming)
  BY <1>1, LenProperties
<1>. PICK n \in 0 .. C - 1 : buffer' = buffer \o Read(n) \o <<Part("piece")>>
  BY DEF ChunksOverflow
<1>3. ASSUME NEW i \in 1 .. n PROVE coming[i].part = "body"
  <2>1. i \in 1 .. C /\ i < C
    OBVIOUS
  <2>2. QED
    BY <1>1, <1>2, <2>1, ComingBodies
<1>. PICK b \in Seq(PartTypes) : /\ b = buffer \o Read(n)
                                 /\ \A i \in DOMAIN b : b[i].part \in {"body", "piece"}
  <2>1. n \in 0 .. Len(coming)
    OBVIOUS
  <2>2. QED
    BY <1>1, <1>3, <2>1, LeftOver
<1>. PICK p \in PartTypes : p = Part("piece") /\ p.part = "piece"
  BY <1>2 DEF Part, PartTypes
<1>. PICK s \in Seq(PartTypes) :
       s = b \o <<p>> /\ \A i \in DOMAIN s : s[i].part \in {"body", "piece"}
  BY PieceBehind
<1>4. buffer' = s
  OBVIOUS
<1>5. op' = "idle" /\ given' = given
  BY <1>1 DEF FailRequest, Answer
<1>6. Within
  BY <1>1, <1>5 DEF Within
<1>7. RestTypes'
  <2>1. cut' \subseteq Requests
    BY <1>1, <1>2 DEF RestTypes
  <2>2. QED
    BY <1>1, <1>5, <2>1 DEF RestTypes
<1>8. SequencesTyped'
  BY <1>1, <1>4, EmptySeq DEF SequencesTyped
<1>9. HistoryFits' /\ ParserFits'
  BY <1>1, <1>6, <1>7, FailKeeps, ParserStays
<1>10. RawFits'
  BY <1>1 DEF RawFits, HeadAfter
<1>11. BufferFits'
  <2>1. Disturbed'
    BY <1>1, <1>2, EndDisturbs
  <2>2. QED
    BY <1>4, <1>5, <2>1 DEF BufferFits
<1>12. QED
  BY <1>5, <1>7, <1>8, <1>9, <1>10, <1>11, EndFits DEF ExchangeInv

\* read_next_chunk, when one comes.
LEMMA ChunksReadKeeps ==
  ASSUME ExchangeInv, ChunksRead
  PROVE  ExchangeInv'
<1>1. /\ RestTypes /\ SequencesTyped /\ HistoryFits /\ ReadingFits /\ ParserFits
      /\ KindFits /\ BufferFits /\ raw \in Seq(PartTypes) /\ coming \in Seq(PartTypes)
      /\ buffer \in Seq(PartTypes) /\ op = "chunks"
      /\ UNCHANGED <<current, method, host, op, left, response, buffer, parser, links, hops,
                     remains, history, dead>>
  BY DEF ExchangeInv, ReadingFits, SequencesTyped, ChunksRead
<1>2. current \in Requests /\ current' = current /\ host \in Hosts
  BY <1>1, UnderWay
<1>. PICK h \in 0 .. Len(raw) - 1 : OwnResponse(h)
  BY <1>1 DEF ReadingFits, OwnFits
<1>3. h \in Nat /\ (h = 0 \/ Disturbed)
  BY <1>1, LenProperties DEF OwnResponse
<1>. PICK n \in 1 .. Len(coming) : raw' = raw \o Read(n) /\ coming' = Rest(n)
  BY DEF ChunksRead
<1>4. n \in 0 .. Len(coming)
  OBVIOUS
<1>. PICK s \in Seq(PartTypes), t \in Seq(PartTypes) :
       s = raw \o Read(n) /\ t = Rest(n) /\ OwnParts(h, s, t)
  BY <1>1, <1>2, <1>4, ReadMore
<1>5. raw' = s /\ coming' = t
  OBVIOUS
<1>6. Within
  BY <1>1 DEF Within, history
<1>7. RestTypes'
  BY <1>1 DEF RestTypes, links, hops, history
<1>8. SequencesTyped'
  BY <1>1, <1>5 DEF SequencesTyped
<1>9. HistoryFits'
  <2>1. op' # "idle" /\ host' \in Hosts /\ UNCHANGED <<answers, answer, given>>
    BY <1>1, <1>2 DEF history
  <2>2. QED
    BY <1>1, <1>6, <1>7, <2>1, WaitKeeps
<1>10. RawFits' /\ OwnFits'
  <2>. PICK c \in Requests : c = current
    BY <1>2
  <2>1. /\ HeadAfter(s, h) /\ h < Len(s) /\ Len(s) + Len(t) = h + 1 + Size(c)
        /\ \A i \in h + 1 .. Len(s) : s[i] = PartAt(c, i - h - 1)
        /\ \A i \in 1 .. Len(t) : t[i] = PartAt(c, Len(s) + i - h - 1)
        /\ Len(s) \in Nat
    BY LenProperties DEF OwnParts
  <2>2. \A k : PartAt(c, k)' = PartAt(c, k)
    BY <1>1 DEF PartAt, Bodies, Headless, remains
  <2>3. Size(c)' = Size(c)
    BY <1>1 DEF Size, Bodies, Headless, remains
  <2>4. h = 0 \/ Disturbed'
    BY <1>1, <1>3, <1>6, <1>7, DisturbedStays
  <2>5. h \in 0 .. Len(s)
    BY <1>3, <2>1
  <2>6. current' = c
    BY <1>2
  <2>7. \A i \in h + 1 .. Len(s) : s[i] = PartAt(c, i - h - 1)'
    BY <2>1, <2>2
  <2>8. \A i \in 1 .. Len(t) : t[i] = PartAt(c, Len(s) + i - h - 1)'
    BY <2>1, <2>2
  <2>9. Len(s) + Len(t) = h + 1 + Size(c)'
    BY <2>1, <2>3
  <2>10. QED
    BY <1>5, <2>1, <2>4, <2>5, <2>6, <2>7, <2>8, <2>9, OwnNext
<1>11. KindFits' /\ ClosingFits' /\ LeftFits'
  BY <1>1 DEF KindFits, ClosingFits, LeftFits
<1>12. BufferFits'
  BY <1>1 DEF BufferFits
<1>13. ParserFits'
  BY <1>1, <1>6, <1>7, ParserStays
<1>14. QED
  BY <1>7, <1>8, <1>9, <1>10, <1>11, <1>12, <1>13 DEF ExchangeInv, ReadingFits

(* What is read up to the end of the connection stands behind what raw has. *)
LEMMA ReadBehind ==
  ASSUME SequencesTyped, RawFits, op = "closing", ClosingFits, NEW n \in 0 .. Len(coming)
  PROVE  \E s \in Seq(PartTypes), t \in Seq(PartTypes) :
           /\ s = raw \o Read(n) /\ t = Rest(n)
           /\ \A i \in DOMAIN t : t[i].part = "body"
           /\ \E h \in 0 .. Len(s) : HeadAfter(s, h)
<1>1. raw \in Seq(PartTypes) /\ coming \in Seq(PartTypes)
  BY DEF SequencesTyped
<1>. PICK R \in Nat, C \in Nat : R = Len(raw) /\ C = Len(coming)
  BY <1>1, LenProperties
<1>. PICK h \in 0 .. R : HeadAfter(raw, h)
  BY DEF RawFits
<1>. PICK p \in Seq(PartTypes) : p = Read(n)
  BY <1>1, PrefixOf DEF Read
<1>. PICK t \in Seq(PartTypes) : t = Rest(n)
  BY <1>1, SuffixOf DEF Rest
<1>2. Len(p) = n /\ \A i \in 1 .. n : p[i] = coming[i]
  BY <1>1, PrefixOf DEF Read
<1>3. Len(t) = C - n /\ \A i \in 1 .. C - n : t[i] = coming[n + i]
  BY <1>1, SuffixOf DEF Rest
<1>. PICK s \in Seq(PartTypes) : s = raw \o p
  BY <1>1, JoinOf
<1>4. /\ Len(s) = Len(raw) + Len(p) /\ \A i \in 1 .. Len(raw) : s[i] = raw[i]
      /\ \A i \in 1 .. Len(p) : s[Len(raw) + i] = p[i]
  BY <1>1, JoinOf
<1>5. /\ Len(s) = R + n /\ \A i \in 1 .. R : s[i] = raw[i]
      /\ \A i \in 1 .. n : s[R + i] = coming[i]
  BY <1>2, <1>4
<1>6. \A i \in 1 .. C : coming[i].part = "body"
  BY <1>1, LenProperties DEF ClosingFits
<1>7. \A i \in DOMAIN t : t[i].part = "body"
  <2>1. DOMAIN t = 1 .. C - n
    BY <1>3, LenProperties
  <2>2. ASSUME NEW i \in 1 .. C - n PROVE t[i].part = "body"
    <3>1. n + i \in 1 .. C
      OBVIOUS
    <3>. PICK k \in 1 .. C : k = n + i
      BY <3>1
    <3>2. t[i] = coming[k]
      BY <1>3
    <3>3. QED
      BY <1>6, <3>2
  <2>3. QED
    BY <2>1, <2>2
<1>8. ASSUME NEW i \in R + 1 .. R + n PROVE s[i].part = "body"
  <2>1. i - R \in 1 .. n
    OBVIOUS
  <2>. PICK k \in 1 .. n : k = i - R
    BY <2>1
  <2>2. R + k = i /\ k \in 1 .. C
    OBVIOUS
  <2>3. QED
    BY <1>5, <1>6, <2>2
<1>9. \A i \in 1 .. h : raw[i].part \in {"body", "piece"}
  BY DEF HeadAfter
<1>10. CASE h < R
  <2>1. raw[h + 1].part = "head" /\ \A i \in h + 2 .. R : raw[i].part \in {"body", "end"}
    BY <1>10 DEF HeadAfter
  <2>2. \A i \in 1 .. h : s[i].part \in {"body", "piece"}
    BY <1>5, <1>9
  <2>3. s[h + 1].part = "head"
    BY <1>5, <1>10, <2>1
  <2>4. ASSUME NEW i \in h + 2 .. R + n PROVE s[i].part \in {"body", "end"}
    <3>1. CASE i <= R
      <4>1. i \in 1 .. R /\ i \in h + 2 .. R
        BY <3>1
      <4>2. QED
        BY <1>5, <2>1, <4>1
    <3>2. CASE i > R
      <4>1. i \in R + 1 .. R + n
        BY <3>2
      <4>2. QED
        BY <1>8, <4>1
    <3>3. i <= R \/ i > R
      OBVIOUS
    <3>4. QED
      BY <3>1, <3>2, <3>3, Zenon
  <2>5. HeadAfter(s, h)
    BY <1>5, <2>2, <2>3, <2>4 DEF HeadAfter
  <2>6. h \in 0 .. Len(s)
    BY <1>5
  <2>7. QED
    BY <1>7, <2>5, <2>6
<1>11. CASE h = R
  <2>1. ASSUME NEW i \in 1 .. R + n PROVE s[i].part \in {"body", "piece"}
    <3>1. CASE i <= R
      <4>1. i \in 1 .. R /\ i \in 1 .. h
        BY <1>11, <3>1
      <4>2. QED
        BY <1>5, <1>9, <4>1
    <3>2. CASE i > R
      <4>1. i \in R + 1 .. R + n
        BY <3>2
      <4>2. QED
        BY <1>8, <4>1
    <3>3. i <= R \/ i > R
      OBVIOUS
    <3>4. QED
      BY <3>1, <3>2, <3>3, Zenon
  <2>. PICK g \in Nat : g = R + n
    OBVIOUS
  <2>2. HeadAfter(s, g)
    <3>1. ~(g < Len(s)) /\ \A i \in g + 2 .. Len(s) : FALSE
      BY <1>5
    <3>2. QED
      BY <2>1, <3>1 DEF HeadAfter
  <2>3. g \in 0 .. Len(s)
    BY <1>5
  <2>4. QED
    BY <1>7, <2>2, <2>3
<1>12. h < R \/ h = R
  OBVIOUS
<1>13. QED
  BY <1>10, <1>11, <1>12

\* read()
LEMMA CloseKeeps ==
  ASSUME ExchangeInv, Close
  PROVE  ExchangeInv'
<1>1. /\ RestTypes /\ SequencesTyped /\ HistoryFits /\ ReadingFits /\ ParserFits
      /\ KindFits /\ BufferFits /\ RawFits /\ ClosingFits
      /\ raw \in Seq(PartTypes) /\ coming \in Seq(PartTypes) /\ buffer \in Seq(PartTypes)
      /\ op = "closing" /\ response[current].kind = "closed"
      /\ UNCHANGED <<current, method, host, left, response, verified, hops>>
  BY DEF ExchangeInv, ReadingFits, SequencesTyped, KindFits, Close
<1>2. current \in Requests /\ current' = current /\ host \in Hosts
  BY <1>1, UnderWay
<1>3. CASE \E n \in 1 .. Len(coming) :
             /\ raw' = raw \o Read(n)
             /\ coming' = Rest(n)
             /\ Wait("closing")
             /\ UNCHANGED <<buffer, parser, live, cut>>
             /\ UNCHANGED dead
  <2>. PICK n \in 1 .. Len(coming) :
             /\ raw' = raw \o Read(n)
             /\ coming' = Rest(n)
             /\ op' = "closing" /\ UNCHANGED <<answers, answer, given>>
             /\ UNCHANGED <<buffer, parser, live, cut, dead>>
    BY <1>3 DEF Wait
  <2>1. n \in 0 .. Len(coming)
    OBVIOUS
  <2>. PICK s \in Seq(PartTypes), t \in Seq(PartTypes) :
           /\ s = raw \o Read(n) /\ t = Rest(n)
           /\ \A i \in DOMAIN t : t[i].part = "body"
           /\ \E h \in 0 .. Len(s) : HeadAfter(s, h)
    BY <1>1, <2>1, ReadBehind
  <2>2. raw' = s /\ coming' = t
    OBVIOUS
  <2>3. Within
    BY <1>1 DEF Within
  <2>4. RestTypes'
    BY <1>1 DEF RestTypes, hops
  <2>5. SequencesTyped'
    BY <1>1, <2>2 DEF SequencesTyped
  <2>6. HistoryFits'
    BY <1>1, <1>2, <2>3, <2>4, WaitKeeps
  <2>7. RawFits'
    BY <2>2 DEF RawFits, HeadAfter
  <2>8. ClosingFits'
    BY <2>2 DEF ClosingFits
  <2>9. KindFits' /\ BufferFits' /\ OwnFits' /\ LeftFits'
    BY <1>1 DEF KindFits, BufferFits, OwnFits, LeftFits
  <2>10. ParserFits'
    BY <1>1, <2>3, <2>4, ParserStays
  <2>11. QED
    BY <2>4, <2>5, <2>6, <2>7, <2>8, <2>9, <2>10 DEF ExchangeInv, ReadingFits
<1>4. CASE \E n \in 0 .. Len(coming) :
             /\ Ended(n)
             /\ \/ Parse(raw, <<>>, FALSE)
                \/ FailRequest /\ buffer' = buffer \o Read(n) /\ UNCHANGED parser
             /\ UNCHANGED raw
             /\ UNCHANGED dead
  <2>. PICK n \in 0 .. Len(coming) :
             /\ Ended(n)
             /\ \/ Parse(raw, <<>>, FALSE)
                \/ FailRequest /\ buffer' = buffer \o Read(n) /\ UNCHANGED parser
             /\ UNCHANGED raw
             /\ UNCHANGED dead
    BY <1>4
  <2>1. \A i \in 1 .. n : coming[i].part = "body"
    BY <1>1, LenProperties DEF ClosingFits
  <2>. PICK b \in Seq(PartTypes) : /\ b = buffer \o Read(n)
                                   /\ \A i \in DOMAIN b : b[i].part \in {"body", "piece"}
                                   /\ b # <<>> => n # 0
    BY <1>1, <2>1, LeftOver
  <2>2. live' = live \ {host} /\ coming' = <<>> /\ cut' \in {cut, cut \cup {current}}
    BY DEF Ended
  <2>3. \/ ParsedOver(raw, <<>>)
        \/ FailRequest /\ parser' = parser /\ buffer' = b
    <3>1. CASE Parse(raw, <<>>, FALSE)
      BY <1>1, <3>1, ParseStep
    <3>2. QED
      BY <3>1
  <2>4. /\ op' = "idle" /\ given' \in {given, given \cup {current}} /\ buffer' \in {<<>>, b}
        /\ parser' \in [at : {"start", "body", "chunks", "stopped"}, left : 0 .. MaxLength,
                        last : BOOLEAN]
    <3>1. CASE ParsedOver(raw, <<>>)
      BY <3>1 DEF ParsedOver, ParseEnds
    <3>2. CASE FailRequest /\ parser' = parser /\ buffer' = b
      BY <1>1, <3>2 DEF FailRequest, Answer, RestTypes
    <3>3. QED
      BY <2>3, <3>1, <3>2
  <2>5. Within
    BY <1>1, <2>2, <2>4 DEF Within
  <2>6. RestTypes'
    <3>1. live' \subseteq verified' /\ verified' \subseteq Hosts
      BY <1>1, <2>2 DEF RestTypes
    <3>2. given' \subseteq Requests /\ cut' \subseteq Requests
      BY <1>1, <1>2, <2>2, <2>4 DEF RestTypes
    <3>3. QED
      BY <1>1, <2>4, <3>1, <3>2 DEF RestTypes, hops
  <2>7. SequencesTyped'
    BY <1>1, <2>2, <2>4, EmptySeq DEF SequencesTyped
  <2>8. HistoryFits' /\ ParserFits'
    <3>1. CASE ParsedOver(raw, <<>>)
      <4>1. ParseEnds(raw)
        BY <3>1 DEF ParsedOver
      <4>2. CASE parser.at = "body"
        BY <1>1, <2>5, <2>6, <4>1, <4>2, ParseInBody
      <4>3. CASE parser.at # "body"
        <5>. PICK h \in 0 .. Len(raw) : HeadAfter(raw, h)
          BY <1>1 DEF RawFits
        <5>1. QED
          BY <1>1, <2>5, <2>6, <4>1, <4>3, ParseClosing
      <4>4. QED
        BY <4>2, <4>3
    <3>2. CASE FailRequest /\ parser' = parser
      BY <1>1, <2>5, <2>6, <3>2, FailKeeps, ParserStays
    <3>3. QED
      BY <2>3, <3>1, <3>2
  <2>9. RawFits'
    BY <1>1 DEF RawFits, HeadAfter
  <2>10. BufferFits'
    <3>1. Disturbs(current)'
      BY <1>1, <1>2 DEF Disturbs
    <3>2. Disturbed'
      BY <1>2, <2>4, <3>1, EndDisturbs
    <3>3. CASE buffer' = <<>>
      BY <3>3 DEF BufferFits
    <3>4. CASE buffer' = b
      BY <2>4, <3>2, <3>4 DEF BufferFits
    <3>5. QED
      BY <2>4, <3>3, <3>4
  <2>11. QED
    BY <2>4, <2>6, <2>7, <2>8, <2>9, <2>10, EndFits DEF ExchangeInv
<1>5. CASE /\ dead' \in BOOLEAN
           /\ GiveUp
           /\ UNCHANGED <<coming, raw, buffer, parser, live, cut>>
  <2>1. op' = "idle" /\ given' = given \cup {current} /\ UNCHANGED <<answers, answer>>
    BY <1>5 DEF GiveUp
  <2>2. Within
    BY <1>1, <1>5, <2>1 DEF Within
  <2>3. RestTypes'
    BY <1>1, <1>2, <1>5, <2>1 DEF RestTypes, hops
  <2>4. SequencesTyped'
    BY <1>1, <1>5 DEF SequencesTyped
  <2>5. HistoryFits'
    BY <1>1, <1>2, <2>1, <2>2, <2>3, GiveUpKeeps
  <2>6. RawFits'
    BY <1>1, <1>5 DEF RawFits, HeadAfter
  <2>7. BufferFits'
    BY <1>1, <1>5, <2>1, <2>2, <2>3, BufferStays
  <2>8. ParserFits'
    BY <1>1, <1>5, <2>2, <2>3, ParserStays
  <2>9. QED
    BY <2>1, <2>3, <2>4, <2>5, <2>6, <2>7, <2>8, EndFits DEF ExchangeInv
<1>6. QED
  BY <1>3, <1>4, <1>5 DEF Close, ReadToEnd

----------------------------------------------------------------------------

\* Before the first request.
LEMMA ExchangeBegins ==
  ASSUME ExchangeInit
  PROVE  ExchangeInv
<1>1. MaxLength \in Nat /\ MaxRequests \in Nat /\ MaxHops \in Nat
  BY BoundsAssumption
<1>2. RestTypes
  <2>1. /\ current = 0 /\ 0 \in 0 .. MaxRequests /\ 0 \in 0 .. MaxLength /\ 0 \in 0 .. MaxHops
        /\ retried = 0 /\ redirected = 0
    BY <1>1 DEF ExchangeInit
  <2>2. parser \in [at : {"start", "body", "chunks", "stopped"}, left : 0 .. MaxLength,
                    last : BOOLEAN]
    BY <2>1 DEF ExchangeInit, Resting
  <2>3. /\ method \in [Requests -> {"none", "get", "head"}]
        /\ response \in [Requests -> Responses \cup {[kind |-> "none", length |-> 0]}]
    BY DEF ExchangeInit
  <2>4. QED
    BY <2>1, <2>2, <2>3 DEF ExchangeInit, RestTypes
<1>3. SequencesTyped
  BY EmptySeq DEF ExchangeInit, SequencesTyped
<1>4. HistoryFits
  <2>1. AnswersTyped
    BY EmptySeq DEF ExchangeInit, AnswersTyped
  <2>2. WorkingFits /\ FutureFits /\ AnswerFits
    BY DEF ExchangeInit, WorkingFits, FutureFits, AnswerFits
  <2>3. RequestAnsweredOnce
    BY DEF ExchangeInit, RequestAnsweredOnce
  <2>4. QED
    BY <2>1, <2>2, <2>3 DEF HistoryFits
<1>5. ReadingFits
  BY DEF ExchangeInit, ReadingFits, KindFits, BufferFits, RawFits, HeadAfter, ClosingFits,
         OwnFits, LeftFits
<1>6. ParserFits
  BY DEF ExchangeInit, ParserFits, Resting
<1>7. QED
  BY <1>2, <1>3, <1>4, <1>5, <1>6 DEF ExchangeInv

\* A step of others.
LEMMA ExchangeStays ==
  ASSUME ExchangeInv, UNCHANGED exchangevars
  PROVE  ExchangeInv'
<1>1. /\ UNCHANGED <<current, method, host, left, response, coming, raw, buffer, op, parser>>
      /\ UNCHANGED <<verified, live, retried, redirected, answers, answer, given, cut, dead>>
      /\ UNCHANGED <<behind, full, leftover, misled>>
  BY DEF exchangevars, session, links, remains, hops, history
<1>2. RestTypes' /\ SequencesTyped'
  BY <1>1 DEF ExchangeInv, RestTypes, SequencesTyped
<1>3. \A c : LeavesParserInBody(c)' <=> LeavesParserInBody(c)
  BY <1>1 DEF LeavesParserInBody
<1>4. \A c : Disturbs(c)' <=> Disturbs(c)
  BY <1>1, <1>3 DEF Disturbs
<1>5. \A c : Past(c)' <=> Past(c)
  BY <1>1 DEF Past
<1>6. Disturbed' <=> Disturbed
  BY <1>1, <1>4, <1>5 DEF Disturbed
<1>7. HistoryFits'
  <2>1. AnswersTyped' /\ WorkingFits' /\ FutureFits'
    BY <1>1 DEF ExchangeInv, HistoryFits, AnswersTyped, WorkingFits, FutureFits
  <2>2. AnswerFits'
    BY <1>1, <1>3 DEF ExchangeInv, HistoryFits, AnswerFits
  <2>3. RequestAnsweredOnce'
    BY <1>1, <1>3, <1>4 DEF ExchangeInv, HistoryFits, RequestAnsweredOnce
  <2>4. QED
    BY <2>1, <2>2, <2>3 DEF HistoryFits
<1>8. ReadingFits'
  <2>1. KindFits' /\ BufferFits' /\ ClosingFits' /\ LeftFits'
    BY <1>1, <1>6 DEF ExchangeInv, ReadingFits, KindFits, BufferFits, ClosingFits, LeftFits
  <2>2. RawFits'
    BY <1>1 DEF ExchangeInv, ReadingFits, RawFits, HeadAfter
  <2>3. \A c, k : PartAt(c, k)' = PartAt(c, k) /\ Size(c)' = Size(c)
    BY <1>1 DEF PartAt, Size, Bodies, Headless
  <2>4. \A h : OwnResponse(h)' <=> OwnResponse(h)
    BY <1>1, <1>6, <2>3 DEF OwnResponse, HeadAfter
  <2>5. OwnFits'
    BY <1>1, <2>4 DEF ExchangeInv, ReadingFits, OwnFits
  <2>6. QED
    BY <2>1, <2>2, <2>5 DEF ReadingFits
<1>9. ParserFits'
  BY <1>1, <1>3, <1>6 DEF ExchangeInv, ParserFits
<1>10. QED
  BY <1>2, <1>7, <1>8, <1>9 DEF ExchangeInv

----------------------------------------------------------------------------
(* What is left in connections                                              *)

\* A step after which no more is left than before.
LEMMA RemainsStay ==
  ASSUME RestTypes, RestTypes', RemainsFit, HeadFits', current' \in {current, current + 1},
         UNCHANGED <<leftover, misled>>, full' \in BOOLEAN,
         \/ behind' = behind /\ verified \subseteq verified'
         \/ behind' = behind \ {host} /\ verified \ {host} \subseteq verified'
  PROVE  RemainsFit'
<1>1. current \in Nat /\ 1 .. current \subseteq 1 .. current'
  BY BoundsAssumption DEF RestTypes
<1>2. behind' \subseteq verified' /\ behind' \subseteq behind
  BY DEF RemainsFit
<1>3. QED
  BY <1>1, <1>2 DEF RemainsFit

\* A step after which more may be left, of the request that is under way.
LEMMA RemainsGrow ==
  ASSUME RestTypes, RemainsFit, HeadFits', current' = current, current \in Requests,
         verified' = verified, full' \in BOOLEAN,
         \/ Leaves /\ host \in verified
         \/ behind' \in {behind, behind \ {host}} /\ leftover' = leftover,
         \/ misled' = misled
         \/ host \in behind /\ misled' = misled \cup {current}
  PROVE  RemainsFit'
<1>1. current \in Nat /\ current \in 1 .. current
  BY BoundsAssumption DEF RestTypes, Requests
<1>2. /\ behind' \subseteq verified' /\ leftover \subseteq leftover'
      /\ leftover' \subseteq 1 .. current' /\ misled' \subseteq 1 .. current'
  BY <1>1 DEF Leaves, RemainsFit
<1>3. behind' # {} => leftover' # {}
  BY DEF Leaves, RemainsFit
<1>4. \A c \in misled' : \E d \in 1 .. c : d \in leftover'
  <2>1. \A c \in misled : \E d \in 1 .. c : d \in leftover'
    BY <1>2 DEF RemainsFit
  <2>2. ASSUME host \in behind PROVE \E d \in 1 .. current : d \in leftover'
    <3>1. \E d \in 1 .. current : d \in leftover
      BY <2>2 DEF RemainsFit
    <3>2. QED
      BY <1>2, <3>1
  <2>3. QED
    BY <2>1, <2>2
<1>5. QED
  BY <1>2, <1>3, <1>4 DEF RemainsFit

\* While the request goes on, and reads no header over what others have left.
LEMMA HeadStays ==
  ASSUME RemainsFit, current' = current, method' = method, misled' = misled,
         \/ op' \in {"idle", "body", "closing"}
         \/ op' = "chunks" /\ op = "chunks" /\ host' = host /\ verified' = verified
         \/ op' \in {"connect", "write", "header"} /\ op \in {"connect", "write", "header", "delay"}
  PROVE  HeadFits'
<1>1. HeadFits
  BY DEF RemainsFit
<1>2. QED
  BY <1>1 DEF HeadFits

\* read_response_header, and what a header that is understood leads to.
LEMMA HeaderReadRemains ==
  ASSUME ExchangeInv, RemainsFit, HeaderRead
  PROVE  RemainsFit'
<1>1. /\ RestTypes /\ op = "header" /\ HistoryFits
      /\ UNCHANGED <<current, method, host, verified, live, full>>
      /\ misled' = IF host \in behind THEN misled \cup {current} ELSE misled
      /\ host \in live \cup behind
  BY DEF ExchangeInv, HeaderRead, links, Readable
<1>2. current \in Requests /\ host \in verified
  BY <1>1, UnderWay DEF RestTypes, RemainsFit
<1>3. Leaves \/ HeaderLeaves
  BY DEF HeaderRead
<1>4. Leaves \/ (behind' \in {behind, behind \ {host}} /\ leftover' = leftover)
  BY <1>3 DEF HeaderLeaves
<1>5. HeadFits'
  <2>1. CASE FailRequest \/ GiveUp
    BY <2>1 DEF FailRequest, Answer, GiveUp, HeadFits
  <2>2. CASE \E r \in Responses : \E parts : Taken(r, parts)
    <3>1. PICK r \in Responses : \E parts : Taken(r, parts)
      BY <2>2
    <3>2. PICK parts : Taken(r, parts)
      BY <3>1
    <3>3. /\ op' \in {"body", "closing", "chunks", "idle", "delay"}
          /\ op' = "delay" => method[current] = "get"
      BY <3>2 DEF Taken, Wait, Answer, GiveUp
    <3>4. QED
      BY <1>1, <1>2, <3>3 DEF HeadFits
  <2>3. QED
    BY <2>1, <2>2 DEF HeaderRead
<1>6. /\ full' \in BOOLEAN
      /\ misled' = misled \/ (host \in behind /\ misled' = misled \cup {current})
  BY <1>1 DEF RemainsFit
<1>7. QED
  BY <1>1, <1>2, <1>4, <1>5, <1>6, RemainsGrow

\* The steps of a full buffer.
LEMMA OverflowRemains ==
  ASSUME ExchangeInv, RemainsFit,
         HeaderOverflows \/ HeaderOverFull \/ ChunksOverflow
  PROVE  RemainsFit'
<1>1. /\ RestTypes /\ HistoryFits /\ op # "idle"
  BY DEF ExchangeInv, HeaderOverflows, HeaderOverFull, ChunksOverflow
<1>2. /\ op' = "idle" /\ misled' = misled /\ full' \in BOOLEAN
      /\ UNCHANGED <<current, method, host, verified>>
      /\ \/ Leaves /\ host \in verified
         \/ behind' = behind /\ leftover' = leftover
  <2>1. host \in live \cup behind => host \in verified
    BY <1>1 DEF RestTypes, RemainsFit
  <2>2. CASE HeaderOverflows
    BY <2>1, <2>2 DEF HeaderOverflows, FailRequest, Answer, Readable, links
  <2>3. CASE HeaderOverFull
    BY <2>1, <2>3 DEF HeaderOverFull, FailRequest, Answer, GiveUp, Readable, links, RemainsFit
  <2>4. CASE ChunksOverflow
    BY <2>4 DEF ChunksOverflow, FailRequest, Answer, links, RemainsFit, HeadFits
  <2>5. QED
    BY <2>2, <2>3, <2>4
<1>3. HeadFits'
  BY <1>2, HeadStays
<1>4. current \in Requests
  BY <1>1, UnderWay
<1>5. QED
  BY <1>1, <1>2, <1>3, <1>4, RemainsGrow

\* The steps that end a connection, or leave all of them as they are.
LEMMA OtherRemains ==
  ASSUME ExchangeInv, ExchangeInv', RemainsFit,
         \/ \E h \in Hosts, m \in {"get", "head"} : Ask(h, m)
         \/ Connect \/ Write \/ HeaderFails \/ Redirect
         \/ BodyArrives \/ BodyEnds \/ Close \/ ChunksRead \/ ChunksEnd
  PROVE  RemainsFit'
<1>1. RestTypes /\ RestTypes' /\ HistoryFits /\ full \in BOOLEAN /\ HeadFits
  BY DEF ExchangeInv, RemainsFit
<1>2. CASE \E h \in Hosts, m \in {"get", "head"} : Ask(h, m)
  <2>1. PICK h \in Hosts, m \in {"get", "head"} : Ask(h, m)
    BY <1>2
  <2>2. /\ current' = current + 1 /\ op' \in {"write", "connect", "idle"}
        /\ UNCHANGED <<behind, full, leftover, misled, verified>>
    BY <2>1 DEF Ask, SendTo, Wait, remains, links
  <2>3. current + 1 \notin misled
    BY <1>1, BoundsAssumption DEF RestTypes, RemainsFit
  <2>4. HeadFits'
    BY <2>2, <2>3 DEF HeadFits
  <2>5. QED
    BY <1>1, <2>2, <2>4, RemainsStay
<1>3. CASE Connect \/ Write
  <2>1. /\ UNCHANGED <<current, method, behind, full, leftover, misled>>
        /\ op \in {"connect", "write"} /\ op' \in {"write", "header", "idle"}
        /\ verified \subseteq verified'
    BY <1>3 DEF Connect, Write, Wait, FailRequest, Answer, session, remains, links
  <2>2. HeadFits'
    BY <2>1, HeadStays
  <2>3. QED
    BY <1>1, <2>1, <2>2, RemainsStay
<1>4. CASE HeaderFails
  <2>1. /\ UNCHANGED <<current, method, full, leftover, misled>>
        /\ op = "header" /\ op' \in {"connect", "idle"}
        /\ behind' = behind \ {host} /\ verified \ {host} \subseteq verified'
    BY <1>4 DEF HeaderFails, Retry, Reconnects, Wait, FailRequest, Answer, GiveUp
  <2>2. HeadFits'
    BY <2>1, HeadStays
  <2>3. QED
    BY <1>1, <2>1, <2>2, RemainsStay
<1>5. CASE Redirect
  <2>1. /\ UNCHANGED <<current, method, behind, full, leftover, misled, verified>>
        /\ op = "delay" /\ op' \in {"connect", "write", "idle"}
        /\ method[current] = "get"
    BY <1>1, <1>5 DEF Redirect, SendTo, Wait, FailRequest, Answer, remains, links, HeadFits
  <2>2. HeadFits'
    BY <2>1 DEF HeadFits
  <2>3. QED
    BY <1>1, <2>1, <2>2, RemainsStay
<1>6. CASE BodyArrives \/ BodyEnds \/ ChunksEnd
  <2>1. /\ UNCHANGED <<current, method, full, leftover, misled, verified>> /\ op' = "idle"
        /\ behind' \in {behind, behind \ {host}}
    BY <1>6 DEF BodyArrives, BodyEnds, ChunksEnd, Ended, Parse, FailRequest, Answer, GiveUp,
       remains, links
  <2>2. HeadFits'
    BY <2>1, HeadStays
  <2>3. QED
    BY <1>1, <2>1, <2>2, RemainsStay
<1>7. CASE Close
  <2>1. /\ UNCHANGED <<current, method, full, leftover, misled, verified>>
        /\ op' \in {"closing", "idle"} /\ behind' \in {behind, behind \ {host}}
    BY <1>7 DEF Close, ReadToEnd, Ended, Parse, Wait, FailRequest, Answer, GiveUp
  <2>2. HeadFits'
    BY <2>1, HeadStays
  <2>3. QED
    BY <1>1, <2>1, <2>2, RemainsStay
<1>8. CASE ChunksRead
  <2>1. UNCHANGED <<current, method, op, host, behind, full, leftover, misled, verified>>
    BY <1>8 DEF ChunksRead, remains, links
  <2>2. HeadFits'
    BY <1>1, <2>1 DEF HeadFits
  <2>3. QED
    BY <1>1, <2>1, <2>2, RemainsStay
<1>9. QED
  BY <1>2, <1>3, <1>4, <1>5, <1>6, <1>7, <1>8

(* What the client has read, what is to come, what the parser remembers and *)
(* what connections still hold fit one another through all requests,        *)
(* retries and redirections.                                                *)
THEOREM ExchangeInvariant == ExchangeSpec => [](ExchangeInv /\ RemainsFit)
<1>1. ExchangeInit => ExchangeInv /\ RemainsFit
  <2>1. ASSUME ExchangeInit PROVE RemainsFit
    BY <2>1 DEF ExchangeInit, RemainsFit, HeadFits
  <2>2. QED
    BY <2>1, ExchangeBegins
<1>2. ASSUME ExchangeInv, RemainsFit, ExchangeNext PROVE ExchangeInv'
  BY <1>2, AskKeeps, ConnectKeeps, WriteKeeps, HeaderFailsKeeps, HeaderOverFullKeeps,
     HeaderReadKeeps, RedirectKeeps, BodyArrivesKeeps, BodyEndsKeeps, CloseKeeps,
     ChunksReadKeeps, ChunksEndKeeps, ChunksOverflowKeeps
     DEF ExchangeNext
<1>3. ASSUME ExchangeInv, RemainsFit, ExchangeNext PROVE RemainsFit'
  BY <1>2, <1>3, HeaderReadRemains, OverflowRemains, OtherRemains DEF ExchangeNext
<1>4. ASSUME ExchangeInv, RemainsFit, UNCHANGED exchangevars PROVE RemainsFit'
  <2>1. UNCHANGED <<current, method, op, host, behind, full, leftover, misled, verified>>
    BY <1>4 DEF exchangevars, session, links, remains
  <2>2. QED
    BY <1>4, <2>1 DEF RemainsFit, HeadFits
<1>5. ExchangeInv /\ RemainsFit /\ [ExchangeNext]_exchangevars => (ExchangeInv /\ RemainsFit)'
  BY <1>2, <1>3, <1>4, ExchangeStays
<1>6. QED
  BY <1>1, <1>5, PTL DEF ExchangeSpec

(* A request is answered without an error only with the body of its own     *)
(* response (parse_chunks, on_message_complete).                            *)
THEOREM OwnAnswersOnly == ExchangeSpec => []OwnAnswer
<1>1. ASSUME ExchangeInv, RemainsFit PROVE OwnAnswer
  <2>1. ExchangeTypeOK
    <3>1. \A s \in {coming, raw, buffer} :
            s \in Seq([of : Requests, part : {"head", "body", "end", "piece"}])
      BY <1>1 DEF ExchangeInv, SequencesTyped, PartTypes
    <3>2. op = "body" => left \in 1 .. MaxLength
      BY <1>1 DEF ExchangeInv, ReadingFits, LeftFits
    <3>3. \A c \in Requests :
            response[c] \in Responses \cup {[kind |-> "none", length |-> 0]}
      BY <1>1 DEF ExchangeInv, RestTypes
    <3>4. leftover \subseteq Requests /\ misled \subseteq Requests
      BY <1>1, BoundsAssumption DEF ExchangeInv, RestTypes, RemainsFit, Requests
    <3>5. QED
      BY <1>1, <3>1, <3>2, <3>3, <3>4 DEF ExchangeInv, RestTypes, RemainsFit, ExchangeTypeOK
  <2>2. AnswerFits
    BY <1>1 DEF ExchangeInv, HistoryFits
  <2>3. (\A c \in 1 .. answer.to : c \notin leftover) => answer.to \notin misled
    BY <1>1 DEF RemainsFit
  <2>4. QED
    BY <2>1, <2>2, <2>3 DEF AnswerFits, OwnAnswer
<1>2. QED
  BY <1>1, ExchangeInvariant, PTL

(* A request is answered at most once, and a GET whose response comes whole *)
(* is answered (async_client over its sessions and parser).                 *)
THEOREM RequestsAnsweredOnce == ExchangeSpec => []RequestAnsweredOnce
<1>1. ExchangeInv => RequestAnsweredOnce
  BY DEF ExchangeInv, HistoryFits
<1>2. QED
  BY <1>1, ExchangeInvariant, PTL

=============================================================================
