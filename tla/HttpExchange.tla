---------------------------- MODULE HttpExchange ----------------------------
(* core::http::async_client over its sessions, secure_http_session and      *)
(* insecure_http_session: a request, its retries and redirections, the      *)
(* stages in which a response is read, and the parser that finds its body.  *)
(*                                                                          *)
(* A client has one session record, one buffer and one parser for all its   *)
(* requests.  A request is made when nothing is in progress; overlapping    *)
(* requests, which share one callback, are not modelled.  The client makes  *)
(* GET requests, which follow redirections, and HEAD requests, which do not.*)
(*                                                                          *)
(* External, as the code uses them: asio leaves what it has read of an      *)
(* incomplete read in the buffer, and looks there first for what it is to   *)
(* read up to; when the buffer is full without it the read fails, and what  *)
(* is still to come stays in the connection.  llhttp takes a message up     *)
(* where the last call left it, finds no message after one that closes its  *)
(* connection, and after an error none at all until it is reset.            *)
EXTENDS Integers, Sequences

CONSTANTS
  Hosts,
  Secure,       \* those that are reached over TLS
  NoHost,
  MaxLength,    \* bound: parts of a body
  MaxRequests,  \* bound: requests made
  MaxHops       \* bound: retries of a request, and its redirections

ASSUME HostsAssumption == Secure \subseteq Hosts /\ NoHost \notin Hosts
ASSUME BoundsAssumption == {MaxLength, MaxRequests, MaxHops} \subseteq Nat

VARIABLES
  current,   \* the last request made: whose callback and record the client has
  method,    \* request -> session.method
  host,      \* session.id
  op,        \* what the client waits for
  left,      \* read_body's bytes_left_over
  response,  \* request -> [kind, length] of session.initial_response
  coming,    \* the parts of the response that are not read yet
  raw,       \* session.raw
  buffer,    \* what is left in the streambuf
  parser,    \* llhttp: [at, left, last]
  verified,  \* hosts whose session takes itself for connected
  live,      \* hosts whose connection both sides have
  behind,    \* hosts whose connection holds what was not read of a response
  full,      \* whether the buffer is, and does not hold the end of a header
  retried, redirected,
  answers,   \* history: how often each request's callback was called
  answer,    \* history: the last answer: [to, failed, body]
  given,     \* history: requests that were given up without an answer
  cut,       \* history: the requests whose response was cut short
  leftover,  \* history: those that left something of it in the connection
  misled,    \* history: those that read a header over what others had left
  dead       \* the daemon has died

session == <<method, host, left, response, coming, raw, buffer>>
links == <<verified, live>>
remains == <<behind, full, leftover, misled>>
hops == <<retried, redirected>>
history == <<answers, answer, given, cut>>
exchangevars == <<current, session, op, parser, links, remains, hops, history, dead>>

Requests == 1 .. MaxRequests

(* What of a response the client tells apart: a Content-Length, without or  *)
(* with the end of the connection after it; HTTP/1.0 with the end of the    *)
(* connection for the length; chunks; a Location; none of these.            *)
Kinds == {"length", "close", "closed", "chunked", "redirect", "bare"}
Responses ==
  [kind : {"length", "close", "closed", "chunked"}, length : 1 .. MaxLength]
  \cup [kind : {"redirect", "bare"}, length : {0}]

\* A part of a response, of the request it belongs to.
Part(part) == [of |-> current, part |-> part]

Resting == [at |-> "start", left |-> 0, last |-> FALSE]

ExchangeInit ==
  /\ current = 0 /\ method = [c \in Requests |-> "none"] /\ host = NoHost
  /\ op = "idle" /\ left = 0
  /\ response = [c \in Requests |-> [kind |-> "none", length |-> 0]]
  /\ coming = <<>> /\ raw = <<>> /\ buffer = <<>>
  /\ parser = Resting
  /\ verified = {} /\ live = {} /\ behind = {} /\ full = FALSE
  /\ retried = 0 /\ redirected = 0
  /\ answers = [c \in Requests |-> 0]
  /\ answer = [to |-> 0, failed |-> FALSE, body |-> <<>>]
  /\ given = {} /\ cut = {} /\ leftover = {} /\ misled = {}
  /\ dead = FALSE

----------------------------------------------------------------------------
(* Answers                                                                  *)

Answer(failed, body, times) ==
  /\ op' = "idle"
  /\ answers' = [answers EXCEPT ![current] = @ + times]
  /\ answer' = [to |-> current, failed |-> failed, body |-> body]
  /\ UNCHANGED given

\* on_request_failure, on_response_failure
FailRequest == Answer(TRUE, <<>>, 1)

\* No callback, and nothing in progress that would lead to one.
GiveUp ==
  /\ op' = "idle"
  /\ given' = given \cup {current}
  /\ UNCHANGED <<answers, answer>>

\* Something of the response stays in the connection, which goes on.
Leaves ==
  /\ behind' = behind \cup {host}
  /\ leftover' = leftover \cup {current}

Wait(stage) == op' = stage /\ UNCHANGED <<answers, answer, given>>

----------------------------------------------------------------------------
(* The parser                                                               *)

Completed(p) ==
  [p EXCEPT !.at = IF p.last THEN "stopped" ELSE "start", !.done = @ + 1]

Collected(p, part) == [p EXCEPT !.body = Append(@, part)]

(* llhttp over one part: a head begins a message only between messages;     *)
(* inside a body of known length anything is the body; a chunk has a head   *)
(* of its own.                                                              *)
Consumed(p, part) ==
  LET announced == response[part.of] IN
  CASE p.at = "stopped" -> p
    [] p.at = "start" /\ part.part = "head" ->
         [p EXCEPT !.at = IF announced.kind = "chunked" THEN "chunks" ELSE "body",
                   !.left = announced.length,
                   !.last = announced.kind = "close"]
    [] p.at = "body" /\ p.left > 1 -> [Collected(p, part) EXCEPT !.left = @ - 1]
    [] p.at = "body" /\ p.left = 1 -> Completed([Collected(p, part) EXCEPT !.left = 0])
    [] p.at = "chunks" /\ part.part = "body" -> Collected(p, part)
    [] p.at = "chunks" /\ part.part = "end" -> Completed([p EXCEPT !.left = 0])
    [] OTHER -> [p EXCEPT !.at = "stopped"]

\* Over all the parts of what is given to it, from where it was left.
Parsed(content) ==
  LET after[n \in 0 .. Len(content)] ==
        IF n = 0
        THEN [at |-> parser.at, left |-> parser.left, last |-> parser.last,
              body |-> <<>>, done |-> 0]
        ELSE Consumed(after[n - 1], content[n])
  IN after[Len(content)]

(* parse_chunks: on_message_complete empties the buffer, in which unread is *)
(* left, and calls the callback with the body; an error, or a message that  *)
(* is not complete yet, leads to nothing.                                   *)
Parse(content, unread, reset) ==
  LET p == Parsed(content) IN
  /\ parser' = IF reset THEN Resting
               ELSE [at |-> p.at, left |-> p.left, last |-> p.last]
  /\ IF p.done > 0
     THEN /\ Answer(FALSE, p.body, p.done)
          /\ buffer' = <<>>
     ELSE /\ GiveUp
          /\ buffer' = unread

----------------------------------------------------------------------------
(* Requests                                                                 *)

\* send_request: a session that takes itself for connected is written to.
SendTo(h) ==
  /\ host' = h
  /\ Wait(IF h \in verified THEN "write" ELSE "connect")

\* get or head; a path that is no URL is answered at once.
Ask(h, m) ==
  /\ ~dead /\ op = "idle" /\ current < MaxRequests
  /\ current' = current + 1
  /\ \/ /\ method' = [method EXCEPT ![current'] = m]
        /\ retried' = 0 /\ redirected' = 0
        /\ SendTo(h)
     \/ /\ answers' = [answers EXCEPT ![current'] = 1]
        /\ answer' = [to |-> current', failed |-> TRUE, body |-> <<>>]
        /\ UNCHANGED <<method, host, op, hops, given>>
  /\ UNCHANGED <<left, response, coming, raw, buffer, parser, links, remains, cut, dead>>

\* connect, up to the handshake of a secure session.
Connect ==
  /\ ~dead /\ op = "connect"
  /\ \/ /\ verified' = verified \cup {host} /\ live' = live \cup {host}
        /\ Wait("write")
     \/ FailRequest /\ UNCHANGED links
  /\ UNCHANGED <<current, session, parser, remains, hops, cut, dead>>

(* async_write: a peer that is gone may be noticed now, or when its answer  *)
(* is read.                                                                 *)
Write ==
  /\ ~dead /\ op = "write"
  /\ \/ Wait("header") /\ UNCHANGED live
     \/ FailRequest /\ live' = live \ {host}
  /\ UNCHANGED <<current, session, parser, verified, remains, hops, cut, dead>>

----------------------------------------------------------------------------
(* The header                                                               *)

\* Faulty variant (mutation check): an error is reported beside the retry.
RetryAndFail ==
  /\ retried < MaxHops
  /\ retried' = retried + 1
  /\ op' = "connect" /\ verified' = verified \ {host}
  /\ answers' = [answers EXCEPT ![current] = @ + 1]
  /\ answer' = [to |-> current, failed |-> TRUE, body |-> <<>>]
  /\ UNCHANGED given

\* reconnect, which lets the connection go and connects again.
Reconnects == Wait("connect") /\ verified' = verified \ {host}

(* retry_last_request, with no end: session.retries is never counted up. A  *)
(* secure session that cannot shut TLS down does not reconnect, nor tell.   *)
Retry ==
  /\ retried < MaxHops
  /\ retried' = retried + 1
  /\ \/ Reconnects
     \/ host \in Secure /\ GiveUp /\ UNCHANGED verified

\* There is something to read: an answer, or what is left of earlier ones.
Readable == host \in live \cup behind

\* The end of the stream, before or in the header, is tried again.
HeaderFails ==
  /\ ~dead /\ op = "header" /\ ~full
  /\ live' = live \ {host} /\ behind' = behind \ {host}
  /\ \/ buffer' = buffer /\ UNCHANGED cut
     \/ /\ Readable
        /\ buffer' = Append(buffer, Part("piece"))
        /\ cut' = cut \cup {current}
  /\ \/ Retry
     \/ FailRequest /\ UNCHANGED <<verified, retried>>
  /\ UNCHANGED <<current, method, host, left, response, coming, raw, parser,
                 full, leftover, misled, redirected, dead>>

(* A header that does not fit into what is left of the buffer is an error   *)
(* that is not tried again, and the rest of the response stays.             *)
HeaderOverflows ==
  /\ ~dead /\ op = "header" /\ ~full /\ Readable
  /\ FailRequest
  /\ buffer' = Append(buffer, Part("piece")) /\ full' = TRUE
  /\ cut' = cut \cup {current}
  /\ Leaves
  /\ UNCHANGED <<current, method, host, left, response, coming, raw, parser, links,
                 misled, hops, dead>>

(* With the buffer full nothing is read.  It is the same error again and    *)
(* again; or what is there has two line ends in it, which read_until takes  *)
(* for the end of a header and read_response_header does not, which empties *)
(* the buffer and tells nobody.                                             *)
HeaderOverFull ==
  /\ ~dead /\ op = "header" /\ full
  /\ \/ FailRequest /\ UNCHANGED <<buffer, full>>
     \/ GiveUp /\ buffer' = <<>> /\ full' = FALSE
  /\ IF Readable THEN Leaves ELSE UNCHANGED <<behind, leftover>>
  /\ UNCHANGED <<current, method, host, left, response, coming, raw, parser, links,
                 cut, misled, hops, dead>>

(* The parts of a response after its header; a HEAD has none, unless it was *)
(* misled: there is always more in a connection that is behind.             *)
Following(r) ==
  IF method[current] = "head" /\ host \notin behind THEN <<>>
  ELSE [k \in 1 .. r.length |-> Part("body")]
       \o (IF r.kind = "chunked" THEN <<Part("end")>> ELSE <<>>)

\* Faulty variant (mutation check): raw is added to.
AssignedAfter(parts) == raw \o buffer \o <<Part("head")>> \o parts

\* session.raw.assign: all that was in the buffer, the header first.
Assigned(parts) == buffer \o <<Part("head")>> \o parts

(* The bytes read_body is told to wait for: a body that is all there is     *)
(* waited for once more.                                                    *)
WaitedFor(r, parts) ==
  IF Len(parts) < r.length THEN r.length - Len(parts) ELSE r.length

(* What follows a header, of which some parts came with it.                 *)
Taken(r, parts) ==
  \/ /\ r.kind \in {"length", "close"}
     /\ raw' = Assigned(parts)
     /\ left' = WaitedFor(r, parts)
     /\ Wait("body")
     /\ UNCHANGED <<parser, redirected>>
  \/ /\ r.kind = "closed"
     /\ Wait("closing")
     /\ UNCHANGED <<raw, left, parser, redirected>>
  \/ /\ r.kind = "chunked"
     /\ raw' = Assigned(parts)
     /\ Wait("chunks")
     /\ UNCHANGED <<left, parser, redirected>>
  \/ /\ r.kind = "redirect" /\ method[current] = "head"
     /\ Answer(FALSE, <<>>, 1)
     /\ UNCHANGED <<raw, left, parser, redirected>>
  \/ /\ r.kind = "redirect" /\ method[current] = "get" /\ redirected < MaxHops
     /\ redirected' = redirected + 1
     /\ Wait("delay")
     /\ UNCHANGED <<raw, left, parser>>
  \/ /\ r.kind = "bare"
     /\ GiveUp
     /\ UNCHANGED <<raw, left, parser, redirected>>

\* What is read first is none of this response.
Odd == buffer # <<>> \/ host \in behind

(* A header that is understood leaves nothing behind but what the body will *)
(* take - unless something stood before it, with which it is another.  What *)
(* was behind may be behind no more, when it was read with the header.      *)
HeaderLeaves ==
  \/ UNCHANGED <<behind, leftover>>
  \/ Odd /\ Leaves
  \/ behind' = behind \ {host} /\ UNCHANGED leftover

(* read_response_header: the buffer is emptied, into raw or nowhere.  What  *)
(* an earlier read left in it stands before the header, which may no longer *)
(* be one, or say anything.  What was left in the connection is read as if  *)
(* it were the response.  A header whose lines end without a carriage       *)
(* return is read, and not found: nobody is told.                           *)
HeaderRead ==
  /\ ~dead /\ op = "header" /\ ~full /\ Readable
  /\ buffer' = <<>>
  /\ misled' = IF host \in behind THEN misled \cup {current} ELSE misled
  /\ \E r \in Responses :
       \/ \E n \in 0 .. Len(Following(r)) :
            /\ response' = [response EXCEPT ![current] = r]
            /\ coming' = SubSeq(Following(r), n + 1, Len(Following(r)))
            /\ Taken(r, SubSeq(Following(r), 1, n))
            /\ HeaderLeaves
       \/ /\ FailRequest \/ GiveUp
          /\ Leaves \/ HeaderLeaves
          /\ UNCHANGED <<response, coming, raw, left, parser, redirected>>
  /\ UNCHANGED <<current, method, host, links, full, retried, cut, dead>>

(* handle_redirect, after the delay.  A location that is no URL fails.      *)
Redirect ==
  /\ ~dead /\ op = "delay"
  /\ \/ \E h \in Hosts : SendTo(h) /\ raw' = <<>>
     \/ FailRequest /\ UNCHANGED <<host, raw>>
  /\ UNCHANGED <<current, method, left, response, coming, buffer, parser, links, remains,
                 hops, cut, dead>>

----------------------------------------------------------------------------
(* The body                                                                 *)

Read(n) == SubSeq(coming, 1, n)
Rest(n) == SubSeq(coming, n + 1, Len(coming))

\* read_body(bytes_left_over), when that much comes.
BodyArrives ==
  /\ ~dead /\ op = "body" /\ left <= Len(coming)
  /\ raw' = raw \o Read(left)
  /\ coming' = Rest(left)
  /\ Parse(raw', <<>>, FALSE)
  /\ UNCHANGED <<current, method, host, left, response, links, remains, hops, cut, dead>>

(* The connection ends, or fails, with n more parts read and less than was  *)
(* waited for.                                                              *)
Ended(n) ==
  /\ live' = live \ {host} /\ behind' = behind \ {host}
  /\ coming' = <<>>
  /\ cut' = IF n < Len(coming) THEN cut \cup {current} ELSE cut

\* At the end of the stream what there is is parsed; what was read stays.
BodyEnds ==
  /\ ~dead /\ op = "body"
  /\ \E n \in 0 .. Len(coming) :
       /\ n < left
       /\ Ended(n)
       /\ \/ Parse(raw, buffer \o Read(n), FALSE)
          \/ FailRequest /\ UNCHANGED parser /\ buffer' = buffer \o Read(n)
  /\ UNCHANGED <<current, method, host, left, response, raw, verified, full, leftover,
                 misled, hops, dead>>

(* read(), of a plain session: it ends with a full buffer, and goes on, or  *)
(* with the stream, and then the part that was read last is thrown away.    *)
(* raw still begins with what the response before this one left.            *)
ReadToEnd ==
  \/ \E n \in 1 .. Len(coming) :
       /\ raw' = raw \o Read(n)
       /\ coming' = Rest(n)
       /\ Wait("closing")
       /\ UNCHANGED <<buffer, parser, live, behind, cut>>
  \/ \E n \in 0 .. Len(coming) :
       /\ Ended(n)
       /\ \/ Parse(raw, <<>>, FALSE)
          \/ FailRequest /\ buffer' = buffer \o Read(n) /\ UNCHANGED parser
       /\ UNCHANGED raw

(* A secure session first waits until it can read, and then uses a callback *)
(* that is gone: it works, does nothing, or the daemon dies.                *)
Close ==
  /\ ~dead /\ op = "closing"
  /\ \/ ReadToEnd /\ UNCHANGED dead
     \/ /\ host \in Secure
        /\ dead' \in BOOLEAN
        /\ GiveUp
        /\ UNCHANGED <<coming, raw, buffer, parser, live, behind, cut>>
  /\ UNCHANGED <<current, method, host, left, response, verified, full, leftover, misled,
                 hops>>

\* read_next_chunk: as far as the next empty line, and on.
ChunksRead ==
  /\ ~dead /\ op = "chunks"
  /\ \E n \in 1 .. Len(coming) :
       raw' = raw \o Read(n) /\ coming' = Rest(n)
  /\ UNCHANGED <<current, method, host, op, left, response, buffer, parser, links, remains,
                 hops, history, dead>>

(* Only the end of the stream ends the chunks, and resets the parser.  The  *)
(* part that ends the body has its empty line: with it the wait is over.    *)
ChunksEnd ==
  /\ ~dead /\ op = "chunks"
  /\ \E n \in 0 .. Len(coming) :
       /\ n < Len(coming) \/ coming = <<>>
       /\ Ended(n)
       /\ \/ Parse(raw, buffer \o Read(n), TRUE)
          \/ FailRequest /\ UNCHANGED parser /\ buffer' = buffer \o Read(n)
  /\ UNCHANGED <<current, method, host, left, response, raw, verified, full, leftover,
                 misled, hops, dead>>

(* An empty line that does not come before the buffer is full: the request  *)
(* fails, over a connection that goes on with the rest of the chunks.       *)
ChunksOverflow ==
  /\ ~dead /\ op = "chunks"
  /\ \E n \in 0 .. Len(coming) - 1 : buffer' = buffer \o Read(n) \o <<Part("piece")>>
  /\ full' = TRUE
  /\ FailRequest
  /\ coming' = <<>> /\ cut' = cut \cup {current}
  /\ Leaves
  /\ UNCHANGED <<current, method, host, left, response, raw, parser, links, misled, hops,
                 dead>>

ExchangeNext ==
  \/ \E h \in Hosts, m \in {"get", "head"} : Ask(h, m)
  \/ Connect \/ Write
  \/ HeaderFails \/ HeaderOverflows \/ HeaderOverFull \/ HeaderRead \/ Redirect
  \/ BodyArrives \/ BodyEnds \/ Close \/ ChunksRead \/ ChunksEnd \/ ChunksOverflow

ExchangeSpec == ExchangeInit /\ [][ExchangeNext]_exchangevars

----------------------------------------------------------------------------

(* The record of the request, the stages and the parser hold what they are  *)
(* made for.                                                                *)
ExchangeTypeOK ==
  /\ current \in 0 .. MaxRequests /\ method \in [Requests -> {"none", "get", "head"}]
  /\ host \in Hosts \cup {NoHost}
  /\ op \in {"idle", "connect", "write", "header", "delay", "body", "closing", "chunks"}
  /\ op = "body" => left \in 1 .. MaxLength
  /\ \A c \in Requests :
       response[c] \in Responses \cup {[kind |-> "none", length |-> 0]}
  /\ \A s \in {coming, raw, buffer} :
       s \in Seq([of : Requests, part : {"head", "body", "end", "piece"}])
  /\ parser \in [at : {"start", "body", "chunks", "stopped"}, left : 0 .. MaxLength,
                 last : BOOLEAN]
  /\ live \subseteq verified /\ verified \subseteq Hosts
  /\ retried \in 0 .. MaxHops /\ redirected \in 0 .. MaxHops
  /\ given \cup cut \cup leftover \cup misled \subseteq Requests
  /\ behind \subseteq verified
  /\ full \in BOOLEAN /\ dead \in BOOLEAN

(* A request is answered without an error only with the body of its own     *)
(* response, all of it and nothing else, whatever was asked before, short   *)
(* of what an earlier response may leave behind: a parser inside its body,  *)
(* when that was cut short or, to a HEAD, never came; raw, which a response *)
(* that ends with its connection is read behind; and, since that one parses *)
(* raw once more, a parser inside the body of what raw still held - and     *)
(* unless this or an earlier response was not read whole from a connection  *)
(* that goes on: then a request may be answered with what is read there,    *)
(* and that is not its own (misled).                                        *)
LeavesParserInBody(c) ==
  c \in given /\ response[c].kind \in {"length", "close", "closed"}

OwnAnswer ==
  /\ ExchangeTypeOK
  /\ (/\ ~answer.failed /\ answer.to # 0
      /\ response[answer.to].kind # "closed"
      /\ \A c \in 1 .. answer.to - 1 : ~LeavesParserInBody(c)
      /\ \A c \in 1 .. answer.to : c \notin leftover)
     => /\ \A i \in DOMAIN answer.body :
             answer.body[i] = [of |-> answer.to, part |-> "body"]
        /\ Len(answer.body) = response[answer.to].length
        /\ answer.to \notin misled

(* Through all retries and hops a request is answered at most once, unless  *)
(* a parser was left inside a body, which ends one message and begins the   *)
(* next; and a GET whose response comes whole and says its length is        *)
(* answered, unless it or an earlier one was cut short, or an earlier one   *)
(* ended its connection or never came: after those the parser may find no   *)
(* message ever again.                                                      *)
Disturbs(c) ==
  \/ c \in cut
  \/ response[c].kind \in {"close", "closed"}
  \/ LeavesParserInBody(c)

RequestAnsweredOnce ==
  \A c \in Requests :
    /\ answers[c] <= 1 \/ \E d \in 1 .. c - 1 : LeavesParserInBody(d)
    /\ c < current \/ (c = current /\ op = "idle") =>
         \/ answers[c] >= 1
         \/ response[c].kind \in {"none", "bare", "closed", "redirect"} \/ method[c] = "head"
         \/ \E d \in 1 .. c : d \in cut
         \/ \E d \in 1 .. c - 1 : Disturbs(d)
=============================================================================
