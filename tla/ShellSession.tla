---------------------------- MODULE ShellSession ----------------------------
(* domain::containers::shell_handler and freebsd::freebsd_terminal: clients *)
(* that open a shell in the jail of a container, feed it, and are sent what *)
(* it prints, over one io thread and the system's pool of threads, which    *)
(* runs what asio::post is given without an executor.                       *)
(*                                                                          *)
(* External, as the code uses them: forkpty makes a process with a terminal *)
(* of its own; waitpid blocks until that process has ended; the end of a    *)
(* process ends the streams of its terminal, and with them a write that     *)
(* waits for room, in the turn of the reactor that finds the end to read; a *)
(* descriptor that is closed leaves its number to the next that is opened;  *)
(* what a closed stream had in progress is completed later, as aborted.     *)
EXTENDS Naturals, FiniteSets

CONSTANTS
  Clients,
  NoTerminal,
  MaxSessions   \* bound: sessions that are started

ASSUME MaxSessionsAssumption == MaxSessions \in Nat

\* initialize() is called twice for a session.
Processes == 1 .. 2 * MaxSessions

\* A terminal: the last process it forked, whose stream it has, 0 for none, and
\* the read and the write that are in progress.
Terminal ==
  [pid : 0 .. 2 * MaxSessions, stream : 0 .. 2 * MaxSessions,
   reading : {"none", "posted", "waiting"}, writing : BOOLEAN]

ASSUME NoTerminalAssumption == NoTerminal \notin Terminal

VARIABLES
  (* the host *)
  process,    \* "none", "runs", "ended", or "reaped" by a waitpid
  masters,    \* the processes to whose terminal the daemon has a descriptor
              \* beside its streams
  strays,     \* how many more descriptors are open that nobody remembers
  (* the daemon *)
  status,     \* "up" or "dead"
  terminal,   \* each client's terminal
  blocked,    \* the clean() the io thread is in: the process it waits for, the
              \* terminal that ends, its client, and what comes next
  late,       \* the clients with callbacks of a terminal that is not there
  (* the clients *)
  connected,  \* the clients that have a connection
  told,       \* history: of success and end, what the client was sent since it
              \* began a session; errors are left out
  (* history *)
  sessions,   \* how many sessions were begun
  refused,     \* how many of them could not be set up
  spoiled     \* a client acted before it was told that it may, or a call failed

host == <<process, masters, strays>>
daemon == <<status, terminal, blocked, late>>
client == <<connected, told>>
sessionHistory == <<sessions, refused, spoiled>>
shellvars == <<host, daemon, client, sessionHistory>>

Free == [waits |-> 0, terminal |-> NoTerminal, client |-> NoTerminal, next |-> "none"]
Blank == [pid |-> 0, stream |-> 0, reading |-> "none", writing |-> FALSE]

ShellInit ==
  /\ process = [p \in Processes |-> "none"]
  /\ masters = {} /\ strays = 0
  /\ status = "up"
  /\ terminal = [c \in Clients |-> NoTerminal]
  /\ blocked = Free
  /\ late = {}
  /\ connected = {}
  /\ told = [c \in Clients |-> {}]
  /\ sessions = 0 /\ refused = 0 /\ spoiled = FALSE

\* The io thread is in its loop, and the next handler can run.
Idle == status = "up" /\ blocked = Free

NextProcess == Cardinality({p \in Processes : process[p] # "none"}) + 1

Tell(c, what) == told' = [told EXCEPT ![c] = @ \cup {what}]

----------------------------------------------------------------------------
(* The host                                                                 *)

(* A child of forkpty that finds its user and its jail becomes the shell,   *)
(* and ends in its own time; one that lacks the user, or cannot execute,    *)
(* ends at once; one that finds no jail returns into the handler, and runs  *)
(* as a second daemon with the same connections until it is killed.         *)
ProcessEnds(p) ==
  /\ process[p] = "runs"
  /\ process' = [process EXCEPT ![p] = "ended"]
  /\ UNCHANGED <<masters, strays, daemon, client, sessionHistory>>

----------------------------------------------------------------------------
(* A terminal's end                                                         *)

InProgress(t) == t.reading # "none" \/ t.writing

\* The number of a descriptor that clean() has closed before may have gone to
\* another terminal by now.
ClosedByNumber(t) ==
  IF t.pid = 0 THEN {{}}
  ELSE IF t.pid \in masters THEN {{t.pid}}
  ELSE {{}} \cup {{p} : p \in {q \in masters : q > t.pid}}

\* clean()'s close(): the terminal's own, one of those, or a stray.
CloseMaster(t) ==
  \/ \E closed \in ClosedByNumber(t) : masters' = masters \ closed /\ UNCHANGED strays
  \/ /\ t.pid \notin masters \cup {0} /\ strays > 0
     /\ strays' = strays - 1 /\ UNCHANGED masters

\* Faulty variant (mutation check): the process is not waited for.
DestroyUnwaited(c, next) ==
  /\ CloseMaster(terminal[c])
  /\ terminal' = [terminal EXCEPT ![c] = NoTerminal]
  /\ blocked' = [waits |-> 0, terminal |-> terminal[c], client |-> c, next |-> next]

(* ~freebsd_terminal up to the waitpid of clean(); the streams are open     *)
(* until it returns, so that the process is not hung up.                    *)
Destroy(c, next) ==
  /\ CloseMaster(terminal[c])
  /\ terminal' = [terminal EXCEPT ![c] = NoTerminal]
  /\ blocked' = [waits |-> terminal[c].pid, terminal |-> terminal[c],
                 client |-> c, next |-> next]

\* waitpid returns; for a process it has returned for before, at once.
Reap ==
  /\ status = "up" /\ blocked.waits # 0
  /\ process[blocked.waits] \in {"ended", "reaped"}
  /\ process' = [process EXCEPT ![blocked.waits] = "reaped"]
  /\ blocked' = [blocked EXCEPT !.waits = 0]
  /\ UNCHANGED <<masters, strays, status, terminal, late, client, sessionHistory>>

(* in.reset() and out.reset(): what is in progress is completed as aborted, *)
(* over freed memory.                                                       *)
StreamsClose ==
  LET t == blocked.terminal IN
  late' = IF t # NoTerminal /\ InProgress(t) THEN late \cup {blocked.client} ELSE late

\* For the history: what the client does before it was told `what`.
TooEarly(c, what) == spoiled' = (spoiled \/ what \notin told[c])

----------------------------------------------------------------------------
(* The beginning of a session                                               *)

\* The terminal that initialize() makes of process p.
Made(p) == [pid |-> p, stream |-> p, reading |-> "none", writing |-> FALSE]

\* Faulty variant (mutation check): the first process is the one remembered.
SetUpRemembersFirst(c, p) ==
  /\ process' = [process EXCEPT ![p] = "runs", ![p + 1] = "runs"]
  /\ masters' = masters \cup {p, p + 1}
  /\ terminal' = [terminal EXCEPT ![c] =
                    [Made(p + 1) EXCEPT !.pid = p, !.reading = "posted"]]
  /\ blocked' = Free
  /\ Tell(c, "success")
  /\ UNCHANGED <<strays, refused, spoiled>>

(* Both calls of initialize() succeed, and start() is posted.  The second   *)
(* call replaces what the first has made: the first process goes on, and    *)
(* its descriptor stays open.                                               *)
SetUp(c, p) ==
  /\ process' = [process EXCEPT ![p] = "runs", ![p + 1] = "runs"]
  /\ masters' = masters \cup {p, p + 1}
  /\ terminal' = [terminal EXCEPT ![c] = [Made(p + 1) EXCEPT !.reading = "posted"]]
  /\ blocked' = Free
  /\ Tell(c, "success")
  /\ UNCHANGED <<strays, refused, spoiled>>

(* How one of them fails.  The first: it has no process, or one that is     *)
(* forgotten with its descriptor, since clean() knows of none.  The second: *)
(* no other process, or one that is forgotten while clean() closes the      *)
(* first's and waits for it, and the terminal goes on as if it had not.  A  *)
(* process is forgotten with a second descriptor, if it is the second dup   *)
(* of setup_pipe that fails.                                                *)
Failures(p) ==
  {[forks |-> {}, leaves |-> Blank, waits |-> 0, strays |-> 0],
   [forks |-> {p}, leaves |-> Made(p), waits |-> 0, strays |-> 0]}
  \cup {[forks |-> {p}, leaves |-> Blank, waits |-> 0, strays |-> n] : n \in 0 .. 1}
  \cup {[forks |-> {p, p + 1}, leaves |-> Made(p), waits |-> p, strays |-> n] : n \in 0 .. 1}

SetUpFails(c, p) ==
  \E failure \in Failures(p) :
    /\ process' = [q \in Processes |-> IF q \in failure.forks THEN "runs" ELSE process[q]]
    /\ masters' = masters \cup (failure.forks \ {failure.waits})
    /\ strays' = strays + failure.strays
    /\ terminal' = [terminal EXCEPT ![c] = failure.leaves]
    /\ blocked' = IF failure.waits = 0 THEN Free
                  ELSE [waits |-> failure.waits, terminal |-> NoTerminal,
                        client |-> c, next |-> "fail"]
    /\ refused' = refused + 1 /\ spoiled' = TRUE
    /\ UNCHANGED told

Begin(c) == SetUp(c, NextProcess) \/ SetUpFails(c, NextProcess)

(* on_order_received, start_session: an earlier terminal of the client is   *)
(* destroyed first.                                                         *)
StartSession(c) ==
  /\ Idle /\ c \in connected
  /\ sessions < MaxSessions
  /\ sessions' = sessions + 1
  /\ told' = [told EXCEPT ![c] = {}]
  /\ IF terminal[c] = NoTerminal
     THEN /\ blocked' = [Free EXCEPT !.client = c, !.next = "start"]
          /\ UNCHANGED <<masters, strays, terminal, spoiled>>
     ELSE /\ Destroy(c, "start")
          /\ TooEarly(c, "ended")
  /\ UNCHANGED <<process, status, late, connected, refused>>

Continues(next) == status = "up" /\ blocked.next = next /\ blocked.waits = 0

StartGoesOn ==
  /\ Continues("start")
  /\ StreamsClose
  /\ Begin(blocked.client)
  /\ UNCHANGED <<status, connected, sessions>>

\* A session that could not be set up keeps its terminal.
FailureGoesOn ==
  /\ Continues("fail")
  /\ blocked' = Free
  /\ UNCHANGED <<host, status, terminal, late, client, sessionHistory>>

----------------------------------------------------------------------------
(* A session                                                                *)

\* The function start() posted, on a thread of the pool, which the io thread does
\* not hold up.
Posted(c) ==
  /\ status = "up"
  /\ \/ /\ terminal[c] # NoTerminal /\ terminal[c].reading = "posted"
        /\ terminal' = [terminal EXCEPT ![c].reading = "waiting"]
        /\ UNCHANGED blocked
     \/ /\ blocked.client = c /\ blocked.terminal # NoTerminal
        /\ blocked.terminal.reading = "posted"
        /\ blocked' = [blocked EXCEPT !.terminal.reading = "waiting"]
        /\ UNCHANGED terminal
  /\ UNCHANGED <<host, status, late, client, sessionHistory>>

Waiting(c) == Idle /\ terminal[c] # NoTerminal /\ terminal[c].reading = "waiting"

\* Faulty variant (mutation check): one read, and no other.
ReadOutputOnce(c) ==
  /\ Waiting(c) /\ process[terminal[c].stream] = "runs"
  /\ terminal' = [terminal EXCEPT ![c].reading = "none"]
  /\ UNCHANGED <<host, status, blocked, late, client, sessionHistory>>

\* wait_to_read_from_shell and read_from_shell: a frame, and the next wait.
ReadOutput(c) ==
  /\ Waiting(c) /\ process[terminal[c].stream] = "runs"
  /\ UNCHANGED shellvars

\* on_terminal_closed, after the completion of a write that has waited
ReadEnd(c) ==
  /\ Waiting(c) /\ process[terminal[c].stream] \in {"ended", "reaped"}
  /\ terminal' = [terminal EXCEPT ![c].reading = "none", ![c].writing = FALSE]
  /\ Tell(c, "ended")
  /\ UNCHANGED <<host, status, blocked, late, connected, sessionHistory>>

(* terminal_feed: written at once, or refused because the shell has ended;  *)
(* or, while the shell does not read, later, out of a string that is gone   *)
(* by then: what the shell gets are whichever bytes are there, or the       *)
(* client an error.  Without a terminal, or with one that has no stream, it *)
(* goes through a null pointer.                                             *)
Feed(c) ==
  /\ Idle /\ c \in connected
  /\ TooEarly(c, "success")
  /\ \/ /\ terminal[c] \in {NoTerminal, Blank}
        /\ status' = "dead" /\ UNCHANGED terminal
     \/ /\ terminal[c] \notin {NoTerminal, Blank}
        /\ UNCHANGED <<status, terminal>>
     \/ /\ terminal[c] \notin {NoTerminal, Blank}
        /\ process[terminal[c].stream] = "runs"
        /\ terminal' = [terminal EXCEPT ![c].writing = TRUE]
        /\ UNCHANGED status
  /\ UNCHANGED <<host, blocked, late, client, sessions, refused>>

FeedCompletes(c) ==
  /\ Idle /\ terminal[c] # NoTerminal /\ terminal[c].writing
  /\ terminal' = [terminal EXCEPT ![c].writing = FALSE]
  /\ UNCHANGED <<host, status, blocked, late, client, sessionHistory>>

\* terminal_size: told as a success whether or not the number is still one of a
\* terminal.
Resize(c) ==
  /\ Idle /\ c \in connected
  /\ TooEarly(c, "success")
  /\ status' = IF terminal[c] = NoTerminal THEN "dead" ELSE status
  /\ UNCHANGED <<host, terminal, blocked, late, client, sessions, refused>>

(* A callback of a terminal that is gone, aborted or on a thread of the     *)
(* pool: nothing comes of it but an error to a client that is still there,  *)
(* or the daemon dies.                                                      *)
LateCallback(c) ==
  /\ status = "up" /\ c \in late
  /\ late' = late \ {c}
  /\ status' \in {"up", "dead"}
  /\ UNCHANGED <<host, terminal, blocked, client, sessionHistory>>

----------------------------------------------------------------------------
(* Connections                                                              *)

Connect(c) ==
  /\ Idle /\ c \notin connected
  /\ connected' = connected \cup {c}
  /\ UNCHANGED <<host, daemon, told, sessionHistory>>

\* The handler goes, and its terminal with it.
DropSession(c, next) ==
  IF terminal[c] = NoTerminal
  THEN /\ blocked' = [Free EXCEPT !.client = c, !.next = next]
       /\ UNCHANGED <<masters, strays, terminal, spoiled>>
  ELSE /\ Destroy(c, next)
       /\ TooEarly(c, "ended")

\* The client leaves, and its connection is closed.
Leave(c) ==
  /\ Idle /\ c \in connected
  /\ DropSession(c, "leave")
  /\ UNCHANGED <<process, status, late, client, sessions, refused>>

\* An order of another kind has another handler made.
OrderOther(c) ==
  /\ Idle /\ c \in connected /\ terminal[c] # NoTerminal
  /\ DropSession(c, "other")
  /\ UNCHANGED <<process, status, late, client, sessions, refused>>

DropGoesOn ==
  /\ Continues("leave") \/ Continues("other")
  /\ StreamsClose
  /\ blocked' = Free
  /\ told' = [told EXCEPT ![blocked.client] = {}]
  /\ connected' = IF blocked.next = "leave" THEN connected \ {blocked.client} ELSE connected
  /\ UNCHANGED <<host, status, terminal, sessionHistory>>

----------------------------------------------------------------------------

(* What happens but for a connection, which an acceptor has to take, the    *)
(* forks of StartGoesOn, which others notice, and what needs a thread.      *)
ShellNext ==
  \/ \E p \in Processes : ProcessEnds(p)
  \/ Reap \/ FailureGoesOn \/ DropGoesOn
  \/ \E c \in Clients :
       \/ StartSession(c) \/ Feed(c) \/ Resize(c) \/ OrderOther(c)
       \/ ReadOutput(c) \/ ReadEnd(c) \/ FeedCompletes(c) \/ LateCallback(c)
       \/ Leave(c)
=============================================================================
