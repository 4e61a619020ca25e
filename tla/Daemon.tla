------------------------------- MODULE Daemon -------------------------------
(* main and the run of its io_context: signals, the acceptor and the work   *)
(* that keeps the loop going, around the shells of ShellSession.            *)
(*                                                                          *)
(* External, as the code uses it: asio's signal handler writes the signal   *)
(* to a pipe that the io thread reads; notify_fork(fork_prepare) takes the  *)
(* pipe out of the reactor until notify_fork(fork_parent), which no code    *)
(* calls; a signal interrupts a waitpid; run() returns when nothing is left *)
(* to be completed.                                                         *)
EXTENDS ShellSession

CONSTANTS
  Threads,        \* how many threads the system's pool has
  MaxContainers   \* bound: containers that run at one time

ASSUME ThreadsAssumption == Threads \in Nat \ {0} /\ MaxContainers \in Nat

Signals == {"SIGINT", "SIGTERM"}

VARIABLES
  sent,       \* the signals the daemon was sent, each once
  heard,      \* the signal that signal.async_wait completed with
  watched,    \* the pipe is in the reactor
  accepting,  \* async_accept is in progress
  containers  \* how many containers run: the io thread reads what each prints,
              \* and a thread of the pool waits for its process

mainvars == <<sent, heard, watched, accepting, containers>>
daemonvars == <<shellvars, mainvars>>

Nothing == "nothing"

DaemonInit ==
  /\ ShellInit
  /\ sent = {} /\ heard = Nothing
  /\ watched = TRUE /\ accepting = TRUE /\ containers = 0

\* main's flag
running == heard # "SIGTERM"

\* The thread that gets the signal is the one that waits for a process, or not.
Signal(s) ==
  /\ status = "up" /\ s \notin sent
  /\ sent' = sent \cup {s}
  /\ \/ UNCHANGED blocked
     \/ blocked.waits # 0 /\ blocked' = [blocked EXCEPT !.waits = 0]
  /\ UNCHANGED <<host, status, terminal, late, client, sessionHistory>>
  /\ UNCHANGED <<heard, watched, accepting, containers>>

\* Faulty variant (mutation check): the acceptor stays open.
DispatchKeepsAcceptor(s) ==
  /\ Idle /\ watched /\ heard = Nothing /\ s \in sent
  /\ heard' = s
  /\ UNCHANGED <<shellvars, sent, watched, accepting, containers>>

(* main's callback, with bootstrap::stop and connection_acceptor::stop; the *)
(* signals after the first find no one who waits for them.                  *)
Dispatch(s) ==
  /\ Idle /\ watched /\ heard = Nothing /\ s \in sent
  /\ heard' = s
  /\ accepting' = (accepting /\ s # "SIGTERM")
  /\ UNCHANGED <<shellvars, sent, watched, containers>>

\* Each of them accepts the next.
Accept(c) ==
  /\ accepting /\ Connect(c)
  /\ UNCHANGED mainvars

AcceptFails ==
  /\ Idle /\ accepting
  /\ accepting' = FALSE
  /\ UNCHANGED <<shellvars, sent, heard, watched, containers>>

\* freebsd_terminal::initialize prepares for its forks.
StartForks ==
  /\ StartGoesOn
  /\ watched' = FALSE
  /\ UNCHANGED <<sent, heard, accepting, containers>>

(* So does freebsd_container, on the order of some other client; its start  *)
(* posts to the same pool the wait for the process.                         *)
ContainerStarts ==
  /\ Idle /\ containers < MaxContainers /\ connected # {}
  /\ containers' = containers + 1 /\ watched' = FALSE
  /\ UNCHANGED <<shellvars, sent, heard, accepting>>

\* Every thread of the pool waits for a container.
Full == containers >= Threads

\* What a terminal's start() has posted needs a thread.
RunPosted(c) ==
  /\ Posted(c) /\ ~Full
  /\ UNCHANGED mainvars

ContainerEnds ==
  /\ Idle /\ containers > 0
  /\ containers' = containers - 1
  /\ UNCHANGED <<shellvars, sent, heard, watched, accepting>>

\* What the io_context has yet to complete.
Work ==
  \/ heard = Nothing \/ accepting \/ containers > 0
  \/ connected # {} \/ late # {}

(* while (running) context.run(): main returns; or, if it is to run on, it  *)
(* calls a run() that returns at once, for ever.                            *)
RunReturns ==
  /\ Idle /\ ~Work /\ ~running
  /\ status' = "ended"
  /\ UNCHANGED <<host, terminal, blocked, late, client, sessionHistory, mainvars>>

DaemonNext ==
  \/ ShellNext /\ UNCHANGED mainvars
  \/ StartForks
  \/ \E s \in Signals : Signal(s) \/ Dispatch(s)
  \/ \E c \in Clients : Accept(c) \/ RunPosted(c)
  \/ AcceptFails \/ ContainerStarts \/ ContainerEnds \/ RunReturns

(* The io thread runs the handlers that are ready in the order they became  *)
(* so, whatever others come; a thread of the pool that is free again and    *)
(* again gets to what was posted, but none need ever be.  As a session ends *)
(* once, it is the same to ask this of all sessions together.               *)
Fairness ==
  /\ WF_daemonvars(((Reap \/ FailureGoesOn \/ DropGoesOn) /\ UNCHANGED mainvars) \/ StartForks)
  /\ SF_daemonvars(\E c \in Clients : RunPosted(c))
  /\ SF_daemonvars((\E c \in Clients : ReadEnd(c)) /\ UNCHANGED mainvars)
  /\ SF_daemonvars((\E c \in Clients : LateCallback(c)) /\ ~Full /\ UNCHANGED mainvars)
  /\ SF_daemonvars(Dispatch("SIGTERM")) /\ WF_daemonvars(RunReturns)

DaemonSpec == DaemonInit /\ [][DaemonNext]_daemonvars /\ Fairness

----------------------------------------------------------------------------

(* The variables are of their types; a terminal and a wait are about        *)
(* processes that were forked, and those are the first ones.                *)
DaemonTypeOK ==
  LET forked == {p \in Processes : process[p] # "none"} IN
  /\ process \in [Processes -> {"none", "runs", "ended", "reaped"}]
  /\ \A p \in forked : 1 .. p \subseteq forked
  /\ status \in {"up", "dead", "ended"}
  /\ terminal \in [Clients -> Terminal \cup {NoTerminal}]
  /\ masters \cup {t.pid : t \in {terminal[c] : c \in Clients} \ {NoTerminal}}
       \subseteq forked \cup {0}
  /\ blocked.waits \in forked \cup {0}
  /\ late \subseteq Clients
  /\ connected \subseteq Clients
  /\ told \in [Clients -> SUBSET {"success", "ended"}]
  /\ sessions \in 0 .. MaxSessions /\ strays \in Nat /\ refused \in Nat
  /\ sent \subseteq Signals /\ heard \in sent \cup {Nothing}

(* As long as no client feeds a terminal before it was told of it, or ends  *)
(* or replaces a session before it was told of its end, no call fails and   *)
(* no child misses its jail, the daemon lives, and its one thread waits     *)
(* only for processes that have ended: shell_handler.cc can be used, if     *)
(* only like that, in the presence of any number of other sessions, and     *)
(* even if what is fed has to wait for the shell and is not what was sent   *)
(* by the time it is written.                                               *)
PoliteIsServed ==
  ~spoiled =>
    /\ status # "dead"
    /\ blocked.waits # 0 => process[blocked.waits] = "ended"

(* The double initialize() of a session leaves one process nobody waits for *)
(* and one open descriptor behind, and no more, however sessions are cut    *)
(* short; one that fails leaves at most another descriptor, a signal that   *)
(* interrupts a wait another process.                                       *)
OneLeftPerSession ==
  DaemonTypeOK /\
  LET live == {t \in {terminal[c] : c \in Clients} : t # NoTerminal}
      owned == {t.pid : t \in live} \cup {blocked.waits}
      unreaped == {p \in Processes : process[p] \in {"runs", "ended"}} IN
  /\ Cardinality(unreaped \ owned) <= sessions + Cardinality(sent)
  /\ Cardinality(masters \ owned) + strays <= sessions + refused

\* The io thread cannot go on, or is not there to.
Stuck == status # "up" \/ blocked # Free

(* When the shell of a session that a client was told of ends, the client   *)
(* is told, unless it leaves or orders something else first, or the daemon  *)
(* dies or stays in a wait for another's process, or from some time on all  *)
(* threads of the pool wait for containers, when the read is never set up:  *)
(* no order of the post, output, errors of others and the end loses the     *)
(* end.                                                                     *)
EndIsTold ==
  \A c \in Clients :
    LET Over == /\ terminal[c] # NoTerminal /\ "success" \in told[c]
                /\ process[terminal[c].stream] = "ended" IN
    <>[]Stuck \/ <>[]Full \/ (Over ~> ("ended" \in told[c] \/ terminal[c] = NoTerminal))

(* A SIGTERM ends the daemon once its clients and containers have gone,     *)
(* unless it is not noticed: because a SIGINT has used up the wait for      *)
(* signals, or because a shell or a container was started before, after     *)
(* which the signals are no longer read.                                    *)
TermEndsDaemon ==
  LET Kept == containers > 0 \/ connected # {} \/ blocked # Free
      Unheard == running /\ (~watched \/ heard # Nothing) IN
  <>[](Kept \/ Unheard) \/ ("SIGTERM" \in sent ~> status # "up")
=============================================================================
