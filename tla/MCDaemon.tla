------------------------------ MODULE MCDaemon ------------------------------
(* Two clients and two sessions, which they share as they like, so that one *)
(* is held up by the other or begins its second where its first has been;   *)
(* or one session, with signals, a container, which takes the last thread   *)
(* of the pool, and accepts that fail.                                      *)
EXTENDS Daemon

OneOrTheOther ==
  \/ sent' = {} /\ accepting' /\ containers' = 0
  \/ sessions' <= 1 /\ Cardinality(connected') <= 1

\* No action that is to be fair is kept from happening.
MCSpec == DaemonInit /\ [][DaemonNext /\ OneOrTheOther]_daemonvars /\ Fairness
=============================================================================
