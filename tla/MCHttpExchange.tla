--------------------------- MODULE MCHttpExchange ---------------------------
(* Three requests to a host over TLS and one without, with bodies of one    *)
(* part or two, one retry and one redirection of each.  What a first and a  *)
(* second response leave behind, a third can be misled by: when there are   *)
(* three requests, they go to the plain host and have bodies of one part.   *)
EXTENDS HttpExchange

CONSTANT Plain

ThreeArePlain ==
  \/ current' <= 2
  \/ /\ verified' \cup {host'} \subseteq {Plain, NoHost}
     /\ \A c \in Requests : response'[c].length <= 1

MCSpec == ExchangeInit /\ [][ExchangeNext /\ ThreeArePlain]_exchangevars
=============================================================================
