------------------------ MODULE MCContainerRuntime ------------------------
(* One container, two objects and one logging session: the object in the    *)
(* map and one that outlives a stop or that a second start makes and drops. *)
(* The pool's thread is the last that other containers leave; either it is  *)
(* taken or the daemon crashes.  The volume is mounted in the folder.       *)
EXTENDS ContainerRuntime

OneOrTheOther ==
  \/ crashes' = 0
  \/ late' = {} /\ \A c \in Containers : host'[c].held = 0

\* No action that is to be fair is kept from happening.
MCSpec ==
  /\ Init /\ \A c \in Containers : host[c].inside
  /\ [][Next /\ OneOrTheOther]_vars
  /\ Fairness
===========================================================================
