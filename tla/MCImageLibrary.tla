--------------------------- MODULE MCImageLibrary ---------------------------
(* Two repositories and two images, one with two volumes and one without,   *)
(* three rows, two creations: an image under two names, a row that is       *)
(* removed and made again, a container in either of them, an archive of one *)
(* image.  Nothing tells the repositories apart, nor the names.             *)
EXTENDS ImageLibrary, TLC

CONSTANTS i1, i2

MCVolumesOf == [i \in Identifiers |-> IF i = i1 THEN 2 ELSE 0]

MCSymmetry == Permutations(Repositories) \cup Permutations(Names)

(* A bound: what imports change is changed by nothing else but a restart, so*)
(* a behaviour has imports or creations.                                    *)
ImportsOrCreations == creations = 0 \/ (imported = [i \in Archives |-> 0] /\ ~moved)

MCSpec == Init /\ [][Next /\ ImportsOrCreations']_vars
=============================================================================
