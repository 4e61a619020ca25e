---------------------------- MODULE MCImagePull ----------------------------
(* Two images that share layers, one of which has a layer twice, and an     *)
(* image without layers; the size of a layer is a multiple of 2^16.         *)
EXTENDS ImagePull

CONSTANTS i1, i2, i3, l1, l2

MCLayersOf ==
  [i \in Images |->
     CASE i = i1 -> <<l1, l2>> [] i = i2 -> <<l2, l1, l2>> [] i = i3 -> <<>>]
MCSizeOf == [l \in Layers |-> IF l = l1 THEN 131072 ELSE 70000]
=============================================================================
