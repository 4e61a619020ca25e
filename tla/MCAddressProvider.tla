------------------------- MODULE MCAddressProvider -------------------------
(* Every block of a three-bit address space: seven addresses besides the    *)
(* broadcast address, three (a single container exhausts them), and the     *)
(* code's /31 and /32, over which initialize() has no second address.       *)
EXTENDS AddressProvider

Width == 3
MCCidrs ==
  {[address |-> a, size |-> BlockSize(Width, prefix)] :
     a \in 0 .. (2 ^ Width - 1), prefix \in 0 .. Width}
=============================================================================
