----------------------------- MODULE FrameFormat -----------------------------
(* The frames of the local socket: a byte for the target and the operation, *)
(* a byte for the boundary, and for a payload of 126 bytes or more its      *)
(* length in two bytes, of 65536 or more in eight, the highest byte first.  *)
EXTENDS Integers, Sequences

\* The second byte of the header: the length itself, or which bytes follow.
Boundary(length) ==
  IF length < 126 THEN length ELSE IF length < 65536 THEN 126 ELSE 127

\* Bound: lengths below 2^31, whose upper four bytes of eight are zero.
Representable(length) == length \div 65536 < 32768

\* What a byte counts for, from the lowest.
Place == <<1, 256, 65536, 256 * 65536>>

\* (length >> 8k) & 0xff
ByteOf(length, k) == IF k > 3 THEN 0 ELSE (length \div Place[k + 1]) % 256

\* Faulty variant (mutation check): of two bytes, the lowest first.
ExtensionReversed(length) ==
  LET n == CASE Boundary(length) = 126 -> 2 [] Boundary(length) = 127 -> 8 [] OTHER -> 0
  IN  [i \in 1 .. n |-> ByteOf(length, IF n = 2 THEN i - 1 ELSE n - i)]

\* The bytes after the header.
Extension(length) ==
  LET n == CASE Boundary(length) = 126 -> 2 [] Boundary(length) = 127 -> 8 [] OTHER -> 0
  IN  [i \in 1 .. n |-> ByteOf(length, n - i)]

\* length += byte << (8 * (num_bytes - 1 - c)), for one byte after the other.
LengthIn(bytes) ==
  LET upTo[k \in 0 .. Len(bytes)] ==
        IF k = 0 THEN 0 ELSE 256 * upTo[k - 1] + bytes[k]
  IN  upTo[Len(bytes)]

\* What a reader makes of a frame's boundary and of the bytes after it.
LengthRead(boundary, extension) ==
  IF boundary <= 125 THEN boundary ELSE LengthIn(extension)
==============================================================================
