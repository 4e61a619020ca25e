---------------------------- MODULE AddressPool ----------------------------
(* The arithmetic of one IPv4 address pool, as address_provider keeps it:   *)
(* the range a CIDR block spans and the std::map from identifiers to the    *)
(* addresses they hold, "taken".  An address is a number; a block is an     *)
(* address in it and the number of addresses its mask leaves it.            *)
EXTENDS Integers, FiniteSets

\* The all-ones word shifted left by width - prefix masks blocks of this size.
BlockSize(width, prefix) == 2 ^ (width - prefix)

\* The block's first address is addr & mask, its last is first | ~mask.
FirstAddress(cidr) == cidr.address - (cidr.address % cidr.size)
LastAddress(cidr) == FirstAddress(cidr) + cidr.size - 1

\* Faulty variant (mutation check): the broadcast address is part of the range.
PoolRangeWithLast(cidr) == FirstAddress(cidr) .. LastAddress(cidr)

\* asio::ip::address_v4_range(first, last) does not contain last.
PoolRange(cidr) == FirstAddress(cidr) .. (LastAddress(cidr) - 1)

Free(range, taken) == {a \in range : \A id \in DOMAIN taken : taken[id] # a}

\* Faulty variant (mutation check): as many addresses in as there are entries.
IsNextByCount(a, range, taken) ==
  /\ a \in range
  /\ Cardinality({b \in range : b < a}) = Cardinality(DOMAIN taken)

\* std::find_if_not over the range stops at the lowest address nobody holds.
IsFirstFree(a, range, taken) ==
  /\ a \in Free(range, taken)
  /\ \A b \in Free(range, taken) : a <= b

\* Faulty variant (mutation check): insert_or_assign in place of emplace.
InsertOrAssign(taken, id, a) ==
  [i \in DOMAIN taken \cup {id} |-> IF i = id THEN a ELSE taken[i]]

\* std::map::emplace leaves the entry of an identifier it finds.
Emplace(taken, id, a) ==
  IF id \in DOMAIN taken
  THEN taken
  ELSE [i \in DOMAIN taken \cup {id} |-> IF i = id THEN a ELSE taken[i]]

Erase(taken, id) == [i \in DOMAIN taken \ {id} |-> taken[i]]

\* The two reserved entries are not counted.
TotalTaken(taken) == Cardinality(DOMAIN taken) - 2

\* Nobody shares an address with anybody else.
Injective(taken) ==
  \A i, j \in DOMAIN taken : taken[i] = taken[j] => i = j
=============================================================================
