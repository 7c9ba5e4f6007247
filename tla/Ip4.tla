---------------------------------- MODULE Ip4 ----------------------------------
(***************************************************************************)
(* IPv4 addresses and masks (core/ip4.hpp) as the sets of their bits that  *)
(* are 1, bit 0 the least significant.                                     *)
(***************************************************************************)
EXTENDS Integers, FiniteSets

CONSTANTS
    Octets,         \* of an address: 4
    OctetBits,      \* 8
    NoAddress       \* what is absent, or does not parse

ASSUME WidthAssumption == Octets \in Nat \ {0} /\ OctetBits \in Nat \ {0}

Width == Octets * OctetBits
Bits == 0..(Width - 1)
Addresses == SUBSET Bits

ASSUME AddressAssumption == \A address \in Addresses : address # NoAddress

PrefixLengthFromMask(mask) == Cardinality(mask)

\* Of a mask in dotted form, which may not parse.
PrefixLength(mask) == IF mask = NoAddress THEN 0 ELSE PrefixLengthFromMask(mask)

\* A shift by a negative amount is undefined: it wraps around the width of the
\* word, or yields 0.
MaskFromPrefix(length, wraps) ==
    CASE length <= 0 -> {}
      [] length > 0 /\ (length <= Width \/ wraps) ->
            {bit \in Bits : bit >= (Width - length) % Width}
      [] length > Width /\ ~wraps -> {}

NetworkAddress(address, mask) ==
    IF NoAddress \in {address, mask} THEN NoAddress ELSE address \cap mask

\* A word with its octets in the opposite order.
Swapped(bits) ==
    {(Octets - 1 - bit \div OctetBits) * OctetBits + (bit % OctetBits) : bit \in bits}

=============================================================================
