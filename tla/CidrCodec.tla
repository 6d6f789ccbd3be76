----------------------------- MODULE CidrCodec -----------------------------
(***************************************************************************)
(* The two spellings of a CIDR, pkg/flow/utils.go: "10.0.0.1/32" as the    *)
(* main loop makes it from a pod's address, and "0a000001/ffffffff" as the *)
(* kernel shows the match of a u32 filter.  An address is its octets, a    *)
(* hexadecimal text is the sequence of its digits.                         *)
(***************************************************************************)
EXTENDS Naturals, Sequences

Octet == 0 .. 255

\* The octet of a mask that has b of its eight bits set.
MaskOctet(b) == <<0, 128, 192, 224, 240, 248, 252, 254, 255>>[b + 1]

\* How many of the first `bits` bits fall into octet k.
BitsIn(k, bits) ==
  IF bits <= 8 * (k - 1) THEN 0 ELSE IF bits >= 8 * k THEN 8 ELSE bits - 8 * (k - 1)

\* net.IPMask of n octets, and net.IP.Mask.
IPMask(n, bits) == [k \in 1 .. n |-> MaskOctet(BitsIn(k, bits))]
Masked(ip, bits) ==
  [k \in 1 .. Len(ip) |-> ip[k] - (ip[k] % (256 - MaskOctet(BitsIn(k, bits))))]

\* net.IPMask.Size: 0 when the set bits are not in front.
Size(mask) ==
  IF \E b \in 0 .. 8 * Len(mask) : mask = IPMask(Len(mask), b)
  THEN CHOOSE b \in 0 .. 8 * Len(mask) : mask = IPMask(Len(mask), b)
  ELSE 0

\* hex.EncodeToString and hex.DecodeString.
Encode(octets) ==
  [k \in 1 .. 2 * Len(octets) |->
     IF k % 2 = 1 THEN octets[(k + 1) \div 2] \div 16 ELSE octets[k \div 2] % 16]

Decode(digits) ==
  [k \in 1 .. Len(digits) \div 2 |-> 16 * digits[2 * k - 1] + digits[2 * k]]

-----------------------------------------------------------------------------

\* net.ParseCIDR takes the text: an address without octets stands for one that
\* is missing, as of a pod the kubelet has not reported yet.
Parses(cidr) == Len(cidr.ip) \in {4, 16} /\ cidr.bits \in 0 .. 8 * Len(cidr.ip)

\* To4 of an address of sixteen octets is nil, which encodes as no digits.
hexCIDR(cidr) ==
  [ip   |-> IF Len(cidr.ip) = 4 THEN Encode(Masked(cidr.ip, cidr.bits)) ELSE <<>>,
   mask |-> Encode(IPMask(Len(cidr.ip), cidr.bits))]

\* A bug one could write: the size is taken from the wrong part of the text.
asciiCIDRWrongPart(hex) == [ip |-> Decode(hex.ip), bits |-> Size(Decode(hex.ip))]

asciiCIDR(hex) == [ip |-> Decode(hex.ip), bits |-> Size(Decode(hex.mask))]

\* What the main loop asks about: one IPv4 address.
Host(ip) == [ip |-> ip, bits |-> 32]
=============================================================================
