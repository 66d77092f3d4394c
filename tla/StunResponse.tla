---------------------------- MODULE StunResponse ----------------------------
(***************************************************************************)
(* How get_public_address (stun_client.cpp) finds the mapped port in the   *)
(* bytes of a STUN response, attribute by attribute, and how a STUN server *)
(* writes them.  Offsets count from 0, as in the code.  The type, cookie   *)
(* and transaction id of the header are not spelled out here, nor is the   *)
(* IP address beside the port.                                             *)
(***************************************************************************)
EXTENDS Integers, Sequences

HEADER_SIZE        == 20
RESPONSE_SIZE      == 512
MAPPED_ADDRESS     == 1   \* STUN_ATTR_MAPPED_ADDRESS
XOR_MAPPED_ADDRESS == 32  \* STUN_ATTR_XOR_MAPPED_ADDRESS
IPV4               == 1

\* recv() drops the rest of a longer datagram.
Received(r) == IF Len(r) > RESPONSE_SIZE THEN SubSeq(r, 1, RESPONSE_SIZE) ELSE r

\* The buffer of the response is zero beyond what was received.
At(r, i) == IF i < Len(r) THEN r[i + 1] ELSE 0

Half(r, i) == At(r, i) * 256 + At(r, i + 1)

Flip(n, bit) == IF (n \div bit) % 2 = 0 THEN n + bit ELSE n - bit

\* port ^ 0x2112
XorCookie(port) == Flip(Flip(Flip(Flip(port, 8192), 256), 16), 2)

----------------------------------------------------------------------------
(* The loop, with the attribute that starts at o.                          *)

AttrsEnd(r) ==
  LET announced == HEADER_SIZE + Half(r, 2)
  IN IF announced < Len(r) THEN announced ELSE Len(r)

HasAttr(r, o) == o + 4 <= AttrsEnd(r)

AttrType(r, o)   == Half(r, o)
AttrLength(r, o) == Half(r, o + 2)

\* Mutant: what the attribute says of its length is believed
OverrunsNever(r, o) == FALSE

Overruns(r, o) == o + 4 + AttrLength(r, o) > Len(r)

IsAddress(r, o) == AttrType(r, o) \in {MAPPED_ADDRESS, XOR_MAPPED_ADDRESS}

IsShort(r, o) == IsAddress(r, o) /\ AttrLength(r, o) < 8

IsIPv4(r, o) == IsAddress(r, o) /\ At(r, o + 5) = IPV4

MappedPort(r, o) ==
  IF AttrType(r, o) = XOR_MAPPED_ADDRESS THEN XorCookie(Half(r, o + 6)) ELSE Half(r, o + 6)

\* Mutant: no padding to four bytes
NextAttrUnpadded(r, o) == o + 4 + AttrLength(r, o)

NextAttr(r, o) == o + 4 + ((AttrLength(r, o) + 3) \div 4) * 4

\* The bytes an iteration reads
BytesRead(r, o) ==
  IF ~ HasAttr(r, o) THEN {}
  ELSE o .. o + (IF IsAddress(r, o) /\ ~ Overruns(r, o) /\ ~ IsShort(r, o) THEN 11 ELSE 3)

----------------------------------------------------------------------------
(* What a STUN server writes: attributes one after another, each with its  *)
(* type, the length of its value and, for an address, the family and the   *)
(* port, padded to a multiple of four bytes.  An answer is a record of the *)
(* attributes, the offsets at which they start and the last one ends, and  *)
(* the bytes.                                                              *)

CarriesAddress(attr) == attr.type \in {MAPPED_ADDRESS, XOR_MAPPED_ADDRESS}

\* The bytes from offset o to offset end are the attribute.
Written(bytes, o, end, attr) ==
  /\ o + 4 + attr.length <= end /\ end < o + 8 + attr.length
  /\ Half(bytes, o) = attr.type /\ Half(bytes, o + 2) = attr.length
  /\ CarriesAddress(attr) =>
       /\ attr.length >= 8 /\ attr.port \in Nat
       /\ At(bytes, o + 5) = attr.family
       /\ Half(bytes, o + 6) =
            IF attr.type = XOR_MAPPED_ADDRESS THEN XorCookie(attr.port) ELSE attr.port

IsAnswer(a) ==
  /\ a.bytes \in Seq(0 .. 255)
  /\ a.starts \in Seq({o \in HEADER_SIZE .. Len(a.bytes) : o % 4 = 0})
  /\ Len(a.starts) \in Nat \ {0} /\ DOMAIN a.attrs = 1 .. Len(a.starts) - 1
  /\ a.starts[1] = HEADER_SIZE /\ a.starts[Len(a.starts)] = Len(a.bytes)
  /\ Half(a.bytes, 2) = Len(a.bytes) - HEADER_SIZE
  /\ \A k \in DOMAIN a.attrs : Written(a.bytes, a.starts[k], a.starts[k + 1], a.attrs[k])

\* The port of the first IPv4 address, if there is one: {} or {port}
FirstMapped(attrs) ==
  LET mapped == {i \in DOMAIN attrs : CarriesAddress(attrs[i]) /\ attrs[i].family = IPV4}
  IN {attrs[i].port : i \in {j \in mapped : \A k \in mapped : j <= k}}

=============================================================================
