--------------------------- MODULE EthernetFrame ---------------------------
(***************************************************************************)
(* The frames a switch reads and writes, at the level of detail its        *)
(* decisions depend on: the two addresses of the Ethernet header           *)
(* (src/core/ethernet_frame.cpp) and, for an ARP packet that handle_arp    *)
(* accepts, the fields it looks at (struct ArpPacket).  The payload of any *)
(* other frame is never inspected, so it is left out.                      *)
(***************************************************************************)
CONSTANTS
  Mac,     \* 48-bit addresses
  Group,   \* the ones with the I/G bit set: broadcast and multicast
  Ip,      \* IPv4 addresses other than 0.0.0.0
  NoIp     \* 0.0.0.0, the sender address of an ARP probe

ASSUME AddressAssumption == Group \subseteq Mac /\ NoIp \notin Ip

(***************************************************************************)
(* oper is "none" for every frame handle_arp refuses to look at: another   *)
(* ethertype, fewer than 42 bytes, or a hardware or protocol type other    *)
(* than Ethernet and IPv4.  sha, spa and tpa mean nothing in such a frame. *)
(***************************************************************************)
Frame == [src : Mac, dst : Mac,
          oper : {"none", "request", "reply"},
          sha : Mac, spa : Ip \cup {NoIp}, tpa : Ip \cup {NoIp}]

IsMulticast(mac) == mac \in Group

IsArp(f) == f.oper # "none"

(***************************************************************************)
(* The reply handle_arp builds for request f once it knows that f.tpa is   *)
(* at targetMac.                                                           *)
(***************************************************************************)
ArpReply(f, targetMac) ==
  [src |-> targetMac, dst |-> f.sha, oper |-> "reply",
   sha |-> targetMac, spa |-> f.tpa, tpa |-> f.spa]

=============================================================================
