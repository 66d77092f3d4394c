------------------------------ MODULE MCSwitch ------------------------------
(***************************************************************************)
(* Two hosts that may be heard on any port, and the frames that exercise   *)
(* every path of the handler: unicast, an ARP request that can be answered *)
(* from the table, and an announcement.                                    *)
(***************************************************************************)
EXTENDS VirtualSwitch

CONSTANTS a, b, bcast, ipA, ipB, noIp

MCMac   == {a, b, bcast}
MCGroup == {bcast}
MCIp    == {ipA, ipB}

Data(src, dst) == [src |-> src, dst |-> dst, oper |-> "none",
                   sha |-> src, spa |-> noIp, tpa |-> noIp]
Arp(src, dst, oper, spa, tpa) == [src |-> src, dst |-> dst, oper |-> oper,
                                  sha |-> src, spa |-> spa, tpa |-> tpa]

AToB     == Data(a, b)
WhoHasB  == Arp(a, bcast, "request", ipA, ipB)
BIsHere  == Arp(b, bcast, "reply", ipB, ipB)

AgingFrames == {AToB, WhoHasB, BIsHere}
LoopFrames  == {AToB}

=============================================================================
