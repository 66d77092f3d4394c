----------------------------- MODULE MCOverlay -----------------------------
(***************************************************************************)
(* Instances of Overlay: three players, b (switch 3) announces itself, a   *)
(* (switch 2) asks for b and sends to it.  Port 1 of every switch is its   *)
(* TAP device, if it has one.                                              *)
(***************************************************************************)
EXTENDS Overlay, TLC

CONSTANTS a, b, bcast, ipA, ipB, noIp

MCMac   == {a, b, bcast}
MCGroup == {bcast}
MCIp    == {ipA, ipB}

Data(src, dst) == [src |-> src, dst |-> dst, oper |-> "none",
                   sha |-> src, spa |-> noIp, tpa |-> noIp]
Arp(src, oper, spa, tpa) == [src |-> src, dst |-> bcast, oper |-> oper,
                             sha |-> src, spa |-> spa, tpa |-> tpa]

Letter(no, n, f) == [no |-> no, tap |-> <<n, 1>>, frame |-> f]

BIsHere == Letter(1, 3, Arp(b, "reply", ipB, ipB))
WhoHasB == Letter(2, 2, Arp(a, "request", ipA, ipB))
AToB    == Letter(3, 2, Data(a, b))

MCHome == (a :> <<2, 1>>) @@ (b :> <<3, 1>>)

\* A row with b's switch in the middle: the one at the other end hears b, and is
\* on nobody's way.
RowSwitch  == 2 .. 4
RowPorts   == [n \in RowSwitch |-> IF n = 3 THEN {1, 2, 4} ELSE {1, 3}]
RowLink    == {<<2, 3>>, <<3, 2>>, <<3, 4>>, <<4, 3>>}
RowFar     == [j \in RowLink |-> <<j[2], j[1]>>]
RowBehind  == (<<2, 3>> :> {3, 4}) @@ (<<3, 2>> :> {2}) @@ (<<3, 4>> :> {4}) @@ (<<4, 3>> :> {2, 3})
RowLetters == {BIsHere, WhoHasB, AToB}

\* Every player adds every other one as a peer (README.md:128, three players):
\* port n + 1 of a switch leads to player n.
RingSwitch  == 2 .. 4
RingPorts   == [n \in RingSwitch |-> {1} \cup {k + 1 : k \in RingSwitch \ {n}}]
RingLink    == UNION {{<<n, k + 1>> : k \in RingSwitch \ {n}} : n \in RingSwitch}
RingFar     == [j \in RingLink |-> <<j[2] - 1, j[1] + 1>>]
RingBehind  == [j \in RingLink |-> RingSwitch \ {j[1]}]
RingLetters == {BIsHere}

=============================================================================
