------------------------------- MODULE MCLink -------------------------------
(***************************************************************************)
(* Side 1 is behind a NAT that moves it, side 2 behind one that does not.  *)
(***************************************************************************)
EXTENDS UdpLink

Shared == <<10, 20>>
Ports  == {10, 11, 20}

Unkeyed == <<NoKey, NoKey>>
Keyed   == <<"k", "k">>

OneSide == {1}

\* Only keepalives; frames of the side that is moved
Idle   == <<{}, {}>>
OneWay == <<{"f"}, {}>>

\* The largest frame there is, and the smallest
Sizes == [f |-> MAX_FRAME, g |-> 14]

\* Datagrams from elsewhere; with a key, also from the peer's address
OtherIp == {"other"}
AnyIp   == {"peer", "other"}

\* A plain frame reaches a port that expects a sealed one
StrayFrame == [kind |-> "frame", key |-> NoKey, frame |-> "g"]
AnyStray   == {Punch, Malformed, StrayFrame}
StrayKinds == {Malformed, StrayFrame}

=============================================================================
