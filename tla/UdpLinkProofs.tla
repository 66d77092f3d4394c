--------------------------- MODULE UdpLinkProofs ---------------------------
(***************************************************************************)
(* Whom a UdpPort sends to, for every pair of keys, every set of ports, of *)
(* frames and of stray datagrams, and sockets and fault budgets of any     *)
(* size.                                                                   *)
(***************************************************************************)
EXTENDS UdpLink, TLAPS

Received == [ip : {"peer", "other"}, from : PortNumber, body : Body]
InFlight == [from : PortNumber, to : PortNumber, body : Body]

\* What a read of s that may still come will learn: C is the set of ports it
\* may learn, given what is buffered and on its way.
Teaches(s, C) ==
  /\ \A d \in net[s] : d.body.kind = "frame" \/ Key[s] = NoKey => d.from \in C
  /\ \A i \in 1 .. Len(inbox[s]) : Learns(s, inbox[s][i]) => inbox[s][i].from \in C

SameKey(s) == Key[s] # NoKey /\ Key[s] = Key[Peer(s)]

AuthenticInv ==
  \A s \in Side : SameKey(s) =>
    /\ Teaches(s, spoke[Peer(s)])
    /\ remote_port[s] \in {Configured(s)} \cup spoke[Peer(s)]

Steady(s) == Peer(s) \notin Roaming /\ ("peer" \in StrayIps => Key[s] # NoKey)

SteadyInv ==
  \A s \in Side : Steady(s) =>
    /\ ext[Peer(s)] = SharedPort[Peer(s)]
    /\ Teaches(s, {SharedPort[Peer(s)]})
    /\ remote_port[s] = SharedPort[Peer(s)]

LEMMA Peers ==
  ASSUME NEW s \in Side
  PROVE  Peer(s) \in Side /\ Peer(Peer(s)) = s /\ Peer(s) # s
BY DEF Side, Peer

LEMMA Queues ==
  ASSUME NEW S, NEW q \in Seq(S)
  PROVE  /\ q # <<>> => /\ Head(q) = q[1] /\ 1 \in 1 .. Len(q) /\ Tail(q) \in Seq(S)
                        /\ \A i \in 1 .. Len(Tail(q)) :
                             i + 1 \in 1 .. Len(q) /\ Tail(q)[i] = q[i + 1]
         /\ \A d \in S : /\ Append(q, d) \in Seq(S)
                         /\ \A i \in 1 .. Len(Append(q, d)) :
                              \/ i \in 1 .. Len(q) /\ Append(q, d)[i] = q[i]
                              \/ Append(q, d)[i] = d
<1>1. ASSUME q # <<>>
      PROVE  /\ Head(q) = q[1] /\ 1 \in 1 .. Len(q) /\ Tail(q) \in Seq(S)
             /\ \A i \in 1 .. Len(Tail(q)) :
                  i + 1 \in 1 .. Len(q) /\ Tail(q)[i] = q[i + 1]
  BY <1>1
<1>2. ASSUME NEW d \in S
      PROVE  /\ Append(q, d) \in Seq(S)
             /\ \A i \in 1 .. Len(Append(q, d)) :
                  \/ i \in 1 .. Len(q) /\ Append(q, d)[i] = q[i]
                  \/ Append(q, d)[i] = d
  OBVIOUS
<1> QED BY <1>1, <1>2

----------------------------------------------------------------------------
LEMMA LinkInitially ==
  ASSUME LinkAssumption, Init
  PROVE  TypeOK /\ AuthenticInv /\ SteadyInv
<1>1. \A s \in Side : Configured(s) \in PortNumber /\ SharedPort[s] \in PortNumber
  BY Peers DEF LinkAssumption, Configured
<1>2. Punch \in Body /\ Punch.kind = "punch"
  BY DEF Body, Punch
<1>3. <<>> \in Seq(Received) /\ Len(<<>>) = 0 /\ 1 .. 0 = {}
  OBVIOUS
<1>4. TypeOK
  <2>1. net \in [Side -> SUBSET InFlight]
    <3>1. ASSUME NEW s \in Side
          PROVE  Datagram(ext[Peer(s)], SharedPort[s], Punch) \in InFlight
      BY <1>1, <1>2, Peers DEF Init, Datagram, InFlight
    <3> QED BY <3>1 DEF Init
  <2>2. inbox \in [Side -> Seq(Received)]
    BY <1>3 DEF Init
  <2> QED BY <1>1, <2>1, <2>2 DEF Init, TypeOK, Received, InFlight
<1>5. ASSUME NEW s \in Side, NEW C, Key[s] # NoKey \/ ext[Peer(s)] \in C
      PROVE  Teaches(s, C)
  <2>1. net[s] = {Datagram(ext[Peer(s)], SharedPort[s], Punch)} /\ inbox[s] = <<>>
    BY DEF Init
  <2> QED BY <1>2, <1>3, <1>5, <2>1 DEF Teaches, Datagram
<1>6. AuthenticInv
  BY <1>5, Peers DEF AuthenticInv, SameKey, Init
<1>7. SteadyInv
  BY <1>5, Peers DEF SteadyInv, Steady, Init, Configured
<1> QED BY <1>4, <1>6, <1>7

----------------------------------------------------------------------------
(***************************************************************************)
(* Types.                                                                  *)
(***************************************************************************)
LEMMA SendTypes ==
  ASSUME TypeOK, NEW s \in Side, NEW port \in PortNumber, NEW body \in Body,
         Send(s, port, body)
  PROVE  /\ opened' \in [Side -> BOOLEAN] /\ net' \in [Side -> SUBSET InFlight]
         /\ \A q \in Side : net'[q] \subseteq
              IF q = Peer(s) THEN net[q] \cup {Datagram(ext[s], port, body)} ELSE net[q]
<1>1. Datagram(ext[s], port, body) \in InFlight
  BY DEF TypeOK, Datagram, InFlight
<1>2. net \in [Side -> SUBSET InFlight] /\ opened \in [Side -> BOOLEAN]
  BY DEF TypeOK, InFlight
<1>3. net' = [net EXCEPT ![Peer(s)] = @ \cup {Datagram(ext[s], port, body)}]
  BY DEF Send
<1>4. opened' \in [Side -> BOOLEAN]
  BY <1>2 DEF Send
<1> QED BY <1>1, <1>2, <1>3, <1>4, Peers

LEMMA LinkTypes ==
  ASSUME LinkAssumption, TypeOK, Next
  PROVE  TypeOK'
<1>1. PICK s \in Side :
        Keepalive(s) \/ WriteSome(s) \/ Read(s) \/ Restart(s) \/ Network(s)
  BY DEF Next
<1>2. /\ remote_port \in [Side -> PortNumber] /\ ext \in [Side -> PortNumber]
      /\ inbox \in [Side -> Seq(Received)] /\ net \in [Side -> SUBSET InFlight]
      /\ opened \in [Side -> BOOLEAN] /\ spoke \in [Side -> SUBSET PortNumber]
  BY DEF TypeOK, Received, InFlight
<1>3. ASSUME
        /\ remote_port' \in [Side -> PortNumber] /\ ext' \in [Side -> PortNumber]
        /\ inbox' \in [Side -> Seq(Received)] /\ net' \in [Side -> SUBSET InFlight]
        /\ opened' \in [Side -> BOOLEAN] /\ spoke' \in [Side -> SUBSET PortNumber]
      PROVE  TypeOK'
  BY <1>3 DEF TypeOK, Received, InFlight
<1>4. Configured(s) \in PortNumber /\ Punch \in Body
  BY Peers DEF LinkAssumption, Configured, Body
<1>5. CASE Keepalive(s)
  BY <1>2, <1>3, <1>4, <1>5, SendTypes DEF Keepalive
<1>6. ASSUME NEW frame \in Frames[s], Write(s, frame)
      PROVE  TypeOK'
  <2>1. [kind |-> "frame", key |-> Key[s], frame |-> frame] \in Body
    BY DEF Body, Packet
  <2> QED BY <1>2, <1>3, <1>6, <2>1, SendTypes DEF Write
<1>7. CASE Read(s)
  <2>1. Head(inbox[s]) \in Received /\ Tail(inbox[s]) \in Seq(Received)
    BY <1>2, <1>7 DEF Read
  <2>2. remote_port' \in [Side -> PortNumber]
    BY <1>2, <1>7, <2>1 DEF Read, Received
  <2> QED BY <1>2, <1>3, <1>7, <2>1, <2>2 DEF Read, nat
<1>8. CASE Restart(s)
  BY <1>2, <1>3, <1>4, <1>8, SendTypes DEF Restart
<1>9. ASSUME NEW d \in net[s], Arrive(s, d)
      PROVE  TypeOK'
  <2>1. [ip |-> "peer", from |-> d.from, body |-> d.body] \in Received
    BY <1>2 DEF InFlight, Received
  <2>2. inbox' \in [Side -> Seq(Received)]
    BY <1>2, <1>9, <2>1 DEF Arrive
  <2> QED BY <1>2, <1>3, <1>9, <2>2 DEF Arrive, nat
<1>10. ASSUME NEW port \in PortNumber, Remap(s, port)
       PROVE  TypeOK'
  BY <1>2, <1>3, <1>10 DEF Remap
<1>11. ASSUME NEW port \in PortNumber, NEW ip \in StrayIps, NEW body \in StrayBodies,
              Stray(s, ip, port, body)
       PROVE  TypeOK'
  <2>1. [ip |-> ip, from |-> port, body |-> body] \in Received
    BY DEF Received, LinkAssumption, Body
  <2>2. inbox' \in [Side -> Seq(Received)]
    BY <1>2, <1>11, <2>1 DEF Stray
  <2> QED BY <1>2, <1>3, <1>11, <2>2 DEF Stray, nat
<1> QED BY <1>1, <1>5, <1>6, <1>7, <1>8, <1>9, <1>10, <1>11 DEF WriteSome, Network

----------------------------------------------------------------------------
(***************************************************************************)
(* What a step can bring to side q, whoever takes it.                      *)
(***************************************************************************)
\* A new datagram comes from the peer's current port; a frame makes it spoken.
NewInNet(q) ==
  \A d \in net'[q] :
    \/ d \in net[q]
    \/ /\ d.from = ext[Peer(q)]
       /\ d.body.kind = "frame" => ext[Peer(q)] \in spoke'[Peer(q)]

\* What is buffered was buffered, was on its way, or teaches nothing unless
\* there is no key and other programs use the peer's address.
NewInInbox(q) ==
  \A i \in 1 .. Len(inbox'[q]) :
    \/ \E j \in 1 .. Len(inbox[q]) : inbox'[q][i] = inbox[q][j]
    \/ \E d \in net[q] : inbox'[q][i].from = d.from /\ inbox'[q][i].body = d.body
    \/ Learns(q, inbox'[q][i]) => Key[q] = NoKey /\ "peer" \in StrayIps

NewPort(q) ==
  \/ remote_port'[q] = remote_port[q]
  \/ remote_port'[q] = Configured(q)
  \/ \E j \in 1 .. Len(inbox[q]) :
       Learns(q, inbox[q][j]) /\ remote_port'[q] = inbox[q][j].from

Brings(q) ==
  /\ NewInNet(q) /\ NewInInbox(q) /\ NewPort(q)
  /\ spoke[q] \subseteq spoke'[q]
  /\ ext'[q] = ext[q] \/ q \in Roaming

LEMMA SameInbox ==
  ASSUME NEW q \in Side, inbox'[q] = inbox[q] \/ inbox'[q] = <<>>
  PROVE  NewInInbox(q)
<1>1. CASE inbox'[q] = <<>>
  <2>1. 1 .. Len(inbox'[q]) = {}
    BY <1>1
  <2> QED BY <2>1 DEF NewInInbox
<1> QED BY <1>1 DEF NewInInbox

LEMMA StepBrings ==
  ASSUME LinkAssumption, KeyAssumption, TypeOK, Next, NEW q \in Side
  PROVE  Brings(q)
<1>1. PICK s \in Side :
        Keepalive(s) \/ WriteSome(s) \/ Read(s) \/ Restart(s) \/ Network(s)
  BY DEF Next
<1>2. /\ remote_port \in [Side -> PortNumber] /\ ext \in [Side -> PortNumber]
      /\ inbox \in [Side -> Seq(Received)] /\ net \in [Side -> SUBSET InFlight]
      /\ spoke \in [Side -> SUBSET PortNumber]
      /\ Configured(s) \in PortNumber /\ Punch \in Body /\ Punch.kind = "punch"
  BY Peers DEF TypeOK, Received, InFlight, LinkAssumption, Configured, Body, Punch
<1>3. CASE Keepalive(s)
  <2>1. NewInNet(q)
    BY <1>2, <1>3, SendTypes, Peers DEF Keepalive, NewInNet, Datagram
  <2> QED BY <1>3, <2>1, SameInbox DEF Keepalive, Brings, NewPort
<1>4. ASSUME NEW frame \in Frames[s], Write(s, frame)
      PROVE  Brings(q)
  <2>1. [kind |-> "frame", key |-> Key[s], frame |-> frame] \in Body
    BY DEF Body, Packet
  <2>2. ext[s] \in spoke'[s] /\ spoke[q] \subseteq spoke'[q]
    BY <1>2, <1>4 DEF Write
  <2>3. NewInNet(q)
    BY <1>2, <1>4, <2>1, <2>2, SendTypes, Peers DEF Write, NewInNet, Datagram
  <2> QED BY <1>4, <2>2, <2>3, SameInbox DEF Write, Brings, NewPort
<1>5. CASE Read(s)
  <2>1. NewInNet(q)
    BY <1>5 DEF Read, NewInNet
  <2>2. CASE q # s
    <3>1. inbox'[q] = inbox[q] /\ remote_port'[q] = remote_port[q]
      BY <1>2, <1>5, <2>2 DEF Read
    <3> QED BY <1>5, <2>1, <3>1, SameInbox DEF Read, nat, Brings, NewPort
  <2>3. CASE q = s
    <3>1. /\ inbox'[q] = Tail(inbox[q]) /\ inbox[q] # <<>> /\ inbox[q] \in Seq(Received)
          /\ Head(inbox[q]) = inbox[q][1] /\ 1 \in 1 .. Len(inbox[q])
      BY <1>2, <1>5, <2>3, Queues DEF Read
    <3>2. \A i \in 1 .. Len(Tail(inbox[q])) :
            i + 1 \in 1 .. Len(inbox[q]) /\ Tail(inbox[q])[i] = inbox[q][i + 1]
      BY <3>1, Queues
    <3>3. NewInInbox(q)
      <4> SUFFICES ASSUME NEW i \in 1 .. Len(inbox'[q])
                   PROVE  \E j \in 1 .. Len(inbox[q]) : inbox'[q][i] = inbox[q][j]
        BY DEF NewInInbox
      <4>1. i + 1 \in 1 .. Len(inbox[q]) /\ inbox'[q][i] = inbox[q][i + 1]
        BY <3>1, <3>2
      <4> QED BY <4>1
    <3>4. NewPort(q)
      BY <1>2, <1>5, <2>3, <3>1 DEF Read, NewPort
    <3> QED BY <1>5, <2>1, <3>3, <3>4 DEF Read, nat, Brings
  <2> QED BY <2>2, <2>3
<1>6. CASE Restart(s)
  <2>1. NewInNet(q)
    BY <1>2, <1>6, SendTypes, Peers DEF Restart, NewInNet, Datagram
  <2>2. NewInInbox(q)
    BY <1>2, <1>6, SameInbox DEF Restart
  <2>3. NewPort(q)
    BY <1>2, <1>6 DEF Restart, NewPort
  <2> QED BY <1>6, <2>1, <2>2, <2>3 DEF Restart, Brings
<1>7. ASSUME NEW d \in net[s], Arrive(s, d)
      PROVE  Brings(q)
  <2> DEFINE m == [ip |-> "peer", from |-> d.from, body |-> d.body]
  <2>1. NewInNet(q)
    BY <1>2, <1>7 DEF Arrive, NewInNet
  <2>2. m \in Received /\ m.from = d.from /\ m.body = d.body
    BY <1>2 DEF InFlight, Received
  <2>3. inbox'[q] = IF q = s THEN Append(inbox[q], m) ELSE inbox[q]
    BY <1>2, <1>7 DEF Arrive
  <2>4. inbox[q] \in Seq(Received)
    BY <1>2
  <2> HIDE DEF m
  <2>5. \A i \in 1 .. Len(Append(inbox[q], m)) :
          \/ i \in 1 .. Len(inbox[q]) /\ Append(inbox[q], m)[i] = inbox[q][i]
          \/ Append(inbox[q], m)[i] = m
    BY <2>2, <2>4, Queues
  <2>6. NewInInbox(q)
    BY <1>7, <2>2, <2>3, <2>5, SameInbox DEF NewInInbox
  <2> QED BY <1>7, <2>1, <2>6 DEF Arrive, nat, Brings, NewPort
<1>8. ASSUME NEW port \in PortNumber, Remap(s, port)
      PROVE  Brings(q)
  <2>1. ext'[q] = ext[q] \/ q \in Roaming
    BY <1>2, <1>8 DEF Remap
  <2> QED BY <1>8, <2>1, SameInbox DEF Remap, Brings, NewInNet, NewPort
<1>9. ASSUME NEW port \in PortNumber, NEW ip \in StrayIps, NEW body \in StrayBodies,
             Stray(s, ip, port, body)
      PROVE  Brings(q)
  <2> DEFINE m == [ip |-> ip, from |-> port, body |-> body]
  <2>1. m \in Received /\ (Learns(s, m) => Key[s] = NoKey /\ "peer" \in StrayIps)
    BY DEF Received, LinkAssumption, KeyAssumption, Body, Learns, Accepts, FromPeer
  <2>2. inbox'[q] = IF q = s THEN Append(inbox[q], m) ELSE inbox[q]
    BY <1>2, <1>9 DEF Stray
  <2>3. inbox[q] \in Seq(Received)
    BY <1>2
  <2> HIDE DEF m
  <2>4. \A i \in 1 .. Len(Append(inbox[q], m)) :
          \/ i \in 1 .. Len(inbox[q]) /\ Append(inbox[q], m)[i] = inbox[q][i]
          \/ Append(inbox[q], m)[i] = m
    BY <2>1, <2>3, Queues
  <2>5. NewInInbox(q)
    BY <2>1, <2>2, <2>4, SameInbox DEF NewInInbox
  <2> QED BY <1>9, <2>5 DEF Stray, nat, Brings, NewInNet, NewPort
<1> QED BY <1>1, <1>3, <1>4, <1>5, <1>6, <1>7, <1>8, <1>9 DEF WriteSome, Network

LEMMA StepTeaches ==
  ASSUME NEW q \in Side, NEW C, NEW D, C \subseteq D, Brings(q), Teaches(q, C),
         "peer" \in StrayIps => Key[q] # NoKey,
         ext[Peer(q)] \in D \/ (Key[q] # NoKey /\ spoke'[Peer(q)] \subseteq D)
  PROVE  /\ \A d \in net'[q] : d.body.kind = "frame" \/ Key[q] = NoKey => d.from \in D
         /\ \A i \in 1 .. Len(inbox'[q]) :
              Learns(q, inbox'[q][i]) => inbox'[q][i].from \in D
<1>1. \A d \in net'[q] : d.body.kind = "frame" \/ Key[q] = NoKey => d.from \in D
  BY DEF Brings, NewInNet, Teaches
<1>2. ASSUME NEW i \in 1 .. Len(inbox'[q]), Learns(q, inbox'[q][i])
      PROVE  inbox'[q][i].from \in D
  BY <1>2 DEF Brings, NewInInbox, Teaches, Learns, Accepts
<1> QED BY <1>1, <1>2

----------------------------------------------------------------------------
LinkInv == TypeOK /\ AuthenticInv /\ SteadyInv

LEMMA LinkStep ==
  ASSUME LinkAssumption, KeyAssumption, LinkInv, [Next]_vars
  PROVE  LinkInv'
<1>1. CASE UNCHANGED vars
  BY <1>1 DEF LinkInv, vars, nat, TypeOK, AuthenticInv, SteadyInv, Teaches
<1>2. CASE Next
  <2>1. TypeOK /\ TypeOK' /\ \A q \in Side : Brings(q)
    BY <1>2, LinkTypes, StepBrings DEF LinkInv
  <2>2. AuthenticInv'
    <3> SUFFICES ASSUME NEW q \in Side, SameKey(q)
                 PROVE  /\ Teaches(q, spoke[Peer(q)])'
                        /\ remote_port'[q] \in {Configured(q)} \cup spoke'[Peer(q)]
      BY DEF AuthenticInv, SameKey
    <3>1. /\ Teaches(q, spoke[Peer(q)])
          /\ remote_port[q] \in {Configured(q)} \cup spoke[Peer(q)]
          /\ Peer(q) \in Side /\ Key[q] # NoKey
      BY Peers DEF LinkInv, AuthenticInv, SameKey
    <3>2. spoke[Peer(q)] \subseteq spoke'[Peer(q)]
      BY <2>1, <3>1 DEF Brings
    <3>3. Teaches(q, spoke[Peer(q)])'
      BY <2>1, <3>1, <3>2, StepTeaches DEF Teaches
    <3>4. remote_port'[q] \in {Configured(q)} \cup spoke'[Peer(q)]
      BY <2>1, <3>1, <3>2 DEF Brings, NewPort, Teaches
    <3> QED BY <3>3, <3>4
  <2>3. SteadyInv'
    <3> SUFFICES ASSUME NEW q \in Side, Steady(q)
                 PROVE  /\ ext'[Peer(q)] = SharedPort[Peer(q)]
                        /\ Teaches(q, {SharedPort[Peer(q)]})'
                        /\ remote_port'[q] = SharedPort[Peer(q)]
      BY DEF SteadyInv, Steady
    <3>1. /\ ext[Peer(q)] = SharedPort[Peer(q)]
          /\ Teaches(q, {SharedPort[Peer(q)]})
          /\ remote_port[q] = SharedPort[Peer(q)]
          /\ Peer(q) \in Side /\ Peer(q) \notin Roaming
          /\ "peer" \in StrayIps => Key[q] # NoKey
      BY Peers DEF LinkInv, SteadyInv, Steady
    <3>2. ext'[Peer(q)] = SharedPort[Peer(q)]
      BY <2>1, <3>1 DEF Brings
    <3>3. Teaches(q, {SharedPort[Peer(q)]})'
      BY <2>1, <3>1, StepTeaches DEF Teaches
    <3>4. remote_port'[q] = SharedPort[Peer(q)]
      BY <2>1, <3>1 DEF Brings, NewPort, Teaches, Configured
    <3> QED BY <3>2, <3>3, <3>4
  <2> QED BY <2>1, <2>2, <2>3 DEF LinkInv
<1> QED BY <1>1, <1>2

LEMMA LinkInvariant ==
  ASSUME LinkAssumption, KeyAssumption
  PROVE  Spec => []LinkInv
<1>1. Init => LinkInv
  BY LinkInitially DEF LinkInv
<1>2. LinkInv /\ [Next]_vars => LinkInv'
  BY LinkStep
<1> QED BY <1>1, <1>2, PTL DEF Spec

\* Ports, sockets, mappings and datagrams have their types; in particular
\* remote_addr_.sin_port is a port of a NAT and never zero.
THEOREM LinkTypeCorrect ==
  ASSUME LinkAssumption, KeyAssumption
  PROVE  Spec => []TypeOK
<1>1. LinkInv => TypeOK
  BY DEF LinkInv
<1> QED BY <1>1, LinkInvariant, PTL

\* What README.md says of --key: a change of the peer's port is honored only
\* when it comes with a datagram sealed under that key, whatever other
\* programs send, from the peer's address or elsewhere.
THEOREM PortsOnlyFromPeer ==
  ASSUME LinkAssumption, KeyAssumption
  PROVE  Spec => []PortsAuthenticated
<1>1. LinkInv => PortsAuthenticated
  BY DEF LinkInv, AuthenticInv, SameKey, PortsAuthenticated
<1> QED BY <1>1, LinkInvariant, PTL

\* The end of a link whose peer is not moved never sends anywhere else, for
\* any number of faults and any delay of the datagrams.
THEOREM SteadyPeerKept ==
  ASSUME LinkAssumption, KeyAssumption
  PROVE  Spec => []NeverLosesSteadyPeer
<1>1. LinkInv => NeverLosesSteadyPeer
  BY DEF LinkInv, SteadyInv, Steady, NeverLosesSteadyPeer
<1> QED BY <1>1, LinkInvariant, PTL

----------------------------------------------------------------------------
(***************************************************************************)
(* Sizes.                                                                  *)
(***************************************************************************)
\* What write() makes of a frame that is not too large, read() has room for.
LEMMA FrameFits ==
  ASSUME NEW size \in 1 .. MAX_FRAME, NEW sealed \in BOOLEAN
  PROVE  Fits(FrameLen(size, sealed), sealed)
BY DEF Fits, Complete, FrameLen, LENGTH, NONCE, TAG, MAX_FRAME, MAX_FRAME_SIZE, MAX_PACKET

\* An Ethernet frame of a TAP device with the MTU that entrypoint.sh sets leaves
\* the machine, with the 28 bytes of UDP and IP headers, as one packet that an
\* Ethernet of 1500 bytes carries unfragmented.
THEOREM MtuAvoidsFragments ==
  ASSUME NEW sealed \in BOOLEAN, NEW payload \in 0 .. Mtu(sealed)
  PROVE  DatagramSize(14 + payload, sealed) + 28 <= 1500
BY DEF DatagramSize, FrameLen, Mtu, LENGTH, NONCE, TAG

\* Whatever the switch of one side writes, the buffers of the other have room
\* for, under any pair of keys: read() hands it over if the keys agree.
THEOREM FramesComplete ==
  ASSUME LinkAssumption, KeyAssumption, SizeAssumption
  PROVE  Spec => []WrittenFramesAreRead
<1>1. TypeOK => WrittenFramesAreRead
  <2> SUFFICES ASSUME TypeOK, NEW s \in Side, NEW i \in DOMAIN inbox[s],
                      inbox[s][i].ip = "peer", inbox[s][i].body \in Packet,
                      inbox[s][i].body.key = Key[s]
               PROVE  Accepts(s, inbox[s][i])
    BY DEF WrittenFramesAreRead
  <2> DEFINE body == inbox[s][i].body
  <2>1. body.kind = "frame" /\ body.frame \in UNION {Frames[t] : t \in Side}
    BY DEF Packet
  <2>2. Size[body.frame] \in 1 .. MAX_FRAME
    BY <2>1 DEF SizeAssumption
  <2>3. Fits(FrameLen(Size[body.frame], Key[s] # NoKey), Key[s] # NoKey)
    BY <2>2, FrameFits
  <2> QED BY <2>1, <2>3 DEF Accepts, FromPeer
<1> QED BY <1>1, LinkTypeCorrect, PTL

=============================================================================
