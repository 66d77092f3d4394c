---------------------------- MODULE MacAppProofs ----------------------------
(***************************************************************************)
(* Proofs about MacApp, for every number of peers and packets: its type    *)
(* invariant, and that in each direction the tunnel delivers no packet     *)
(* twice, whoever ends and starts the container and the helpers, and       *)
(* however many helpers are alive.                                         *)
(***************************************************************************)
EXTENDS MacApp, SequenceTheorems, TLAPS

ToSetOf(s) == {s[i] : i \in DOMAIN s}

\* A launch script belongs to a peer that was added; a wait, to one that will be.
Launches ==
  launched + launching + sleeping + (IF gui = "adding" THEN 1 ELSE 0) <= asked

\* A packet of either direction is in one place only: in one buffer, once, or
\* behind the tunnel.
UpOnce ==
  /\ \A d, e \in utun : d.packet = e.packet => d = e
  /\ \A d, e \in relay_in : d.packet = e.packet /\ d.packet # Hello => d = e
  /\ \A d \in utun, e \in relay_in : d.packet # e.packet
  /\ \A d \in utun \cup relay_in : d.packet \notin ToSetOf(gotUp)

DownOnce ==
  /\ \A d, e \in helper_in : d.packet = e.packet => d = e
  /\ \A x \in tun0, d \in helper_in : d.packet # x
  /\ \A x \in tun0 : x \notin ToSetOf(gotDown)
  /\ \A d \in helper_in : d.packet \notin ToSetOf(gotDown)

TunnelInv == TunnelTypeOK /\ UpOnce /\ DownOnce

IInv == TypeOK /\ Launches /\ UpOnce /\ DownOnce

\* What a step of the app may do to the tunnel.
TunnelStep ==
  \/ \E x \in UpPacket : MacSends(x)
  \/ \E x \in DownPacket : LanSends(x)
  \/ RelayRound
  \/ \E h \in Helper : HelperRound(h) \/ HelperIdle(h) \/ HelperStarts(h)
  \/ RelayStarts \/ RelayStops \/ HelpersKilled
  \/ UNCHANGED tunnelVars

----------------------------------------------------------------------------
LEMMA ToSetAppend ==
  ASSUME NEW S, NEW s \in Seq(S), NEW x \in S
  PROVE  ToSetOf(Append(s, x)) = ToSetOf(s) \cup {x}
<1>1. ToSetOf(Append(s, x)) \subseteq ToSetOf(s) \cup {x}
  BY DEF ToSetOf
<1>2. ToSetOf(s) \subseteq ToSetOf(Append(s, x))
  BY DEF ToSetOf
<1>3. Append(s, x)[Len(s) + 1] = x /\ Len(s) + 1 \in DOMAIN Append(s, x)
  OBVIOUS
<1>4. x \in ToSetOf(Append(s, x))
  BY <1>3 DEF ToSetOf
<1> QED
  BY <1>1, <1>2, <1>4

LEMMA ToSetInside ==
  ASSUME NEW S, NEW s \in Seq(S)
  PROVE  ToSetOf(s) \subseteq S
BY DEF ToSetOf

----------------------------------------------------------------------------
(* What the two loops do in a round, one direction at a time.              *)

LEMMA RelayUp ==
  ASSUME TunnelInv, RelayReadsSocket, UNCHANGED <<utun, sentUp>>
  PROVE  /\ relay_in' \subseteq relay_in /\ mac' \in Helper \cup {NoOne}
         /\ gotUp' \in Seq(sentUp) /\ UpOnce'
         /\ \/ gotUp' = gotUp
            \/ \E x \in sentUp \ ToSetOf(gotUp) : gotUp' = Append(gotUp, x)
<1> USE TunnelAssumption
<1>1. CASE relay_in = {}
  BY <1>1 DEF TunnelInv, TunnelTypeOK, UpOnce, RelayReadsSocket
<1>2. CASE relay_in # {}
  <2>1. PICK d \in relay_in :
          /\ relay_in' = relay_in \ {d} /\ mac' = d.helper
          /\ gotUp' = IF d.packet = Hello THEN gotUp ELSE Append(gotUp, d.packet)
    BY <1>2 DEF RelayReadsSocket
  <2>2. d.helper \in Helper /\ d.packet \in sentUp \cup {Hello}
    BY DEF TunnelInv, TunnelTypeOK
  <2>3. gotUp \in Seq(sentUp) /\ sentUp \subseteq UpPacket
    BY DEF TunnelInv, TunnelTypeOK
  <2>4. CASE d.packet = Hello
    BY <2>1, <2>2, <2>3, <2>4 DEF TunnelInv, UpOnce
  <2>5. CASE d.packet # Hello
    <3>1. d.packet \in sentUp /\ gotUp' = Append(gotUp, d.packet)
      BY <2>1, <2>2, <2>5
    <3>2. ToSetOf(gotUp') = ToSetOf(gotUp) \cup {d.packet}
      BY <3>1, <2>3, ToSetAppend
    <3>3. gotUp' \in Seq(sentUp)
      BY <3>1, <2>3
    <3>4. d.packet \notin ToSetOf(gotUp)
      BY DEF TunnelInv, UpOnce
    <3>5. \A e \in utun' \cup relay_in' : e.packet # d.packet
      BY <2>1, <2>5 DEF TunnelInv, UpOnce
    <3>6. UpOnce'
      BY <2>1, <3>2, <3>5 DEF TunnelInv, UpOnce
    <3> QED
      BY <2>1, <2>2, <3>1, <3>3, <3>4, <3>6
  <2> QED
    BY <2>4, <2>5
<1> QED
  BY <1>1, <1>2

LEMMA RelayDown ==
  ASSUME TunnelInv, RelayReadsTun, UNCHANGED gotDown
  PROVE  /\ tun0' \subseteq tun0 /\ DownOnce'
         /\ helper_in' \subseteq [helper : helpers, packet : sentDown]
<1>1. CASE tun0 = {}
  BY <1>1 DEF TunnelInv, TunnelTypeOK, DownOnce, RelayReadsTun
<1>2. CASE tun0 # {}
  <2>1. PICK x \in tun0 : /\ tun0' = tun0 \ {x}
                          /\ helper_in' = helper_in \cup AtHelper(mac, x)
    BY <1>2 DEF RelayReadsTun
  <2>2. \/ helper_in' = helper_in
        \/ mac \in helpers /\ helper_in' = helper_in \cup {To(mac, x)}
    BY <2>1 DEF AtHelper
  <2>3. x \in sentDown /\ To(mac, x).packet = x
    BY DEF TunnelInv, TunnelTypeOK, To
  <2>4. helper_in' \subseteq [helper : helpers, packet : sentDown]
    BY <2>2, <2>3 DEF TunnelInv, TunnelTypeOK, To
  <2>5. DownOnce'
    BY <2>1, <2>2, <2>3 DEF TunnelInv, DownOnce
  <2> QED
    BY <2>1, <2>4, <2>5
<1> QED
  BY <1>1, <1>2

LEMMA HelperUp ==
  ASSUME TunnelInv, NEW h \in Helper, HelperReadsUtun(h), UNCHANGED <<gotUp, sentUp>>
  PROVE  /\ utun' \subseteq utun /\ UpOnce'
         /\ relay_in' \subseteq [helper : Helper, packet : sentUp \cup {Hello}]
<1> DEFINE mine == {d \in utun : d.helper = h}
<1>1. CASE mine = {}
  BY <1>1 DEF TunnelInv, TunnelTypeOK, UpOnce, HelperReadsUtun
<1>2. CASE mine # {}
  <2>1. PICK d \in mine : /\ utun' = utun \ {d}
                          /\ relay_in' = relay_in \cup AtRelay(h, d.packet)
    BY <1>2 DEF HelperReadsUtun
  <2>2. \/ relay_in' = relay_in
        \/ relay_in' = relay_in \cup {To(h, d.packet)}
    BY <2>1 DEF AtRelay
  <2>3. d \in utun /\ d.packet \in sentUp /\ To(h, d.packet).packet = d.packet
    BY DEF TunnelInv, TunnelTypeOK, To
  <2>4. relay_in' \subseteq [helper : Helper, packet : sentUp \cup {Hello}]
    BY <2>2, <2>3 DEF TunnelInv, TunnelTypeOK, To
  <2>5. \A e \in utun' : e.packet # d.packet
    BY <2>1, <2>3 DEF TunnelInv, UpOnce
  <2>6. \A e \in relay_in : e.packet # d.packet
    BY <2>3 DEF TunnelInv, UpOnce
  <2>7. UpOnce'
    BY <2>1, <2>2, <2>3, <2>5, <2>6 DEF TunnelInv, UpOnce
  <2> QED
    BY <2>1, <2>4, <2>7
<1> QED
  BY <1>1, <1>2

LEMMA HelperDown ==
  ASSUME TunnelInv, NEW h \in Helper, HelperReadsSocket(h), UNCHANGED tun0
  PROVE  /\ helper_in' \subseteq helper_in /\ DownOnce' /\ gotDown' \in Seq(sentDown)
         /\ \/ gotDown' = gotDown
            \/ \E x \in sentDown \ ToSetOf(gotDown) : gotDown' = Append(gotDown, x)
<1> DEFINE mine == {d \in helper_in : d.helper = h}
<1>1. CASE mine = {}
  BY <1>1 DEF TunnelInv, TunnelTypeOK, DownOnce, HelperReadsSocket
<1>2. CASE mine # {}
  <2>1. PICK d \in mine : /\ helper_in' = helper_in \ {d}
                          /\ gotDown' = Append(gotDown, d.packet)
    BY <1>2 DEF HelperReadsSocket
  <2>2. d \in helper_in /\ d.packet \in sentDown /\ gotDown \in Seq(sentDown)
    BY DEF TunnelInv, TunnelTypeOK
  <2>3. ToSetOf(gotDown') = ToSetOf(gotDown) \cup {d.packet}
    BY <2>1, <2>2, ToSetAppend
  <2>4. gotDown' \in Seq(sentDown)
    BY <2>1, <2>2
  <2>5. d.packet \notin ToSetOf(gotDown)
    BY <2>2 DEF TunnelInv, DownOnce
  <2>6. \A e \in helper_in' : e.packet # d.packet
    BY <2>1, <2>2 DEF TunnelInv, DownOnce
  <2>7. \A x \in tun0 : x # d.packet
    BY <2>2 DEF TunnelInv, DownOnce
  <2>8. DownOnce'
    BY <2>1, <2>3, <2>6, <2>7 DEF TunnelInv, DownOnce
  <2> QED
    BY <2>1, <2>2, <2>4, <2>5, <2>8
<1> QED
  BY <1>1, <1>2

----------------------------------------------------------------------------
(* No step of the tunnel breaks its invariant, and each maps to a step of  *)
(* the two pipes.                                                          *)

Hands(S, s, s2) == s2 = s \/ \E x \in S \ ToSetOf(s) : s2 = Append(s, x)

\* Either a packet is sent, or in each direction one comes out at most.
Moves ==
  \/ \E x \in UpPacket : x \notin sentUp /\ sentUp' = sentUp \cup {x}
                           /\ UNCHANGED <<gotUp, sentDown, gotDown>>
  \/ \E x \in DownPacket : x \notin sentDown /\ sentDown' = sentDown \cup {x}
                             /\ UNCHANGED <<gotDown, sentUp, gotUp>>
  \/ /\ UNCHANGED <<sentUp, sentDown>>
     /\ Hands(sentUp, gotUp, gotUp') /\ Hands(sentDown, gotDown, gotDown')

LEMMA TunnelStepKeepsInv ==
  ASSUME TunnelInv, TunnelStep
  PROVE  TunnelInv' /\ Moves
<1> USE TunnelAssumption
<1>1. ASSUME NEW x \in UpPacket, MacSends(x)
      PROVE  TunnelInv' /\ Moves
  <2>1. /\ x \notin sentUp /\ sentUp' = sentUp \cup {x} /\ route \in Helper
        /\ route \in helpers /\ utun' = utun \cup {To(route, x)}
        /\ UNCHANGED <<relayVars, helpers, route, helper_in, gotUp, sentDown, gotDown>>
    BY <1>1 DEF MacSends, TunnelInv, TunnelTypeOK
  <2>2. To(route, x) \in [helper : helpers, packet : sentUp'] /\ To(route, x).packet = x
    BY <2>1 DEF To
  <2>3. gotUp' \in Seq(sentUp')
    BY <2>1, SeqMonotonic DEF TunnelInv, TunnelTypeOK
  <2>4. TunnelTypeOK'
    BY <2>1, <2>2, <2>3 DEF TunnelInv, TunnelTypeOK, relayVars
  <2>5. x \notin ToSetOf(gotUp)
    BY <2>1, ToSetInside DEF TunnelInv, TunnelTypeOK
  <2>6. \A d \in utun \cup relay_in : d.packet # x
    BY <2>1 DEF TunnelInv, TunnelTypeOK
  <2>7. UpOnce'
    BY <2>1, <2>2, <2>5, <2>6 DEF TunnelInv, UpOnce, relayVars
  <2>8. DownOnce'
    BY <2>1 DEF TunnelInv, DownOnce, relayVars
  <2> QED
    BY <2>1, <2>4, <2>7, <2>8 DEF TunnelInv, Moves
<1>2. ASSUME NEW x \in DownPacket, LanSends(x)
      PROVE  TunnelInv' /\ Moves
  <2>1. /\ x \notin sentDown /\ sentDown' = sentDown \cup {x} /\ tun0' = tun0 \cup {x}
        /\ UNCHANGED <<relay_up, mac, relay_in, helperVars, sentUp, gotUp, gotDown>>
    BY <1>2 DEF LanSends
  <2>2. gotDown' \in Seq(sentDown')
    BY <2>1, SeqMonotonic DEF TunnelInv, TunnelTypeOK
  <2>3. TunnelTypeOK'
    BY <2>1, <2>2 DEF TunnelInv, TunnelTypeOK, helperVars
  <2>4. x \notin ToSetOf(gotDown) /\ x \notin tun0
    BY <2>1, ToSetInside DEF TunnelInv, TunnelTypeOK
  <2>5. \A d \in helper_in : d.packet # x
    BY <2>1 DEF TunnelInv, TunnelTypeOK
  <2>6. DownOnce'
    BY <2>1, <2>4, <2>5 DEF TunnelInv, DownOnce, helperVars
  <2>7. UpOnce'
    BY <2>1 DEF TunnelInv, UpOnce, helperVars
  <2> QED
    BY <2>1, <2>3, <2>6, <2>7 DEF TunnelInv, Moves
<1>3. CASE RelayRound
  <2>1. /\ RelayReadsTun /\ RelayReadsSocket
        /\ UNCHANGED <<relay_up, helpers, route, utun, sentUp, sentDown, gotDown>>
    BY <1>3 DEF RelayRound
  <2>2. UpOnce' /\ DownOnce' /\ Moves
    BY <2>1, RelayUp, RelayDown DEF Moves, Hands
  <2>3. TunnelTypeOK'
    BY <2>1, RelayUp, RelayDown DEF TunnelInv, TunnelTypeOK
  <2> QED
    BY <2>2, <2>3 DEF TunnelInv
<1>4. ASSUME NEW h \in Helper, HelperRound(h)
      PROVE  TunnelInv' /\ Moves
  <2>1. /\ HelperReadsUtun(h) /\ HelperReadsSocket(h)
        /\ UNCHANGED <<relay_up, mac, tun0, helpers, route, sentUp, gotUp, sentDown>>
    BY <1>4 DEF HelperRound
  <2>2. UpOnce' /\ DownOnce' /\ Moves
    BY <2>1, HelperUp, HelperDown DEF Moves, Hands
  <2>3. TunnelTypeOK'
    BY <2>1, HelperUp, HelperDown DEF TunnelInv, TunnelTypeOK
  <2> QED
    BY <2>2, <2>3 DEF TunnelInv
<1>5. ASSUME NEW h \in Helper, HelperIdle(h) \/ HelperStarts(h)
      PROVE  TunnelInv' /\ Moves
  <2>1. /\ relay_in' = relay_in \cup AtRelay(h, Hello)
        /\ UNCHANGED <<relay_up, mac, tun0, utun, helper_in, sentUp, gotUp, sentDown, gotDown>>
        /\ \/ helpers' = helpers \cup {h} /\ route' = h
           \/ UNCHANGED <<helpers, route>>
    BY <1>5 DEF HelperIdle, HelperStarts, helperVars
  <2>2. relay_in' = relay_in \/ relay_in' = relay_in \cup {To(h, Hello)}
    BY <2>1 DEF AtRelay
  <2>3. /\ To(h, Hello) \in [helper : Helper, packet : sentUp \cup {Hello}]
        /\ To(h, Hello).packet = Hello
    BY DEF To
  <2>4. TunnelTypeOK'
    BY <2>1, <2>2, <2>3 DEF TunnelInv, TunnelTypeOK
  <2>5. Hello \notin ToSetOf(gotUp) /\ \A d \in utun : d.packet # Hello
    BY ToSetInside DEF TunnelInv, TunnelTypeOK
  <2>6. UpOnce'
    BY <2>1, <2>2, <2>3, <2>5 DEF TunnelInv, UpOnce
  <2>7. DownOnce'
    BY <2>1 DEF TunnelInv, DownOnce
  <2> QED
    BY <2>1, <2>4, <2>6, <2>7 DEF TunnelInv, Moves, Hands
<1>6. CASE RelayStarts \/ RelayStops \/ HelpersKilled \/ UNCHANGED tunnelVars
  BY <1>6 DEF RelayStarts, RelayStops, HelpersKilled, tunnelVars, relayVars, helperVars,
              TunnelInv, TunnelTypeOK, UpOnce, DownOnce, Moves, Hands
<1> QED
  BY <1>1, <1>2, <1>3, <1>4, <1>5, <1>6 DEF TunnelStep

----------------------------------------------------------------------------
(* The app around the tunnel.                                              *)

ControlTypeOK ==
  /\ gui \in {"idle", "adding", "closing", "closed"} /\ process_ \in BOOLEAN
  /\ client \in {"none", "creating", "attached", "gone"}
  /\ container \in {"none", "entry", "switch"}
  /\ owed \subseteq {"container", "helpers"}

CountTypeOK ==
  /\ asked \in 0 .. MaxPeers /\ peers \in 0 .. MaxPeers /\ served \in 0 .. MaxPeers
  /\ stops \in Nat /\ launching \in Nat /\ sleeping \in Nat /\ killing \in Nat
  /\ launched \in Nat

AppTypeOK == ControlTypeOK /\ CountTypeOK

LEMMA IInvParts == IInv <=> AppTypeOK /\ Launches /\ TunnelInv
BY MacAppAssumption DEF IInv, TypeOK, AppTypeOK, ControlTypeOK, CountTypeOK, Launches,
                          TunnelInv

LEMMA AppStep ==
  ASSUME AppTypeOK, Launches, [Next]_vars
  PROVE  AppTypeOK' /\ Launches' /\ TunnelStep
<1> USE MacAppAssumption DEF AppTypeOK
<1>1. CASE AddPeer
  <2>1. ControlTypeOK'
    BY <1>1 DEF ControlTypeOK, AddPeer, RunAndLaunch, StopContainer, scriptVars
  <2>2. CountTypeOK'
    <3>1. CASE process_
      BY <1>1, <3>1 DEF CountTypeOK, AddPeer, StopContainer, scriptVars
    <3>2. CASE ~ process_
      BY <1>1, <3>2 DEF CountTypeOK, AddPeer, RunAndLaunch
    <3> QED BY <3>1, <3>2
  <2>4. Launches'
    BY <1>1 DEF CountTypeOK, Launches, AddPeer, RunAndLaunch, StopContainer, scriptVars
  <2>3. TunnelStep
    BY <1>1 DEF AddPeer, RunAndLaunch, StopContainer, scriptVars, TunnelStep
  <2> QED
    BY <2>1, <2>2, <2>3, <2>4
<1>2. CASE AddPeerGoesOn
  <2>1. ControlTypeOK'
    BY <1>2 DEF ControlTypeOK, AddPeerGoesOn, RunAndLaunch
  <2>2. CountTypeOK' /\ Launches'
    BY <1>2 DEF CountTypeOK, Launches, AddPeerGoesOn, RunAndLaunch
  <2>3. TunnelStep
    BY <1>2 DEF AddPeerGoesOn, RunAndLaunch, TunnelStep
  <2> QED
    BY <2>1, <2>2, <2>3
<1>3. CASE Close
  BY <1>3 DEF ControlTypeOK, CountTypeOK, Launches, Close, Debt, StopContainer, scriptVars, dockerVars, TunnelStep
<1>4. CASE CloseGoesOn
  <2>1. ControlTypeOK'
    BY <1>4 DEF ControlTypeOK, CloseGoesOn
  <2>2. CountTypeOK' /\ Launches'
    BY <1>4 DEF CountTypeOK, Launches, CloseGoesOn
  <2>3. TunnelStep
    BY <1>4 DEF CloseGoesOn, TunnelStep
  <2> QED
    BY <2>1, <2>2, <2>3
<1>5. CASE Finished
  BY <1>5 DEF ControlTypeOK, CountTypeOK, Launches, Finished, dockerVars, scriptVars, TunnelStep
<1>6. CASE ContainerStarts \/ ClientEnds
  BY <1>6 DEF ControlTypeOK, CountTypeOK, Launches, ContainerStarts, ClientEnds, guiVars, scriptVars, TunnelStep
<1>7. CASE DockerStop
  <2>1. ControlTypeOK'
    BY <1>7 DEF ControlTypeOK, DockerStop, ContainerEnds, guiVars, dockerVars, scriptVars
  <2>2. CountTypeOK' /\ Launches'
    BY <1>7 DEF CountTypeOK, Launches, DockerStop, ContainerEnds, guiVars, dockerVars, scriptVars
  <2>3. TunnelStep
    BY <1>7 DEF DockerStop, ContainerEnds, guiVars, dockerVars, scriptVars, TunnelStep
  <2> QED
    BY <2>1, <2>2, <2>3
<1>8. CASE RelayComesUp
  BY <1>8 DEF ControlTypeOK, CountTypeOK, Launches, RelayComesUp, guiVars, dockerVars, scriptVars, TunnelStep
<1>9. CASE EntryFails \/ SwitchFails
  BY <1>9 DEF ControlTypeOK, CountTypeOK, Launches, EntryFails, SwitchFails, ContainerEnds, guiVars, scriptVars, TunnelStep
<1>10. CASE SwitchStarts
  BY <1>10 DEF ControlTypeOK, CountTypeOK, Launches, SwitchStarts, guiVars, scriptVars, TunnelStep
<1>11. CASE LaunchKills \/ KillScript
  <2>1. ControlTypeOK'
    BY <1>11 DEF ControlTypeOK, LaunchKills, KillScript, guiVars, dockerVars
  <2>2. CASE LaunchKills
    BY <2>1, <2>2 DEF CountTypeOK, Launches, LaunchKills, guiVars, dockerVars, TunnelStep
  <2>3. CASE KillScript
    BY <2>1, <2>3 DEF CountTypeOK, Launches, KillScript, guiVars, dockerVars, TunnelStep
  <2> QED
    BY <1>11, <2>2, <2>3
<1>12. CASE LaunchStarts
  <2>1. launched + 1 \in Helper
    BY <1>12 DEF LaunchStarts, CountTypeOK, Launches
  <2> QED
    BY <1>12, <2>1 DEF ControlTypeOK, CountTypeOK, Launches, LaunchStarts, guiVars, dockerVars, TunnelStep
<1>13. CASE LaunchRefused \/ KillRefused
  <2>1. ControlTypeOK'
    BY <1>13 DEF ControlTypeOK, LaunchRefused, KillRefused, guiVars, dockerVars
  <2>2. ASSUME LaunchRefused PROVE CountTypeOK' /\ Launches'
    <3>1. /\ launching > 0 /\ launching' = launching - 1
          /\ UNCHANGED <<gui, asked, peers, served, stops, sleeping, launched, killing>>
      BY <2>2, Zenon DEF LaunchRefused, guiVars, dockerVars
    <3>2. launching' \in Nat
      BY <3>1 DEF CountTypeOK
    <3>3. CountTypeOK'
      BY <3>1, <3>2, Zenon DEF CountTypeOK
    <3>4. Launches'
      BY <3>1 DEF CountTypeOK, Launches
    <3> QED BY <3>3, <3>4
  <2>4. ASSUME KillRefused PROVE CountTypeOK' /\ Launches'
    <3>1. /\ killing > 0 /\ killing' = killing - 1
          /\ UNCHANGED <<gui, asked, peers, served, stops, launching, sleeping, launched>>
      BY <2>4, Zenon DEF KillRefused, guiVars, dockerVars
    <3>2. killing' \in Nat
      BY <3>1 DEF CountTypeOK
    <3>3. CountTypeOK'
      BY <3>1, <3>2, Zenon DEF CountTypeOK
    <3>4. Launches'
      BY <3>1 DEF CountTypeOK, Launches
    <3> QED BY <3>3, <3>4
  <2>3. TunnelStep
    BY <1>13 DEF LaunchRefused, KillRefused, guiVars, dockerVars, TunnelStep
  <2> QED
    BY <1>13, <2>1, <2>2, <2>3, <2>4
<1>14. CASE Network
  BY <1>14 DEF ControlTypeOK, CountTypeOK, Launches, Network, Traffic, Loops, appVars, guiVars, dockerVars, scriptVars, TunnelStep
<1>15. CASE UNCHANGED vars
  BY <1>15 DEF ControlTypeOK, CountTypeOK, Launches, vars, appVars, guiVars, dockerVars, scriptVars, TunnelStep
<1> QED
  BY <1>1, <1>2, <1>3, <1>4, <1>5, <1>6, <1>7, <1>8, <1>9, <1>10, <1>11, <1>12, <1>13,
     <1>14, <1>15 DEF Next, Window, Docker, Scripts

LEMMA InitIInv == Init => IInv
<1> SUFFICES ASSUME Init
             PROVE  AppTypeOK /\ Launches /\ TunnelTypeOK /\ UpOnce /\ DownOnce
  BY IInvParts DEF TunnelInv
<1> USE MacAppAssumption, TunnelAssumption DEF Init, TunnelInit
<1>1. AppTypeOK /\ Launches
  <2>1. ControlTypeOK
    BY Zenon DEF ControlTypeOK
  <2>2. CountTypeOK /\ Launches
    BY DEF CountTypeOK, Launches
  <2> QED
    BY <2>1, <2>2 DEF AppTypeOK
<1>2. TunnelTypeOK
  <2>1. relay_up \in BOOLEAN
    BY Zenon
  <2>2. gotUp \in Seq(sentUp) /\ gotDown \in Seq(sentDown)
    OBVIOUS
  <2>3. relay_in = {} /\ utun = {} /\ helper_in = {} /\ tun0 = {}
    BY Zenon
  <2> QED
    BY <2>1, <2>2, <2>3 DEF TunnelTypeOK
<1>3. UpOnce /\ DownOnce
  BY DEF UpOnce, DownOnce, ToSetOf
<1> QED
  BY <1>1, <1>2, <1>3

LEMMA NextIInv == IInv /\ [Next]_vars => IInv' /\ Moves
<1> SUFFICES ASSUME IInv, [Next]_vars
             PROVE  IInv' /\ Moves
  OBVIOUS
<1>1. AppTypeOK /\ Launches /\ TunnelInv
  BY IInvParts
<1>2. AppTypeOK' /\ Launches' /\ TunnelStep
  BY <1>1, AppStep
<1>3. TunnelInv' /\ Moves
  BY <1>1, <1>2, TunnelStepKeepsInv
<1>4. IInv'
  BY <1>2, <1>3, IInvParts, PTL
<1> QED
  BY <1>3, <1>4

\* Every variable of the app, the container and the tunnel keeps its type; in
\* particular every helper is started for a peer that was added (switch_controller.cpp).
THEOREM AppTypeCorrect == Spec => []TypeOK
<1>1. IInv => TypeOK
  BY DEF IInv
<1> QED
  BY <1>1, InitIInv, NextIInv, PTL DEF Spec

----------------------------------------------------------------------------
(* The refinement.                                                         *)

LEMMA UpSteps == IInv /\ Moves => [Up!Next]_<<sentUp, gotUp>>
<1> SUFFICES ASSUME IInv, Moves
             PROVE  [Up!Next]_<<sentUp, gotUp>>
  OBVIOUS
<1>1. \A x \in sentUp : x \in UpPacket
  BY DEF IInv, TypeOK, TunnelTypeOK
<1>2. Up!ToSet(gotUp) = ToSetOf(gotUp)
  BY DEF Up!ToSet, ToSetOf
<1> QED
  BY <1>1, <1>2 DEF Moves, Hands, Up!Next, Up!Enter, Up!Leave

LEMMA DownSteps == IInv /\ Moves => [Down!Next]_<<sentDown, gotDown>>
<1> SUFFICES ASSUME IInv, Moves
             PROVE  [Down!Next]_<<sentDown, gotDown>>
  OBVIOUS
<1>1. \A x \in sentDown : x \in DownPacket
  BY DEF IInv, TypeOK, TunnelTypeOK
<1>2. Down!ToSet(gotDown) = ToSetOf(gotDown)
  BY DEF Down!ToSet, ToSetOf
<1> QED
  BY <1>1, <1>2 DEF Moves, Hands, Down!Next, Down!Enter, Down!Leave

\* What programs of the Mac send reaches tun0 of the container at most once, and
\* no hello does, through any restart of the container and of the helpers
\* (relay.cpp, utun.cpp).
THEOREM TunnelUpIsPipe == Spec => UpIsPipe
<1>1. Init => Up!Init
  BY DEF Init, TunnelInit, Up!Init
<1>2. IInv /\ [Next]_vars => [Up!Next]_<<sentUp, gotUp>>
  BY NextIInv, UpSteps
<1> QED
  BY <1>1, <1>2, InitIInv, NextIInv, PTL DEF Spec, UpIsPipe, Up!Spec

\* What the LAN sends to the Mac reaches its programs at most once, although two
\* launch scripts that overtake each other leave two helpers alive.
THEOREM TunnelDownIsPipe == Spec => DownIsPipe
<1>1. Init => Down!Init
  BY DEF Init, TunnelInit, Down!Init
<1>2. IInv /\ [Next]_vars => [Down!Next]_<<sentDown, gotDown>>
  BY NextIInv, DownSteps
<1> QED
  BY <1>1, <1>2, InitIInv, NextIInv, PTL DEF Spec, DownIsPipe, Down!Spec

=============================================================================
