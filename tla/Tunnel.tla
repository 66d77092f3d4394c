------------------------------- MODULE Tunnel -------------------------------
(***************************************************************************)
(* The way from the Mac into the container: the relay (relay.cpp), between *)
(* the container's tun0 and a UDP socket, and the allblue-utun helper      *)
(* (gui/src/utun.cpp), between a utun interface of the Mac and that        *)
(* socket.  The relay learns where the helper is from what it receives;    *)
(* the helper says hello when it starts and whenever it is idle.  Both may *)
(* end and be started again at any time: by whom is MacApp's matter.       *)
(***************************************************************************)
EXTENDS Integers, Sequences

CONSTANTS
  Helper,      \* successive allblue-utun processes, each with its own socket
  UpPacket,    \* IP packets programs on the Mac send
  DownPacket,  \* IP packets the virtual LAN sends to the Mac
  Hello,       \* the four zero bytes of the helper
  NoOne        \* have_mac = false

ASSUME TunnelAssumption == NoOne \notin Helper /\ Hello \notin UpPacket

VARIABLES
  relay_up,   \* the relay has opened tun0 and bound its socket
  mac,        \* who it sends to
  tun0,       \* packets buffered for the relay at tun0 ...
  relay_in,   \* ... and datagrams at its socket
  helpers,    \* the helpers that are alive
  route,      \* the helper whose interface has the route to 10.0.0.0/24
  utun,       \* packets buffered at a helper's interface ...
  helper_in,  \* ... and at its socket
  \* History variables: no action reads them, but to send each packet once.
  sentUp, gotUp, sentDown, gotDown

relayVars  == <<relay_up, mac, tun0, relay_in>>
helperVars == <<helpers, route, utun, helper_in>>
tunnelVars == <<relayVars, helperVars, sentUp, gotUp, sentDown, gotDown>>

TunnelInit ==
  /\ relay_up = FALSE /\ mac = NoOne /\ tun0 = {} /\ relay_in = {}
  /\ helpers = {} /\ route = NoOne /\ utun = {} /\ helper_in = {}
  /\ sentUp = {} /\ gotUp = <<>> /\ sentDown = {} /\ gotDown = <<>>

To(h, x) == [helper |-> h, packet |-> x]

\* What a datagram for the relay, and one for helper h, adds to the buffers; one
\* for a socket that is not there is lost.
AtRelay(h, x) == IF relay_up THEN {To(h, x)} ELSE {}

AtHelper(h, x) == IF h \in helpers THEN {To(h, x)} ELSE {}

----------------------------------------------------------------------------
(* Traffic.  A program on the Mac sends along the route, a host of the LAN *)
(* through tun0.                                                           *)

MacSends(x) ==
  /\ x \notin sentUp /\ route \in helpers
  /\ sentUp' = sentUp \cup {x} /\ utun' = utun \cup {To(route, x)}
  /\ UNCHANGED <<relayVars, helpers, route, helper_in, gotUp, sentDown, gotDown>>

LanSends(x) ==
  /\ x \notin sentDown /\ relay_up
  /\ sentDown' = sentDown \cup {x} /\ tun0' = tun0 \cup {x}
  /\ UNCHANGED <<relay_up, mac, relay_in, helperVars, sentUp, gotUp, gotDown>>

----------------------------------------------------------------------------
(***************************************************************************)
(* The relay's loop.  When poll flags both descriptors, tun0 is read       *)
(* first, and what it yields goes to the address known before the socket   *)
(* is read; while none is known it is dropped.                             *)
(***************************************************************************)
\* Mutant: a packet goes to every helper that was ever heard of
RelayReadsTunForAll ==
  IF tun0 = {} THEN UNCHANGED <<tun0, helper_in>>
  ELSE \E x \in tun0 :
         /\ tun0' = tun0 \ {x}
         /\ helper_in' = helper_in \cup UNION {AtHelper(h, x) : h \in Helper}

RelayReadsTun ==
  IF tun0 = {} THEN UNCHANGED <<tun0, helper_in>>
  ELSE \E x \in tun0 :
         /\ tun0' = tun0 \ {x}
         /\ helper_in' = helper_in \cup AtHelper(mac, x)

\* Mutants: the hello written to tun0 like a packet; the first address kept
RelayReadsSocketUnchecked ==
  IF relay_in = {} THEN UNCHANGED <<relay_in, mac, gotUp>>
  ELSE \E d \in relay_in :
         /\ relay_in' = relay_in \ {d}
         /\ mac' = d.helper
         /\ gotUp' = Append(gotUp, d.packet)

RelayReadsSocketOnce ==
  IF relay_in = {} THEN UNCHANGED <<relay_in, mac, gotUp>>
  ELSE \E d \in relay_in :
         /\ relay_in' = relay_in \ {d}
         /\ mac' = IF mac = NoOne THEN d.helper ELSE mac
         /\ gotUp' = IF d.packet = Hello THEN gotUp ELSE Append(gotUp, d.packet)

\* Only what may be an IP packet, 20 bytes or more, is written to tun0.
RelayReadsSocket ==
  IF relay_in = {} THEN UNCHANGED <<relay_in, mac, gotUp>>
  ELSE \E d \in relay_in :
         /\ relay_in' = relay_in \ {d}
         /\ mac' = d.helper
         /\ gotUp' = IF d.packet = Hello THEN gotUp ELSE Append(gotUp, d.packet)

RelayRound ==
  /\ relay_up /\ (tun0 # {} \/ relay_in # {})
  /\ RelayReadsTun /\ RelayReadsSocket
  /\ UNCHANGED <<relay_up, helpers, route, utun, sentUp, sentDown, gotDown>>

\* The relay is started in a new container; it knows nothing of the Mac.
RelayStarts ==
  /\ ~ relay_up
  /\ relay_up' = TRUE
  /\ UNCHANGED <<mac, tun0, relay_in, helperVars, sentUp, gotUp, sentDown, gotDown>>

RelayStops ==
  /\ relay_up' = FALSE /\ mac' = NoOne /\ tun0' = {} /\ relay_in' = {}
  /\ UNCHANGED <<helperVars, sentUp, gotUp, sentDown, gotDown>>

----------------------------------------------------------------------------
(* The helper's loop.  The four bytes of protocol family that utun puts    *)
(* before each packet are taken off on the way in and put on on the way    *)
(* out, so that they are no part of a packet here.                         *)

Buffered(h) == {d \in utun \cup helper_in : d.helper = h}

HelperReadsUtun(h) ==
  LET mine == {d \in utun : d.helper = h}
  IN IF mine = {} THEN UNCHANGED <<utun, relay_in>>
     ELSE \E d \in mine :
            utun' = utun \ {d} /\ relay_in' = relay_in \cup AtRelay(h, d.packet)

HelperReadsSocket(h) ==
  LET mine == {d \in helper_in : d.helper = h}
  IN IF mine = {} THEN UNCHANGED <<helper_in, gotDown>>
     ELSE \E d \in mine :
            helper_in' = helper_in \ {d} /\ gotDown' = Append(gotDown, d.packet)

HelperRound(h) ==
  /\ h \in helpers /\ Buffered(h) # {}
  /\ HelperReadsUtun(h) /\ HelperReadsSocket(h)
  /\ UNCHANGED <<relay_up, mac, tun0, helpers, route, sentUp, gotUp, sentDown>>

\* Mutant: hello said at the start only
HelperIdles(h) ==
  /\ h \in helpers /\ Buffered(h) = {}
  /\ UNCHANGED tunnelVars

\* The poll of five seconds ends with nothing to read.
HelperIdle(h) ==
  /\ h \in helpers /\ Buffered(h) = {}
  /\ relay_in' = relay_in \cup AtRelay(h, Hello)
  /\ UNCHANGED <<relay_up, mac, tun0, helperVars, sentUp, gotUp, sentDown, gotDown>>

\* A helper creates its interface, takes the route over and says hello.
HelperStarts(h) ==
  /\ helpers' = helpers \cup {h} /\ route' = h
  /\ relay_in' = relay_in \cup AtRelay(h, Hello)
  /\ UNCHANGED <<relay_up, mac, tun0, utun, helper_in, sentUp, gotUp, sentDown, gotDown>>

\* pkill ends every helper; interface, route and buffers go with it.
HelpersKilled ==
  /\ helpers' = {} /\ route' = NoOne /\ utun' = {} /\ helper_in' = {}
  /\ UNCHANGED <<relayVars, sentUp, gotUp, sentDown, gotDown>>

Traffic ==
  \/ \E x \in UpPacket : MacSends(x)
  \/ \E x \in DownPacket : LanSends(x)

Loops ==
  \/ RelayRound
  \/ \E h \in Helper : HelperRound(h) \/ HelperIdle(h)

----------------------------------------------------------------------------
TunnelTypeOK ==
  /\ relay_up \in BOOLEAN /\ mac \in Helper \cup {NoOne}
  /\ tun0 \subseteq sentDown
  /\ relay_in \subseteq [helper : Helper, packet : sentUp \cup {Hello}]
  /\ helpers \subseteq Helper /\ route \in Helper \cup {NoOne}
  /\ utun \subseteq [helper : helpers, packet : sentUp]
  /\ helper_in \subseteq [helper : helpers, packet : sentDown]
  /\ sentUp \subseteq UpPacket /\ gotUp \in Seq(sentUp)
  /\ sentDown \subseteq DownPacket /\ gotDown \in Seq(sentDown)

\* In each direction the tunnel is a lossy pipe: whatever is restarted, and even
\* with two helpers alive, no packet arrives twice and no hello as a packet.
Up == INSTANCE LossyPipe
        WITH Packet <- UpPacket, entered <- sentUp, left <- gotUp

Down == INSTANCE LossyPipe
          WITH Packet <- DownPacket, entered <- sentDown, left <- gotDown

UpIsPipe   == Up!Spec
DownIsPipe == Down!Spec

\* The relay finds out where the Mac is, although it forgets it with every new
\* container and the hello of a new helper may come before the relay is there.
RelayFindsHelper ==
  (relay_up /\ helpers # {}) ~> (mac \in helpers \/ ~ relay_up \/ helpers = {})

=============================================================================
