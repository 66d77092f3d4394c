------------------------------ MODULE Startup ------------------------------
(***************************************************************************)
(* How a switch gets its ports: the part of main() from the first --local  *)
(* argument to sw.run(), with add_tap, add_udp_peer, the constructors of   *)
(* TapDevice and UdpPort and StunClient::probe_stable_port.  The value of  *)
(* an argument is looked at only when its turn comes.                      *)
(*                                                                         *)
(* The probe holds a socket for up to three seconds per attempt, and the   *)
(* chosen port is bound again only after that socket is closed, so other   *)
(* processes of the machine take and release ports in between.             *)
(***************************************************************************)
EXTENDS StunResponse

CONSTANTS
  Taps,         \* the names of the --local arguments, none empty or a pattern
  LocalIp,      \* the local addresses of the --udp arguments, in order ...
  LocalPort,    \* ... and the local ports
  Mistakes,     \* what may be wrong with a --udp argument, and with which
  Stun,         \* a --stun argument was given
  MaxAttempts,  \* max_attempts of probe_stable_port
  PortSpace,    \* 2^16
  ForeignLocal, \* where other processes may bind, one at a time: [ip, port]
  Answers,      \* what the STUN server may answer, as records ...
  Garbled       \* ... and other bytes under the header of an answer

ASSUME StartupAssumption ==
  /\ PortSpace \in Nat \ {0} /\ MaxAttempts \in Nat
  /\ Taps \in Seq(STRING)
  /\ Mistakes \subseteq {"format", "address"} \X (1 .. Len(LocalPort))
  /\ LocalPort \in Seq(1 .. PortSpace - 1) /\ LocalPort # <<>>
  /\ LocalIp \in Seq(STRING) /\ Len(LocalIp) = Len(LocalPort)
  /\ Stun \in BOOLEAN
  /\ ForeignLocal \subseteq [ip : STRING, port : 1 .. PortSpace - 1]
  /\ Garbled \subseteq Seq(0 .. 255)
  /\ \A answer \in Answers : IsAnswer(answer)

PortNumber == 0 .. PortSpace - 1
Peers == Len(LocalPort)

Responses == {answer.bytes : answer \in Answers} \cup Garbled

VARIABLES
  mistakes,   \* what is wrong with the --udp arguments of this run
  taps,       \* how many TAP devices are open
  phase,      \* "taps": in the loop over the names; "next", "probe", "parse",
              \* "open": in the loop over the peers; "running": in sw.run();
              \* "failed": main() returned 1
  bound,      \* local ports of the UdpPorts added so far, in order
  local_port, \* cfg.local_port of the peer being added
  stun_done,
  attempt,    \* i of probe_stable_port
  probing,    \* the port of the probe socket, if one is open: {} or {port}
  response,   \* the response that is being parsed, and how far
  offset,
  printed,    \* the port in "Your public address": {} or {port}
  threw,      \* what was thrown: "", "tap", "argument", "socket" or "bind"
  foreign     \* what other processes have bound

setup == <<mistakes, taps>>
parse == <<response, offset>>
own   == <<setup, phase, bound, local_port, stun_done, attempt, probing, parse, printed, threw>>
vars  == <<own, foreign>>

Init ==
  /\ mistakes \in SUBSET Mistakes /\ taps = 0
  /\ phase = IF Taps = <<>> THEN "next" ELSE "taps"
  /\ bound = <<>> /\ local_port = 0
  /\ stun_done = FALSE /\ attempt = 0 /\ probing = {} /\ printed = {}
  /\ response = <<>> /\ offset = 0
  /\ threw = "" /\ foreign = {}

Peer == Len(bound) + 1

INADDR_ANY == "0.0.0.0"

\* Two sockets with these local addresses cannot have one port.
Clash(ip, other) == ip = other \/ INADDR_ANY \in {ip, other}

HeldByOthers(ip, port) == \E s \in foreign : s.port = port /\ Clash(ip, s.ip)

HeldByPeer(ip, port) ==
  \E k \in 1 .. Len(bound) : bound[k] = port /\ Clash(ip, LocalIp[k])

\* bind() fails; port 0 stands for any free one, and the probe has INADDR_ANY.
Occupied(ip, port) ==
  port # 0 /\ (HeldByOthers(ip, port) \/ HeldByPeer(ip, port) \/ port \in probing)

PeerOccupied == Occupied(LocalIp[Peer], local_port)

\* Mutant: no truncation to uint16_t
TestPortUntruncated(i) == LocalPort[Peer] + i

TestPort(i) == (LocalPort[Peer] + i) % PortSpace

\* An exception leaves main(), and every socket is closed.
Throw(what) ==
  /\ phase' = "failed" /\ threw' = what
  /\ taps' = 0 /\ bound' = <<>> /\ probing' = {}
  /\ UNCHANGED <<mistakes, local_port, stun_done, attempt, parse, printed, foreign>>

----------------------------------------------------------------------------
(* add_tap.                                                                *)

OpenTap ==
  /\ phase = "taps" /\ Taps[taps + 1] \notin {Taps[k] : k \in 1 .. taps}
  /\ taps' = taps + 1
  /\ phase' = IF taps + 1 = Len(Taps) THEN "next" ELSE "taps"
  /\ UNCHANGED <<mistakes, bound, local_port, stun_done, attempt, probing, parse, printed,
                 threw, foreign>>

\* open() or ioctl() fails, as the latter does for a device that is open already,
\* or the name is too long.
TapThrows == phase = "taps" /\ Throw("tap")

(* add_udp_peer, up to the probe.                                          *)

Wrong(what) == <<what, Peer>> \in mistakes

\* parse_udp_peer throws.
FormatThrows == phase = "next" /\ Wrong("format") /\ Throw("argument")

\* Mutant: stun_done is not set, so every peer probes
NextPeerAlwaysProbes ==
  /\ phase = "next" /\ ~ Wrong("format")
  /\ local_port' = LocalPort[Peer]
  /\ phase' = IF Stun THEN "probe" ELSE "open"
  /\ attempt' = 0
  /\ UNCHANGED <<setup, bound, stun_done, probing, parse, printed, threw, foreign>>

NextPeer ==
  /\ phase = "next" /\ ~ Wrong("format")
  /\ local_port' = LocalPort[Peer]
  /\ IF Stun /\ ~ stun_done
       THEN phase' = "probe" /\ stun_done' = TRUE /\ attempt' = 0
       ELSE phase' = "open" /\ UNCHANGED <<stun_done, attempt>>
  /\ UNCHANGED <<setup, bound, probing, parse, printed, threw, foreign>>

(* probe_stable_port.                                                      *)

ProbeSocket ==
  /\ phase = "probe" /\ probing = {} /\ attempt < MaxAttempts
  /\ IF Occupied(INADDR_ANY, TestPort(attempt))
       THEN attempt' = attempt + 1 /\ UNCHANGED probing
       ELSE probing' = {TestPort(attempt)} /\ UNCHANGED attempt
  /\ UNCHANGED <<setup, phase, bound, local_port, stun_done, parse, printed, threw, foreign>>

\* Mutant: an attempt that fails is repeated
ProbeRepeats ==
  /\ phase = "probe" /\ probing # {}
  /\ probing' = {}
  /\ UNCHANGED <<setup, phase, bound, local_port, stun_done, attempt, parse, printed, threw,
                 foreign>>

\* The socket is closed and the next port tried.
NextAttempt ==
  /\ phase' = "probe" /\ probing' = {} /\ attempt' = attempt + 1
  /\ response' = <<>> /\ offset' = 0
  /\ UNCHANGED <<setup, bound, local_port, stun_done, printed, threw, foreign>>

\* get_public_address throws before it parses: no server, no answer within three
\* seconds, or a first datagram that is too short or has not the header of the
\* answer, such as a punch of the peer.
ProbeFails == phase = "probe" /\ probing # {} /\ NextAttempt

ProbeReceives(r) ==
  /\ phase = "probe" /\ probing # {} /\ Len(r) >= HEADER_SIZE
  /\ phase' = "parse" /\ response' = Received(r) /\ offset' = HEADER_SIZE
  /\ UNCHANGED <<setup, bound, local_port, stun_done, attempt, probing, printed, threw, foreign>>

\* There is no attribute left, or one that is cut off or too short.
ParseFails ==
  /\ phase = "parse"
  /\ \/ ~ HasAttr(response, offset) \/ Overruns(response, offset)
     \/ IsShort(response, offset)
  /\ NextAttempt

\* Another attribute, or an IPv6 address
ParseSkips ==
  /\ phase = "parse" /\ HasAttr(response, offset) /\ ~ Overruns(response, offset)
  /\ ~ IsShort(response, offset) /\ ~ IsIPv4(response, offset)
  /\ offset' = NextAttr(response, offset)
  /\ UNCHANGED <<setup, phase, bound, local_port, stun_done, attempt, probing, response,
                 printed, threw, foreign>>

Found ==
  /\ phase = "parse" /\ HasAttr(response, offset) /\ ~ Overruns(response, offset)
  /\ ~ IsShort(response, offset) /\ IsIPv4(response, offset)

\* The external port is another one.
ProbeMoved == Found /\ MappedPort(response, offset) \notin probing /\ NextAttempt

\* Mutant: the socket is not closed
ProbeStaysOpen(port) ==
  /\ Found /\ MappedPort(response, offset) = port /\ probing = {port}
  /\ phase' = "open" /\ local_port' = port /\ printed' = {port}
  /\ response' = <<>> /\ offset' = 0
  /\ UNCHANGED <<setup, bound, stun_done, attempt, probing, threw, foreign>>

ProbeSucceeds(port) ==
  /\ Found /\ MappedPort(response, offset) = port /\ probing = {port}
  /\ phase' = "open" /\ local_port' = port /\ printed' = {port}
  /\ probing' = {} /\ response' = <<>> /\ offset' = 0
  /\ UNCHANGED <<setup, bound, stun_done, attempt, threw, foreign>>

\* Symmetric NAT: the configured port it is.
ProbeGivesUp ==
  /\ phase = "probe" /\ probing = {} /\ attempt = MaxAttempts
  /\ phase' = "open"
  /\ UNCHANGED <<setup, bound, local_port, stun_done, attempt, probing, parse, printed, threw,
                 foreign>>

(* make_unique<UdpPort>, punch and add_port.                               *)

\* Mutants: a peer whose port is taken is skipped; the configured port is used
OpenOrSkip ==
  /\ phase = "open" /\ ~ Wrong("address")
  /\ bound' = IF PeerOccupied THEN bound ELSE Append(bound, local_port)
  /\ phase' = IF Peer = Peers \/ PeerOccupied THEN "running" ELSE "next"
  /\ UNCHANGED <<setup, local_port, stun_done, attempt, probing, parse, printed, threw,
                 foreign>>

OpenConfigured ==
  /\ phase = "open" /\ ~ Wrong("address") /\ ~ Occupied(LocalIp[Peer], LocalPort[Peer])
  /\ bound' = Append(bound, LocalPort[Peer])
  /\ phase' = IF Peer = Peers THEN "running" ELSE "next"
  /\ UNCHANGED <<setup, local_port, stun_done, attempt, probing, parse, printed, threw,
                 foreign>>

OpenPort ==
  /\ phase = "open" /\ ~ Wrong("address") /\ ~ PeerOccupied
  /\ bound' = Append(bound, local_port)
  /\ phase' = IF Peer = Peers THEN "running" ELSE "next"
  /\ UNCHANGED <<setup, local_port, stun_done, attempt, probing, parse, printed, threw,
                 foreign>>

\* inet_pton refuses the local address, or after bind() the remote one; or the
\* local address is none of this machine's.
AddressThrows == phase = "open" /\ Wrong("address") /\ Throw("argument")

BindThrows == phase = "open" /\ PeerOccupied /\ Throw("bind")

\* socket() fails in the constructor or in the probe
SocketThrows ==
  /\ phase = "open" \/ (phase = "probe" /\ probing = {} /\ attempt < MaxAttempts)
  /\ Throw("socket")

(* The other processes.                                                    *)

Take ==
  /\ foreign = {}
  /\ \E s \in ForeignLocal : ~ Occupied(s.ip, s.port) /\ foreign' = {s}
  /\ UNCHANGED own

Release == foreign # {} /\ foreign' = {} /\ UNCHANGED own

Probe ==
  \/ ProbeSocket \/ ProbeFails \/ (\E r \in Responses : ProbeReceives(r))
  \/ ParseFails \/ ParseSkips \/ ProbeMoved \/ (\E port \in probing : ProbeSucceeds(port))
  \/ ProbeGivesUp

Start ==
  \/ OpenTap \/ TapThrows
  \/ NextPeer \/ FormatThrows \/ Probe \/ OpenPort \/ AddressThrows \/ BindThrows

Next == Start \/ SocketThrows \/ Take \/ Release

\* main() is sequential code and each call it makes returns.
Spec == Init /\ [][Next]_vars /\ WF_vars(Start)

----------------------------------------------------------------------------
(* Correctness.                                                            *)

TypeOK ==
  /\ mistakes \in SUBSET Mistakes /\ taps \in 0 .. Len(Taps)
  /\ phase \in {"taps", "next", "probe", "parse", "open", "running", "failed"}
  /\ bound \in Seq(PortNumber) /\ local_port \in PortNumber
  /\ stun_done \in BOOLEAN /\ attempt \in 0 .. MaxAttempts
  /\ probing \in SUBSET PortNumber /\ printed \in SUBSET PortNumber
  /\ response \in Seq(0 .. 255) /\ offset \in Nat
  /\ threw \in {"", "tap", "argument", "socket", "bind"} /\ foreign \in SUBSET ForeignLocal

\* sw.run() is entered with a device for every --local argument and a port for
\* every --udp argument, in order, each on the local port it was given; only the
\* first may have been moved, and only with --stun.  None is left out because
\* something is wrong with it.
EveryPeerHasItsPort ==
  phase = "running" =>
    /\ taps = Len(Taps) /\ mistakes = {} /\ Len(bound) = Peers
    /\ \A k \in 1 .. Peers : bound[k] = LocalPort[k] \/ (k = 1 /\ Stun)

\* The address the user is told to share is the one the first peer's socket
\* gets, although the port was released and bound again in between.
SharedAddressIsUsed ==
  printed # {} /\ bound # <<>> => printed = {bound[1]}

\* A port is never refused because the probe of the switch itself still holds
\* it: it belongs to another process, or to an earlier peer.
NeverInItsOwnWay ==
  phase = "open" /\ PeerOccupied =>
    HeldByOthers(LocalIp[Peer], local_port) \/ HeldByPeer(LocalIp[Peer], local_port)

\* No iteration over the attributes reads past what was received, whatever the
\* lengths in the response say.
ReadsWhatWasReceived ==
  phase = "parse" => \A i \in BytesRead(response, offset) : i < Len(response)

\* What a server has answered, in plain or under the cookie, before or after
\* attributes of other kinds and lengths, decides the attempt: it succeeds when
\* the first IPv4 address has the port of the probe socket.
AnswerDecides ==
  [][phase = "parse" /\ phase' # "parse" =>
       \A answer \in Answers :
         answer.bytes = response =>
           (phase' = "open" <=> FirstMapped(answer.attrs) = probing)]_vars

\* What the documentation promises: peers given to the switch can all be
\* reached, so a switch whose ports nobody else holds starts.
PeersDoNotCollide ==
  phase = "open" /\ PeerOccupied => HeldByOthers(LocalIp[Peer], local_port)

\* The --udp arguments for which it does: where two local addresses clash the
\* local ports differ, and the probe cannot move the first one to the other.
WellSpaced ==
  /\ \A j, k \in 1 .. Peers :
       LocalPort[j] = LocalPort[k] /\ Clash(LocalIp[j], LocalIp[k]) => j = k
  /\ Stun => \A k \in 2 .. Peers, i \in 0 .. MaxAttempts - 1 :
               Clash(LocalIp[1], LocalIp[k]) =>
                 LocalPort[k] # (LocalPort[1] + i) % PortSpace

WellSpacedPeersDoNotCollide == WellSpaced => PeersDoNotCollide

\* Whatever the STUN server, the NAT and the other processes do, main() gets
\* to sw.run() or gives up.
StartsOrFails == <>(phase \in {"running", "failed"})

=============================================================================
