# VirtualSwitch in TLA+

A verification project for VirtualSwitch, a user-space Ethernet switch that
joins TAP devices and UDP tunnels into one virtual LAN (`src/README.md` of this
repository describes the program). The modules are translated from the C++ and
shell sources; `PROJECT.json` maps each definition to the lines it stands for.

    tlc -workers 2 -config MCSwitchAging.cfg MCSwitch.tla    # model-check a run
    tlapm VirtualSwitchProofs.tla                            # check the proofs

## Inventory

| component | source | state | operations |
|---|---|---|---|
| switch core | `switch/virtual_switch.*` | `mac_address_table_`, `ip_to_mac_`, `last_age_check_`, `ports_` | `run`, `learn_mac_address`, `handle_arp`, `forward_frame`, `age_out_mac_entries` |
| Ethernet frame | `core/ethernet_frame.*` | none | constructor, `is_multicast` |
| UDP port | `network/udp_port.*` | socket, `remote_addr_`, `key_` | `read`, `write`, `punch`, `keepalive` |
| TAP device | `network/tap_device.*` | descriptor | `read`, `write` |
| STUN client | `network/stun_client.*` | a socket per attempt | `probe_stable_port`, `get_public_address` |
| start-up | `main.cpp` | `stun_done`, the ports added so far | `add_tap`, `add_udp_peer`, `main` |
| container | `entrypoint.sh` | processes of the container | starts relay, tunnel, switch; announces the host by ARP every 5 s |
| relay and utun helper | `relay.cpp`, `gui/src/utun.cpp` | `mac`, `have_mac` (address of the host) | two poll loops, a hello every 5 s |
| GUI controller | `gui/src/switch_controller.*`, `main_window.cpp` | the docker process, the peer list | `start`, `stop`, `launchTunnel`, `killTunnel`, `onReadyRead` |
| GUI widgets, build, images, scripts | the rest | layout, configuration | nothing with a behaviour of its own |

How they interact. `main()` creates the ports and calls `run()`, a single
thread that polls all descriptors, reads one frame from each readable port,
learns from it, ages the tables, answers ARP or forwards it. There are no locks
and no callbacks: what interleaves are *processes* (switches, hosts, relay, GUI,
docker), the *network* between them, the *NATs* on the way, the *clock*, and
during start-up the *other programs* of the machine that want UDP ports. The
container runs a relay next to the switch; the GUI starts and stops both and
reads the switch's output.

What is hard, and what correctness means:

- **Switch core.** The tables are swept lazily: only when a frame is handled and
  the last check is old enough, with the clock read anew in each function and
  durations truncated to seconds. Correct means: frames go where the newest
  information says, nothing live is forgotten, nothing dead is used beyond a
  known bound, ARP answers are usable; a read never blocks; no port starves.
- **UDP port.** Datagrams are lost, delayed and reordered; NATs move a peer;
  peers restart; other programs send. Correct means: the peer's port is learned
  from the peer only, and after a remapping or a restart the ends find each
  other again.
- **Keepalives.** Sent only when nothing was received for 2.5 s. Correct means:
  no connection falls silent for as long as a NAT takes to drop it.
- **Start-up.** The probe releases the port it chose before it is bound again.
  Correct means: the address printed is the one used, the peers of one switch do
  not take each other's ports, and the program starts or gives up.
- **Relay and tunnel, GUI.** Restarts of either side, and detached commands that
  race on one container name and one helper process.

- **Overlay.** Nobody knows the whole network, and each switch learns from the
  frames and ARP answers of the others. Correct means: no duplicates, entries
  that lead home, floods and unicasts that arrive.

`PROJECT.json` lists the hazards line by line, with the properties that watch
each.

## Modules

| module | contents |
|---|---|
| `EthernetFrame` | frames at the level of detail the switch decides on, the ARP reply |
| `LearnedTable` | the map operations of the two tables |
| `Forwarding` | what a switch decides about one frame, given its tables |
| `LearningBridge` | abstract specification of a switch: it remembers for ever, must act on a memory younger than `MinLife`, must not on one of `MaxLife` or older |
| `VirtualSwitch` | `run()` and what it calls; `BridgeSpec` instantiates `LearningBridge` |
| `VirtualSwitchProofs` | inductive invariants and safety theorems of `VirtualSwitch` |
| `VirtualSwitchRefinement` | proxy ARP theorem, and that `VirtualSwitch` implements `LearningBridge` |
| `Segment` | abstract specification of a LAN: a frame comes out at the other devices, once at each, and does not end before it has been where it is for |
| `Overlay`, `OverlayProofs` | several switches that each forward like `VirtualSwitch`, and the links between them; `Lan` instantiates `Segment` |
| `OverlayRefinement` | that `Overlay` implements `Segment` when its links form a tree |
| `StunResponse` | the STUN parser, and what a server writes |
| `Startup`, `StartupProofs` | the devices of the `--local` and the ports of the `--udp` arguments: probe, parse, release, bind |
| `FrameCodec` | sizes: length field, nonce, tag, buffers, MTU |
| `UdpLink`, `UdpLinkProofs` | two `UdpPort`s, their NATs, the network |
| `Keepalive`, `KeepaliveProofs` | several switches in discrete time: poll timeout, punches, `usleep` |
| `LossyPipe` | abstract specification of a tunnel in one direction |
| `Tunnel` | relay and utun helper, `UpIsPipe` and `DownIsPipe` instantiate `LossyPipe` |
| `MacApp`, `MacAppProofs` | the app, its docker commands and scripts, the container; composed with `Tunnel` |
| `MCSwitch`, `MCOverlay`, `MCTree`, `MCStartup`, `MCLink`, `MCKeepalive`, `MCMacApp` | the instances TLC checks |

What composes what: `VirtualSwitch` and `Overlay` share `Forwarding`, so the
decision that is checked against one switch's clock is the one that is checked
against several switches. `Overlay` replaces the clock by `Forget`, which drops
any entries at any time: whatever `VirtualSwitch` forgets by age, it may forget.
`Startup` runs the parser of `StunResponse`, `UdpLink` measures its datagrams
with `FrameCodec`, `MacApp` drives the processes of `Tunnel`.

### VirtualSwitch

The thread is sequential, so one iteration of the loop body is one action,
`ReadFrame`: it reads the head of a flagged port's queue, learns its source
(`Learned`), sweeps the tables if a check is due (`AgedMacs`, `AgedIps`),
learns an ARP sender (`TaughtIps`), and answers or forwards (`Writes`). The
calls of `steady_clock::now()` are four separate instants `t1 <= t2 <= t3 <= t4`,
at most `MaxLag` ticks after the iteration starts. A result `<= 0` is
`ReadNothing`; a runt makes the `EthernetFrame` constructor throw (`ReadRunt`),
which ends the process, as does a failing poll (`PollFails`). `Poll` flags the
readable ports and the round visits them in order. Frames arrive on any port at
any moment. Four history variables record what was handled, what was sent and
what was last heard, for the properties and the refinement; no action reads them.

A TAP device and a UDP port are the same thing here, a queue of items; a full
queue drops, which is no step. The log line of each frame and `mac_to_string`
(an injective key of the table) are left out; `tha` of an ARP packet is read by
nobody. ARP answers leave by the port the request came from, as in the code.

### Overlay

A *jack* is a port of a switch. `Handle` is one iteration of `run()` at one switch:
it learns the source, learns an ARP sender, and answers or forwards, all with the
operators of `Forwarding`; what is written to a link appears in `wire` for the other
end. Copies in `wire` are handled in any order (delay, reordering) or lost. `Forget`
stands for ageing and for restarts. A host sends its letters in any order, each once.
`Behind` describes the layout: what is reached through a link. It is a constant,
`Tree` says when it describes a tree (every link cuts the switches in two), and no
action reads it, except to record `misled` (below), a history variable.

`Lan` maps all this to one `Segment`, in which a letter is excused that was lost, answered
by a switch, or sent to a misled host.

`misled` collects the hosts in whose name a switch answered a request that had come
from the host's own side. That is possible: a switch off the path answers the copy
of a flood, and the switches in between learn the host at the wrong port. The
properties that relate entries or unicasts to hosts exclude exactly these hosts.

### Startup and StunResponse

The phases are the program points of the loop over `--udp`: `NextPeer` decides
whether this peer probes, `ProbeSocket` creates and binds the socket of an
attempt, `ProbeFails` is every way `get_public_address` can throw before it parses,
`ProbeReceives` takes a response of the right header, and the parser's loop is a
step per attribute: `ParseSkips`, `ParseFails`, or `Found`. The attempt ends in
`ProbeSucceeds`, which closes the socket and returns its port, or in `ProbeMoved`.
`OpenPort` and `BindThrows` are the constructor of `UdpPort`. Whether `bind` succeeds
depends on address and port (`Occupied`): one port at two local addresses is no
conflict, unless one of them is 0.0.0.0 (`Clash`), as that of the probe socket and those
of `entrypoint.sh` are. Other processes
`Take` and `Release` ports at any point. `TestPort` wraps at `PortSpace`, the
2^16 of `uint16_t`. Before the peers, `OpenTap` opens the devices of the `--local`
arguments, one per step. An argument is looked at only when its turn comes, so a
mistake in a later one ends a switch that has punched and printed already: `mistakes`
says what is wrong with this run's arguments, and `FormatThrows` and `AddressThrows`
come at the place where the code finds out. `EveryPeerHasItsPort` states that no
mistake is overlooked on the way to `run()`.

A response is a sequence of bytes, as the parser's offsets, lengths and padding are
what can go wrong; the XOR with the cookie is computed, 16 bits of it. The reference is
the other direction, a relation: an answer is a list of attributes with the bytes that
stand for them (`IsAnswer`, `Written`; `MCStartup` writes such bytes), `FirstMapped`
reads off the list what the parser ought to find, and `AnswerDecides` relates the two.
`Garbled` responses are not answers: cut off, with lengths that promise more than
came. Left out: the contents of the header (a mismatch is `ProbeFails`) and the IP
address, which is only printed.

### UdpLink

Each side has a socket (`inbox`), the port it sends to (`remote_port`) and a
key; each NAT has an external port (`ext`) and admits datagrams once its side
has sent something (`opened`). `Read` follows `UdpPort::read`: the address is
compared first; without a key the port is learned at once, with one only after
decryption. Decryption is perfect: it succeeds exactly for what was sealed
under the key, and nobody else has it (`KeyAssumption`). `Keepalive` needs an
empty socket, as poll must have timed out; `Restart` makes a new `UdpPort` with
the configured port. The network is a set: a lost datagram is one that never
arrives. A burst of identical punches is one datagram, as only the arrival of
one matters. A datagram that is delivered twice by the network is not modelled.

Sizes come from `FrameCodec`: `Accepts` compares the length field that `write()` of
the peer produces with the buffers of `read()`. Frames are at most 1518 bytes
(`SizeAssumption`); a larger one would overrun the ciphertext array of `write()`, which
no MTU the repository sets lets happen.

NATs filter by address. If the NAT of the side that is *not* moved filters by
port too, the moved side's datagrams never get to `UdpPort::read`, and no code
there could learn from them; that case is outside the model.

### Keepalive

Time is discrete, a tick is the 50 ms `usleep` of `punch`. A switch waits in
poll (`waited`), or is in `keepalive()` (`punching`, `asleep`). Any datagram or
host frame ends the poll and starts a new one; only a poll that has run for
`POLL_TIMEOUT` ticks punches. `idle` counts the ticks since a switch last sent
to a peer. Where a frame goes is `VirtualSwitch`'s matter, so a switch in `Hosts`
may at any time read a frame and send it to a peer, and one in `Local` may read
something that goes to no peer: an ARP request that is answered on the spot, a frame
between two hosts behind the same port, a datagram of a stranger.

### Tunnel and MacApp

`Tunnel` holds the two poll loops, one action per round (`RelayRound`,
`HelperRound`); when both descriptors are flagged, the order of the code is kept: what
comes from `tun0` goes to the address known *before* the socket is read. Helpers are
numbered, each has a socket of its own, and several may be alive. Datagrams for a
process that is not there are lost. The hello of four bytes is the `Hello` packet; the
test `n >= 20` keeps it from `tun0`. Buffers are sets: packets overtake each other.

`MacApp` adds who starts and ends these. `process_` is the QProcess as the
controller sees it, `client` the docker client as it is; they differ between its end
and the event loop's `Finished`. `waitForFinished(3000)` divides `start()` and
`stop()` in two actions, `AddPeer`/`AddPeerGoesOn` and `Close`/`CloseGoesOn`; the window's
event loop stands still between them, docker and the scripts do not. Detached
commands are counters of processes that act whenever they like (`stops`, `launching`,
`sleeping`, `killing`). A launch script is two steps, `pkill` and, 0.3 s later, the
start. The container goes from `"entry"` to `"switch"`, or ends when `tun0` does not
come up or when the switch fails, as `Startup` shows it may from two peers on.

Assumed of docker: the daemon works, `docker run` creates its container after any time,
a client told to end while creating may or may not. `pkill` ends every helper. The
checks of `launchTunnel` on address and path pass.

`owed` records what ought to end because the window was closed (`Debt`): the container
that is there, and the helpers, provided that the docker client itself (`client`, not
the QProcess that `stop()` looks at) still runs and that no launch script is pending.
`ContainerIsStopped` and `HelpersAreKilled` say that it ends and stays away. A window
that is closed after the client has ended owes no helper its end: the code ends none
then (see the remarks).

## Runs

| run | shows |
|---|---|
| `switch_aging` | the safety invariants of the switch and `BridgeSpec` |
| `switch_loop` | no port starves |
| `overlay_row` | three switches in a row are one segment (`IsSegment`): `NoDuplicates`, `EntriesLeadHome`, no flood or unicast ends short of its hosts, and each ends |
| `overlay_ring` | violation of `NoDuplicates`: three players who each add both others |
| `startup_spaced` | start-up invariants and `StartsOrFails`, ports that wrap, another process in the way; the parser stays inside the response and finds what is there |
| `startup_entrypoint` | violation of `PeersDoNotCollide`: `PEERS` with two peers |
| `link_remap` | an unkeyed link recovers by keepalives alone |
| `link_keyed` | a keyed link recovers by frames, no stray datagram moves it, and the largest frame fits |
| `keepalive_busy_hub` | with one hub that is never left in peace and two leaves, every link is used by one end at least |
| `keepalive_busy_row` | violation of `LinksAlive`: a link between two busy switches falls silent |
| `mac_app` | the tunnel is a lossy pipe in each direction, the relay finds the helper, closing the window while docker runs ends container and helpers for good |
| `mac_app_second_peer` | violation of `AskedPeersAreServed`: a peer added while docker stops too slowly |

Bounds, and why they are enough:

- `switch_aging`: two ports are the least on which a host can move and a flood
  differs from a unicast; three frames exercise every branch (unicast known and
  unknown, ARP request answered and forwarded, announcement). The aging time is
  1 second of two ticks, the interval 1 second, so that truncation and the late
  sweep both show; `MinLife` is 4 and `MaxLife` 6 ticks, and `MaxTime` 7 lets
  an entry outlive both. `MaxLag` 1 lets every pair of clock reads differ. One
  buffered item per port suffices because the properties look at one iteration
  at a time; `switch_loop` has two and three ports.
- `overlay_row`: three switches are the least with one between two others and one
  off the path; b announces itself, a asks for b and sends to it, in any order, so
  that requests are answered by any switch and unicasts meet known, unknown and
  forgotten addresses. Two `Forget`s suffice to make two switches disagree; each may
  drop any part of both tables.
- `startup_spaced`: two devices, four peers (the first probes, one is next to another, the
  last has the port of the second at another address), any of two mistakes in the later ones, three
  attempts that pass the wrap at 65536, one foreign port at a time. The answers and
  garbled responses hold each kind of attribute, plain and XORed ports, odd lengths,
  an IPv6 address before an IPv4 one, and each way to be cut off.
- `link_*`: three external ports (shared, moved to, the other side's), one kind
  of frame, two faults: enough to remap there and back, to restart while a
  datagram of the old mapping is under way, or to remap after a stray.
- `keepalive_*`: the timeout of 50 ticks is scaled to 3 or 4. What matters is
  that a punching switch's period (timeout plus one tick per port) is longer than
  the timeout and less than twice as long, and that holds for both.
  The NAT timeout of the hub is 4 ticks, the least for which the property holds with
  these constants (with 3, TLC finds a violation); that of the row is 9, three
  timeouts. Real ones are ten and more, which the violation would pass as well, since
  the cycle that starves a switch can be repeated.

- `mac_app`: two peers are the least for a restart, two launch scripts and two helpers
  at once; one packet in each direction shows loss, delay and duplicates (two upward
  packets were checked once: 631k states, the same result).

Fairness. `switch_loop`: weak fairness of `Loop`, the switch's thread is
scheduled and poll returns when something is readable. `overlay_row`: weak fairness
of each switch's `Handle`; a loss is never fair, and the properties allow for it.
`startup_spaced`: weak
fairness of `Start`; every call of `main` returns, `recv` after three seconds at
most. `link_*`: weak fairness of `Keepalive`, `Read` and, where a side has frames,
of forwarding them; strong fairness of the arrival of punches and of frames:
the network does not lose all of what is sent again and again. A side with a key
and no frames to send teaches its peer nothing, so `link_keyed` needs the traffic
of the moved side; `link_remap` needs none. Remappings, restarts and strays are
bounded and never fair. `mac_app`: weak fairness of the event loop, of docker, of a
`docker stop`, of the scripts once the user grants the password (refusing is an
action of its own, without fairness), and of the relay's and each helper's loop:
each is a process that runs and whose calls return. That the relay's `tun0` fails
to come up (`EntryFails`), that the user adds a peer, or closes the window, is never
fair.

Deadlock is checked in the switch, start-up, link and keepalive runs; an exited
switch stutters explicitly (`Exited`). It is not in the overlay, where everything has
been delivered in the end, and in the app, whose window may be closed and whose
container may be gone for good.

## Proofs

TLAPS proves, for all values of the constants under the named assumptions:

- `VirtualSwitchProofs`: `TypeCorrect`, `ReadsNeverBlock`, `Swept`, `Remembers`,
  from `SwitchAssumption` and `AddressAssumption`. The type invariant carries
  that no timestamp is in the future, which makes every age non-negative. For
  `SweptInTime` and `TablesRemember` the step is cut in two: `AgeOutEntry` says what one
  sweep leaves, `MacTableStep` and `IpTableStep` what an iteration makes of one
  entry; the history variables make "newest" a state predicate. The lemmas on
  `\div` (`Multiples`, `WholeSeconds`) turn truncated seconds into ticks once.
- `VirtualSwitchRefinement`: `ProxyUsable` adds to the above that an ARP entry is
  never much younger than the table entry of the address it names. `Implements`
  shows that `Init` maps to the bridge's `Init`, `ReadFrame` to `Handle` and every
  other step to `Wait` or a stutter; the bounds on ages come from `SweptInTime` and
  the interval, the destinations from `TablesRemember`.
- `OverlayProofs`: `OverlayTypeCorrect` for any layout; `FloodsDoNotMultiply`,
  `LearnedPortsLeadHome`, `FloodsAreComplete` and `UnicastsAreComplete` for every tree,
  from `OverlayAssumption` and `Tree`. For duplicates a state predicate says where
  each copy of a letter can still go: what lies behind its jack has not seen it, and
  no two copies have a switch in front of them in common; an answer by a switch takes
  the place of the copy it answers. For the entries, besides the tables, every copy on
  its way comes from the side of its source. The last two need what delivery means
  half-way (`Pending`): a flood has been written to a TAP device, or a copy of it has
  that device in front of it (`Flooding`); a unicast has arrived, or there is a copy
  with the destination in front of it (`Seeking`), which the entries cannot send back
  because they lead home.
- `OverlayRefinement`: `TreeIsSegment`. In the segment, a letter is over when no copy
  of it is on its way, and it has come out where it was written to a TAP device.
  `Send` maps to `Send`, `Handle` and `Lose` to `Carry`, or for the answers of switches
  to `Excuse`; `Forget` is not seen. What the theorems of `OverlayProofs` leave
  open is that nothing is written back to the device it came from (`Outbound`: a
  letter travels away from there, whatever the tables say).
- `KeepaliveProofs`: `KeepaliveTypeCorrect` for any network, and `LeavesKeepLinksAlive`
  for every one in which each link has a *leaf*: an end with no other link and not
  in `Local`. The assumption `NatPatient` is the bound the run shows to be sharp. The
  invariant (`Punctual`) bounds the silence of a leaf's link by the time since the
  leaf called `poll()`: whatever began this poll was sent over the link, by the leaf
  now or by its peer `MaxLatency` ago at most. The others may be kept busy for ever.
  `keepalive_busy_row` shows that the assumption on leaves is needed.
- `StartupProofs`: all six invariants and `AnswersDecide`. The inductive invariant adds which
  phase each socket belongs to (`ProbeInv`), the link between the printed address
  and the port about to be bound (`SharedInv`), and that each bound port is a
  *candidate* of its peer (`CandidateInv`): the configured one or, for the first,
  one the probe tries. `WellSpacedPeersDoNotCollide` is not inductive without the last;
  `EveryPeerHasItsPort` needs that what is wrong with an argument lies ahead
  (`AddingInv`). `ParserStaysInside` needs of a response only that it is a sequence of
  bytes. `AnswersDecide` holds for answers with any attributes of any lengths: the
  parser's loop is the induction, its invariant (`ParseInv`) being that `offset` is
  where an attribute starts and none before it is an IPv4 address; that the XOR
  undoes itself is `CookieTwice`. `EqualPortsNeverRun` is a converse of
  `WellSpacedStarts`, and finding 1 for any number of peers: it assumes two equal
  local ports at local addresses that clash. At two addresses of the machine that are
  not 0.0.0.0 they do not, and such a switch starts.
- `UdpLinkProofs`: `LinkTypeCorrect`, `PortsOnlyFromPeer`, `SteadyPeerKept`.
  What side `s` may learn is already buffered or on its way, so the invariants
  bound the ports of those datagrams (`Teaches`). `StepBrings` says once what any
  step can bring to a side; both invariants follow from it. `FramesComplete` follows
  from the types and `FrameFits`; `MtuAvoidsFragments` is about the sizes alone.
- `MacAppProofs`: `AppTypeCorrect`, `TunnelUpIsPipe`, `TunnelDownIsPipe`, from
  `TunnelAssumption` and `MacAppAssumption`. That a packet comes out once needs that it
  is in one place only: at an interface, in a buffer, or out. The invariants say so
  for each pair of places, and each action of either module maps to `Enter`, to
  `Leave` or to a stutter.

Only model-checked: liveness (`EveryPortServed`, `StartsOrFails`, `Reconnects`,
`FloodReachesAll`, `UnicastArrives`, `RelayFindsHelper`, `ContainerIsStopped`,
`HelpersAreKilled`), which needs fairness and `ENABLED`, beyond this prover. Every
safety property of a passing run is stated by a theorem.

## Findings

1. `entrypoint.sh` gives every peer the same local port, so the container cannot
   start with two peers unless the probe happens to move the first
   (`startup_entrypoint`).
2. A connection between two switches that are busy with others carries no
   keepalives in either direction (`keepalive_busy_row`), as they are sent only by a
   switch that hears nothing on *any* port.
3. Nothing guards floods against cycles: three players who each add both others, as
   README's example for 3+ players suggests, have one, and a broadcast circulates
   for ever (`overlay_ring`).
4. A peer added while the old container takes longer than three seconds to stop is
   never served: `QProcess::start` is ignored (`mac_app_second_peer`). The container's
   process 1 ignores SIGTERM, so that `docker stop` takes ten.

Remarks, found while modelling and not a run of their own:

- With `--stun`, the probe may move the first peer to the local port of a later
  one (README's ports 5000 and 5001), whose bind then fails; `PeersDoNotCollide` is
  violated by that instance too.
- A hub of two idle peers never punches itself: the punches of its peers keep ending
  its poll.
- A proxy ARP answer from a switch off the path misleads the switches in between
  until the host sends again (`misled`); the announcement every five seconds of
  `entrypoint.sh` repairs it, a Linux host has none.
- README says that the switch sets the TAP MTU; only `entrypoint.sh` does. It says
  that the password is asked for once; each added peer and the closing ask again.
- `stop()` kills the helper only while the docker client runs
  (`switch_controller.cpp:86-90`). When the client has ended before, because the switch
  or the entry point failed or because of finding 4, closing the window leaves a helper
  that is alive, and its route to 10.0.0.0/24, behind as root. The model reaches such
  states; `HelpersAreKilled` does not cover them, and no line of the repository states
  what should happen.
- What comes up after the window was closed stays: a launch script that gets its
  password late, or a container that is created after `docker stop` found none.

## Plan

Done: the switch core with its abstract specification and proofs; start-up with the
STUN parser; the UDP link with its sizes; keepalive timing; the overlay; relay, helper
and the app around them. What would come next:

1. `Overlay` with `VirtualSwitch`'s clock instead of `Forget`, each switch shown to be
   a `LearningBridge`.
2. A `Segment` that says what excuses a letter, instead of taking it from the history
   variables.

## Not modelled

The conversions and usage text of `main.cpp` (options, digits, hex), the widgets and
the tray icon, build files, opening tun and utun devices and the `ip`, `ifconfig` and `route` commands: single system calls, layout and
configuration. The parsing of the switch's output for the address label and the logs
(`onReadyRead`): when its lines arrive is up to Qt, and `PROJECT.json` lists the hazard
that remains. Failures and name conflicts of the docker daemon. Cryptography beyond
perfect encryption.
