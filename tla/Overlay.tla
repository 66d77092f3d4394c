------------------------------ MODULE Overlay ------------------------------
(***************************************************************************)
(* Several switches joined by UDP links into one LAN.  Each learns and     *)
(* forwards on its own (virtual_switch.cpp); nothing in the code knows the *)
(* whole network or guards it against loops.  A jack is a port of a        *)
(* switch: a TAP device with hosts behind it, or one end of a link.  The   *)
(* network delays, reorders and loses what is on its way; a switch that    *)
(* ages its tables, or is restarted, forgets.                              *)
(***************************************************************************)
EXTENDS Integers, Forwarding, LearnedTable, Functions

CONSTANTS
  Switch,
  Ports,     \* Ports[n] is the set of ports of switch n
  Link,      \* the jacks that are UDP ports
  Far,       \* Far[j] is the other end of link jack j
  Behind,    \* Behind[j]: the switches whose frames come in at link jack j
  Home,      \* Home[mac] is the jack a host is plugged into
  Letters,   \* the frames hosts send: records [no, tap, frame]
  Host,      \* not a switch: the origin of a letter
  MaxForget  \* bound: times a switch forgets

Jack == UNION {{n} \X Ports[n] : n \in Switch}

ASSUME OverlayAssumption ==
  /\ Host \notin Switch /\ MaxForget \in Nat
  /\ Link \subseteq Jack
  /\ Far \in [Link -> Link] /\ \A j \in Link : Far[Far[j]] = j
  /\ Behind \in [Link -> SUBSET Switch]
  /\ DOMAIN Home \subseteq Mac /\ \A m \in DOMAIN Home : Home[m] \in Jack \ Link
  \* a host sends under its own address, in the ARP fields too
  /\ \A l \in Letters :
       /\ l.tap \in Jack \ Link /\ l.frame \in Frame
       /\ l.frame.src \in DOMAIN Home /\ Home[l.frame.src] = l.tap
       /\ TeachesIp(l.frame) => l.frame.sha = l.frame.src
  /\ \A l, k \in Letters : l.no = k.no => l = k

(***************************************************************************)
(* The links form a tree: Behind says what is reached through a link       *)
(* without turning back, everything is reached, and every link cuts the    *)
(* switches in two.                                                        *)
(***************************************************************************)
Links(n) == {j \in Link : j[1] = n}

Tree ==
  /\ \A j \in Link :
       /\ Behind[Far[j]] = Switch \ Behind[j]
       /\ Behind[j] = {Far[j][1]}
            \cup UNION {Behind[k] : k \in Links(Far[j][1]) \ {Far[j]}}
  /\ \A n \in Switch : Switch = {n} \cup UNION {Behind[j] : j \in Links(n)}

(***************************************************************************)
(* A frame under way.  <<no, by>> identifies it: letter no itself, or the  *)
(* ARP reply with which switch by answered it.                             *)
(***************************************************************************)
Copy(j, no, by, f) == [at |-> j, no |-> no, by |-> by, frame |-> f]

VARIABLES
  macs,      \* macs[n], ips[n]: the tables of switch n, without learned_at
  ips,
  wire,      \* copies buffered or under way, each bound for the jack "at"
  unsent,    \* the letters not sent yet
  forgets,
  \* History variables: no action reads them.
  written,   \* triples <<j, no, by>>: what was written to jack j ...
  repeated,  \* ... and what was written to it again
  lost,      \* the letters of which a copy was lost
  answered,  \* the letters that were answered by a switch
  misled     \* the hosts in whose name a switch answered towards the host

vars == <<macs, ips, wire, unsent, forgets, written, repeated, lost, answered, misled>>

Numbers == {l.no : l \in Letters}

Init ==
  /\ macs = [n \in Switch |-> NoEntries] /\ ips = [n \in Switch |-> NoEntries]
  /\ wire = {} /\ unsent = Letters /\ forgets = 0
  /\ written = {} /\ repeated = {}
  /\ lost = {} /\ answered = {} /\ misled = {}

----------------------------------------------------------------------------
\* A host writes a frame to its TAP device.
Send(l) ==
  /\ l \in unsent
  /\ unsent' = unsent \ {l}
  /\ wire' = wire \cup {Copy(l.tap, l.no, Host, l.frame)}
  /\ UNCHANGED <<macs, ips, forgets, written, repeated, lost, answered, misled>>

Lose(c) ==
  /\ c \in wire
  /\ wire' = wire \ {c}
  /\ lost' = lost \cup {c.no}
  /\ UNCHANGED <<macs, ips, unsent, forgets, written, repeated, answered, misled>>

\* The host is reached through jack j.
Towards(j, mac) ==
  IF j \in Link THEN Home[mac][1] \in Behind[j] ELSE Home[mac] = j

\* Mutant: the destination learned in place of the source
LearnedDestination(table, f, p) == Put(table, f.dst, [port |-> p])

Learned(table, f, p) == Put(table, f.src, [port |-> p])

(* Switch c.at[1] reads copy c from its port c.at[2]: the tables after     *)
(* learn_mac_address and handle_arp, and what is then written where.       *)
MacsAfter(c) == Learned(macs[c.at[1]], c.frame, c.at[2])

IpsAfter(c) ==
  IF TeachesIp(c.frame)
    THEN Put(ips[c.at[1]], c.frame.spa, [mac |-> c.frame.sha]) ELSE ips[c.at[1]]

Answers(c) == Answerable(c.frame, IpsAfter(c))

Out(c) ==
  {<<<<c.at[1], w[1]>>, w[2]>> :
     w \in Writes(Ports[c.at[1]], c.at[2], c.frame, MacsAfter(c), IpsAfter(c))}

By(c) == IF Answers(c) THEN c.at[1] ELSE c.by

Handle(c) ==
  LET now == {<<w[1], c.no, By(c)>> : w \in Out(c)}
  IN /\ c \in wire
     /\ macs' = [macs EXCEPT ![c.at[1]] = MacsAfter(c)]
     /\ ips' = [ips EXCEPT ![c.at[1]] = IpsAfter(c)]
     /\ wire' = (wire \ {c})
          \cup {Copy(Far[w[1]], c.no, By(c), w[2]) : w \in {v \in Out(c) : v[1] \in Link}}
     /\ written' = written \cup now
     /\ repeated' = repeated \cup (written \cap now)
     /\ answered' = IF Answers(c) THEN answered \cup {c.no} ELSE answered
     /\ misled' =
          IF Answers(c)
            THEN misled \cup {m \in {IpsAfter(c)[c.frame.tpa].mac} : Towards(c.at, m)}
            ELSE misled
     /\ UNCHANGED <<unsent, forgets, lost>>

\* Entries of both tables age out, or the switch is restarted without any.
Forget(n) ==
  /\ forgets < MaxForget
  /\ forgets' = forgets + 1
  /\ \E M \in SUBSET DOMAIN macs[n], I \in SUBSET DOMAIN ips[n] :
       /\ macs' = [macs EXCEPT ![n] = Restrict(@, M)]
       /\ ips' = [ips EXCEPT ![n] = Restrict(@, I)]
  /\ UNCHANGED <<wire, unsent, written, repeated, lost, answered, misled>>

Next ==
  \/ \E l \in Letters : Send(l)
  \/ \E c \in wire : Handle(c) \/ Lose(c)
  \/ \E n \in Switch : Forget(n)

Spec == Init /\ [][Next]_vars

\* Each switch's loop serves all of its ports (VirtualSwitch, EveryPortServed).
FairSpec ==
  Spec /\ \A n \in Switch : WF_vars(\E c \in wire : c.at[1] = n /\ Handle(c))

----------------------------------------------------------------------------
TypeOK ==
  /\ DOMAIN macs = Switch /\ DOMAIN ips = Switch
  /\ \A n \in Switch :
       /\ DOMAIN macs[n] \subseteq DOMAIN Home
       /\ \A m \in DOMAIN macs[n] : macs[n][m] \in [port : Ports[n]]
       /\ DOMAIN ips[n] \subseteq Ip
       /\ \A i \in DOMAIN ips[n] : ips[n][i] \in [mac : DOMAIN Home]
  /\ \A c \in wire :
       /\ c = Copy(c.at, c.no, c.by, c.frame)
       /\ c.at \in Jack /\ c.no \in Numbers /\ c.by \in Switch \cup {Host}
       /\ c.frame \in Frame /\ c.frame.src \in DOMAIN Home
       /\ TeachesIp(c.frame) => c.frame.sha = c.frame.src
  /\ unsent \subseteq Letters /\ forgets \in 0 .. MaxForget
  /\ written \subseteq Jack \X Numbers \X (Switch \cup {Host})
  /\ repeated \subseteq written
  /\ lost \subseteq Numbers /\ answered \subseteq Numbers
  /\ misled \subseteq DOMAIN Home

\* No frame is written twice to a jack: no host sees a duplicate, no link
\* carries one, and so no frame circulates, however the copies of a flood race
\* and whatever the switches forget meanwhile.
NoDuplicates == repeated = {}

\* A learned port leads to its host, although switches also learn from the ARP
\* replies that other switches send in the host's name.  The exception is a host
\* in whose name a switch answered a request that came from the host's own
\* direction: that reply is learned from on the wrong side.
EntriesLeadHome ==
  \A n \in Switch : \A m \in DOMAIN macs[n] \ misled :
    Towards(<<n, macs[n][m].port>>, m)

\* A frame to a group reaches every other TAP device, unless a copy of it is
\* lost on the way or a switch answered it.
Floods == {l \in Letters : IsMulticast(l.frame.dst)}

ReachedAll(l) == \A j \in Jack \ (Link \cup {l.tap}) : <<j, l.no, Host>> \in written

FloodReachesAll ==
  \A l \in Floods : l \notin unsent ~> ReachedAll(l) \/ l.no \in lost \cup answered

\* A letter is settled when it was sent and no copy of it is on its way.
Settled(l) == l \notin unsent /\ \A c \in wire : ~ (c.no = l.no /\ c.by = Host)

\* No switch lets a flood end before it has been everywhere: when no copy is
\* left, every other TAP device has the frame, with the same exceptions.
FloodIsComplete ==
  \A l \in Floods : Settled(l) => ReachedAll(l) \/ l.no \in lost \cup answered

\* A frame to a host reaches it, whatever the switches on the way know or have
\* forgotten: the entry of one never sends it back against the entry of another.
\* The exception is again a host that was answered for from the wrong side.
ToHosts == {l \in Letters : l.frame.dst \in DOMAIN Home /\ Home[l.frame.dst] # l.tap}

Arrived(l) == <<Home[l.frame.dst], l.no, Host>> \in written

UnicastArrives ==
  \A l \in ToHosts :
    l \notin unsent ~> Arrived(l) \/ l.no \in lost \cup answered \/ l.frame.dst \in misled

\* No switch drops a frame to a host or hands it to the wrong one, because it
\* knows nothing of the host or the wrong port for it: when no copy is left, the
\* frame has arrived, with the same exceptions.
UnicastIsComplete ==
  \A l \in ToHosts :
    Settled(l) => Arrived(l) \/ l.no \in lost \cup answered \/ l.frame.dst \in misled

(***************************************************************************)
(* To the hosts, the switches and links are one segment.                   *)
(***************************************************************************)
Taps == Jack \ Link

Received == {x \in Taps \X Letters : <<x[1], x[2].no, Host>> \in written}
Ended    == {l \in Letters : Settled(l)}
Excused  == {l \in Letters : l.no \in lost \cup answered \/ l.frame.dst \in misled}

Recipients ==
  [l \in Letters |->
     IF l \in Floods THEN Taps \ {l.tap}
     ELSE {Home[m] : m \in DOMAIN Home \cap {l.frame.dst}} \ {l.tap}]

Lan == INSTANCE Segment
  WITH Tap <- Taps, Letter <- Letters, From <- [l \in Letters |-> l.tap], For <- Recipients,
       sent <- Letters \ unsent, got <- Received, over <- Ended, excused <- Excused

\* What the hosts see of several switches, with their races, tables and links,
\* is one segment: whatever is written to a TAP device was sent by a host at
\* another one, is written once, and nothing ends before it has arrived.
IsSegment == Lan!Spec

=============================================================================
