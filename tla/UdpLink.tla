------------------------------ MODULE UdpLink ------------------------------
(***************************************************************************)
(* Two UdpPorts that face each other across the internet: the socket, the  *)
(* remembered address and the key of each, the NAT in front of each, and   *)
(* the datagrams in between.  The switch is sequential, so a read(), a     *)
(* write() or a keepalive() of one port is one action; what interleaves    *)
(* are the two machines, the network, which loses and reorders, and the    *)
(* NATs, which move a socket to another external port without notice.      *)
(*                                                                         *)
(* remote_addr_.sin_addr never changes; remote_addr_.sin_port does, when   *)
(* read() learns where the peer's NAT has moved it.                        *)
(***************************************************************************)
EXTENDS FrameCodec, Sequences

CONSTANTS
  PortNumber,  \* external UDP ports of the two NATs; 0 is none of them
  SharedPort,  \* the port each side told the other, which configured it
  Key,         \* the --key of each side, or NoKey
  NoKey,
  Roaming,     \* the sides whose NAT may use another port than the shared one
  Frames,      \* what the switch of each side forwards to its port ...
  Size,        \* ... and the bytes of each frame, those of StrayBodies included
  StrayIps,    \* where datagrams that neither UdpPort sent may come from
  StrayBodies, \* ... and what they may contain
  QueueLen,    \* bound: datagrams a socket buffers
  MaxFaults    \* bound: remappings, restarts and stray datagrams together

Side == {1, 2}
Peer(s) == 3 - s

Punch     == [kind |-> "punch"]      \* four zero bytes
Malformed == [kind |-> "malformed"]  \* shorter than it or its length field says
Packet    == [kind : {"frame"}, key : {Key[s] : s \in Side}, frame : UNION {Frames[s] : s \in Side}]
Body      == {Punch} \cup Packet \cup StrayBodies

ASSUME LinkAssumption ==
  /\ 0 \notin PortNumber /\ SharedPort \in [Side -> PortNumber]
  /\ DOMAIN Key = Side /\ DOMAIN Frames = Side
  /\ Roaming \subseteq Side
  /\ StrayIps \subseteq {"peer", "other"}
  /\ \A b \in StrayBodies : b.kind \in {"punch", "malformed", "frame"}
  /\ \A s \in Side : Frames[s] \subseteq DOMAIN Size

\* An Ethernet frame without a jumbo MTU; a larger one overruns the ciphertext
\* array of write().
ASSUME SizeAssumption == \A s \in Side : \A frame \in Frames[s] : Size[frame] \in 1 .. MAX_FRAME

\* Nobody else has the keys.
ASSUME KeyAssumption ==
  \A b \in StrayBodies, s \in Side :
    b.kind = "frame" /\ Key[s] # NoKey => b.key # Key[s]

VARIABLES
  remote_port, \* remote_addr_.sin_port of each side
  inbox,       \* what each socket has buffered, in order
  ext,         \* the external port each side's NAT maps its socket to
  opened,      \* that mapping has been used to send to the peer's address
  net,         \* datagrams on their way to each side
  faults,
  spoke        \* history: the external ports each side has sent frames from

nat  == <<ext, opened>>
vars == <<remote_port, inbox, nat, net, faults, spoke>>

Configured(s) == SharedPort[Peer(s)]

Datagram(from, to, body) == [from |-> from, to |-> to, body |-> body]

\* Both constructors have returned, with their punch(5).
Init ==
  /\ remote_port = [s \in Side |-> Configured(s)]
  /\ inbox = [s \in Side |-> <<>>]
  /\ ext \in [Side -> PortNumber]
  /\ \A s \in Side \ Roaming : ext[s] = SharedPort[s]
  /\ opened = [s \in Side |-> TRUE]
  /\ net = [s \in Side |-> {Datagram(ext[Peer(s)], SharedPort[s], Punch)}]
  /\ faults = 0
  /\ spoke = [s \in Side |-> {}]

----------------------------------------------------------------------------
(* UdpPort.                                                                *)

\* sendto or sendmsg, through the NAT
Send(s, port, body) ==
  /\ opened' = [opened EXCEPT ![s] = TRUE]
  /\ net' = [net EXCEPT ![Peer(s)] = @ \cup {Datagram(ext[s], port, body)}]

\* poll() has timed out: keepalive()
Keepalive(s) ==
  /\ inbox[s] = <<>>
  /\ Send(s, remote_port[s], Punch)
  /\ UNCHANGED <<remote_port, inbox, ext, faults, spoke>>

Write(s, frame) ==
  /\ Send(s, remote_port[s], [kind |-> "frame", key |-> Key[s], frame |-> frame])
  /\ spoke' = [spoke EXCEPT ![s] = @ \cup {ext[s]}]
  /\ UNCHANGED <<remote_port, inbox, ext, faults>>

\* Mutant: the address of the sender is not compared
FromAnyone(d) == TRUE

FromPeer(d) == d.ip = "peer"

\* read() returns a frame to its switch: it is complete, of a size that fits and,
\* with a key, it decrypts.  Anything else is swallowed.
Accepts(s, d) ==
  /\ FromPeer(d) /\ d.body.kind = "frame"
  /\ Fits(FrameLen(Size[d.body.frame], d.body.key # NoKey), Key[s] # NoKey)
  /\ Key[s] # NoKey => d.body.key = Key[s]

\* Mutants: the port is taken before decryption; only a frame teaches it
LearnsBeforeDecrypting(s, d) == FromPeer(d)
LearnsFromFrames(s, d) == Accepts(s, d)

\* Without a key everything from the peer's address teaches its port, before
\* the length is looked at; with one, only what has decrypted does.
Learns(s, d) == FromPeer(d) /\ (Key[s] = NoKey \/ Accepts(s, d))

Read(s) ==
  LET d == Head(inbox[s])
  IN /\ inbox[s] # <<>>
     /\ inbox' = [inbox EXCEPT ![s] = Tail(@)]
     /\ remote_port' = IF Learns(s, d)
                         THEN [remote_port EXCEPT ![s] = d.from] ELSE remote_port
     /\ UNCHANGED <<nat, net, faults, spoke>>

\* Mutant: the port argument of the constructor is not stored
RestartUnconfigured(s) ==
  /\ faults < MaxFaults /\ faults' = faults + 1
  /\ remote_port' = [remote_port EXCEPT ![s] = 0]
  /\ inbox' = [inbox EXCEPT ![s] = <<>>]
  /\ Send(s, Configured(s), Punch)
  /\ UNCHANGED <<ext, spoke>>

\* The switch exits and is started again with the same arguments; the NAT
\* still has the mapping of its local port.
Restart(s) ==
  /\ faults < MaxFaults /\ faults' = faults + 1
  /\ remote_port' = [remote_port EXCEPT ![s] = Configured(s)]
  /\ inbox' = [inbox EXCEPT ![s] = <<>>]
  /\ Send(s, Configured(s), Punch)
  /\ UNCHANGED <<ext, spoke>>

----------------------------------------------------------------------------
(* NATs and network.                                                       *)

\* A NAT that filters by address.  Behind one that filters by port as well, a
\* side never gets to see from where a peer that has been moved sends.
Admitted(s, d) == d.to = ext[s] /\ opened[s]

\* Nothing makes a particular datagram arrive: one that is lost, or dropped by
\* a full socket, stays in net for ever.
Arrive(s, d) ==
  /\ d \in net[s] /\ Admitted(s, d) /\ Len(inbox[s]) < QueueLen
  /\ net' = [net EXCEPT ![s] = @ \ {d}]
  /\ inbox' = [inbox EXCEPT ![s] =
                 Append(@, [ip |-> "peer", from |-> d.from, body |-> d.body])]
  /\ UNCHANGED <<remote_port, nat, faults, spoke>>

Remap(s, port) ==
  /\ s \in Roaming /\ port # ext[s]
  /\ faults < MaxFaults /\ faults' = faults + 1
  /\ ext' = [ext EXCEPT ![s] = port]
  /\ opened' = [opened EXCEPT ![s] = FALSE]
  /\ UNCHANGED <<remote_port, inbox, net, spoke>>

\* A datagram of another program, on the peer's machine or elsewhere
Stray(s, ip, port, body) ==
  /\ faults < MaxFaults /\ faults' = faults + 1
  /\ Len(inbox[s]) < QueueLen
  /\ inbox' = [inbox EXCEPT ![s] =
                 Append(@, [ip |-> ip, from |-> port, body |-> body])]
  /\ UNCHANGED <<remote_port, nat, net, spoke>>

Network(s) ==
  \/ \E d \in net[s] : Arrive(s, d)
  \/ \E port \in PortNumber :
       \/ Remap(s, port)
       \/ \E ip \in StrayIps, body \in StrayBodies : Stray(s, ip, port, body)

WriteSome(s) == \E frame \in Frames[s] : Write(s, frame)

Next ==
  \E s \in Side : Keepalive(s) \/ WriteSome(s) \/ Read(s) \/ Restart(s) \/ Network(s)

Spec == Init /\ [][Next]_vars

(***************************************************************************)
(* poll() returns and read() is called while something is buffered, and    *)
(* times out when nothing comes.  The network loses datagrams but not all  *)
(* of those sent again and again, be they punches or frames.  A side that  *)
(* has frames to forward keeps forwarding.                                 *)
(***************************************************************************)
ArriveSome(s, kind) == \E d \in net[s] : d.body.kind = kind /\ Arrive(s, d)

Fairness ==
  \A s \in Side :
    /\ WF_vars(Keepalive(s)) /\ WF_vars(Read(s))
    /\ WF_vars(WriteSome(s))
    /\ SF_vars(ArriveSome(s, "punch")) /\ SF_vars(ArriveSome(s, "frame"))

FairSpec == Spec /\ Fairness

----------------------------------------------------------------------------
(* Correctness.                                                            *)

TypeOK ==
  /\ remote_port \in [Side -> PortNumber] /\ ext \in [Side -> PortNumber]
  /\ opened \in [Side -> BOOLEAN]
  /\ inbox \in [Side -> Seq([ip : {"peer", "other"}, from : PortNumber, body : Body])]
  /\ net \in [Side -> SUBSET [from : PortNumber, to : PortNumber, body : Body]]
  /\ spoke \in [Side -> SUBSET PortNumber]

\* The buffers of read() and write() agree: what the peer has written under the
\* key that read() has is handed to the switch when it is its turn.
WrittenFramesAreRead ==
  \A s \in Side : \A i \in DOMAIN inbox[s] :
    LET d == inbox[s][i]
    IN d.ip = "peer" /\ d.body \in Packet /\ d.body.key = Key[s] => Accepts(s, d)

\* With a key, a side sends to the configured port or to one the peer has
\* spoken from under that key: no other program can move it, nor can a punch.
PortsAuthenticated ==
  \A s \in Side :
    Key[s] # NoKey /\ Key[s] = Key[Peer(s)] =>
      remote_port[s] \in {Configured(s)} \cup spoke[Peer(s)]

\* Only one end of a link is ever lost: a side whose peer stays on the port it
\* shared always sends there, whatever arrives late, from an older port of its
\* own, or from other programs - with a key, or without as long as no other
\* program uses the peer's address.
NeverLosesSteadyPeer ==
  \A s \in Side :
    /\ Peer(s) \notin Roaming
    /\ "peer" \in StrayIps => Key[s] # NoKey
    => remote_port[s] = ext[Peer(s)]

Connected == \A s \in Side : remote_port[s] = ext[Peer(s)]

\* The link survives what the documentation says it does: after the last
\* remapping of one side's NAT and the last restart, each side finds the
\* other's port again and keeps it, although older datagrams still arrive.
Reconnects == <>[]Connected

=============================================================================
