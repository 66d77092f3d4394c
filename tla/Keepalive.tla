----------------------------- MODULE Keepalive -----------------------------
(***************************************************************************)
(* When the punches that keep NAT mappings open are sent.  Each switch of  *)
(* a network sits in poll() with a timeout; only when nothing at all has   *)
(* come in for that long does it send one punch to each of its UDP ports,  *)
(* sleeping after each.  Time is discrete, and steps of a switch that is   *)
(* not sleeping take none of it.  What the hosts send, and to which peers  *)
(* it is forwarded if to any, is up to them and to VirtualSwitch; a        *)
(* datagram that is forwarded further is a Read and a HostFrame at once.   *)
(***************************************************************************)
EXTENDS Integers, Sequences, Functions

CONSTANTS
  Switch,
  Links,        \* the peers of each switch, in the order of ports_
  Hosts,        \* the switches with frames to forward to peers ...
  Local,        \* ... and those with input that goes to none
  POLL_TIMEOUT, \* ticks of poll(..., 2500)
  MaxLatency,   \* ticks a datagram may travel
  NatTimeout    \* ticks after which a NAT drops a mapping nothing was sent on

ASSUME KeepaliveAssumption ==
  /\ Links \in [Switch -> Seq(Switch)] /\ Hosts \subseteq Switch /\ Local \subseteq Switch
  /\ POLL_TIMEOUT \in Nat \ {0} /\ MaxLatency \in Nat /\ NatTimeout \in Nat

VARIABLES
  waited,   \* ticks since poll() was called
  punching, \* peers keepalive() has yet to punch
  asleep,   \* in the usleep of punch()
  readable, \* a datagram is buffered
  flight,   \* datagrams on their way
  idle      \* ticks since each switch last sent to each peer

vars == <<waited, punching, asleep, readable, flight, idle>>

Peers(s) == Range(Links[s])

\* All switches have started, at different times.
Init ==
  /\ waited \in [Switch -> 0 .. POLL_TIMEOUT]
  /\ punching = [s \in Switch |-> <<>>]
  /\ asleep = [s \in Switch |-> FALSE]
  /\ readable = [s \in Switch |-> FALSE]
  /\ flight = {}
  /\ idle = [s \in Switch |-> [p \in Peers(s) |-> 0]]

InPoll(s) == punching[s] = <<>> /\ ~ asleep[s]

Send(s, p) ==
  /\ flight' = flight \cup {[from |-> s, to |-> p, age |-> 0]}
  /\ idle' = [idle EXCEPT ![s][p] = 0]

\* Mutant: Port::keepalive, which does nothing, is not overridden
TimeoutUnpunched(s) ==
  /\ InPoll(s) /\ ~ readable[s] /\ waited[s] = POLL_TIMEOUT
  /\ waited' = [waited EXCEPT ![s] = 0]
  /\ UNCHANGED <<punching, asleep, readable, flight, idle>>

\* poll() returns 0: keepalive() of every port, and poll() again
Timeout(s) ==
  /\ InPoll(s) /\ ~ readable[s] /\ waited[s] = POLL_TIMEOUT
  /\ punching' = [punching EXCEPT ![s] = Links[s]]
  /\ waited' = [waited EXCEPT ![s] = 0]
  /\ UNCHANGED <<asleep, readable, flight, idle>>

\* One punch and the usleep that follows it, one tick
PunchNext(s) ==
  /\ punching[s] # <<>> /\ ~ asleep[s]
  /\ Send(s, Head(punching[s]))
  /\ punching' = [punching EXCEPT ![s] = Tail(@)]
  /\ asleep' = [asleep EXCEPT ![s] = TRUE]
  /\ UNCHANGED <<waited, readable>>

\* poll() returns for a datagram; what was read is a punch or is for the host.
Read(s) ==
  /\ InPoll(s) /\ readable[s]
  /\ readable' = [readable EXCEPT ![s] = FALSE]
  /\ waited' = [waited EXCEPT ![s] = 0]
  /\ UNCHANGED <<punching, asleep, flight, idle>>

\* poll() returns for a frame of the host, which is forwarded to a peer.
HostFrame(s, p) ==
  /\ s \in Hosts /\ InPoll(s)
  /\ Send(s, p)
  /\ waited' = [waited EXCEPT ![s] = 0]
  /\ UNCHANGED <<punching, asleep, readable>>

\* poll() returns for a request that is answered on the spot, a frame between
\* two hosts of this switch, or a datagram of a stranger.
LocalInput(s) ==
  /\ s \in Local /\ InPoll(s)
  /\ waited' = [waited EXCEPT ![s] = 0]
  /\ UNCHANGED <<punching, asleep, readable, flight, idle>>

Deliver(d) ==
  /\ flight' = flight \ {d}
  /\ readable' = [readable EXCEPT ![d.to] = TRUE]
  /\ UNCHANGED <<waited, punching, asleep, idle>>

Lose(d) ==
  /\ flight' = flight \ {d}
  /\ UNCHANGED <<waited, punching, asleep, readable, idle>>

\* Time passes when every switch waits, for input, its timeout or its usleep.
Waits(s) ==
  asleep[s] \/ (InPoll(s) /\ ~ readable[s] /\ waited[s] < POLL_TIMEOUT)

Tick ==
  /\ \A s \in Switch : Waits(s)
  /\ \A d \in flight : d.age < MaxLatency
  /\ waited' = [s \in Switch |-> IF InPoll(s) THEN waited[s] + 1 ELSE waited[s]]
  /\ asleep' = [s \in Switch |-> FALSE]
  /\ flight' = {[d EXCEPT !.age = @ + 1] : d \in flight}
  /\ idle' = [s \in Switch |->
                [p \in Peers(s) |->
                   IF idle[s][p] > NatTimeout THEN idle[s][p] ELSE idle[s][p] + 1]]
  /\ UNCHANGED <<punching, readable>>

Next ==
  \/ \E s \in Switch :
       \/ Timeout(s) \/ PunchNext(s) \/ Read(s) \/ LocalInput(s)
       \/ \E p \in Peers(s) : HostFrame(s, p)
  \/ \E d \in flight : Deliver(d) \/ Lose(d)
  \/ Tick

Spec == Init /\ [][Next]_vars

----------------------------------------------------------------------------
\* What the documentation promises, for each connection: one end at least uses
\* its NAT's mapping before the NAT drops it, whatever the other end is kept busy
\* with, so that the connection never falls silent.
LinksAlive ==
  \A s \in Switch : \A p \in Peers(s) :
    idle[s][p] <= NatTimeout \/ idle[p][s] <= NatTimeout

=============================================================================
