-------------------------- MODULE KeepaliveProofs --------------------------
(***************************************************************************)
(* Which networks the keepalives keep alive: those in which every link has *)
(* an end without another link and without input that stays where it is.   *)
(* Whatever keeps such a leaf from punching was sent over the link.        *)
(***************************************************************************)
EXTENDS Keepalive, SequenceTheorems, TLAPS

\* A link has two ends, and one of them at least is a leaf.
Symmetric == \A s \in Switch : \A p \in Peers(s) : p \in Switch /\ s \in Peers(p)

Leaf(s, p) == s \in Switch \ Local /\ Links[s] = <<p>>

Leafy == \A s \in Switch : \A p \in Peers(s) : Leaf(s, p) \/ Leaf(p, s)

\* The NAT outlives the timeout of poll(), and either the usleep or a datagram
\* that was on its way when the poll began.
NatPatient ==
  POLL_TIMEOUT + 1 <= NatTimeout /\ POLL_TIMEOUT + MaxLatency <= NatTimeout

LEMMA LeafPeers ==
  ASSUME NEW s, NEW p, Leaf(s, p)
  PROVE  Peers(s) = {p}
<1>1. Links[s] = <<p>> /\ DOMAIN <<p>> = {1}
  BY DEF Leaf
<1> QED BY <1>1 DEF Peers, Range

LEMMA PeersOfSwitches ==
  ASSUME KeepaliveAssumption, NEW s \in Switch
  PROVE  Links[s] \in Seq(Peers(s)) /\ Peers(s) \subseteq Switch
<1>1. /\ Links[s] \in Seq(Switch) /\ DOMAIN Links[s] = 1 .. Len(Links[s])
      /\ Len(Links[s]) \in Nat /\ Links[s] \in [1 .. Len(Links[s]) -> Switch]
  BY LenProperties DEF KeepaliveAssumption
<1>2. \A i \in 1 .. Len(Links[s]) : Links[s][i] \in Peers(s)
  BY <1>1 DEF Peers, Range
<1>3. Peers(s) \subseteq Switch
  BY <1>1 DEF Peers, Range
<1> QED BY <1>1, <1>2, <1>3

(***************************************************************************)
(* Types.                                                                  *)
(***************************************************************************)
Datagram(d) ==
  /\ d = [from |-> d.from, to |-> d.to, age |-> d.age]
  /\ d.from \in Switch /\ d.to \in Peers(d.from) /\ d.age \in 0 .. MaxLatency

Types ==
  /\ waited \in [Switch -> 0 .. POLL_TIMEOUT]
  /\ DOMAIN punching = Switch /\ \A s \in Switch : punching[s] \in Seq(Peers(s))
  /\ asleep \in [Switch -> BOOLEAN] /\ readable \in [Switch -> BOOLEAN]
  /\ \A d \in flight : Datagram(d)
  /\ DOMAIN idle = Switch /\ \A s \in Switch : idle[s] \in [Peers(s) -> Nat]

LEMMA SendTypes ==
  ASSUME KeepaliveAssumption, Types, NEW s \in Switch, NEW p \in Peers(s), Send(s, p)
  PROVE  /\ \A d \in flight' : Datagram(d)
         /\ DOMAIN idle' = Switch /\ \A x \in Switch : idle'[x] \in [Peers(x) -> Nat]
<1>1. Datagram([from |-> s, to |-> p, age |-> 0])
  BY DEF Datagram, KeepaliveAssumption
<1>2. \A d \in flight' : Datagram(d)
  BY <1>1 DEF Send, Types
<1>3. DOMAIN idle' = Switch /\ \A x \in Switch : idle'[x] \in [Peers(x) -> Nat]
  BY DEF Send, Types
<1> QED BY <1>2, <1>3

LEMMA NextPunch ==
  ASSUME Types, NEW s \in Switch, punching[s] # <<>>
  PROVE  Head(punching[s]) \in Peers(s) /\ Tail(punching[s]) \in Seq(Peers(s))
BY HeadTailProperties DEF Types

LEMMA TickTypes ==
  ASSUME KeepaliveAssumption, Types, Tick
  PROVE  Types'
<1>1. waited' \in [Switch -> 0 .. POLL_TIMEOUT]
  <2>1. ASSUME NEW s \in Switch PROVE waited'[s] \in 0 .. POLL_TIMEOUT
    <3>1. waited[s] \in 0 .. POLL_TIMEOUT /\ (InPoll(s) => waited[s] < POLL_TIMEOUT)
      BY DEF Tick, Waits, InPoll, Types
    <3>2. waited'[s] = IF InPoll(s) THEN waited[s] + 1 ELSE waited[s]
      BY DEF Tick
    <3> QED BY <3>1, <3>2 DEF KeepaliveAssumption
  <2>2. waited' = [s \in Switch |-> IF InPoll(s) THEN waited[s] + 1 ELSE waited[s]]
    BY DEF Tick
  <2> QED BY <2>1, <2>2
<1>2. ASSUME NEW d \in flight' PROVE Datagram(d)
  <2>1. PICK e \in flight : d = [e EXCEPT !.age = @ + 1]
    BY DEF Tick
  <2>2. Datagram(e) /\ e.age < MaxLatency
    BY DEF Tick, Types
  <2>3. d = [from |-> e.from, to |-> e.to, age |-> e.age + 1]
    BY <2>1, <2>2 DEF Datagram
  <2> QED BY <2>2, <2>3 DEF Datagram, KeepaliveAssumption
<1>3. DOMAIN idle' = Switch /\ \A s \in Switch : idle'[s] \in [Peers(s) -> Nat]
  BY DEF Tick, Types
<1>4. asleep' \in [Switch -> BOOLEAN] /\ punching' = punching /\ readable' = readable
  BY DEF Tick
<1> QED BY <1>1, <1>2, <1>3, <1>4 DEF Types

\* Every variable has its type, and no datagram is older than the latency allows.
THEOREM KeepaliveTypeCorrect == Spec => []Types
<1> USE KeepaliveAssumption
<1>1. Init => Types
  <2> SUFFICES ASSUME Init PROVE Types
    OBVIOUS
  <2>1. \A s \in Switch : idle[s] \in [Peers(s) -> Nat]
    BY DEF Init
  <2>2. \A s \in Switch : punching[s] \in Seq(Peers(s))
    BY DEF Init
  <2> QED BY <2>1, <2>2 DEF Init, Types
<1>2. Types /\ [Next]_vars => Types'
  <2> SUFFICES ASSUME Types, [Next]_vars PROVE Types'
    OBVIOUS
  <2>1. ASSUME NEW s \in Switch, Timeout(s) PROVE Types'
    <3>1. punching' = [punching EXCEPT ![s] = Links[s]] /\ waited' = [waited EXCEPT ![s] = 0]
      BY <2>1 DEF Timeout
    <3>2. DOMAIN punching' = Switch /\ \A x \in Switch : punching'[x] \in Seq(Peers(x))
      BY <3>1, PeersOfSwitches DEF Types
    <3> QED BY <2>1, <3>1, <3>2 DEF Timeout, Types
  <2>2. ASSUME NEW s \in Switch, PunchNext(s) PROVE Types'
    <3>1. Head(punching[s]) \in Peers(s) /\ Tail(punching[s]) \in Seq(Peers(s))
      BY <2>2, NextPunch DEF PunchNext
    <3>2. /\ \A d \in flight' : Datagram(d)
          /\ DOMAIN idle' = Switch /\ \A x \in Switch : idle'[x] \in [Peers(x) -> Nat]
      BY <2>2, <3>1, SendTypes DEF PunchNext
    <3>3. DOMAIN punching' = Switch /\ \A x \in Switch : punching'[x] \in Seq(Peers(x))
      BY <2>2, <3>1 DEF PunchNext, Types
    <3> QED BY <2>2, <3>2, <3>3 DEF PunchNext, Types
  <2>3. ASSUME NEW s \in Switch, Read(s) PROVE Types'
    BY <2>3 DEF Read, Types
  <2>4. ASSUME NEW s \in Switch, NEW p \in Peers(s), HostFrame(s, p) PROVE Types'
    <3>1. /\ \A d \in flight' : Datagram(d)
          /\ DOMAIN idle' = Switch /\ \A x \in Switch : idle'[x] \in [Peers(x) -> Nat]
      BY <2>4, SendTypes DEF HostFrame
    <3> QED BY <2>4, <3>1 DEF HostFrame, Types
  <2>5. ASSUME NEW s \in Switch, LocalInput(s) PROVE Types'
    BY <2>5 DEF LocalInput, Types
  <2>6. ASSUME NEW d \in flight, Deliver(d) \/ Lose(d) PROVE Types'
    BY <2>6 DEF Deliver, Lose, Types
  <2>7. CASE Tick
    BY <2>7, TickTypes
  <2>8. CASE UNCHANGED vars
    BY <2>8 DEF vars, Types
  <2> QED BY <2>1, <2>2, <2>3, <2>4, <2>5, <2>6, <2>7, <2>8 DEF Next
<1> QED BY <1>1, <1>2, PTL DEF Spec

(***************************************************************************)
(* A leaf s and its peer p.  The time since poll() was called bounds the   *)
(* silence on the link: what began this poll was a frame of the host or a  *)
(* punch, which s has sent, or a datagram, which p has sent.               *)
(***************************************************************************)
Quiet(s, p, own, others) == idle[s][p] <= own \/ idle[p][s] <= others

LeafInvariant(s, p) ==
  /\ punching[s] = <<>> \/ punching[s] = <<p>>
  /\ asleep[s] => punching[s] = <<>> /\ idle[s][p] = 0
  /\ readable[s] => Quiet(s, p, 1, MaxLatency)
  /\ punching[s] = <<>> => Quiet(s, p, waited[s] + 1, waited[s] + MaxLatency)
  /\ Quiet(s, p, POLL_TIMEOUT + 1, POLL_TIMEOUT + MaxLatency)

Punctual ==
  /\ \A d \in flight : idle[d.from][d.to] <= d.age
  /\ \A s, p \in Switch : Leaf(s, p) => LeafInvariant(s, p)

\* What a leaf gets was sent by its peer, and what it sends goes there.
LEMMA LeafLinks ==
  ASSUME KeepaliveAssumption, Symmetric, NEW s \in Switch, NEW p \in Switch, Leaf(s, p)
  PROVE  /\ Peers(s) = {p} /\ s \in Peers(p)
         /\ \A x \in Switch : s \in Peers(x) => x = p
BY LeafPeers DEF Symmetric

\* Sending starts the silence of one direction anew and leaves the others alone.
LEMMA SendResets ==
  ASSUME KeepaliveAssumption, Types, NEW x \in Switch, NEW y \in Peers(x), Send(x, y)
  PROVE  \A s \in Switch : \A p \in Peers(s) :
           idle'[s][p] = IF s = x /\ p = y THEN 0 ELSE idle[s][p]
<1>1. idle' = [idle EXCEPT ![x][y] = 0]
  BY DEF Send
<1> QED BY <1>1 DEF Types

LEMMA SendKeepsFlight ==
  ASSUME KeepaliveAssumption, Types, NEW x \in Switch, NEW y \in Peers(x), Send(x, y),
         \A d \in flight : idle[d.from][d.to] <= d.age
  PROVE  \A d \in flight' : idle'[d.from][d.to] <= d.age
<1> DEFINE new == [from |-> x, to |-> y, age |-> 0]
<1>1. flight' = flight \cup {new}
  BY DEF Send
<1>2. idle'[new.from][new.to] <= new.age
  BY SendResets
<1>3. ASSUME NEW d \in flight PROVE idle'[d.from][d.to] <= d.age
  <2>1. d.from \in Switch /\ d.to \in Peers(d.from) /\ d.age \in Nat
    BY DEF Types, Datagram
  <2>2. idle'[d.from][d.to] = 0 \/ idle'[d.from][d.to] = idle[d.from][d.to]
    BY <2>1, SendResets
  <2> QED BY <2>1, <2>2
<1> QED BY <1>1, <1>2, <1>3

\* What a switch other than the leaf sends cannot make the link more silent.
LEMMA OthersSend ==
  ASSUME KeepaliveAssumption, Symmetric, Types,
         NEW s \in Switch, NEW p \in Switch, Leaf(s, p), LeafInvariant(s, p),
         NEW x \in Switch, NEW y \in Peers(x), Send(x, y), x # s,
         punching'[s] = punching[s], asleep'[s] = asleep[s],
         readable'[s] = readable[s], waited'[s] = waited[s]
  PROVE  LeafInvariant(s, p)'
<1>1. p \in Peers(s) /\ s \in Peers(p)
  BY LeafLinks
<1>2. /\ idle[s][p] \in Nat /\ idle[p][s] \in Nat /\ waited[s] \in Nat
      /\ POLL_TIMEOUT \in Nat /\ MaxLatency \in Nat
  BY <1>1 DEF Types, KeepaliveAssumption
<1>3. idle'[s][p] = idle[s][p]
  BY <1>1, SendResets
<1>4. idle'[p][s] = 0 \/ idle'[p][s] = idle[p][s]
  BY <1>1, SendResets
<1>5. (asleep[s] => punching[s] = <<>> /\ idle[s][p] = 0)'
  BY <1>3 DEF LeafInvariant
<1>6. (readable[s] => Quiet(s, p, 1, MaxLatency))'
  BY <1>2, <1>3, <1>4 DEF LeafInvariant, Quiet
<1>7. (punching[s] = <<>> => Quiet(s, p, waited[s] + 1, waited[s] + MaxLatency))'
  BY <1>2, <1>3, <1>4 DEF LeafInvariant, Quiet
<1>8. Quiet(s, p, POLL_TIMEOUT + 1, POLL_TIMEOUT + MaxLatency)'
  BY <1>2, <1>3, <1>4 DEF LeafInvariant, Quiet
<1> QED BY <1>5, <1>6, <1>7, <1>8 DEF LeafInvariant

LEMMA TimeoutPunctual ==
  ASSUME KeepaliveAssumption, Symmetric, Types,
         NEW s \in Switch, NEW p \in Switch, Leaf(s, p), LeafInvariant(s, p),
         NEW x \in Switch, Timeout(x)
  PROVE  LeafInvariant(s, p)'
<1>1. UNCHANGED <<asleep, readable, idle>> /\ Links[s] = <<p>>
  BY DEF Timeout, Leaf
<1>2. CASE x = s
  <2>1. punching'[s] = <<p>> /\ ~ asleep[s]
    BY <1>1, <1>2 DEF Timeout, Types, InPoll
  <2>2. punching'[s] # <<>>
    BY <2>1
  <2> QED BY <1>1, <2>1, <2>2 DEF LeafInvariant, Quiet
<1>3. CASE x # s
  <2>1. punching'[s] = punching[s] /\ waited'[s] = waited[s]
    BY <1>3 DEF Timeout, Types
  <2> QED BY <1>1, <2>1 DEF LeafInvariant, Quiet
<1> QED BY <1>2, <1>3

LEMMA PunchPunctual ==
  ASSUME KeepaliveAssumption, Symmetric, Types,
         NEW s \in Switch, NEW p \in Switch, Leaf(s, p), LeafInvariant(s, p),
         NEW x \in Switch, PunchNext(x)
  PROVE  LeafInvariant(s, p)'
<1>1. Head(punching[x]) \in Peers(x) /\ Send(x, Head(punching[x]))
  BY NextPunch DEF PunchNext
<1>2. waited' = waited /\ readable' = readable
  BY DEF PunchNext
<1>3. CASE x = s
  <2>1. punching[s] = <<p>>
    BY <1>3 DEF PunchNext, LeafInvariant
  <2>2. Head(punching[s]) = p /\ Tail(punching[s]) = <<>>
    BY <2>1
  <2>3. p \in Peers(s) /\ idle'[s][p] = 0
    BY <1>1, <1>3, <2>2, SendResets
  <2>4. punching'[s] = <<>>
    BY <1>3, <2>2 DEF PunchNext, Types
  <2>5. waited[s] \in Nat /\ POLL_TIMEOUT \in Nat
    BY DEF Types, KeepaliveAssumption
  <2> QED BY <1>2, <2>3, <2>4, <2>5 DEF LeafInvariant, Quiet
<1>4. CASE x # s
  <2>1. punching'[s] = punching[s] /\ asleep'[s] = asleep[s]
    BY <1>4 DEF PunchNext, Types
  <2> QED BY <1>1, <1>2, <1>4, <2>1, OthersSend
<1> QED BY <1>3, <1>4

LEMMA ReadPunctual ==
  ASSUME KeepaliveAssumption, Symmetric, Types,
         NEW s \in Switch, NEW p \in Switch, Leaf(s, p), LeafInvariant(s, p),
         NEW x \in Switch, Read(x)
  PROVE  LeafInvariant(s, p)'
<1>1. UNCHANGED <<punching, asleep, idle>>
  BY DEF Read
<1>2. CASE x = s
  <2>1. readable[s] /\ ~ readable'[s] /\ waited'[s] = 0
    BY <1>2 DEF Read, Types
  <2>2. Quiet(s, p, 1, MaxLatency)
    BY <2>1 DEF LeafInvariant
  <2> QED BY <1>1, <2>1, <2>2 DEF LeafInvariant, Quiet, KeepaliveAssumption
<1>3. CASE x # s
  <2>1. readable'[s] = readable[s] /\ waited'[s] = waited[s]
    BY <1>3 DEF Read, Types
  <2> QED BY <1>1, <2>1 DEF LeafInvariant, Quiet
<1> QED BY <1>2, <1>3

LEMMA HostFramePunctual ==
  ASSUME KeepaliveAssumption, Symmetric, Types,
         NEW s \in Switch, NEW p \in Switch, Leaf(s, p), LeafInvariant(s, p),
         NEW x \in Switch, NEW y \in Peers(x), HostFrame(x, y)
  PROVE  LeafInvariant(s, p)'
<1>1. UNCHANGED <<punching, asleep, readable>> /\ Send(x, y) /\ InPoll(x)
  BY DEF HostFrame
<1>2. CASE x = s
  <2>1. y = p /\ p \in Peers(s)
    BY <1>2, LeafLinks
  <2>2. idle'[s][p] = 0 /\ waited'[s] = 0 /\ POLL_TIMEOUT \in Nat
    BY <1>1, <1>2, <2>1, SendResets DEF HostFrame, Types, KeepaliveAssumption
  <2>3. ~ asleep[s]
    BY <1>1, <1>2 DEF InPoll
  <2> QED BY <1>1, <2>2, <2>3 DEF LeafInvariant, Quiet
<1>3. CASE x # s
  <2>1. waited'[s] = waited[s]
    BY <1>3 DEF HostFrame, Types
  <2> QED BY <1>1, <1>3, <2>1, OthersSend
<1> QED BY <1>2, <1>3

LEMMA LocalInputPunctual ==
  ASSUME Types, NEW s \in Switch, NEW p \in Switch, Leaf(s, p), LeafInvariant(s, p),
         NEW x \in Switch, LocalInput(x)
  PROVE  LeafInvariant(s, p)'
<1>1. UNCHANGED <<punching, asleep, readable, idle>> /\ x # s
  BY DEF LocalInput, Leaf
<1>2. waited'[s] = waited[s]
  BY <1>1 DEF LocalInput, Types
<1> QED BY <1>1, <1>2 DEF LeafInvariant, Quiet

\* What is delivered was sent by the peer MaxLatency ago at most.
LEMMA DeliverPunctual ==
  ASSUME KeepaliveAssumption, Symmetric, Types, Punctual,
         NEW s \in Switch, NEW p \in Switch, Leaf(s, p),
         NEW d \in flight, Deliver(d)
  PROVE  LeafInvariant(s, p)'
<1>1. UNCHANGED <<waited, punching, asleep, idle>> /\ LeafInvariant(s, p)
  BY DEF Deliver, Punctual
<1>2. CASE d.to = s
  <2>1. d.from \in Switch /\ s \in Peers(d.from) /\ d.age \in 0 .. MaxLatency
    BY <1>2 DEF Types, Datagram
  <2>2. d.from = p /\ s \in Peers(p)
    BY <2>1, LeafLinks
  <2>3. idle[p][s] <= d.age /\ idle[p][s] \in Nat /\ MaxLatency \in Nat
    BY <1>2, <2>2 DEF Punctual, Types, KeepaliveAssumption
  <2>4. idle[p][s] <= MaxLatency
    BY <2>1, <2>3
  <2> QED BY <1>1, <2>4 DEF LeafInvariant, Quiet
<1>3. CASE d.to # s
  <2>1. readable'[s] = readable[s]
    BY <1>3 DEF Deliver, Types
  <2> QED BY <1>1, <2>1 DEF LeafInvariant, Quiet
<1> QED BY <1>2, <1>3

\* Silence grows by a tick at most.
LEMMA TickIdles ==
  ASSUME Types, Tick, NEW s \in Switch, NEW p \in Peers(s)
  PROVE  idle[s][p] \in Nat /\ idle'[s][p] <= idle[s][p] + 1
<1>1. idle'[s][p] = IF idle[s][p] > NatTimeout THEN idle[s][p] ELSE idle[s][p] + 1
  BY DEF Tick
<1>2. idle[s][p] \in Nat
  BY DEF Types
<1> QED BY <1>1, <1>2

\* A silence that grew with the wait is as long as the wait, and ends with it.
LEMMA Later ==
  ASSUME NEW silence \in Nat, NEW silent \in Nat, NEW w \in Nat, NEW slack \in Nat,
         silent <= silence + 1, silence <= w + slack, NEW most \in Nat, w < most
  PROVE  silent <= (w + 1) + slack /\ silent <= most + slack
OBVIOUS

LEMMA TickPunctual ==
  ASSUME KeepaliveAssumption, Symmetric, Types, Punctual, Tick
  PROVE  Punctual'
<1>1. ASSUME NEW d \in flight' PROVE idle'[d.from][d.to] <= d.age
  <2>1. PICK e \in flight : d = [e EXCEPT !.age = @ + 1]
    BY DEF Tick
  <2>2. Datagram(e) /\ idle[e.from][e.to] <= e.age
    BY DEF Types, Punctual
  <2>3. d.from = e.from /\ d.to = e.to /\ d.age = e.age + 1 /\ e.age \in Nat
    BY <2>1, <2>2 DEF Datagram
  <2>4. idle[e.from][e.to] \in Nat /\ idle'[e.from][e.to] <= idle[e.from][e.to] + 1
    BY <2>2, TickIdles DEF Datagram
  <2>5. idle'[e.from][e.to] \in Nat
    BY <2>2, TickTypes DEF Types, Datagram
  <2> QED BY <2>2, <2>3, <2>4, <2>5
<1>2. ASSUME NEW s \in Switch, NEW p \in Switch, Leaf(s, p)
      PROVE  LeafInvariant(s, p)'
  <2>1. LeafInvariant(s, p) /\ p \in Peers(s) /\ s \in Peers(p)
    BY <1>2, LeafLinks DEF Punctual
  <2>2. /\ idle[s][p] \in Nat /\ idle'[s][p] <= idle[s][p] + 1
        /\ idle[p][s] \in Nat /\ idle'[p][s] <= idle[p][s] + 1
        /\ idle'[s][p] \in Nat /\ idle'[p][s] \in Nat
    BY <2>1, TickIdles, TickTypes DEF Types
  <2>3. /\ ~ asleep'[s] /\ punching' = punching /\ readable' = readable
        /\ waited'[s] = IF InPoll(s) THEN waited[s] + 1 ELSE waited[s]
        /\ waited[s] \in Nat /\ POLL_TIMEOUT \in Nat /\ MaxLatency \in Nat
    BY DEF Tick, Types, KeepaliveAssumption
  <2>4. CASE asleep[s]
    <3>1. punching[s] = <<>> /\ idle[s][p] = 0
      BY <2>1, <2>4 DEF LeafInvariant
    <3>2. idle'[s][p] <= 1 /\ waited'[s] = waited[s]
      BY <2>2, <2>3, <2>4, <3>1 DEF InPoll
    <3>3. /\ Quiet(s, p, 1, MaxLatency)'
          /\ Quiet(s, p, waited[s] + 1, waited[s] + MaxLatency)'
          /\ Quiet(s, p, POLL_TIMEOUT + 1, POLL_TIMEOUT + MaxLatency)'
      BY <2>2, <2>3, <3>2 DEF Quiet
    <3> QED BY <2>3, <3>1, <3>3 DEF LeafInvariant
  <2>5. CASE ~ asleep[s]
    <3>1. InPoll(s) /\ ~ readable[s] /\ waited[s] < POLL_TIMEOUT
      BY <2>5 DEF Tick, Waits
    <3>2. punching[s] = <<>> /\ waited'[s] = waited[s] + 1 /\ waited'[s] <= POLL_TIMEOUT
      BY <2>3, <3>1 DEF InPoll
    <3>3. Quiet(s, p, waited[s] + 1, waited[s] + MaxLatency)
      BY <2>1, <3>2 DEF LeafInvariant
    <3>4. /\ idle[s][p] <= waited[s] + 1 =>
               idle'[s][p] <= waited'[s] + 1 /\ idle'[s][p] <= POLL_TIMEOUT + 1
          /\ idle[p][s] <= waited[s] + MaxLatency =>
               /\ idle'[p][s] <= waited'[s] + MaxLatency
               /\ idle'[p][s] <= POLL_TIMEOUT + MaxLatency
      BY <2>2, <2>3, <3>1, <3>2, Later
    <3>5. /\ Quiet(s, p, waited[s] + 1, waited[s] + MaxLatency)'
          /\ Quiet(s, p, POLL_TIMEOUT + 1, POLL_TIMEOUT + MaxLatency)'
      BY <3>3, <3>4 DEF Quiet
    <3> QED BY <2>3, <3>1, <3>2, <3>5 DEF LeafInvariant
  <2> QED BY <2>4, <2>5
<1> QED BY <1>1, <1>2 DEF Punctual

\* Where every link has a leaf, no link falls silent for longer than a timeout of
\* poll() and the longer of a usleep and the latency, however busy the others are.
THEOREM LeavesKeepLinksAlive ==
  ASSUME Symmetric, Leafy, NatPatient PROVE Spec => []LinksAlive
<1> USE KeepaliveAssumption
<1>1. Init => Punctual
  <2> SUFFICES ASSUME Init PROVE Punctual
    OBVIOUS
  <2>1. ASSUME NEW s \in Switch, NEW p \in Switch, Leaf(s, p) PROVE LeafInvariant(s, p)
    <3>1. p \in Peers(s) /\ s \in Peers(p)
      BY <2>1, LeafLinks
    <3>2. /\ idle[s][p] = 0 /\ waited[s] \in Nat /\ POLL_TIMEOUT \in Nat
          /\ punching[s] = <<>> /\ asleep[s] = FALSE /\ readable[s] = FALSE
      BY <3>1 DEF Init
    <3> QED BY <3>2 DEF LeafInvariant, Quiet
  <2> QED BY <2>1 DEF Init, Punctual
<1>2. Types /\ Punctual /\ [Next]_vars => Punctual'
  <2> SUFFICES ASSUME Types, Punctual, [Next]_vars PROVE Punctual'
    OBVIOUS
  <2>0. /\ \A d \in flight : idle[d.from][d.to] <= d.age
        /\ \A s, p \in Switch : Leaf(s, p) => LeafInvariant(s, p)
    BY DEF Punctual
  <2>1. ASSUME NEW x \in Switch, Timeout(x) PROVE Punctual'
    <3>1. flight' = flight /\ idle' = idle
      BY <2>1 DEF Timeout
    <3> QED BY <2>0, <2>1, <3>1, TimeoutPunctual DEF Punctual, Leaf
  <2>2. ASSUME NEW x \in Switch, PunchNext(x) PROVE Punctual'
    <3>1. \A d \in flight' : idle'[d.from][d.to] <= d.age
      BY <2>0, <2>2, NextPunch, SendKeepsFlight DEF PunchNext
    <3> QED BY <2>0, <2>2, <3>1, PunchPunctual DEF Punctual, Leaf
  <2>3. ASSUME NEW x \in Switch, Read(x) PROVE Punctual'
    <3>1. flight' = flight /\ idle' = idle
      BY <2>3 DEF Read
    <3> QED BY <2>0, <2>3, <3>1, ReadPunctual DEF Punctual, Leaf
  <2>4. ASSUME NEW x \in Switch, NEW y \in Peers(x), HostFrame(x, y) PROVE Punctual'
    <3>1. \A d \in flight' : idle'[d.from][d.to] <= d.age
      BY <2>0, <2>4, SendKeepsFlight DEF HostFrame
    <3> QED BY <2>0, <2>4, <3>1, HostFramePunctual DEF Punctual, Leaf
  <2>5. ASSUME NEW x \in Switch, LocalInput(x) PROVE Punctual'
    <3>1. flight' = flight /\ idle' = idle
      BY <2>5 DEF LocalInput
    <3> QED BY <2>0, <2>5, <3>1, LocalInputPunctual DEF Punctual, Leaf
  <2>6. ASSUME NEW d \in flight, Deliver(d) PROVE Punctual'
    <3>1. flight' \subseteq flight /\ idle' = idle
      BY <2>6 DEF Deliver
    <3> QED BY <2>0, <2>6, <3>1, DeliverPunctual DEF Punctual, Leaf
  <2>7. ASSUME NEW d \in flight, Lose(d) PROVE Punctual'
    BY <2>7 DEF Lose, Punctual, Leaf, LeafInvariant, Quiet
  <2>8. CASE Tick
    BY <2>8, TickPunctual
  <2>9. CASE UNCHANGED vars
    BY <2>9 DEF vars, Punctual, Leaf, LeafInvariant, Quiet
  <2> QED BY <2>1, <2>2, <2>3, <2>4, <2>5, <2>6, <2>7, <2>8, <2>9 DEF Next
<1>3. Types /\ Punctual => LinksAlive
  <2> SUFFICES ASSUME Types, Punctual, NEW s \in Switch, NEW p \in Peers(s)
               PROVE  idle[s][p] <= NatTimeout \/ idle[p][s] <= NatTimeout
    BY DEF LinksAlive
  <2>1. p \in Switch /\ s \in Peers(p)
    BY DEF Symmetric
  <2>2. /\ idle[s][p] \in Nat /\ idle[p][s] \in Nat /\ NatTimeout \in Nat
        /\ POLL_TIMEOUT \in Nat /\ MaxLatency \in Nat
    BY <2>1 DEF Types, KeepaliveAssumption
  <2>3. LeafInvariant(s, p) \/ LeafInvariant(p, s)
    BY <2>1 DEF Leafy, Punctual
  <2> QED BY <2>2, <2>3 DEF LeafInvariant, Quiet, NatPatient
<1> QED BY <1>1, <1>2, <1>3, KeepaliveTypeCorrect, PTL DEF Spec

=============================================================================
