--------------------------- MODULE VirtualSwitch ---------------------------
(***************************************************************************)
(* One switch process: VirtualSwitch::run() and everything it calls, with  *)
(* the file descriptors it polls.  The process has a single thread, so one *)
(* iteration of the loop body - read a frame from a flagged port, learn    *)
(* its source, age the tables, answer ARP or forward - is one action.      *)
(* What can happen in between is that frames are queued on any port and    *)
(* that time passes; time also passes inside an iteration, because each    *)
(* call of steady_clock::now() is a separate read of the clock.            *)
(***************************************************************************)
EXTENDS Integers, Sequences, Forwarding, LearnedTable, Functions

CONSTANTS
  NPorts,              \* ports_.size()
  FDB_AGING_TIME,      \* seconds
  AGE_CHECK_INTERVAL,  \* seconds
  TicksPerSecond,      \* resolution of the clock relative to a second
  Frames,              \* the frames hosts and peers send in this instance
  QueueLen,            \* bound: items a file descriptor buffers
  MaxTime,             \* bound: last tick of the clock
  MaxLag               \* bound: ticks one iteration of the loop may take

ASSUME SwitchAssumption ==
  /\ NPorts \in Nat /\ FDB_AGING_TIME \in Nat /\ AGE_CHECK_INTERVAL \in Nat
  /\ TicksPerSecond \in Nat \ {0}
  /\ QueueLen \in Nat /\ MaxTime \in Nat /\ MaxLag \in Nat
  /\ Frames \subseteq Frame

Port == 1 .. NPorts

(***************************************************************************)
(* What a read() of a port yields.  "nothing" is a result <= 0: an error,  *)
(* or a datagram that UdpPort::read swallows, which every keepalive punch  *)
(* is.  "runt" is a frame too short for the EthernetFrame constructor.     *)
(***************************************************************************)
Items == [kind : {"frame"}, frame : Frames] \cup [kind : {"nothing", "runt"}]

VARIABLES
  running,            \* run() has not returned or thrown
  queue,              \* what each port's file descriptor has buffered
  ready,              \* ports flagged POLLIN by the last poll, not yet visited
  mac_address_table_, \* address |-> [port, learned_at]
  ip_to_mac_,         \* IP |-> [mac, learned_at]
  last_age_check_,
  clock,
  \* History variables: no action reads them, they say what was observed.
  handled,            \* the last frame handled: {} or {<<port, frame>>}
  sent,               \* what handling it wrote: a set of <<port, frame>>
  heard,              \* address |-> [port, at] of the last frame it sent
  claimed             \* IP |-> [mac, at] of the last ARP packet from it

tables  == <<mac_address_table_, ip_to_mac_, last_age_check_>>
history == <<handled, sent, heard, claimed>>
vars    == <<running, queue, ready, tables, clock, history>>

Init ==
  /\ running = TRUE
  /\ queue = [p \in Port |-> <<>>]
  /\ ready = {}
  /\ mac_address_table_ = NoEntries /\ ip_to_mac_ = NoEntries
  /\ last_age_check_ = 0 /\ clock = 0
  /\ handled = {} /\ sent = {}
  /\ heard = NoEntries /\ claimed = NoEntries

----------------------------------------------------------------------------
(* The tables: maps whose entries carry learned_at.                        *)

\* Mutant: a cast that rounds up instead of truncating
SecondsRoundedUp(d) == (d + TicksPerSecond - 1) \div TicksPerSecond

\* duration_cast<seconds>(d).count(), which truncates
Seconds(d) == d \div TicksPerSecond

\* Mutant: >= for > in the comparison with FDB_AGING_TIME
ExpiredEarly(now, learned_at) == Seconds(now - learned_at) >= FDB_AGING_TIME

Expired(now, learned_at) == Seconds(now - learned_at) > FDB_AGING_TIME

AgeOut(table, now) ==
  Restrict(table, {k \in DOMAIN table : ~ Expired(now, table[k].learned_at)})

AgeCheckDue(now) == Seconds(now - last_age_check_) >= AGE_CHECK_INTERVAL

\* Mutant: the second loop forgotten
UnagedIps(ips, t2, t3) == ips

\* The two loops of age_out_mac_entries, reached only when the check is due
AgedMacs(macs, t2, t3) == IF AgeCheckDue(t2) THEN AgeOut(macs, t3) ELSE macs

AgedIps(ips, t2, t3) == IF AgeCheckDue(t2) THEN AgeOut(ips, t3) ELSE ips

\* Mutant: the entry of a known address is not renewed
LearnedOnce(p, f, macs, now) ==
  IF f.src \in DOMAIN macs /\ macs[f.src].port = p
    THEN macs ELSE Put(macs, f.src, [port |-> p, learned_at |-> now])

\* learn_mac_address
Learned(p, f, macs, now) == Put(macs, f.src, [port |-> p, learned_at |-> now])

(* handle_arp: learn the sender.                                           *)

\* Mutant: the entry is stamped with the instant it expires
TaughtIpsByExpiry(f, ips, now) ==
  IF TeachesIp(f)
    THEN Put(ips, f.spa, [mac |-> f.sha, learned_at |-> now + FDB_AGING_TIME])
    ELSE ips

TaughtIps(f, ips, now) ==
  IF TeachesIp(f) THEN Put(ips, f.spa, [mac |-> f.sha, learned_at |-> now]) ELSE ips

----------------------------------------------------------------------------
(***************************************************************************)
(* The environment.  A host or a peer queues something on a port (a full   *)
(* queue drops it, which is no step), and time passes.                     *)
(***************************************************************************)
Arrive(p, item) ==
  /\ Len(queue[p]) < QueueLen
  /\ queue' = [queue EXCEPT ![p] = Append(@, item)]
  /\ UNCHANGED <<running, ready, tables, clock, history>>

Tick ==
  /\ clock < MaxTime
  /\ clock' = clock + 1
  /\ UNCHANGED <<running, queue, ready, tables, history>>

(***************************************************************************)
(* The loop.  poll() flags every readable port; a poll that times out      *)
(* sends keepalives, which touch nothing here.                             *)
(***************************************************************************)
Readable == {p \in Port : queue[p] # <<>>}

\* Mutants: revents not tested, every port is visited; a break after the first
PollVisitsAll ==
  /\ running /\ ready = {} /\ Readable # {}
  /\ ready' = Port
  /\ UNCHANGED <<running, queue, tables, clock, history>>

PollVisitsFirst ==
  /\ running /\ ready = {} /\ Readable # {}
  /\ ready' = {p \in Readable : \A q \in Readable : p <= q}
  /\ UNCHANGED <<running, queue, tables, clock, history>>

Poll ==
  /\ running /\ ready = {} /\ Readable # {}
  /\ ready' = Readable
  /\ UNCHANGED <<running, queue, tables, clock, history>>

\* poll() < 0: the loop ends
PollFails ==
  /\ running /\ ready = {}
  /\ running' = FALSE
  /\ UNCHANGED <<queue, ready, tables, clock, history>>

\* The for loop visits the flagged ports in order and reads each once.
ReadPort(p, kind) ==
  /\ running /\ p \in ready /\ \A q \in ready : p <= q
  /\ queue[p] # <<>> /\ Head(queue[p]).kind = kind
  /\ queue' = [queue EXCEPT ![p] = Tail(@)]
  /\ ready' = ready \ {p}

ReadNothing(p) ==
  /\ ReadPort(p, "nothing")
  /\ UNCHANGED <<running, tables, clock, history>>

\* The EthernetFrame constructor throws, main catches it and exits.
ReadRunt(p) ==
  /\ ReadPort(p, "runt")
  /\ running' = FALSE
  /\ UNCHANGED <<tables, clock, history>>

\* The instants the clock may show during an iteration
Instants == {t \in clock .. clock + MaxLag : t <= MaxTime}

(***************************************************************************)
(* Frame f read from port p.  The clock is read by learn_mac_address (t1), *)
(* for the age check (t2), by age_out_mac_entries (t3) and by handle_arp   *)
(* (t4), in this order.                                                    *)
(***************************************************************************)
HandleFrame(p, f, t1, t2, t3, t4) ==
  LET macs == AgedMacs(Learned(p, f, mac_address_table_, t1), t2, t3)
      ips  == TaughtIps(f, AgedIps(ip_to_mac_, t2, t3), t4)
  IN /\ t1 <= t2 /\ t2 <= t3 /\ t3 <= t4
     /\ mac_address_table_' = macs
     /\ ip_to_mac_' = ips
     /\ last_age_check_' = IF AgeCheckDue(t2) THEN t2 ELSE last_age_check_
     /\ clock' = t4
     /\ handled' = {<<p, f>>}
     /\ sent' = Writes(Port, p, f, macs, ips)
     /\ heard' = Put(heard, f.src, [port |-> p, at |-> t1])
     /\ claimed' = IF TeachesIp(f)
                     THEN Put(claimed, f.spa, [mac |-> f.sha, at |-> t4])
                     ELSE claimed
     /\ UNCHANGED running

ReadFrame(p) ==
  /\ ReadPort(p, "frame")
  /\ \E t1, t2, t3, t4 \in Instants :
       HandleFrame(p, Head(queue[p]).frame, t1, t2, t3, t4)

\* The process has exited.
Exited == ~ running /\ UNCHANGED vars

Loop == Poll \/ \E p \in Port : ReadNothing(p) \/ ReadRunt(p) \/ ReadFrame(p)

Next ==
  \/ \E p \in Port, item \in Items : Arrive(p, item)
  \/ Tick
  \/ Loop
  \/ PollFails
  \/ Exited

Spec == Init /\ [][Next]_vars

\* The thread is scheduled: poll() returns once a port is readable, and a
\* started round is finished.
FairSpec == Spec /\ WF_vars(Loop)

----------------------------------------------------------------------------
(* Correctness.                                                            *)

\* An entry expires once its age reaches MinLife; as the sweep runs only when
\* a frame is handled and not more than once per interval, it may be used
\* until its age reaches MaxLife.
MinLife == (FDB_AGING_TIME + 1) * TicksPerSecond
MaxLife == MinLife + AGE_CHECK_INTERVAL * TicksPerSecond

\* Every variable has its type, and no timestamp lies in the future, so the
\* differences that age_out_mac_entries and run take are never negative.
TypeOK ==
  /\ running \in BOOLEAN
  /\ queue \in [Port -> Seq(Items)] /\ ready \in SUBSET Port
  /\ clock \in Nat /\ last_age_check_ \in 0 .. clock
  /\ DOMAIN mac_address_table_ \subseteq Mac
  /\ \A m \in DOMAIN mac_address_table_ :
       mac_address_table_[m] \in [port : Port, learned_at : 0 .. clock]
  /\ DOMAIN ip_to_mac_ \subseteq Ip
  /\ \A i \in DOMAIN ip_to_mac_ :
       ip_to_mac_[i] \in [mac : Mac, learned_at : 0 .. clock]
  /\ handled \subseteq Port \X Frames /\ sent \subseteq Port \X Frame
  /\ DOMAIN heard \subseteq Mac
  /\ \A m \in DOMAIN heard : heard[m] \in [port : Port, at : 0 .. clock]
  /\ DOMAIN claimed \subseteq Ip
  /\ \A i \in DOMAIN claimed : claimed[i] \in [mac : Mac, at : 0 .. clock]

\* The file descriptors are blocking, so one read() of a port with nothing
\* queued would stop the whole switch.  run() never does one: a port it still
\* has to visit in this round has something queued, whatever arrived or was
\* read since the poll.
ReadNeverBlocks == running => ready \subseteq Readable

\* The sweep is lazy: it runs only when a frame is handled, and then only if
\* the last one is AGE_CHECK_INTERVAL old.  Still, no entry that was overdue
\* at the last check is in either table, whichever frames triggered checks.
SweptInTime ==
  /\ \A m \in DOMAIN mac_address_table_ :
       last_age_check_ - mac_address_table_[m].learned_at < MinLife
  /\ \A i \in DOMAIN ip_to_mac_ :
       last_age_check_ - ip_to_mac_[i].learned_at < MinLife

\* What is in a table is the newest thing heard, and what was heard and is no
\* longer in it is at least MinLife old: no frame is flooded, and no request
\* forwarded, because the sweep dropped a live entry.
TablesRemember ==
  /\ \A m \in DOMAIN mac_address_table_ :
       /\ m \in DOMAIN heard
       /\ mac_address_table_[m] =
            [port |-> heard[m].port, learned_at |-> heard[m].at]
  /\ \A i \in DOMAIN ip_to_mac_ :
       /\ i \in DOMAIN claimed
       /\ ip_to_mac_[i] = [mac |-> claimed[i].mac, learned_at |-> claimed[i].at]
  /\ \A m \in DOMAIN heard \ DOMAIN mac_address_table_ :
       clock - heard[m].at >= MinLife
  /\ \A i \in DOMAIN claimed \ DOMAIN ip_to_mac_ :
       clock - claimed[i].at >= MinLife

\* Senders put their own address in the ARP packets they send, as every host
\* that does not answer for another does.
SourcesAgree == \A f \in Frames : TeachesIp(f) => f.sha = f.src

\* The two tables are filled and swept separately, yet proxy ARP never names
\* an address the switch has lost the port of, and would have to flood for,
\* except in the last moments of the ARP entry: it was MinLife old at the last
\* check up to the time two iterations of the loop take.
ProxyKnowsPort ==
  SourcesAgree =>
    \A i \in DOMAIN ip_to_mac_ :
      ip_to_mac_[i].mac \notin DOMAIN mac_address_table_ =>
        last_age_check_ - ip_to_mac_[i].learned_at >= MinLife - 2 * MaxLag

\* The switch with its tables and its lazy sweep implements the bridge that
\* just remembers: each frame goes where LearningBridge allows, at the time
\* LearningBridge allows it.
Bridge == INSTANCE LearningBridge
            WITH Frames <- Frames, Port <- Port,
                 MinLife <- MinLife, MaxLife <- MaxLife,
                 clock <- clock, handled <- handled, sent <- sent,
                 heard <- heard, claimed <- claimed
BridgeSpec == Bridge!Spec

\* No port starves, however busy the others are: what is queued on a port is
\* flagged by a later poll, and a flagged port is read in the same round,
\* unless the loop ends.
EveryPortServed ==
  \A p \in Port :
    /\ queue[p] # <<>> ~> (p \in ready \/ ~ running)
    /\ p \in ready ~> (p \notin ready \/ ~ running)

=============================================================================
