------------------------ MODULE VirtualSwitchProofs ------------------------
(***************************************************************************)
(* What VirtualSwitch guarantees for every number of ports, every aging    *)
(* time, interval, clock resolution and lag, and every set of frames.      *)
(***************************************************************************)
EXTENDS VirtualSwitch, TLAPS

(***************************************************************************)
(* Arithmetic: what comparing a duration truncated to seconds comes to.    *)
(***************************************************************************)
LEMMA Multiples ==
  ASSUME NEW i \in Int, NEW j \in Int, NEW t \in Nat, i <= j
  PROVE  i * t <= j * t
  OBVIOUS

LEMMA WholeSeconds ==
  ASSUME NEW d \in Int, NEW n \in Int, NEW t \in Nat \ {0}
  PROVE  /\ d \div t \in Int
         /\ d \div t >= n <=> d >= n * t
<1>1. d \div t \in Int /\ d % t \in 0 .. t - 1 /\ d = t * (d \div t) + (d % t)
  OBVIOUS
<1> DEFINE q == d \div t
<1>2. q >= n => d >= n * t
  <2> SUFFICES ASSUME q >= n PROVE d >= n * t
    OBVIOUS
  <2>1. n * t <= q * t
    BY <1>1, Multiples
  <2> QED BY <1>1, <2>1
<1>3. d >= n * t => q >= n
  <2> SUFFICES ASSUME d >= n * t, ~ (q >= n) PROVE FALSE
    OBVIOUS
  <2>1. (q + 1) * t <= n * t
    BY <1>1, Multiples
  <2>2. (q + 1) * t = q * t + t
    BY <1>1
  <2> QED BY <1>1, <2>1, <2>2
<1> QED BY <1>1, <1>2, <1>3

LEMMA Lives ==
  ASSUME SwitchAssumption
  PROVE  MinLife \in Nat \ {0} /\ MaxLife \in Nat /\ MaxLife >= MinLife
BY DEF SwitchAssumption, MinLife, MaxLife

LEMMA ExpiredAge ==
  ASSUME SwitchAssumption, NEW now \in Int, NEW at \in Int
  PROVE  IF Expired(now, at) THEN now - at >= MinLife ELSE now - at < MinLife
<1>1. Expired(now, at) <=> now - at >= MinLife
  BY WholeSeconds DEF SwitchAssumption, Expired, Seconds, MinLife
<1> QED BY <1>1, Lives

\* While no check is due, what was live at the last one is within MaxLife.
LEMMA LiveUntilDue ==
  ASSUME SwitchAssumption, NEW now \in Int, NEW at \in Int, last_age_check_ \in Int,
         ~ AgeCheckDue(now), last_age_check_ - at < MinLife
  PROVE  now - at < MaxLife
<1>1. now - last_age_check_ < AGE_CHECK_INTERVAL * TicksPerSecond
  BY WholeSeconds DEF SwitchAssumption, AgeCheckDue, Seconds
<1>2. MaxLife = MinLife + AGE_CHECK_INTERVAL * TicksPerSecond
  BY DEF MaxLife
<1>3. AGE_CHECK_INTERVAL * TicksPerSecond \in Nat
  BY DEF SwitchAssumption
<1> QED BY <1>1, <1>2, <1>3, Lives

(***************************************************************************)
(* The operations on tables, entry by entry.                               *)
(***************************************************************************)
LEMMA AgeOutEntry ==
  ASSUME NEW table, NEW now
  PROVE  /\ DOMAIN AgeOut(table, now) =
              {k \in DOMAIN table : ~ Expired(now, table[k].learned_at)}
         /\ \A k \in DOMAIN AgeOut(table, now) : AgeOut(table, now)[k] = table[k]
BY DEF AgeOut, Restrict

\* What is queued on a port as a frame is one of the instance's frames.
LEMMA QueuedFrame ==
  ASSUME TypeOK, NEW p \in Port, ReadPort(p, "frame")
  PROVE  Head(queue[p]).frame \in Frames
<1>1. Head(queue[p]) \in Items /\ Head(queue[p]).kind = "frame"
  BY DEF TypeOK, ReadPort
<1> QED BY <1>1 DEF Items

(***************************************************************************)
(* The frame an iteration handles and the instants its calls of now()      *)
(* return.                                                                 *)
(***************************************************************************)
Handling(p, f, t1, t2, t3, t4) ==
  /\ p \in Port /\ f \in Frames /\ f \in Frame
  /\ t1 \in Nat /\ t2 \in Nat /\ t3 \in Nat /\ t4 \in Nat
  /\ clock <= t1 /\ t1 <= t2 /\ t2 <= t3 /\ t3 <= t4 /\ t4 <= clock + MaxLag
  /\ ReadPort(p, "frame")
  /\ HandleFrame(p, f, t1, t2, t3, t4)

LEMMA ReadFrameHandles ==
  ASSUME SwitchAssumption, TypeOK, NEW p \in Port, ReadFrame(p)
  PROVE  \E f, t1, t2, t3, t4 : Handling(p, f, t1, t2, t3, t4)
<1>1. PICK t1 \in Instants, t2 \in Instants, t3 \in Instants, t4 \in Instants :
        HandleFrame(p, Head(queue[p]).frame, t1, t2, t3, t4)
  BY DEF ReadFrame
<1>2. Head(queue[p]).frame \in Frames /\ Head(queue[p]).frame \in Frame
  BY QueuedFrame DEF ReadFrame, SwitchAssumption
<1>3. /\ t1 \in Nat /\ t2 \in Nat /\ t3 \in Nat /\ t4 \in Nat
      /\ clock <= t1 /\ t4 <= clock + MaxLag
  BY DEF Instants, TypeOK, SwitchAssumption
<1>4. t1 <= t2 /\ t2 <= t3 /\ t3 <= t4
  BY <1>1 DEF HandleFrame
<1> QED BY <1>1, <1>2, <1>3, <1>4 DEF Handling, ReadFrame

(***************************************************************************)
(* What handling f does to each table: an entry that is still there is the *)
(* sender's new one or an old one, one that is gone was swept, and what a  *)
(* sweep spares is not expired.                                            *)
(***************************************************************************)
LEMMA MacTableStep ==
  ASSUME NEW p, NEW f, NEW t1, NEW t2, NEW t3, NEW t4,
         Handling(p, f, t1, t2, t3, t4)
  PROVE  /\ DOMAIN mac_address_table_' \subseteq DOMAIN mac_address_table_ \cup {f.src}
         /\ \A m \in DOMAIN mac_address_table_' :
              mac_address_table_'[m] =
                IF m = f.src THEN [port |-> p, learned_at |-> t1]
                             ELSE mac_address_table_[m]
         /\ \A m \in (DOMAIN mac_address_table_ \cup {f.src}) \ DOMAIN mac_address_table_' :
              /\ AgeCheckDue(t2)
              /\ Expired(t3, IF m = f.src THEN t1 ELSE mac_address_table_[m].learned_at)
         /\ AgeCheckDue(t2) =>
              \A m \in DOMAIN mac_address_table_' :
                ~ Expired(t3, mac_address_table_'[m].learned_at)
<1> DEFINE learned == Learned(p, f, mac_address_table_, t1)
<1>1. mac_address_table_' = IF AgeCheckDue(t2) THEN AgeOut(learned, t3) ELSE learned
  BY DEF Handling, HandleFrame, AgedMacs
<1>2. /\ DOMAIN learned = DOMAIN mac_address_table_ \cup {f.src}
      /\ \A m \in DOMAIN learned :
           learned[m] = IF m = f.src THEN [port |-> p, learned_at |-> t1]
                                     ELSE mac_address_table_[m]
  <2>1. learned = Put(mac_address_table_, f.src, [port |-> p, learned_at |-> t1])
    BY DEF Learned
  <2> HIDE DEF learned
  <2> QED BY <2>1 DEF Put
<1> HIDE DEF learned
<1>3. CASE AgeCheckDue(t2)
  <2>1. mac_address_table_' = AgeOut(learned, t3)
    BY <1>1, <1>3
  <2>2. /\ DOMAIN mac_address_table_' =
             {m \in DOMAIN learned : ~ Expired(t3, learned[m].learned_at)}
        /\ \A m \in DOMAIN mac_address_table_' : mac_address_table_'[m] = learned[m]
    BY <2>1, AgeOutEntry
  <2>3. \A m \in DOMAIN learned :
          learned[m].learned_at =
            IF m = f.src THEN t1 ELSE mac_address_table_[m].learned_at
    BY <1>2
  <2> QED BY <1>2, <1>3, <2>2, <2>3
<1>4. CASE ~ AgeCheckDue(t2)
  BY <1>1, <1>2, <1>4
<1> QED BY <1>3, <1>4

LEMMA IpTableStep ==
  ASSUME NEW p, NEW f, NEW t1, NEW t2, NEW t3, NEW t4,
         Handling(p, f, t1, t2, t3, t4)
  PROVE  /\ TeachesIp(f) => f.spa \in DOMAIN ip_to_mac_'
         /\ \A i \in DOMAIN ip_to_mac_' :
              \/ /\ TeachesIp(f) /\ i = f.spa
                 /\ ip_to_mac_'[i] = [mac |-> f.sha, learned_at |-> t4]
              \/ /\ ~ (TeachesIp(f) /\ i = f.spa)
                 /\ i \in DOMAIN ip_to_mac_ /\ ip_to_mac_'[i] = ip_to_mac_[i]
                 /\ AgeCheckDue(t2) => ~ Expired(t3, ip_to_mac_[i].learned_at)
         /\ \A i \in DOMAIN ip_to_mac_ \ DOMAIN ip_to_mac_' :
              AgeCheckDue(t2) /\ Expired(t3, ip_to_mac_[i].learned_at)
<1> DEFINE aged == AgedIps(ip_to_mac_, t2, t3)
<1>1. ip_to_mac_' = TaughtIps(f, aged, t4)
  BY DEF Handling, HandleFrame
<1>2. /\ DOMAIN aged \subseteq DOMAIN ip_to_mac_
      /\ \A i \in DOMAIN aged :
           /\ aged[i] = ip_to_mac_[i]
           /\ AgeCheckDue(t2) => ~ Expired(t3, ip_to_mac_[i].learned_at)
      /\ \A i \in DOMAIN ip_to_mac_ \ DOMAIN aged :
           AgeCheckDue(t2) /\ Expired(t3, ip_to_mac_[i].learned_at)
  <2>1. CASE AgeCheckDue(t2)
    <3>1. aged = AgeOut(ip_to_mac_, t3)
      BY <2>1 DEF AgedIps
    <3> HIDE DEF aged
    <3> QED BY <2>1, <3>1, AgeOutEntry
  <2>2. CASE ~ AgeCheckDue(t2)
    BY <2>2 DEF AgedIps
  <2> QED BY <2>1, <2>2
<1> HIDE DEF aged
<1>3. CASE TeachesIp(f)
  <2>1. ip_to_mac_' = Put(aged, f.spa, [mac |-> f.sha, learned_at |-> t4])
    BY <1>1, <1>3 DEF TaughtIps
  <2>2. /\ DOMAIN ip_to_mac_' = DOMAIN aged \cup {f.spa}
        /\ \A i \in DOMAIN ip_to_mac_' :
             ip_to_mac_'[i] = IF i = f.spa THEN [mac |-> f.sha, learned_at |-> t4]
                                           ELSE aged[i]
    BY <2>1 DEF Put
  <2> QED BY <2>2, <1>2, <1>3
<1>4. CASE ~ TeachesIp(f)
  BY <1>1, <1>2, <1>4 DEF TaughtIps
<1> QED BY <1>3, <1>4

LEMMA HistoryStep ==
  ASSUME NEW p, NEW f, NEW t1, NEW t2, NEW t3, NEW t4,
         Handling(p, f, t1, t2, t3, t4)
  PROVE  /\ heard' = Put(heard, f.src, [port |-> p, at |-> t1])
         /\ TeachesIp(f) => claimed' = Put(claimed, f.spa, [mac |-> f.sha, at |-> t4])
         /\ ~ TeachesIp(f) => claimed' = claimed
         /\ AgeCheckDue(t2) => last_age_check_' = t2
         /\ ~ AgeCheckDue(t2) => last_age_check_' = last_age_check_
         /\ clock' = t4
BY DEF Handling, HandleFrame

LEMMA FrameFields ==
  ASSUME AddressAssumption, NEW f \in Frame
  PROVE  /\ f.src \in Mac /\ f.dst \in Mac /\ f.sha \in Mac
         /\ TeachesIp(f) => f.spa \in Ip
         /\ \A m \in Mac : ArpReply(f, m) \in Frame
BY DEF Frame, AddressAssumption, TeachesIp, ArpReply

\* Whatever is written is a frame, on a port.
LEMMA WritesFrames ==
  ASSUME AddressAssumption, NEW p \in Port, NEW f \in Frame, NEW macs, NEW ips,
         \A m \in DOMAIN macs : macs[m].port \in Port,
         \A i \in DOMAIN ips : ips[i].mac \in Mac
  PROVE  Writes(Port, p, f, macs, ips) \subseteq Port \X Frame
<1>1. CASE Answerable(f, ips)
  BY <1>1, FrameFields DEF Writes, Answerable
<1>2. CASE ~ Answerable(f, ips)
  <2>1. Egress(Port, p, f, macs) \subseteq Port
    BY DEF Egress
  <2> QED BY <1>2, <2>1 DEF Writes
<1> QED BY <1>1, <1>2

(***************************************************************************)
(* TypeOK is inductive by itself.                                          *)
(***************************************************************************)
LEMMA FramePreservesType ==
  ASSUME SwitchAssumption, AddressAssumption, TypeOK,
         NEW p, NEW f, NEW t1, NEW t2, NEW t3, NEW t4,
         Handling(p, f, t1, t2, t3, t4)
  PROVE  TypeOK'
<1>1. /\ p \in Port /\ f \in Frames /\ f \in Frame /\ clock \in Nat /\ clock <= t4
      /\ t1 \in 0 .. t4 /\ t2 \in 0 .. t4 /\ t4 \in Nat /\ last_age_check_ \in 0 .. t4
      /\ f.src \in Mac /\ f.sha \in Mac /\ (TeachesIp(f) => f.spa \in Ip)
  BY FrameFields DEF Handling, TypeOK
<1>2. clock' = t4 /\ last_age_check_' \in 0 .. t4
  <2>1. /\ clock' = t4
        /\ last_age_check_' = t2 \/ last_age_check_' = last_age_check_
    BY HistoryStep
  <2> QED BY <1>1, <2>1
<1>3. running' \in BOOLEAN /\ queue' \in [Port -> Seq(Items)] /\ ready' \in SUBSET Port
  BY DEF Handling, HandleFrame, ReadPort, TypeOK
<1>4. /\ DOMAIN mac_address_table_' \subseteq Mac
      /\ \A m \in DOMAIN mac_address_table_' :
           mac_address_table_'[m] \in [port : Port, learned_at : 0 .. t4]
  BY <1>1, MacTableStep DEF TypeOK
<1>5. /\ DOMAIN ip_to_mac_' \subseteq Ip
      /\ \A i \in DOMAIN ip_to_mac_' :
           ip_to_mac_'[i] \in [mac : Mac, learned_at : 0 .. t4]
  BY <1>1, IpTableStep DEF TypeOK
<1>6. /\ DOMAIN heard' \subseteq Mac
      /\ \A m \in DOMAIN heard' : heard'[m] \in [port : Port, at : 0 .. t4]
  <2>1. /\ DOMAIN heard \subseteq Mac
        /\ \A m \in DOMAIN heard : heard[m] \in [port : Port, at : 0 .. clock]
    BY DEF TypeOK
  <2>2. heard' = Put(heard, f.src, [port |-> p, at |-> t1])
    BY HistoryStep
  <2> QED BY <1>1, <2>1, <2>2 DEF Put
<1>7. /\ DOMAIN claimed' \subseteq Ip
      /\ \A i \in DOMAIN claimed' : claimed'[i] \in [mac : Mac, at : 0 .. t4]
  <2>1. /\ DOMAIN claimed \subseteq Ip
        /\ \A i \in DOMAIN claimed : claimed[i] \in [mac : Mac, at : 0 .. clock]
    BY DEF TypeOK
  <2>2. CASE TeachesIp(f)
    <3>1. claimed' = Put(claimed, f.spa, [mac |-> f.sha, at |-> t4])
      BY <2>2, HistoryStep
    <3> QED BY <1>1, <2>1, <2>2, <3>1 DEF Put
  <2>3. CASE ~ TeachesIp(f)
    <3>1. claimed' = claimed
      BY <2>3, HistoryStep
    <3> QED BY <1>1, <2>1, <3>1
  <2> QED BY <2>2, <2>3
<1>8. handled' \subseteq Port \X Frames
  BY <1>1 DEF Handling, HandleFrame
<1>9. sent' \subseteq Port \X Frame
  <2>1. sent' = Writes(Port, p, f, mac_address_table_', ip_to_mac_')
    BY DEF Handling, HandleFrame
  <2>2. /\ \A m \in DOMAIN mac_address_table_' : mac_address_table_'[m].port \in Port
        /\ \A i \in DOMAIN ip_to_mac_' : ip_to_mac_'[i].mac \in Mac
    BY <1>4, <1>5
  <2> QED BY <1>1, <2>1, <2>2, WritesFrames
<1> QED BY <1>1, <1>2, <1>3, <1>4, <1>5, <1>6, <1>7, <1>8, <1>9 DEF TypeOK

\* Every variable always has its type, and no timestamp lies in the future.
THEOREM TypeCorrect == Spec => []TypeOK
<1> USE SwitchAssumption, AddressAssumption
<1>1. Init => TypeOK
  BY DEF Init, TypeOK, NoEntries, SwitchAssumption
<1>2. TypeOK /\ [Next]_vars => TypeOK'
  <2> SUFFICES ASSUME TypeOK, [Next]_vars PROVE TypeOK'
    OBVIOUS
  <2>1. ASSUME NEW p \in Port, NEW item \in Items, Arrive(p, item) PROVE TypeOK'
    BY <2>1 DEF Arrive, tables, history, TypeOK
  <2>2. CASE Tick
    BY <2>2 DEF Tick, tables, history, TypeOK, SwitchAssumption
  <2>3. CASE Poll
    BY <2>3 DEF Poll, Readable, tables, history, TypeOK
  <2>4. ASSUME NEW p \in Port, ReadNothing(p) PROVE TypeOK'
    BY <2>4 DEF ReadNothing, ReadPort, tables, history, TypeOK
  <2>5. ASSUME NEW p \in Port, ReadRunt(p) PROVE TypeOK'
    <3>1. UNCHANGED <<mac_address_table_, ip_to_mac_, last_age_check_, clock,
                      handled, sent, heard, claimed>>
      BY <2>5 DEF ReadRunt, tables, history
    <3>2. queue' \in [Port -> Seq(Items)] /\ ready' \in SUBSET Port
      BY <2>5 DEF ReadRunt, ReadPort, TypeOK
    <3>3. running' \in BOOLEAN
      BY <2>5 DEF ReadRunt
    <3> QED BY <3>1, <3>2, <3>3 DEF TypeOK
  <2>6. ASSUME NEW p \in Port, ReadFrame(p) PROVE TypeOK'
    BY <2>6, ReadFrameHandles, FramePreservesType
  <2>7. CASE PollFails
    BY <2>7 DEF PollFails, tables, history, TypeOK
  <2>8. CASE UNCHANGED vars
    BY <2>8 DEF vars, tables, history, TypeOK
  <2> QED BY <2>1, <2>2, <2>3, <2>4, <2>5, <2>6, <2>7, <2>8 DEF Next, Loop, Exited
<1> QED BY <1>1, <1>2, PTL DEF Spec

(***************************************************************************)
(* The next-state relation, for the invariants that only handling a frame  *)
(* can disturb.                                                            *)
(***************************************************************************)
LEMMA OnlyFramesTouchTables ==
  ASSUME SwitchAssumption, TypeOK, [Next]_vars
  PROVE  \/ \E p, f, t1, t2, t3, t4 : Handling(p, f, t1, t2, t3, t4)
         \/ /\ UNCHANGED <<tables, history>>
            /\ clock' \in Nat /\ clock <= clock'
<1>1. CASE \E p \in Port, item \in Items : Arrive(p, item)
  BY <1>1 DEF Arrive, TypeOK
<1>2. CASE Tick
  BY <1>2 DEF Tick, TypeOK
<1>3. CASE Poll
  BY <1>3 DEF Poll, TypeOK
<1>4. CASE \E p \in Port : ReadNothing(p) \/ ReadRunt(p)
  BY <1>4 DEF ReadNothing, ReadRunt, TypeOK
<1>5. CASE \E p \in Port : ReadFrame(p)
  BY <1>5, ReadFrameHandles
<1>6. CASE PollFails \/ UNCHANGED vars
  BY <1>6 DEF PollFails, vars, TypeOK
<1> QED BY <1>1, <1>2, <1>3, <1>4, <1>5, <1>6 DEF Next, Loop, Exited

\* No read() of run() can block: what is flagged stays readable until it is
\* visited.
THEOREM ReadsNeverBlock == Spec => []ReadNeverBlocks
<1>1. Init => ReadNeverBlocks
  BY DEF Init, ReadNeverBlocks
<1>2. TypeOK /\ ReadNeverBlocks /\ [Next]_vars => ReadNeverBlocks'
  <2> SUFFICES ASSUME TypeOK, ReadNeverBlocks, [Next]_vars PROVE ReadNeverBlocks'
    OBVIOUS
  <2> USE DEF ReadNeverBlocks, Readable
  <2>1. ASSUME NEW p \in Port, NEW item \in Items, Arrive(p, item)
        PROVE  ReadNeverBlocks'
    <3>1. Append(queue[p], item) # <<>>
      BY <2>1 DEF TypeOK
    <3> QED BY <2>1, <3>1 DEF Arrive, TypeOK
  <2>2. CASE Tick \/ PollFails \/ UNCHANGED vars
    BY <2>2 DEF Tick, PollFails, vars
  <2>3. CASE Poll
    BY <2>3 DEF Poll
  <2>4. ASSUME NEW p \in Port, NEW kind, ReadPort(p, kind), running' => running
        PROVE  ReadNeverBlocks'
    BY <2>4 DEF ReadPort, TypeOK
  <2>5. ASSUME NEW p \in Port, ReadNothing(p) \/ ReadRunt(p) \/ ReadFrame(p)
        PROVE  ReadNeverBlocks'
    BY <2>4, <2>5 DEF ReadNothing, ReadRunt, ReadFrame, HandleFrame
  <2> QED BY <2>1, <2>2, <2>3, <2>5 DEF Next, Loop, Exited
<1> QED BY <1>1, <1>2, TypeCorrect, PTL DEF Spec

\* At every check of the age of the entries, nothing overdue is left in either
\* table.
THEOREM Swept == Spec => []SweptInTime
<1> USE SwitchAssumption
<1>1. Init => SweptInTime
  BY DEF Init, SweptInTime, NoEntries
<1>2. TypeOK /\ SweptInTime /\ [Next]_vars => SweptInTime'
  <2> SUFFICES ASSUME TypeOK, SweptInTime, [Next]_vars PROVE SweptInTime'
    OBVIOUS
  <2>1. CASE UNCHANGED <<tables, history>>
    BY <2>1 DEF tables, SweptInTime, MinLife
  <2>2. ASSUME NEW p, NEW f, NEW t1, NEW t2, NEW t3, NEW t4,
               Handling(p, f, t1, t2, t3, t4)
        PROVE  SweptInTime'
    <3>0. /\ t1 \in Nat /\ t2 \in Nat /\ t3 \in Nat /\ t4 \in Nat
          /\ last_age_check_ \in Nat /\ last_age_check_ <= t1
          /\ t1 <= t2 /\ t2 <= t3 /\ t3 <= t4
      BY <2>2 DEF Handling, TypeOK
    <3>1. TypeOK'
      BY <2>2, FramePreservesType, AddressAssumption
    <3>2. last_age_check_' = IF AgeCheckDue(t2) THEN t2 ELSE last_age_check_
      BY <2>2, HistoryStep
    <3>3. ASSUME NEW m \in DOMAIN mac_address_table_'
          PROVE  last_age_check_' - mac_address_table_'[m].learned_at < MinLife
      <4> DEFINE at == mac_address_table_'[m].learned_at
      <4>1. at \in Nat
        BY <3>1, <3>3 DEF TypeOK
      <4>2. CASE AgeCheckDue(t2)
        <5>1. ~ Expired(t3, at)
          BY <2>2, <3>3, <4>2, MacTableStep
        <5> HIDE DEF at
        <5>2. t3 - at < MinLife
          BY <3>0, <4>1, <5>1, ExpiredAge, Lives
        <5>3. t2 - at < MinLife
          BY <3>0, <4>1, <5>2, Lives
        <5> QED BY <3>2, <4>2, <5>3 DEF at
      <4>3. CASE ~ AgeCheckDue(t2)
        <5>1. CASE m = f.src
          <6>1. mac_address_table_'[m].learned_at = t1
            BY <2>2, <3>3, <5>1, MacTableStep
          <6> QED BY <3>0, <3>2, <4>3, <6>1, Lives
        <5>2. CASE m # f.src
          BY <2>2, <3>2, <3>3, <4>3, <5>2, MacTableStep DEF SweptInTime
        <5> QED BY <5>1, <5>2
      <4> QED BY <4>2, <4>3
    <3>4. ASSUME NEW i \in DOMAIN ip_to_mac_'
          PROVE  last_age_check_' - ip_to_mac_'[i].learned_at < MinLife
      <4>1. CASE TeachesIp(f) /\ i = f.spa
        <5>1. ip_to_mac_'[i].learned_at = t4
          BY <2>2, <3>4, <4>1, IpTableStep
        <5> QED BY <3>0, <3>2, <5>1, Lives
      <4>2. CASE ~ (TeachesIp(f) /\ i = f.spa)
        <5>1. /\ i \in DOMAIN ip_to_mac_ /\ ip_to_mac_'[i] = ip_to_mac_[i]
              /\ AgeCheckDue(t2) => ~ Expired(t3, ip_to_mac_[i].learned_at)
          BY <2>2, <3>4, <4>2, IpTableStep
        <5>2. ip_to_mac_[i].learned_at \in Nat
          BY <5>1 DEF TypeOK
        <5>3. CASE AgeCheckDue(t2)
          BY <3>0, <3>2, <5>1, <5>2, <5>3, ExpiredAge, Lives
        <5>4. CASE ~ AgeCheckDue(t2)
          BY <3>2, <5>1, <5>4 DEF SweptInTime
        <5> QED BY <5>3, <5>4
      <4> QED BY <4>1, <4>2
    <3> QED BY <3>3, <3>4 DEF SweptInTime, MinLife
  <2> QED BY <2>1, <2>2, OnlyFramesTouchTables
<1> QED BY <1>1, <1>2, TypeCorrect, PTL DEF Spec

(***************************************************************************)
(* What a table holds is what was last heard, and what it lost was old.    *)
(***************************************************************************)
LEMMA FrameInstants ==
  ASSUME TypeOK, NEW p, NEW f, NEW t1, NEW t2, NEW t3, NEW t4,
         Handling(p, f, t1, t2, t3, t4)
  PROVE  /\ t1 \in Nat /\ t2 \in Nat /\ t3 \in Nat /\ t4 \in Nat
         /\ clock \in Nat /\ last_age_check_ \in Nat /\ last_age_check_ <= clock
         /\ clock <= t1 /\ t1 <= t2 /\ t2 <= t3 /\ t3 <= t4 /\ t4 <= clock + MaxLag
BY DEF Handling, TypeOK

LEMMA FrameRemembers ==
  ASSUME SwitchAssumption, TypeOK, TablesRemember,
         NEW p, NEW f, NEW t1, NEW t2, NEW t3, NEW t4,
         Handling(p, f, t1, t2, t3, t4)
  PROVE  TablesRemember'
<1>0. /\ t1 \in Nat /\ t2 \in Nat /\ t3 \in Nat /\ t4 \in Nat
      /\ clock \in Nat /\ clock <= t4 /\ t3 <= t4
  BY FrameInstants
<1>1. clock' = t4 /\ heard' = Put(heard, f.src, [port |-> p, at |-> t1])
  BY HistoryStep
<1> DEFINE taught == Put(claimed, f.spa, [mac |-> f.sha, at |-> t4])
<1>6. claimed' = claimed \/ (TeachesIp(f) /\ claimed' = taught)
  <2>1. CASE TeachesIp(f)
    BY <2>1, HistoryStep
  <2>2. CASE ~ TeachesIp(f)
    BY <2>2, HistoryStep
  <2> QED BY <2>1, <2>2
<1>7. /\ DOMAIN taught = DOMAIN claimed \cup {f.spa}
      /\ \A i \in DOMAIN claimed : i # f.spa => taught[i] = claimed[i]
  BY DEF Put
<1> HIDE DEF taught
<1>2. ASSUME NEW m \in DOMAIN mac_address_table_'
      PROVE  /\ m \in DOMAIN heard'
             /\ mac_address_table_'[m] =
                  [port |-> heard'[m].port, learned_at |-> heard'[m].at]
  <2>1. CASE m = f.src
    <3>1. mac_address_table_'[m] = [port |-> p, learned_at |-> t1]
      BY <1>2, <2>1, MacTableStep
    <3> QED BY <1>1, <2>1, <3>1 DEF Put
  <2>2. CASE m # f.src
    <3>1. m \in DOMAIN mac_address_table_ /\ mac_address_table_'[m] = mac_address_table_[m]
      BY <1>2, <2>2, MacTableStep
    <3>2. m \in DOMAIN heard' /\ heard'[m] = heard[m]
      BY <1>1, <2>2, <3>1 DEF Put, TablesRemember
    <3> QED BY <3>1, <3>2 DEF TablesRemember
  <2> QED BY <2>1, <2>2
<1>3. ASSUME NEW m \in DOMAIN heard' \ DOMAIN mac_address_table_'
      PROVE  clock' - heard'[m].at >= MinLife
  <2>1. CASE m = f.src
    <3>1. Expired(t3, t1)
      BY <1>3, <2>1, MacTableStep
    <3>2. heard'[m].at = t1
      BY <1>1, <2>1 DEF Put
    <3> QED BY <1>0, <1>1, <3>1, <3>2, ExpiredAge, Lives
  <2>2. CASE m # f.src
    <3>1. m \in DOMAIN heard /\ heard'[m] = heard[m]
      BY <1>1, <1>3, <2>2 DEF Put
    <3>2. heard[m].at \in Nat
      BY <3>1 DEF TypeOK
    <3>3. CASE m \in DOMAIN mac_address_table_
      <4>1. Expired(t3, mac_address_table_[m].learned_at)
        BY <1>3, <2>2, <3>3, MacTableStep
      <4>2. mac_address_table_[m].learned_at = heard[m].at
        BY <3>3 DEF TablesRemember
      <4> QED BY <1>0, <1>1, <3>1, <3>2, <4>1, <4>2, ExpiredAge, Lives
    <3>4. CASE m \notin DOMAIN mac_address_table_
      <4>1. clock - heard[m].at >= MinLife
        BY <3>1, <3>4 DEF TablesRemember
      <4> QED BY <1>0, <1>1, <3>1, <3>2, <4>1, Lives
    <3> QED BY <3>3, <3>4
  <2> QED BY <2>1, <2>2
<1>4. ASSUME NEW i \in DOMAIN ip_to_mac_'
      PROVE  /\ i \in DOMAIN claimed'
             /\ ip_to_mac_'[i] = [mac |-> claimed'[i].mac, learned_at |-> claimed'[i].at]
  <2>1. CASE TeachesIp(f) /\ i = f.spa
    <3>1. ip_to_mac_'[i] = [mac |-> f.sha, learned_at |-> t4]
      BY <1>4, <2>1, IpTableStep
    <3>2. claimed' = Put(claimed, f.spa, [mac |-> f.sha, at |-> t4])
      BY <2>1, HistoryStep
    <3> QED BY <2>1, <3>1, <3>2 DEF Put
  <2>2. CASE ~ (TeachesIp(f) /\ i = f.spa)
    <3>1. i \in DOMAIN ip_to_mac_ /\ ip_to_mac_'[i] = ip_to_mac_[i]
      BY <1>4, <2>2, IpTableStep
    <3>2. i \in DOMAIN claimed
      BY <3>1 DEF TablesRemember
    <3>3. i \in DOMAIN claimed' /\ claimed'[i] = claimed[i]
      BY <1>6, <1>7, <2>2, <3>2
    <3> QED BY <3>1, <3>3 DEF TablesRemember
  <2> QED BY <2>1, <2>2
<1>5. ASSUME NEW i \in DOMAIN claimed' \ DOMAIN ip_to_mac_'
      PROVE  clock' - claimed'[i].at >= MinLife
  <2>1. ~ (TeachesIp(f) /\ i = f.spa)
    BY <1>5, IpTableStep
  <2>2. i \in DOMAIN claimed /\ claimed'[i] = claimed[i]
    BY <1>5, <1>6, <1>7, <2>1
  <2>3. claimed[i].at \in Nat
    BY <2>2 DEF TypeOK
  <2>4. CASE i \in DOMAIN ip_to_mac_
    <3>1. Expired(t3, ip_to_mac_[i].learned_at)
      BY <1>5, <2>4, IpTableStep
    <3>2. ip_to_mac_[i].learned_at = claimed[i].at
      BY <2>4 DEF TablesRemember
    <3> QED BY <1>0, <1>1, <2>2, <2>3, <3>1, <3>2, ExpiredAge, Lives
  <2>5. CASE i \notin DOMAIN ip_to_mac_
    <3>1. clock - claimed[i].at >= MinLife
      BY <2>2, <2>5 DEF TablesRemember
    <3> QED BY <1>0, <1>1, <2>2, <2>3, <3>1, Lives
  <2> QED BY <2>4, <2>5
<1> QED BY <1>2, <1>3, <1>4, <1>5 DEF TablesRemember, MinLife

\* The tables are the newest news, and nothing is dropped before its time.
THEOREM Remembers == Spec => []TablesRemember
<1> USE SwitchAssumption, AddressAssumption
<1>1. Init => TablesRemember
  BY DEF Init, TablesRemember, NoEntries
<1>2. TypeOK /\ TablesRemember /\ [Next]_vars => TablesRemember'
  <2> SUFFICES ASSUME TypeOK, TablesRemember, [Next]_vars PROVE TablesRemember'
    OBVIOUS
  <2>1. CASE UNCHANGED <<tables, history>> /\ clock' \in Nat /\ clock <= clock'
    <3>1. ASSUME NEW m \in DOMAIN heard \ DOMAIN mac_address_table_
          PROVE  clock' - heard[m].at >= MinLife
      <4>1. clock \in Nat /\ heard[m].at \in Nat /\ clock - heard[m].at >= MinLife
        BY <3>1 DEF TypeOK, TablesRemember
      <4> QED BY <2>1, <4>1, Lives
    <3>2. ASSUME NEW i \in DOMAIN claimed \ DOMAIN ip_to_mac_
          PROVE  clock' - claimed[i].at >= MinLife
      <4>1. clock \in Nat /\ claimed[i].at \in Nat /\ clock - claimed[i].at >= MinLife
        BY <3>2 DEF TypeOK, TablesRemember
      <4> QED BY <2>1, <4>1, Lives
    <3> QED BY <2>1, <3>1, <3>2 DEF TablesRemember, tables, history, MinLife
  <2> QED BY <2>1, OnlyFramesTouchTables, FrameRemembers
<1> QED BY <1>1, <1>2, TypeCorrect, PTL DEF Spec

=============================================================================
