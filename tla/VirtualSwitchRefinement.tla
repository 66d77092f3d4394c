---------------------- MODULE VirtualSwitchRefinement ----------------------
(***************************************************************************)
(* What relates the two tables of VirtualSwitch to each other, and the     *)
(* switch to LearningBridge.                                               *)
(***************************************************************************)
EXTENDS VirtualSwitchProofs

(***************************************************************************)
(* Proxy ARP.  A host is heard at most one iteration before its ARP claim  *)
(* is recorded, and an address that lost its port was MinLife old at a     *)
(* check, less the time between the two reads of the clock.                *)
(***************************************************************************)
HeardWithClaim ==
  \A i \in DOMAIN claimed :
    /\ claimed[i].mac \in DOMAIN heard
    /\ heard[claimed[i].mac].at >= claimed[i].at - MaxLag

LostInTime ==
  \A m \in DOMAIN heard \ DOMAIN mac_address_table_ :
    last_age_check_ - heard[m].at >= MinLife - MaxLag

LEMMA FrameKeepsHeardWithClaim ==
  ASSUME SwitchAssumption, TypeOK, SourcesAgree, HeardWithClaim,
         NEW p, NEW f, NEW t1, NEW t2, NEW t3, NEW t4,
         Handling(p, f, t1, t2, t3, t4)
  PROVE  HeardWithClaim'
<1>0. /\ t1 \in Nat /\ t4 \in Nat /\ clock \in Nat /\ MaxLag \in Nat
      /\ clock <= t1 /\ t4 <= clock + MaxLag /\ f \in Frames
  BY FrameInstants DEF Handling, SwitchAssumption
<1>1. heard' = Put(heard, f.src, [port |-> p, at |-> t1])
  BY HistoryStep
<1>2. /\ f.src \in DOMAIN heard' /\ heard'[f.src].at = t1
      /\ \A m \in DOMAIN heard : m # f.src => m \in DOMAIN heard' /\ heard'[m] = heard[m]
  BY <1>1 DEF Put
<1>3. \A i \in DOMAIN claimed :
        /\ claimed[i].mac \in DOMAIN heard'
        /\ heard'[claimed[i].mac].at >= claimed[i].at - MaxLag
  <2> SUFFICES ASSUME NEW i \in DOMAIN claimed
               PROVE  /\ claimed[i].mac \in DOMAIN heard'
                      /\ heard'[claimed[i].mac].at >= claimed[i].at - MaxLag
    OBVIOUS
  <2>1. claimed[i].at \in Nat /\ claimed[i].at <= clock
    BY DEF TypeOK
  <2>2. CASE claimed[i].mac = f.src
    BY <1>0, <1>2, <2>1, <2>2
  <2>3. CASE claimed[i].mac # f.src
    BY <1>2, <2>3 DEF HeardWithClaim
  <2> QED BY <2>2, <2>3
<1>4. CASE TeachesIp(f)
  <2>1. claimed' = Put(claimed, f.spa, [mac |-> f.src, at |-> t4])
    BY <1>0, <1>4, HistoryStep DEF SourcesAgree
  <2>2. \A i \in DOMAIN claimed' :
          IF i = f.spa THEN claimed'[i].mac = f.src /\ claimed'[i].at = t4
                       ELSE i \in DOMAIN claimed /\ claimed'[i] = claimed[i]
    BY <2>1 DEF Put
  <2> QED BY <1>0, <1>2, <1>3, <2>2 DEF HeardWithClaim
<1>5. CASE ~ TeachesIp(f)
  <2>1. claimed' = claimed
    BY <1>5, HistoryStep
  <2> QED BY <1>3, <2>1 DEF HeardWithClaim
<1> QED BY <1>4, <1>5

LEMMA FrameKeepsLostInTime ==
  ASSUME SwitchAssumption, TypeOK, TablesRemember, LostInTime,
         NEW p, NEW f, NEW t1, NEW t2, NEW t3, NEW t4,
         Handling(p, f, t1, t2, t3, t4)
  PROVE  LostInTime'
<1>0. /\ t1 \in Nat /\ t2 \in Nat /\ t3 \in Nat /\ t4 \in Nat /\ MaxLag \in Nat
      /\ clock \in Nat /\ last_age_check_ \in Nat /\ last_age_check_ <= clock
      /\ clock <= t1 /\ t1 <= t2 /\ t2 <= t3 /\ t3 <= t4 /\ t4 <= clock + MaxLag
  BY FrameInstants DEF SwitchAssumption
<1> SUFFICES ASSUME NEW m \in DOMAIN heard' \ DOMAIN mac_address_table_'
             PROVE  last_age_check_' - heard'[m].at >= MinLife - MaxLag
  BY DEF LostInTime, MinLife
<1>1. heard' = Put(heard, f.src, [port |-> p, at |-> t1])
  BY HistoryStep
<1>2. CASE m = f.src
  <2>1. heard'[m].at = t1 /\ AgeCheckDue(t2) /\ Expired(t3, t1)
    BY <1>1, <1>2, MacTableStep DEF Put
  <2>2. last_age_check_' = t2
    BY <2>1, HistoryStep
  <2> QED BY <1>0, <2>1, <2>2, ExpiredAge, Lives
<1>3. CASE m # f.src
  <2>1. m \in DOMAIN heard /\ heard'[m] = heard[m]
    BY <1>1, <1>3 DEF Put
  <2>2. heard[m].at \in Nat
    BY <2>1 DEF TypeOK
  <2>3. CASE m \in DOMAIN mac_address_table_
    <3>1. AgeCheckDue(t2) /\ Expired(t3, mac_address_table_[m].learned_at)
      BY <1>3, <2>3, MacTableStep
    <3>2. mac_address_table_[m].learned_at = heard[m].at
      BY <2>3 DEF TablesRemember
    <3>3. last_age_check_' = t2
      BY <3>1, HistoryStep
    <3> QED BY <1>0, <2>1, <2>2, <3>1, <3>2, <3>3, ExpiredAge, Lives
  <2>4. CASE m \notin DOMAIN mac_address_table_
    <3>1. last_age_check_ - heard[m].at >= MinLife - MaxLag
      BY <2>1, <2>4 DEF LostInTime
    <3>2. last_age_check_' = t2 \/ last_age_check_' = last_age_check_
      BY HistoryStep
    <3> QED BY <1>0, <2>1, <2>2, <3>1, <3>2, Lives
  <2> QED BY <2>3, <2>4
<1> QED BY <1>2, <1>3

\* Proxy ARP hands out no address whose port the switch has forgotten, except
\* at the very end of the life of the ARP entry.
THEOREM ProxyUsable == Spec => []ProxyKnowsPort
<1> USE SwitchAssumption, AddressAssumption
<1> DEFINE Inv == LostInTime /\ (SourcesAgree => HeardWithClaim)
<1>1. Init => Inv
  BY DEF Init, LostInTime, HeardWithClaim, NoEntries
<1>2. TypeOK /\ TablesRemember /\ Inv /\ [Next]_vars => Inv'
  <2> SUFFICES ASSUME TypeOK, TablesRemember, Inv, [Next]_vars PROVE Inv'
    OBVIOUS
  <2>1. CASE UNCHANGED <<tables, history>>
    BY <2>1 DEF tables, history, LostInTime, HeardWithClaim, MinLife, SourcesAgree
  <2>2. SourcesAgree' <=> SourcesAgree
    BY DEF SourcesAgree
  <2> QED BY <2>1, <2>2, OnlyFramesTouchTables, FrameKeepsLostInTime,
             FrameKeepsHeardWithClaim
<1>3. TypeOK /\ TablesRemember /\ Inv => ProxyKnowsPort
  <2> SUFFICES ASSUME TypeOK, TablesRemember, LostInTime, HeardWithClaim,
                      NEW i \in DOMAIN ip_to_mac_,
                      ip_to_mac_[i].mac \notin DOMAIN mac_address_table_
               PROVE  last_age_check_ - ip_to_mac_[i].learned_at >= MinLife - 2 * MaxLag
    BY DEF ProxyKnowsPort
  <2> DEFINE m == claimed[i].mac
  <2>1. /\ i \in DOMAIN claimed
        /\ ip_to_mac_[i].mac = m /\ ip_to_mac_[i].learned_at = claimed[i].at
    BY DEF TablesRemember
  <2>2. /\ m \in DOMAIN heard \ DOMAIN mac_address_table_
        /\ heard[m].at >= claimed[i].at - MaxLag
    BY <2>1 DEF HeardWithClaim
  <2>3. last_age_check_ - heard[m].at >= MinLife - MaxLag
    BY <2>2 DEF LostInTime
  <2>4. claimed[i].at \in Nat /\ heard[m].at \in Nat /\ last_age_check_ \in Nat
    BY <2>1, <2>2 DEF TypeOK
  <2>5. MaxLag \in Nat
    BY DEF SwitchAssumption
  <2> HIDE DEF m
  <2> QED BY <2>1, <2>2, <2>3, <2>4, <2>5, Lives
<1> QED BY <1>1, <1>2, <1>3, TypeCorrect, Remembers, PTL DEF Spec

(***************************************************************************)
(* The bridge.  After a frame is handled, what the tables hold may be used *)
(* and what was heard and is not in them may be forgotten.                 *)
(***************************************************************************)
LEMMA UsableWhenKept ==
  ASSUME SwitchAssumption, TypeOK, NEW at \in Nat,
         NEW p, NEW f, NEW t1, NEW t2, NEW t3, NEW t4,
         Handling(p, f, t1, t2, t3, t4), last_age_check_' - at < MinLife
  PROVE  clock - at < MaxLife
<1>0. /\ t2 \in Nat /\ clock \in Nat /\ clock <= t2 /\ last_age_check_ \in Nat
  BY FrameInstants
<1>1. CASE AgeCheckDue(t2)
  <2>1. last_age_check_' = t2
    BY <1>1, HistoryStep
  <2> QED BY <1>0, <2>1, Lives
<1>2. CASE ~ AgeCheckDue(t2)
  <2>1. last_age_check_' = last_age_check_
    BY <1>2, HistoryStep
  <2>2. last_age_check_ - at < MinLife
    BY <2>1
  <2>3. t2 - at < MaxLife
    <3>1. t2 \in Int /\ at \in Int /\ last_age_check_ \in Int
      BY <1>0
    <3> QED BY <1>2, <2>2, <3>1, LiveUntilDue, Zenon
  <2> QED BY <1>0, <2>3, Lives
<1> QED BY <1>1, <1>2

LEMMA TablesMayBeUsed ==
  ASSUME SwitchAssumption, TypeOK, TypeOK', SweptInTime', TablesRemember',
         NEW p, NEW f, NEW t1, NEW t2, NEW t3, NEW t4,
         Handling(p, f, t1, t2, t3, t4)
  PROVE  /\ \A m \in DOMAIN mac_address_table_' :
              /\ m \in DOMAIN heard'
              /\ mac_address_table_'[m].port = heard'[m].port
              /\ Bridge!MayUse(heard'[m].at)
         /\ \A m \in DOMAIN heard' \ DOMAIN mac_address_table_' :
              Bridge!MayForget(heard'[m].at)
         /\ \A i \in DOMAIN ip_to_mac_' :
              /\ i \in DOMAIN claimed'
              /\ ip_to_mac_'[i].mac = claimed'[i].mac
              /\ Bridge!MayUse(claimed'[i].at)
         /\ \A i \in DOMAIN claimed' \ DOMAIN ip_to_mac_' :
              Bridge!MayForget(claimed'[i].at)
<1>1. ASSUME NEW m \in DOMAIN mac_address_table_'
      PROVE  /\ m \in DOMAIN heard'
             /\ mac_address_table_'[m].port = heard'[m].port
             /\ Bridge!MayUse(heard'[m].at)
  <2>1. /\ m \in DOMAIN heard'
        /\ mac_address_table_'[m].port = heard'[m].port
        /\ mac_address_table_'[m].learned_at = heard'[m].at
    BY <1>1 DEF TablesRemember
  <2>2. heard'[m].at \in Nat
    BY <2>1 DEF TypeOK
  <2>3. last_age_check_' - heard'[m].at < MinLife
    BY <1>1, <2>1 DEF SweptInTime, MinLife
  <2>4. clock - heard'[m].at < MaxLife
    BY <2>2, <2>3, UsableWhenKept
  <2> QED BY <2>1, <2>4 DEF Bridge!MayUse
<1>2. ASSUME NEW i \in DOMAIN ip_to_mac_'
      PROVE  /\ i \in DOMAIN claimed'
             /\ ip_to_mac_'[i].mac = claimed'[i].mac
             /\ Bridge!MayUse(claimed'[i].at)
  <2>1. /\ i \in DOMAIN claimed'
        /\ ip_to_mac_'[i].mac = claimed'[i].mac
        /\ ip_to_mac_'[i].learned_at = claimed'[i].at
    BY <1>2 DEF TablesRemember
  <2>2. claimed'[i].at \in Nat
    BY <2>1 DEF TypeOK
  <2>3. last_age_check_' - claimed'[i].at < MinLife
    BY <1>2, <2>1 DEF SweptInTime, MinLife
  <2>4. clock - claimed'[i].at < MaxLife
    BY <2>2, <2>3, UsableWhenKept
  <2> QED BY <2>1, <2>4 DEF Bridge!MayUse
<1>3. /\ \A m \in DOMAIN heard' \ DOMAIN mac_address_table_' :
           Bridge!MayForget(heard'[m].at)
      /\ \A i \in DOMAIN claimed' \ DOMAIN ip_to_mac_' :
           Bridge!MayForget(claimed'[i].at)
  BY DEF TablesRemember, Bridge!MayForget, MinLife
<1> QED BY <1>1, <1>2, <1>3

LEMMA FrameIsHandled ==
  ASSUME SwitchAssumption, TypeOK, TypeOK', SweptInTime', TablesRemember',
         NEW p, NEW f, NEW t1, NEW t2, NEW t3, NEW t4,
         Handling(p, f, t1, t2, t3, t4)
  PROVE  Bridge!Handle(p, f)
<1> USE DEF Bridge!Put, Bridge!IsArp, Bridge!IsMulticast, Bridge!ArpReply
<1>0. /\ t1 \in Nat /\ t4 \in Nat /\ clock \in Nat
      /\ clock <= t1 /\ t1 <= t4 /\ clock' = t4
  <2>1. clock' = t4
    BY HistoryStep
  <2> QED BY <2>1, FrameInstants
<1>1. t1 \in clock .. clock' /\ t4 \in clock .. clock'
  BY <1>0
<1>2. Bridge!Remember(p, f, t1, t4)
  <2>1. heard' = Put(heard, f.src, [port |-> p, at |-> t1])
    BY HistoryStep
  <2>2. /\ TeachesIp(f) => claimed' = Put(claimed, f.spa, [mac |-> f.sha, at |-> t4])
        /\ ~ TeachesIp(f) => claimed' = claimed
    BY HistoryStep
  <2> QED BY <2>1, <2>2 DEF Bridge!Remember, Put, TeachesIp, IsArp
<1>3. handled' = {<<p, f>>}
  BY DEF Handling, HandleFrame
<1>4. sent' = Writes(Port, p, f, mac_address_table_', ip_to_mac_')
  BY DEF Handling, HandleFrame
<1>5. CASE Answerable(f, ip_to_mac_')
  <2>1. f.oper = "request" /\ f.tpa # f.spa /\ f.tpa \in DOMAIN ip_to_mac_'
    BY <1>5 DEF Answerable
  <2>2. /\ f.tpa \in DOMAIN claimed'
        /\ ip_to_mac_'[f.tpa].mac = claimed'[f.tpa].mac
        /\ Bridge!MayUse(claimed'[f.tpa].at)
    BY <2>1, TablesMayBeUsed
  <2>3. sent' = {<<p, ArpReply(f, claimed'[f.tpa].mac)>>}
    BY <1>4, <1>5, <2>2 DEF Writes
  <2>4. Bridge!Answer(p, f)
    BY <2>1, <2>2, <2>3 DEF Bridge!Answer, ArpReply
  <2> QED BY <1>0, <1>1, <1>2, <1>3, <2>4 DEF Bridge!Handle
<1>6. CASE ~ Answerable(f, ip_to_mac_')
  <2>1. sent' = {<<q, f>> : q \in Egress(Port, p, f, mac_address_table_')}
    BY <1>4, <1>6 DEF Writes
  <2>2. f.oper = "request" /\ f.tpa # f.spa /\ f.tpa \in DOMAIN claimed'
          => Bridge!MayForget(claimed'[f.tpa].at)
    BY <1>6, TablesMayBeUsed DEF Answerable
  <2>3. CASE IsMulticast(f.dst)
    <3>1. sent' = Bridge!Flood(p, f)
      BY <2>1, <2>3 DEF Egress, Bridge!Flood
    <3>2. Bridge!Forward(p, f)
      BY <2>2, <2>3, <3>1 DEF Bridge!Forward, IsMulticast
    <3> QED BY <1>0, <1>1, <1>2, <1>3, <3>2 DEF Bridge!Handle
  <2>4. CASE ~ IsMulticast(f.dst) /\ f.dst \notin DOMAIN mac_address_table_'
    <3>1. sent' = Bridge!Flood(p, f)
      BY <2>1, <2>4 DEF Egress, Bridge!Flood
    <3>2. f.dst \in DOMAIN heard' => Bridge!MayForget(heard'[f.dst].at)
      BY <2>4, TablesMayBeUsed
    <3>3. Bridge!Forward(p, f)
      BY <2>2, <2>4, <3>1, <3>2 DEF Bridge!Forward, IsMulticast
    <3> QED BY <1>0, <1>1, <1>2, <1>3, <3>3 DEF Bridge!Handle
  <2>5. CASE ~ IsMulticast(f.dst) /\ f.dst \in DOMAIN mac_address_table_'
    <3>1. /\ f.dst \in DOMAIN heard' /\ Bridge!MayUse(heard'[f.dst].at)
          /\ mac_address_table_'[f.dst].port = heard'[f.dst].port
      BY <2>5, TablesMayBeUsed
    <3>2. sent' = {<<q, f>> : q \in {heard'[f.dst].port} \ {p}}
      BY <2>1, <2>5, <3>1 DEF Egress
    <3>3. Bridge!Forward(p, f)
      BY <2>2, <2>5, <3>1, <3>2 DEF Bridge!Forward, IsMulticast
    <3> QED BY <1>0, <1>1, <1>2, <1>3, <3>3 DEF Bridge!Handle
  <2> QED BY <2>3, <2>4, <2>5
<1> QED BY <1>5, <1>6

\* The switch implements the bridge: every frame is answered, forwarded or
\* flooded as a bridge that remembers everything allows.
THEOREM Implements == Spec => BridgeSpec
<1> USE SwitchAssumption, AddressAssumption
<1>1. Init => Bridge!Init
  BY DEF Init, Bridge!Init, NoEntries, Bridge!NoEntries
<1>2. /\ TypeOK /\ TypeOK' /\ SweptInTime' /\ TablesRemember' /\ [Next]_vars
      => [Bridge!Next]_(Bridge!vars)
  <2> SUFFICES ASSUME TypeOK, TypeOK', SweptInTime', TablesRemember', [Next]_vars
               PROVE  Bridge!Next
    OBVIOUS
  <2>1. ASSUME NEW p, NEW f, NEW t1, NEW t2, NEW t3, NEW t4,
               Handling(p, f, t1, t2, t3, t4)
        PROVE  Bridge!Next
    <3>1. p \in Port /\ f \in Frames
      BY <2>1 DEF Handling
    <3> QED BY <2>1, <3>1, FrameIsHandled DEF Bridge!Next
  <2>2. CASE UNCHANGED <<tables, history>> /\ clock' \in Nat /\ clock <= clock'
    <3>1. Bridge!Wait
      BY <2>2 DEF history, Bridge!Wait, TypeOK
    <3> QED BY <3>1 DEF Bridge!Next
  <2> QED BY <2>1, <2>2, OnlyFramesTouchTables
<1> QED BY <1>1, <1>2, TypeCorrect, Swept, Remembers, PTL DEF Spec, BridgeSpec, Bridge!Spec

=============================================================================
