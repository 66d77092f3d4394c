--------------------------- MODULE StartupProofs ---------------------------
(***************************************************************************)
(* What startup guarantees for all lists of arguments and mistakes in      *)
(* them, any number of probe attempts and any behaviour of the other       *)
(* processes.                                                              *)
(***************************************************************************)
EXTENDS Startup, SequenceTheorems, TLAPS

\* The port of attempt i for the first peer, the only one that probes
FirstPort(i) == (LocalPort[1] + i) % PortSpace

\* A port the peer with this index may get: the configured one, or for the
\* first peer one the probe may move it to.
Candidate(k, port) ==
  \/ port = LocalPort[k]
  \/ k = 1 /\ Stun /\ \E i \in 0 .. MaxAttempts - 1 : port = FirstPort(i)

(***************************************************************************)
(* The inductive invariant: which phase the sockets, the printed address   *)
(* and the peers added so far belong to.                                   *)
(***************************************************************************)
AddingInv ==
  /\ phase = "taps" => bound = <<>> /\ ~ stun_done /\ printed = {} /\ taps < Len(Taps)
  /\ phase \notin {"taps", "failed"} => taps = Len(Taps)
  /\ \A m \in mistakes : phase # "failed" =>
       /\ m[2] > Len(bound)
       /\ m[1] = "format" /\ m[2] = Len(bound) + 1 => phase \in {"taps", "next"}
  /\ phase \in {"taps", "next", "probe", "parse", "open"} => Len(bound) < Peers
  /\ phase = "running" => Len(bound) = Peers

ProbeInv ==
  /\ Stun /\ (bound # <<>> \/ phase = "open") => stun_done
  /\ phase \notin {"probe", "parse"} => probing = {}
  /\ phase = "parse" => probing # {} /\ offset >= HEADER_SIZE
  /\ phase \in {"probe", "parse"} =>
       bound = <<>> /\ Stun /\ stun_done /\ printed = {} /\ local_port = LocalPort[1]
  /\ probing # {} => probing = {FirstPort(attempt)} /\ attempt < MaxAttempts

SharedInv ==
  /\ printed # {} => stun_done
  /\ printed # {} /\ phase = "open" /\ bound = <<>> => printed = {local_port}
  /\ printed # {} /\ bound = <<>> => phase \in {"failed", "open"}
  /\ SharedAddressIsUsed

CandidateInv ==
  /\ \A k \in 1 .. Len(bound) : Candidate(k, bound[k])
  /\ phase = "open" => Candidate(Len(bound) + 1, local_port)

StartupInv == TypeOK /\ AddingInv /\ ProbeInv /\ SharedInv /\ CandidateInv

LEMMA PortNumbers ==
  ASSUME StartupAssumption
  PROVE  /\ Peers \in Nat \ {0} /\ MaxAttempts \in Nat /\ 0 \in PortNumber
         /\ \A k \in 1 .. Peers : LocalPort[k] \in PortNumber /\ LocalPort[k] # 0
         /\ \A i \in Nat : FirstPort(i) \in PortNumber
<1>1. /\ PortSpace \in Nat \ {0} /\ LocalPort \in Seq(1 .. PortSpace - 1)
      /\ Peers \in Nat \ {0} /\ MaxAttempts \in Nat
  BY DEF StartupAssumption, Peers
<1>2. \A k \in 1 .. Peers : LocalPort[k] \in 1 .. PortSpace - 1
  BY <1>1 DEF Peers
<1>3. ASSUME NEW i \in Nat
      PROVE  FirstPort(i) \in 0 .. PortSpace - 1
  <2>1. LocalPort[1] \in Nat
    BY <1>1, <1>2
  <2> DEFINE n == LocalPort[1] + i
  <2>2. n \in Nat
    BY <2>1
  <2> HIDE DEF n
  <2>3. n % PortSpace \in 0 .. PortSpace - 1
    BY <1>1, <2>2
  <2> QED BY <2>3 DEF n, FirstPort
<1>4. 0 \in 0 .. PortSpace - 1 /\ 1 .. PortSpace - 1 \subseteq 0 .. PortSpace - 1
  BY <1>1
<1>5. \A k \in 1 .. Peers : LocalPort[k] \in 0 .. PortSpace - 1 /\ LocalPort[k] # 0
  BY <1>2, <1>1
<1> QED BY <1>1, <1>3, <1>4, <1>5, Zenon DEF PortNumber

LEMMA Arguments ==
  ASSUME StartupAssumption
  PROVE  /\ Len(Taps) \in Nat /\ (Taps # <<>> => Len(Taps) > 0)
         /\ \A m \in Mistakes :
              /\ m[2] \in 1 .. Peers /\ m[2] \in Nat /\ m[2] <= Peers
              /\ m = <<m[1], m[2]>> /\ m[1] \in {"format", "address"}
<1>1. Taps \in Seq(STRING) /\ Mistakes \subseteq {"format", "address"} \X (1 .. Peers)
  BY Zenon DEF StartupAssumption, Peers
<1>2. Len(Taps) \in Nat /\ (Taps # <<>> => Len(Taps) > 0)
  BY <1>1
<1> DEFINE Index == 1 .. Peers
<1>3. Peers \in Nat /\ \A n \in Index : n \in Nat /\ n <= Peers
  BY PortNumbers
<1> HIDE DEF Index
<1>4. \A m \in {"format", "address"} \X Index :
        m[2] \in Index /\ m = <<m[1], m[2]>> /\ m[1] \in {"format", "address"}
  OBVIOUS
<1> QED BY <1>1, <1>2, <1>3, <1>4, Zenon DEF Index

LEMMA ResponsesAreBytes ==
  ASSUME StartupAssumption, NEW r \in Responses
  PROVE  Received(r) \in Seq(0 .. 255)
<1> DEFINE Byte == 0 .. 255
<1>1. r \in Seq(Byte)
  <2>1. CASE r \in Garbled
    BY <2>1, Zenon DEF StartupAssumption
  <2>2. ASSUME NEW a \in Answers, r = a.bytes PROVE r \in Seq(Byte)
    BY <2>2, Zenon DEF StartupAssumption, IsAnswer
  <2> QED BY <2>1, <2>2, Zenon DEF Responses
<1> HIDE DEF Byte
<1>2. ASSUME Len(r) > 512
      PROVE  SubSeq(r, 1, 512) \in Seq(Byte)
  <2>1. \A i \in 1 .. 512 : i \in 1 .. Len(r)
    BY <1>1, <1>2
  <2>2. \A i \in 1 .. 512 : r[i] \in Byte
    BY <1>1, <2>1, ElementOfSeq, Zenon
  <2>3. 1 \in Int /\ 512 \in Int
    OBVIOUS
  <2> QED BY <2>2, <2>3, SubSeqProperties
<1>3. Received(r) \in Seq(Byte)
  BY <1>1, <1>2 DEF Received, RESPONSE_SIZE
<1> QED BY <1>3 DEF Byte

LEMMA ByteTypes ==
  ASSUME NEW r \in Seq(0 .. 255), NEW i \in Nat
  PROVE  At(r, i) \in Nat /\ Half(r, i) \in Nat
<1>1. ASSUME NEW j \in Nat
      PROVE  At(r, j) \in Nat
  <2>1. CASE j < Len(r)
    <3>1. j + 1 \in 1 .. Len(r)
      BY <2>1
    <3>2. r[j + 1] \in 0 .. 255
      BY <3>1, ElementOfSeq
    <3>3. At(r, j) = r[j + 1]
      BY <2>1 DEF At
    <3>4. \A n \in 0 .. 255 : n \in Nat
      OBVIOUS
    <3> QED BY <3>2, <3>3, <3>4, Zenon
  <2>2. CASE ~ (j < Len(r))
    BY <2>2 DEF At
  <2> QED BY <2>1, <2>2
<1>2. i + 1 \in Nat
  OBVIOUS
<1>3. At(r, i) \in Nat /\ At(r, i + 1) \in Nat
  BY <1>1, <1>2, Zenon
<1> QED BY <1>3 DEF Half

LEMMA NextAttrAdvances ==
  ASSUME NEW r \in Seq(0 .. 255), NEW o \in Nat
  PROVE  NextAttr(r, o) \in Nat /\ NextAttr(r, o) >= o + 4
<1>1. AttrLength(r, o) \in Nat
  <2>1. o + 2 \in Nat
    OBVIOUS
  <2> QED BY <2>1, ByteTypes DEF AttrLength
<1>2. (AttrLength(r, o) + 3) \div 4 \in Nat
  BY <1>1
<1> HIDE DEF AttrLength
<1> QED BY <1>1, <1>2 DEF NextAttr

LEMMA StartupInitially ==
  ASSUME StartupAssumption, Init
  PROVE  StartupInv
<1>1. Peers \in Nat \ {0} /\ MaxAttempts \in Nat /\ 0 \in PortNumber
  BY PortNumbers
<1>2. <<>> \in Seq(PortNumber) /\ 0 \in 0 .. MaxAttempts
  BY <1>1
<1>3. TypeOK
  <2>1. <<>> \in Seq(0 .. 255) /\ 0 \in Nat /\ 0 \in 0 .. Len(Taps)
    BY Arguments
  <2> QED BY <1>1, <1>2, <2>1, Zenon DEF Init, TypeOK
<1>4. Len(<<>>) = 0
  OBVIOUS
<1>5. AddingInv /\ ProbeInv
  <2>1. 0 < Peers
    BY <1>1
  <2>2. /\ Len(bound) = 0 /\ bound = <<>> /\ probing = {} /\ printed = {} /\ taps = 0
        /\ stun_done = FALSE /\ phase = IF Taps = <<>> THEN "next" ELSE "taps"
    BY <1>4 DEF Init
  <2>3. Taps = <<>> => Len(Taps) = 0
    OBVIOUS
  <2>4. Taps # <<>> => 0 < Len(Taps)
    BY Arguments
  <2>5. \A m \in mistakes : m[2] > 0
    <3>1. mistakes \in SUBSET Mistakes
      BY Zenon DEF Init
    <3> QED BY <3>1, Arguments
  <2> QED BY <2>1, <2>2, <2>3, <2>4, <2>5 DEF AddingInv, ProbeInv
<1>6. SharedInv
  BY DEF Init, SharedInv, SharedAddressIsUsed
<1>7. CandidateInv
  <2>1. 1 .. 0 = {}
    OBVIOUS
  <2> QED BY <1>4, <2>1, Zenon DEF Init, CandidateInv
<1> QED BY <1>3, <1>5, <1>6, <1>7 DEF StartupInv

LEMMA StartupStep ==
  ASSUME StartupAssumption, StartupInv, [Next]_vars
  PROVE  StartupInv'
<1>0. /\ Peers \in Nat \ {0} /\ MaxAttempts \in Nat /\ attempt \in Nat
      /\ \A k \in 1 .. Peers : LocalPort[k] \in PortNumber /\ LocalPort[k] # 0
      /\ \A i \in Nat : FirstPort(i) \in PortNumber
      /\ bound \in Seq(PortNumber) /\ Len(bound) \in Nat
      /\ (bound = <<>> <=> Len(bound) = 0) /\ <<>> \in Seq(PortNumber)
      /\ taps \in Nat /\ Len(Taps) \in Nat
      /\ \A m \in mistakes :
           /\ m[2] \in Nat /\ m[2] <= Peers
           /\ m = <<m[1], m[2]>> /\ m[1] \in {"format", "address"}
      /\ AddingInv /\ ProbeInv /\ SharedInv /\ CandidateInv /\ TypeOK
  <2>1. TypeOK /\ attempt \in 0 .. MaxAttempts /\ bound \in Seq(PortNumber)
    BY DEF StartupInv, TypeOK
  <2>2. Len(bound) \in Nat /\ (bound = <<>> <=> Len(bound) = 0) /\ <<>> \in Seq(PortNumber)
    BY <2>1
  <2>3. attempt \in Nat
    BY <2>1, PortNumbers
  <2>4. taps \in 0 .. Len(Taps) /\ mistakes \in SUBSET Mistakes
    BY <2>1, Zenon DEF TypeOK
  <2>5. taps \in Nat /\ Len(Taps) \in Nat
    BY <2>4, Arguments
  <2>6. \A m \in mistakes :
          /\ m[2] \in Nat /\ m[2] <= Peers
          /\ m = <<m[1], m[2]>> /\ m[1] \in {"format", "address"}
    BY <2>4, Arguments, Zenon
  <2> QED BY <2>1, <2>2, <2>3, <2>5, <2>6, PortNumbers DEF StartupInv
<1>1. CASE NextPeer
  <2>1. TypeOK'
    <3>1. LocalPort[Peer] \in PortNumber
      <4>1. Len(bound) < Peers
        BY <1>0, <1>1 DEF AddingInv, NextPeer
      <4>2. Len(bound) + 1 \in 1 .. Peers
        BY <1>0, <4>1
      <4> QED BY <1>0, <4>2, Zenon DEF Peer
    <3>2. attempt' \in 0 .. MaxAttempts
      <4>1. attempt' = 0 \/ attempt' = attempt
        BY <1>1, Zenon DEF NextPeer, parse, setup, Wrong
      <4>2. attempt \in 0 .. MaxAttempts
        BY <1>0, Zenon DEF TypeOK
      <4>3. 0 \in 0 .. MaxAttempts
        BY <1>0
      <4> QED BY <4>1, <4>2, <4>3
    <3>3. phase' \in {"probe", "open"} /\ stun_done' \in BOOLEAN
      BY <1>0, <1>1 DEF TypeOK, NextPeer, parse, setup, Wrong
    <3> QED BY <1>0, <1>1, <3>1, <3>2, <3>3 DEF TypeOK, NextPeer, parse, setup, Wrong
  <2>2. AddingInv'
    <3>1. /\ phase = "next" /\ phase' \in {"probe", "open"}
          /\ <<"format", Len(bound) + 1>> \notin mistakes
          /\ mistakes' = mistakes /\ bound' = bound /\ taps' = taps
      BY <1>1 DEF NextPeer, Peer, setup, Wrong
    <3>2. ASSUME NEW m \in mistakes
          PROVE  m[2] > Len(bound) /\ ~ (m[1] = "format" /\ m[2] = Len(bound) + 1)
      <4>1. m[2] > Len(bound)
        BY <1>0, <3>1 DEF AddingInv
      <4>2. m = <<m[1], m[2]>>
        BY <1>0, Zenon
      <4> QED BY <3>1, <4>1, <4>2, Zenon
    <3> QED BY <1>0, <3>1, <3>2 DEF AddingInv
  <2>3. ProbeInv'
    <3>1. probing' = {} /\ (stun_done => stun_done')
      BY <1>0, <1>1 DEF ProbeInv, NextPeer, parse, setup, Wrong
    <3>2. Stun /\ (bound' # <<>> \/ phase' = "open") => stun_done'
      BY <1>0, <1>1 DEF ProbeInv, TypeOK, NextPeer, parse, setup, Wrong
    <3>3. phase' = "probe" =>
            bound' = <<>> /\ Stun /\ stun_done' /\ printed' = {} /\ local_port' = LocalPort[1]
      <4>1. CASE Stun /\ ~ stun_done
        <5>1. bound = <<>> /\ printed = {}
          BY <1>0, <1>1, <4>1 DEF ProbeInv, SharedInv
        <5> QED BY <1>0, <1>1, <4>1, <5>1 DEF NextPeer, Peer, parse, setup, Wrong
      <4>2. CASE ~ (Stun /\ ~ stun_done)
        BY <1>1, <4>2 DEF NextPeer, parse, setup, Wrong
      <4> QED BY <4>1, <4>2
    <3>4. phase' \in {"probe", "open"} /\ offset' = offset
      BY <1>1 DEF NextPeer, parse, setup, Wrong
    <3> QED BY <3>1, <3>2, <3>3, <3>4 DEF ProbeInv
  <2>4. SharedInv'
    BY <1>0, <1>1 DEF ProbeInv, SharedInv, SharedAddressIsUsed, NextPeer, Peer, parse, setup, Wrong
  <2>5. CandidateInv'
    BY <1>0, <1>1 DEF ProbeInv, AddingInv, CandidateInv, Candidate, NextPeer, Peer, parse, setup, Wrong
  <2> QED BY <2>1, <2>2, <2>3, <2>4, <2>5 DEF StartupInv
<1>2. CASE ProbeSocket
  <2>0. /\ Peer = 1 /\ TestPort(attempt) = FirstPort(attempt)
        /\ FirstPort(attempt) \in PortNumber
    BY <1>0, <1>2 DEF Peer, TestPort, FirstPort, ProbeInv, ProbeSocket, parse, setup, Wrong
  <2>1. TypeOK'
    <3>1. attempt' \in 0 .. MaxAttempts
      <4>1. attempt < MaxAttempts /\ (attempt' = attempt + 1 \/ attempt' = attempt)
        BY <1>2, Zenon DEF ProbeSocket, parse, setup, Wrong
      <4> QED BY <1>0, <4>1
    <3>2. probing' \in SUBSET PortNumber
      <4>1. probing' = probing \/ probing' = {FirstPort(attempt)}
        BY <1>2, <2>0, Zenon DEF ProbeSocket
      <4>2. probing \in SUBSET PortNumber
        BY <1>0, Zenon DEF TypeOK
      <4> QED BY <2>0, <4>1, <4>2
    <3> QED BY <1>0, <1>2, <3>1, <3>2 DEF TypeOK, ProbeSocket, parse, setup, Wrong
  <2>2. AddingInv'
    BY <1>0, <1>2, <2>0 DEF AddingInv, ProbeSocket, parse, setup, Wrong
  <2>3. ProbeInv'
    BY <1>0, <1>2, <2>0 DEF ProbeInv, AddingInv, SharedInv, TypeOK, ProbeSocket, parse, setup, Wrong
  <2>4. SharedInv'
    BY <1>0, <1>2, <2>0 DEF ProbeInv, SharedInv, SharedAddressIsUsed, ProbeSocket, parse, setup, Wrong
  <2>5. CandidateInv'
    BY <1>0, <1>2, <2>0 DEF ProbeInv, AddingInv, CandidateInv, Candidate, ProbeSocket, parse, setup, Wrong
  <2> QED BY <2>1, <2>2, <2>3, <2>4, <2>5 DEF StartupInv
<1>3. CASE ProbeFails \/ ParseFails \/ ProbeMoved
  <2>0. phase \in {"probe", "parse"} /\ probing # {} /\ NextAttempt
    BY <1>0, <1>3 DEF ProbeInv, ProbeFails, ParseFails, ProbeMoved, Found
  <2>1. TypeOK'
    <3>1. attempt' \in 0 .. MaxAttempts
      <4>1. attempt < MaxAttempts /\ attempt' = attempt + 1
        BY <1>0, <2>0, Zenon DEF ProbeInv, NextAttempt, setup
      <4> QED BY <1>0, <4>1
    <3>2. probing' \in SUBSET PortNumber /\ response' \in Seq(0 .. 255) /\ offset' \in Nat
      BY <2>0 DEF NextAttempt, setup
    <3> QED BY <1>0, <2>0, <3>1, <3>2, Zenon DEF TypeOK, NextAttempt, setup
  <2>2. AddingInv'
    BY <1>0, <2>0 DEF AddingInv, NextAttempt, setup
  <2>3. ProbeInv'
    BY <1>0, <2>0 DEF ProbeInv, AddingInv, SharedInv, TypeOK, NextAttempt, setup
  <2>4. SharedInv'
    BY <1>0, <2>0 DEF ProbeInv, SharedInv, SharedAddressIsUsed, NextAttempt, setup
  <2>5. CandidateInv'
    BY <1>0, <2>0 DEF ProbeInv, AddingInv, CandidateInv, Candidate, NextAttempt, setup
  <2> QED BY <2>1, <2>2, <2>3, <2>4, <2>5 DEF StartupInv
<1>4. ASSUME NEW port \in PortNumber, ProbeSucceeds(port)
      PROVE  StartupInv'
  <2>1. TypeOK'
    <3>1. response' \in Seq(0 .. 255) /\ offset' \in Nat
      BY <1>4 DEF ProbeSucceeds, setup
    <3> QED BY <1>0, <1>4, <3>1, Zenon DEF TypeOK, ProbeSucceeds, setup
  <2>2. AddingInv'
    BY <1>0, <1>4 DEF AddingInv, ProbeSucceeds, Found, setup
  <2>3. ProbeInv'
    BY <1>0, <1>4 DEF ProbeInv, AddingInv, SharedInv, TypeOK, ProbeSucceeds, Found, setup
  <2>4. SharedInv'
    BY <1>0, <1>4 DEF ProbeInv, SharedInv, SharedAddressIsUsed, ProbeSucceeds, Found, setup
  <2>5. CandidateInv'
    <3>1. port = FirstPort(attempt) /\ attempt \in 0 .. MaxAttempts - 1 /\ Stun
      <4>1. phase = "parse" /\ probing = {port}
        BY <1>4 DEF ProbeSucceeds, Found
      <4>2. {port} = {FirstPort(attempt)} /\ attempt < MaxAttempts /\ Stun
        BY <1>0, <4>1 DEF ProbeInv
      <4>3. attempt \in 0 .. MaxAttempts - 1
        BY <1>0, <4>2
      <4> QED BY <4>2, <4>3, Zenon
    <3>2. bound = <<>> /\ bound' = bound /\ local_port' = port
      BY <1>0, <1>4, Zenon DEF ProbeInv, ProbeSucceeds, Found
    <3>3. 1 .. Len(bound) = {} /\ Len(bound) + 1 = 1
      BY <1>0, <3>2
    <3> QED BY <3>1, <3>2, <3>3, Zenon DEF CandidateInv, Candidate
  <2> QED BY <2>1, <2>2, <2>3, <2>4, <2>5 DEF StartupInv
<1>5. CASE ProbeGivesUp
  <2>1. TypeOK'
    BY <1>0, <1>5 DEF TypeOK, AddingInv, ProbeInv, ProbeGivesUp, parse, setup, Wrong
  <2>2. AddingInv'
    BY <1>0, <1>5 DEF AddingInv, ProbeGivesUp, parse, setup, Wrong
  <2>3. ProbeInv'
    BY <1>0, <1>5 DEF ProbeInv, AddingInv, SharedInv, TypeOK, ProbeGivesUp, parse, setup, Wrong
  <2>4. SharedInv'
    BY <1>0, <1>5 DEF ProbeInv, SharedInv, SharedAddressIsUsed, ProbeGivesUp, parse, setup, Wrong
  <2>5. CandidateInv'
    BY <1>0, <1>5 DEF ProbeInv, AddingInv, CandidateInv, Candidate, ProbeGivesUp, parse, setup, Wrong
  <2> QED BY <2>1, <2>2, <2>3, <2>4, <2>5 DEF StartupInv
<1>6. CASE OpenPort
  <2>1. TypeOK'
    <3>1. bound' \in Seq(PortNumber)
      <4>1. local_port \in PortNumber /\ bound' = Append(bound, local_port)
        BY <1>0, <1>6 DEF TypeOK, OpenPort, parse, setup, Wrong
      <4> QED BY <1>0, <4>1
    <3>2. phase' \in {"running", "next"}
      BY <1>6 DEF OpenPort, parse, setup, Wrong
    <3> QED BY <1>0, <1>6, <3>1, <3>2 DEF TypeOK, OpenPort, parse, setup, Wrong
  <2>2. AddingInv'
    <3>1. /\ phase = "open" /\ phase' = IF Len(bound) + 1 = Peers THEN "running" ELSE "next"
          /\ <<"address", Len(bound) + 1>> \notin mistakes
          /\ mistakes' = mistakes /\ bound' = Append(bound, local_port) /\ taps' = taps
      BY <1>6 DEF OpenPort, Peer, setup, Wrong
    <3>2. ASSUME NEW m \in mistakes
          PROVE  m[2] > Len(bound) + 1
      <4>1. m[2] > Len(bound) /\ ~ (m[1] = "format" /\ m[2] = Len(bound) + 1)
        BY <1>0, <3>1 DEF AddingInv
      <4>2. m = <<m[1], m[2]>> /\ m[1] \in {"format", "address"} /\ m[2] \in Nat
        BY <1>0, Zenon
      <4>3. m[2] # Len(bound) + 1
        BY <3>1, <4>1, <4>2, Zenon
      <4> QED BY <1>0, <4>1, <4>2, <4>3
    <3>3. Len(bound') = Len(bound) + 1
      BY <1>0, <3>1
    <3>4. /\ taps = Len(Taps) /\ Len(bound) < Peers
          /\ phase' \in {"running", "next"}
      BY <1>0, <3>1 DEF AddingInv
    <3>5. /\ phase' = "running" => Len(bound') = Peers
          /\ phase' = "next" => Len(bound') < Peers
      BY <1>0, <3>1, <3>3, <3>4
    <3>6. \A m \in mistakes' :
            /\ m[2] > Len(bound')
            /\ m[1] = "format" /\ m[2] = Len(bound') + 1 => phase' \in {"taps", "next"}
      <4>1. \A m \in mistakes : m[2] <= Peers
        BY <1>0
      <4>2. \A m \in mistakes : phase' = "running" => m[2] # Len(bound') + 1
        BY <1>0, <3>3, <3>5, <4>1
      <4> QED BY <3>1, <3>2, <3>3, <3>4, <4>2
    <3> QED BY <3>1, <3>4, <3>5, <3>6, Zenon DEF AddingInv
  <2>0. /\ phase = "open" /\ phase' \in {"running", "next"}
        /\ bound' = Append(bound, local_port)
        /\ UNCHANGED <<local_port, stun_done, probing, printed>>
    BY <1>6, Zenon DEF OpenPort
  <2>3. ProbeInv'
    <3>1. probing = {} /\ (Stun => stun_done)
      BY <1>0, <2>0 DEF ProbeInv
    <3> QED BY <2>0, <3>1 DEF ProbeInv
  <2>4. SharedInv'
    <3>1. /\ printed # {} => stun_done /\ (bound = <<>> => printed = {local_port})
          /\ printed # {} /\ bound # <<>> => printed = {bound[1]}
      BY <1>0, <2>0 DEF SharedInv, SharedAddressIsUsed
    <3>2. /\ bound' # <<>>
          /\ bound = <<>> => bound'[1] = local_port
          /\ bound # <<>> => bound'[1] = bound[1]
      <4>1. local_port \in PortNumber
        BY <1>0, Zenon DEF TypeOK
      <4>2. bound \in Seq(PortNumber) /\ (bound = <<>> <=> Len(bound) = 0)
        BY <1>0, Zenon
      <4>3. bound' = Append(bound, local_port)
        BY <2>0, Zenon
      <4>4. Len(bound') = Len(bound) + 1 /\ Len(bound) \in Nat
        BY <4>1, <4>2, <4>3
      <4>5. bound' # <<>>
        BY <4>4
      <4>6. ASSUME bound = <<>>
            PROVE  bound'[1] = local_port
        BY <4>3, <4>6
      <4>7. ASSUME bound # <<>>
            PROVE  bound'[1] = bound[1]
        <5>1. 1 \in 1 .. Len(bound)
          BY <4>2, <4>4, <4>7
        <5> QED BY <4>1, <4>2, <4>3, <5>1
      <4> QED BY <4>5, <4>6, <4>7
    <3> QED BY <2>0, <3>1, <3>2 DEF SharedInv, SharedAddressIsUsed
  <2>5. CandidateInv'
    <3>1. /\ Candidate(Len(bound) + 1, local_port)
          /\ \A k \in 1 .. Len(bound) : Candidate(k, bound[k])
      BY <1>0, <2>0 DEF CandidateInv
    <3>2. /\ Len(bound') = Len(bound) + 1 /\ bound'[Len(bound) + 1] = local_port
          /\ \A k \in 1 .. Len(bound) : bound'[k] = bound[k]
      <4>1. local_port \in PortNumber
        BY <1>0, Zenon DEF TypeOK
      <4> QED BY <1>0, <2>0, <4>1
    <3>3. \A k \in 1 .. Len(bound') : k \in 1 .. Len(bound) \/ k = Len(bound) + 1
      BY <1>0, <3>2
    <3>4. \A k \in 1 .. Len(bound') : Candidate(k, bound'[k])
      BY <3>1, <3>2, <3>3, Zenon
    <3> QED BY <2>0, <3>4 DEF CandidateInv, Candidate
  <2> QED BY <2>1, <2>2, <2>3, <2>4, <2>5 DEF StartupInv
<1>7. CASE TapThrows \/ FormatThrows \/ AddressThrows \/ BindThrows \/ SocketThrows
  <2>0. (\E what \in {"tap", "argument", "bind", "socket"} : Throw(what))
        /\ phase \in {"taps", "next", "open", "probe"}
    BY <1>7, Zenon DEF TapThrows, FormatThrows, AddressThrows, BindThrows, SocketThrows
  <2>1. TypeOK'
    <3>1. taps' \in 0 .. Len(Taps) /\ bound' \in Seq(PortNumber) /\ probing' = {}
      BY <1>0, <2>0 DEF Throw
    <3>2. phase' = "failed" /\ threw' \in {"tap", "argument", "bind", "socket"}
          /\ UNCHANGED <<mistakes, local_port, stun_done, attempt, parse, printed, foreign>>
      BY <2>0, Zenon DEF Throw
    <3> QED BY <1>0, <3>1, <3>2 DEF TypeOK, parse
  <2>2. AddingInv'
    BY <1>0, <2>0 DEF AddingInv, Throw, parse
  <2>3. ProbeInv'
    BY <1>0, <2>0 DEF ProbeInv, AddingInv, SharedInv, TypeOK, Throw, parse
  <2>4. SharedInv'
    BY <1>0, <2>0 DEF ProbeInv, SharedInv, SharedAddressIsUsed, Throw, parse
  <2>5. CandidateInv'
    BY <1>0, <2>0 DEF ProbeInv, AddingInv, CandidateInv, Candidate, Throw, parse
  <2> QED BY <2>1, <2>2, <2>3, <2>4, <2>5 DEF StartupInv
<1>8. CASE Take
  <2>1. TypeOK'
    <3>1. foreign' \in SUBSET ForeignLocal
      BY <1>8 DEF Take
    <3> QED BY <1>0, <1>8, <3>1 DEF TypeOK, Take, own, setup, parse
  <2>2. AddingInv'
    BY <1>0, <1>8 DEF AddingInv, Take, own, setup, parse
  <2>3. ProbeInv'
    BY <1>0, <1>8 DEF ProbeInv, AddingInv, SharedInv, TypeOK, Take, own, setup, parse
  <2>4. SharedInv'
    BY <1>0, <1>8 DEF ProbeInv, SharedInv, SharedAddressIsUsed, Take, own, setup, parse
  <2>5. CandidateInv'
    BY <1>0, <1>8 DEF ProbeInv, AddingInv, CandidateInv, Candidate, Take, own, setup, parse
  <2> QED BY <2>1, <2>2, <2>3, <2>4, <2>5 DEF StartupInv
<1>9. CASE Release \/ UNCHANGED vars
  <2>1. TypeOK'
    <3>1. foreign' \in SUBSET ForeignLocal
      BY <1>0, <1>9 DEF TypeOK, Release, vars
    <3>2. UNCHANGED own
      BY <1>9 DEF Release, vars
    <3> QED BY <1>0, <3>1, <3>2, Zenon DEF TypeOK, own, setup, parse
  <2>2. AddingInv'
    BY <1>0, <1>9 DEF AddingInv, Release, own, vars, setup, parse
  <2>3. ProbeInv'
    BY <1>0, <1>9 DEF ProbeInv, AddingInv, SharedInv, TypeOK, Release, own, vars, setup, parse
  <2>4. SharedInv'
    BY <1>0, <1>9 DEF ProbeInv, SharedInv, SharedAddressIsUsed, Release, own, vars, setup, parse
  <2>5. CandidateInv'
    BY <1>0, <1>9 DEF ProbeInv, AddingInv, CandidateInv, Candidate, Release, own, vars, setup, parse
  <2> QED BY <2>1, <2>2, <2>3, <2>4, <2>5 DEF StartupInv
<1>10. ASSUME NEW r \in Responses, ProbeReceives(r)
       PROVE  StartupInv'
  <2>0. response' \in Seq(0 .. 255) /\ offset' \in Nat /\ offset' >= HEADER_SIZE
    BY <1>10, ResponsesAreBytes DEF ProbeReceives, HEADER_SIZE
  <2>1. TypeOK'
    BY <1>0, <1>10, <2>0, Zenon DEF TypeOK, ProbeReceives, setup
  <2>2. AddingInv'
    BY <1>0, <1>10 DEF AddingInv, ProbeReceives, setup
  <2>3. ProbeInv'
    BY <1>0, <1>10, <2>0 DEF ProbeInv, AddingInv, SharedInv, TypeOK, ProbeReceives, setup
  <2>4. SharedInv'
    BY <1>0, <1>10 DEF ProbeInv, SharedInv, SharedAddressIsUsed, ProbeReceives, setup
  <2>5. CandidateInv'
    BY <1>0, <1>10 DEF ProbeInv, AddingInv, CandidateInv, Candidate, ProbeReceives, setup
  <2> QED BY <2>1, <2>2, <2>3, <2>4, <2>5 DEF StartupInv
<1>11. CASE ParseSkips
  <2>0. offset' \in Nat /\ offset' >= HEADER_SIZE
    <3>1. offset \in Nat /\ response \in Seq(0 .. 255) /\ offset >= HEADER_SIZE
      BY <1>0, <1>11 DEF TypeOK, ProbeInv, ParseSkips, setup
    <3>2. NextAttr(response, offset) \in Nat /\ NextAttr(response, offset) >= offset + 4
      BY <3>1, NextAttrAdvances, Zenon
    <3> QED BY <1>11, <3>1, <3>2 DEF ParseSkips, HEADER_SIZE
  <2>1. TypeOK'
    BY <1>0, <1>11, <2>0, Zenon DEF TypeOK, ParseSkips, setup
  <2>2. AddingInv'
    BY <1>0, <1>11 DEF AddingInv, ParseSkips, setup
  <2>3. ProbeInv'
    BY <1>0, <1>11, <2>0 DEF ProbeInv, AddingInv, SharedInv, TypeOK, ParseSkips, setup
  <2>4. SharedInv'
    BY <1>0, <1>11 DEF ProbeInv, SharedInv, SharedAddressIsUsed, ParseSkips, setup
  <2>5. CandidateInv'
    BY <1>0, <1>11 DEF ProbeInv, AddingInv, CandidateInv, Candidate, ParseSkips, setup
  <2> QED BY <2>1, <2>2, <2>3, <2>4, <2>5 DEF StartupInv
<1>12. ASSUME NEW port \in probing, ProbeSucceeds(port)
       PROVE  StartupInv'
  BY <1>0, <1>4, <1>12 DEF TypeOK
<1>13. CASE OpenTap
  <2>0. /\ phase = "taps" /\ bound = <<>> /\ probing = {} /\ printed = {} /\ ~ stun_done
        /\ taps' = taps + 1 /\ taps < Len(Taps)
        /\ \/ phase' = "next" /\ taps + 1 = Len(Taps)
           \/ phase' = "taps" /\ taps + 1 # Len(Taps)
        /\ UNCHANGED <<mistakes, bound, local_port, stun_done, attempt, probing, parse,
                       printed, threw, foreign>>
    BY <1>0, <1>13 DEF AddingInv, ProbeInv, OpenTap
  <2>1. TypeOK'
    <3>1. taps' \in 0 .. Len(Taps) /\ phase' \in {"taps", "next"}
      BY <1>0, <2>0
    <3> QED BY <1>0, <2>0, <3>1 DEF TypeOK, parse
  <2>2. AddingInv'
    BY <1>0, <2>0 DEF AddingInv
  <2>3. ProbeInv'
    BY <1>0, <2>0 DEF ProbeInv, parse
  <2>4. SharedInv'
    BY <1>0, <2>0 DEF SharedInv, SharedAddressIsUsed
  <2>5. CandidateInv'
    BY <1>0, <2>0 DEF CandidateInv, Candidate
  <2> QED BY <2>1, <2>2, <2>3, <2>4, <2>5 DEF StartupInv
<1> QED
  BY <1>1, <1>2, <1>3, <1>5, <1>6, <1>7, <1>8, <1>9, <1>10, <1>11, <1>12, <1>13
     DEF Next, Start, Probe

----------------------------------------------------------------------------
LEMMA StartupInvariant ==
  ASSUME StartupAssumption
  PROVE  Spec => []StartupInv
<1>1. Init => StartupInv
  BY StartupInitially
<1>2. StartupInv /\ [Next]_vars => StartupInv'
  BY StartupStep
<1> QED BY <1>1, <1>2, PTL DEF Spec

\* What add_udp_peer, the probe and the UdpPorts work on has its type: every
\* local port fits uint16_t, whatever is added to it.
THEOREM StartupTypeCorrect ==
  ASSUME StartupAssumption
  PROVE  Spec => []TypeOK
<1>1. StartupInv => TypeOK
  BY DEF StartupInv
<1> QED BY <1>1, StartupInvariant, PTL

\* The address printed for the user to share is the one the first peer's
\* socket has once it is bound: probe_stable_port's port survives its release
\* and the second bind, or main() fails.
THEOREM SharedAddressCorrect ==
  ASSUME StartupAssumption
  PROVE  Spec => []SharedAddressIsUsed
<1>1. StartupInv => SharedAddressIsUsed
  BY DEF StartupInv, SharedInv
<1> QED BY <1>1, StartupInvariant, PTL

\* When main() gets to sw.run(), every --udp argument has its port, at its
\* place, and only the first one's may differ from the configured one.
THEOREM PortsInOrder ==
  ASSUME StartupAssumption
  PROVE  Spec => []EveryPeerHasItsPort
<1>1. StartupInv => EveryPeerHasItsPort
  <2> SUFFICES ASSUME StartupInv, phase = "running"
               PROVE  /\ taps = Len(Taps) /\ mistakes = {} /\ Len(bound) = Peers
                      /\ \A k \in 1 .. Peers : bound[k] = LocalPort[k] \/ (k = 1 /\ Stun)
    BY DEF EveryPeerHasItsPort
  <2>1. taps = Len(Taps) /\ Len(bound) = Peers
    BY DEF StartupInv, AddingInv
  <2>2. mistakes = {}
    <3>1. mistakes \in SUBSET Mistakes
      BY Zenon DEF StartupInv, TypeOK
    <3>2. ASSUME NEW m \in mistakes
          PROVE  FALSE
      <4>1. m[2] \in 1 .. Peers
        BY <3>1, <3>2, Arguments, Zenon
      <4>2. m[2] > Len(bound)
        BY <3>2 DEF StartupInv, AddingInv
      <4> QED BY <2>1, <4>1, <4>2, PortNumbers
    <3> QED BY <3>2
  <2> QED BY <2>1, <2>2, Zenon DEF StartupInv, CandidateInv, Candidate
<1> QED BY <1>1, StartupInvariant, PTL

\* The probe never holds the port a peer is about to bind.
THEOREM ProbeOutOfTheWay ==
  ASSUME StartupAssumption
  PROVE  Spec => []NeverInItsOwnWay
<1>1. StartupInv => NeverInItsOwnWay
  <2> SUFFICES ASSUME StartupInv, phase = "open", PeerOccupied
               PROVE  \/ HeldByOthers(LocalIp[Peer], local_port)
                      \/ HeldByPeer(LocalIp[Peer], local_port)
    BY DEF NeverInItsOwnWay
  <2>1. probing = {}
    BY DEF StartupInv, ProbeInv
  <2> QED BY <2>1, Zenon DEF PeerOccupied, Occupied
<1> QED BY <1>1, StartupInvariant, PTL

\* The STUN parser reads nothing past the datagram it was given, for all bytes
\* the datagram may hold and all lengths it may claim for itself and its attributes.
THEOREM ParserStaysInside ==
  ASSUME StartupAssumption
  PROVE  Spec => []ReadsWhatWasReceived
<1>1. StartupInv => ReadsWhatWasReceived
  <2> SUFFICES ASSUME StartupInv, NEW i \in BytesRead(response, offset)
               PROVE  i < Len(response)
    BY DEF ReadsWhatWasReceived
  <2>1. response \in Seq(0 .. 255) /\ offset \in Nat
    BY DEF StartupInv, TypeOK
  <2>2. Len(response) \in Nat /\ 2 \in Nat /\ offset + 2 \in Nat
    BY <2>1
  <2>3. Half(response, 2) \in Nat /\ AttrLength(response, offset) \in Nat
    BY <2>1, <2>2, ByteTypes DEF AttrLength
  <2>4. HasAttr(response, offset)
    BY DEF BytesRead
  <2>5. offset + 4 <= Len(response)
    BY <2>1, <2>2, <2>3, <2>4 DEF HasAttr, AttrsEnd, HEADER_SIZE
  <2>6. CASE i \in offset .. offset + 3
    BY <2>1, <2>2, <2>5, <2>6
  <2>7. CASE /\ IsAddress(response, offset) /\ ~ Overruns(response, offset)
             /\ ~ IsShort(response, offset) /\ i \in offset .. offset + 11
    <3>1. AttrLength(response, offset) >= 8
      BY <2>3, <2>7 DEF IsShort
    <3>2. offset + 4 + AttrLength(response, offset) <= Len(response)
      BY <2>1, <2>2, <2>3, <2>7 DEF Overruns
    <3> HIDE DEF AttrLength
    <3> QED BY <2>1, <2>2, <2>3, <2>7, <3>1, <3>2
  <2> QED BY <2>4, <2>6, <2>7 DEF BytesRead
<1> QED BY <1>1, StartupInvariant, PTL

LEMMA ClashBothWays ==
  ASSUME NEW ip, NEW other, Clash(ip, other)
  PROVE  Clash(other, ip)
BY DEF Clash

\* For --udp arguments whose local ports, where their local addresses clash, are
\* pairwise different and out of the probe's reach, any number of them, no peer of
\* the switch takes the port of another one: the switch starts unless another
\* process is in the way.
THEOREM WellSpacedStarts ==
  ASSUME StartupAssumption
  PROVE  Spec => []WellSpacedPeersDoNotCollide
<1>1. StartupInv => WellSpacedPeersDoNotCollide
  <2> SUFFICES ASSUME StartupInv, WellSpaced, phase = "open", PeerOccupied
               PROVE  HeldByOthers(LocalIp[Peer], local_port)
    BY DEF WellSpacedPeersDoNotCollide, PeersDoNotCollide
  <2>1. probing = {} /\ bound \in Seq(PortNumber) /\ Len(bound) < Peers
    BY DEF StartupInv, ProbeInv, AddingInv, TypeOK
  <2> DEFINE n == Len(bound) + 1
  <2>2. /\ Peers \in Nat /\ Len(bound) \in Nat /\ n \in 1 .. Peers
        /\ \A k \in 1 .. Len(bound) : k \in 1 .. Peers /\ k # n /\ n # 1 /\ n \in 2 .. Peers
    BY <2>1, PortNumbers
  <2>3. ASSUME NEW k \in 1 .. Len(bound), Clash(LocalIp[n], LocalIp[k])
        PROVE  bound[k] # local_port
    <3>1. Candidate(k, bound[k]) /\ Candidate(n, local_port)
      BY DEF StartupInv, CandidateInv
    <3>2. k \in 1 .. Peers /\ k # n /\ n # 1 /\ n \in 2 .. Peers
      BY <2>2
    <3> HIDE DEF n
    <3>3. local_port = LocalPort[n] /\ Clash(LocalIp[k], LocalIp[n])
      BY <2>3, <3>1, <3>2, ClashBothWays DEF Candidate
    <3>4. CASE bound[k] = LocalPort[k]
      BY <2>2, <3>2, <3>3, <3>4, Zenon DEF WellSpaced
    <3>5. CASE k = 1 /\ Stun /\ \E i \in 0 .. MaxAttempts - 1 : bound[k] = FirstPort(i)
      BY <2>2, <3>2, <3>3, <3>5, Zenon DEF WellSpaced, FirstPort
    <3> QED BY <3>1, <3>4, <3>5 DEF Candidate
  <2>4. ~ HeldByPeer(LocalIp[Peer], local_port)
    BY <2>3, Zenon DEF HeldByPeer, Peer
  <2> QED BY <2>1, <2>4, Zenon DEF PeerOccupied, Occupied
<1> QED BY <1>1, StartupInvariant, PTL

\* No port is bound twice at addresses that clash, but for 0, which stands for
\* any free one.
DistinctPorts ==
  \A j, k \in 1 .. Len(bound) :
    bound[j] = bound[k] /\ Clash(LocalIp[j], LocalIp[k]) => j = k \/ bound[j] = 0

LEMMA PortsAreDistinct ==
  ASSUME StartupAssumption
  PROVE  Spec => []DistinctPorts
<1>1. Init => DistinctPorts
  <2>1. 1 .. Len(<<>>) = {}
    OBVIOUS
  <2> QED BY <2>1, Zenon DEF Init, DistinctPorts
<1>2. StartupInv /\ DistinctPorts /\ [Next]_vars => DistinctPorts'
  <2> SUFFICES ASSUME StartupInv, DistinctPorts, [Next]_vars PROVE DistinctPorts'
    OBVIOUS
  <2>0. bound \in Seq(PortNumber) /\ Len(bound) \in Nat /\ DOMAIN bound = 1 .. Len(bound)
    <3>1. bound \in Seq(PortNumber)
      BY Zenon DEF StartupInv, TypeOK
    <3> QED BY <3>1
  <2>1. CASE OpenPort
    <3>1. /\ bound' = Append(bound, local_port) /\ local_port \in PortNumber
          /\ \A k \in 1 .. Len(bound) :
               bound[k] = local_port /\ Clash(LocalIp[Len(bound) + 1], LocalIp[k]) =>
                 local_port = 0
      BY <2>0, <2>1, Zenon
         DEF OpenPort, PeerOccupied, Occupied, HeldByPeer, Peer, StartupInv, TypeOK
    <3>2. /\ Len(bound') = Len(bound) + 1 /\ bound'[Len(bound) + 1] = local_port
          /\ \A k \in 1 .. Len(bound) : bound'[k] = bound[k]
      BY <2>0, <3>1
    <3>3. \A k \in 1 .. Len(bound) + 1 : k \in 1 .. Len(bound) \/ k = Len(bound) + 1
      BY <2>0
    <3>4. ASSUME NEW j \in 1 .. Len(bound) + 1, NEW k \in 1 .. Len(bound) + 1,
                 bound'[j] = bound'[k], Clash(LocalIp[j], LocalIp[k]), j # k
          PROVE  bound'[j] = 0
      <4>1. CASE j \in 1 .. Len(bound) /\ k \in 1 .. Len(bound)
        BY <3>2, <3>4, <4>1, Zenon DEF DistinctPorts
      <4>2. CASE j = Len(bound) + 1 /\ k \in 1 .. Len(bound)
        BY <3>1, <3>2, <3>4, <4>2, Zenon
      <4>3. CASE j \in 1 .. Len(bound) /\ k = Len(bound) + 1
        <5>1. Clash(LocalIp[k], LocalIp[j])
          BY <3>4, ClashBothWays
        <5> QED BY <3>1, <3>2, <3>4, <4>3, <5>1, Zenon
      <4> QED BY <3>3, <3>4, <4>1, <4>2, <4>3, Zenon
    <3> QED BY <3>2, <3>4, Zenon DEF DistinctPorts
  <2>2. CASE bound' = bound
    BY <2>2, Zenon DEF DistinctPorts
  <2>3. CASE bound' = <<>>
    <3>1. 1 .. Len(bound') = {}
      BY <2>3
    <3> QED BY <3>1, Zenon DEF DistinctPorts
  <2>4. OpenPort \/ bound' = bound \/ bound' = <<>>
    <3>1. CASE Probe
      BY <3>1, Zenon DEF Probe, ProbeSocket, ProbeFails, ProbeReceives, ParseFails, ParseSkips,
         ProbeMoved, ProbeSucceeds, ProbeGivesUp, NextAttempt
    <3>2. CASE \/ OpenTap \/ TapThrows \/ NextPeer \/ FormatThrows \/ AddressThrows
               \/ BindThrows \/ SocketThrows
      BY <3>2, Zenon DEF OpenTap, TapThrows, NextPeer, FormatThrows, AddressThrows, BindThrows,
         SocketThrows, Throw
    <3>3. CASE Take \/ Release \/ UNCHANGED vars
      BY <3>3 DEF Take, Release, vars, own
    <3> QED BY <3>1, <3>2, <3>3, Zenon DEF Next, Start
  <2> QED BY <2>1, <2>2, <2>3, <2>4
<1> QED BY <1>1, <1>2, StartupInvariant, PTL DEF Spec

\* Two --udp arguments with one local port at one local address, or at two of which
\* one is 0.0.0.0, never start, whatever the other processes do: it takes the probe,
\* which moves nothing but the first peer, to part them.  entrypoint.sh writes such
\* arguments for every two peers.
THEOREM EqualPortsNeverRun ==
  ASSUME StartupAssumption, NEW j \in 1 .. Peers, NEW k \in 1 .. Peers, j # k,
         LocalPort[j] = LocalPort[k], Clash(LocalIp[j], LocalIp[k]), Stun => j # 1 /\ k # 1
  PROVE  Spec => [](phase # "running")
<1>1. StartupInv /\ EveryPeerHasItsPort /\ DistinctPorts => phase # "running"
  <2> SUFFICES ASSUME EveryPeerHasItsPort, DistinctPorts, phase = "running" PROVE FALSE
    OBVIOUS
  <2>1. Len(bound) = Peers /\ bound[j] = LocalPort[j] /\ bound[k] = LocalPort[k]
    BY Zenon DEF EveryPeerHasItsPort
  <2>2. LocalPort[j] # 0
    BY PortNumbers, Zenon
  <2> QED BY <2>1, <2>2, Zenon DEF DistinctPorts
<1> QED BY <1>1, StartupInvariant, PortsInOrder, PortsAreDistinct, PTL

(***************************************************************************)
(* The XOR with the cookie changes four bits, and changes them back.       *)
(***************************************************************************)
Bit(n, b) == (n \div b) % 2

Flips(n, f, b) ==
  /\ f \in Nat /\ f = IF Bit(n, b) = 0 THEN n + b ELSE n - b
  /\ Bit(f, 2) = IF b = 2 THEN 1 - Bit(n, 2) ELSE Bit(n, 2)
  /\ Bit(f, 16) = IF b = 16 THEN 1 - Bit(n, 16) ELSE Bit(n, 16)
  /\ Bit(f, 256) = IF b = 256 THEN 1 - Bit(n, 256) ELSE Bit(n, 256)
  /\ Bit(f, 8192) = IF b = 8192 THEN 1 - Bit(n, 8192) ELSE Bit(n, 8192)

LEMMA FlipChanges ==
  ASSUME NEW n \in Nat, NEW b \in {2, 16, 256, 8192}
  PROVE  Flips(n, Flip(n, b), b)
<1>1. CASE b = 2
  <2>1. Flip(n, 2) \in Nat /\ Flip(n, 2) = IF Bit(n, 2) = 0 THEN n + 2 ELSE n - 2
    BY DEF Flip, Bit
  <2>2. Bit(Flip(n, 2), 2) = 1 - Bit(n, 2)
    BY DEF Flip, Bit
  <2>3. Bit(Flip(n, 2), 16) = Bit(n, 16)
    BY DEF Flip, Bit
  <2>4. Bit(Flip(n, 2), 256) = Bit(n, 256)
    BY DEF Flip, Bit
  <2>5. Bit(Flip(n, 2), 8192) = Bit(n, 8192)
    BY DEF Flip, Bit
  <2> QED BY <1>1, <2>1, <2>2, <2>3, <2>4, <2>5 DEF Flips
<1>2. CASE b = 16
  <2>1. Flip(n, 16) \in Nat /\ Flip(n, 16) = IF Bit(n, 16) = 0 THEN n + 16 ELSE n - 16
    BY DEF Flip, Bit
  <2>2. Bit(Flip(n, 16), 2) = Bit(n, 2)
    BY DEF Flip, Bit
  <2>3. Bit(Flip(n, 16), 16) = 1 - Bit(n, 16)
    BY DEF Flip, Bit
  <2>4. Bit(Flip(n, 16), 256) = Bit(n, 256)
    BY DEF Flip, Bit
  <2>5. Bit(Flip(n, 16), 8192) = Bit(n, 8192)
    <3>1. Flip(n, 16) \div 32 = n \div 32
      BY DEF Flip
    <3>2. \A k \in Nat : k \div 8192 = (k \div 32) \div 256
      OBVIOUS
    <3> QED BY <2>1, <3>1, <3>2 DEF Bit
  <2> QED BY <1>2, <2>1, <2>2, <2>3, <2>4, <2>5 DEF Flips
<1>3. CASE b = 256
  <2>1. Flip(n, 256) \in Nat /\ Flip(n, 256) = IF Bit(n, 256) = 0 THEN n + 256 ELSE n - 256
    BY DEF Flip, Bit
  <2>2. Bit(Flip(n, 256), 2) = Bit(n, 2)
    BY DEF Flip, Bit
  <2>3. Bit(Flip(n, 256), 16) = Bit(n, 16)
    BY DEF Flip, Bit
  <2>4. Bit(Flip(n, 256), 256) = 1 - Bit(n, 256)
    BY DEF Flip, Bit
  <2>5. Bit(Flip(n, 256), 8192) = Bit(n, 8192)
    BY DEF Flip, Bit
  <2> QED BY <1>3, <2>1, <2>2, <2>3, <2>4, <2>5 DEF Flips
<1>4. CASE b = 8192
  <2>1. Flip(n, 8192) \in Nat /\ Flip(n, 8192) = IF Bit(n, 8192) = 0 THEN n + 8192 ELSE n - 8192
    BY DEF Flip, Bit
  <2>2. Bit(Flip(n, 8192), 2) = Bit(n, 2)
    BY DEF Flip, Bit
  <2>3. Bit(Flip(n, 8192), 16) = Bit(n, 16)
    BY DEF Flip, Bit
  <2>4. Bit(Flip(n, 8192), 256) = Bit(n, 256)
    BY DEF Flip, Bit
  <2>5. Bit(Flip(n, 8192), 8192) = 1 - Bit(n, 8192)
    BY DEF Flip, Bit
  <2> QED BY <1>4, <2>1, <2>2, <2>3, <2>4, <2>5 DEF Flips
<1> QED BY <1>1, <1>2, <1>3, <1>4

Toggled(n, b) == IF Bit(n, b) = 0 THEN b ELSE - b

LEMMA CookieChanges ==
  ASSUME NEW n \in Nat
  PROVE  /\ XorCookie(n) \in Nat
         /\ XorCookie(n) = n + Toggled(n, 8192) + Toggled(n, 256) + Toggled(n, 16) + Toggled(n, 2)
         /\ \A b \in {2, 16, 256, 8192} : Bit(XorCookie(n), b) = 1 - Bit(n, b)
<1> DEFINE n1 == Flip(n, 8192)
           n2 == Flip(n1, 256)
           n3 == Flip(n2, 16)
           n4 == Flip(n3, 2)
<1>1. Flips(n, n1, 8192) /\ n1 \in Nat
  BY FlipChanges DEF Flips
<1> HIDE DEF n1
<1>2. Flips(n1, n2, 256) /\ n2 \in Nat
  BY <1>1, FlipChanges DEF Flips
<1> HIDE DEF n2
<1>3. Flips(n2, n3, 16) /\ n3 \in Nat
  BY <1>2, FlipChanges DEF Flips
<1> HIDE DEF n3
<1>4. Flips(n3, n4, 2) /\ n4 \in Nat
  BY <1>3, FlipChanges DEF Flips
<1> HIDE DEF n4
<1>5. n4 = n + Toggled(n, 8192) + Toggled(n, 256) + Toggled(n, 16) + Toggled(n, 2)
  BY <1>1, <1>2, <1>3, <1>4 DEF Flips, Toggled
<1>6. /\ Bit(n4, 2) = 1 - Bit(n, 2) /\ Bit(n4, 16) = 1 - Bit(n, 16)
      /\ Bit(n4, 256) = 1 - Bit(n, 256) /\ Bit(n4, 8192) = 1 - Bit(n, 8192)
  BY <1>1, <1>2, <1>3, <1>4 DEF Flips
<1>7. n4 = XorCookie(n)
  BY DEF XorCookie, n1, n2, n3, n4
<1> QED BY <1>4, <1>5, <1>6, <1>7

\* The server's XOR with the cookie and the client's cancel out.
LEMMA CookieTwice ==
  ASSUME NEW n \in Nat
  PROVE  XorCookie(XorCookie(n)) = n
<1> DEFINE x == XorCookie(n)
<1>1. /\ x \in Nat
      /\ x = n + Toggled(n, 8192) + Toggled(n, 256) + Toggled(n, 16) + Toggled(n, 2)
      /\ \A b \in {2, 16, 256, 8192} : Bit(x, b) = 1 - Bit(n, b)
  BY CookieChanges
<1> HIDE DEF x
<1>2. XorCookie(x) = x + Toggled(x, 8192) + Toggled(x, 256) + Toggled(x, 16) + Toggled(x, 2)
  BY <1>1, CookieChanges
<1>3. ASSUME NEW b \in {2, 16, 256, 8192}
      PROVE  Toggled(x, b) = - Toggled(n, b) /\ Toggled(n, b) \in Int
  <2>1. Bit(n, b) \in {0, 1}
    BY DEF Bit
  <2> QED BY <1>1, <2>1 DEF Toggled
<1> QED BY <1>1, <1>2, <1>3 DEF x
(***************************************************************************)
(* What the parser makes of a server's answer: at the start of an          *)
(* attribute it finds that attribute, and goes on to the next start.  So   *)
(* it reaches each attribute that no IPv4 address comes before.            *)
(***************************************************************************)
IsMapped(attr) == CarriesAddress(attr) /\ attr.family = IPV4

Reached(a) ==
  \E k \in 1 .. Len(a.starts) :
    offset = a.starts[k] /\ \A j \in 1 .. k - 1 : ~ IsMapped(a.attrs[j])

ParseInv == phase = "parse" => \A a \in Answers : a.bytes = response => Reached(a)

LEMMA AnswerParts ==
  ASSUME StartupAssumption, NEW a \in Answers
  PROVE  /\ a.bytes \in Seq(0 .. 255) /\ Len(a.bytes) \in Nat
         /\ Len(a.starts) \in Nat \ {0} /\ DOMAIN a.attrs = 1 .. Len(a.starts) - 1
         /\ a.starts[1] = HEADER_SIZE /\ a.starts[Len(a.starts)] = Len(a.bytes)
         /\ \A k \in 1 .. Len(a.starts) :
              /\ a.starts[k] \in Nat /\ a.starts[k] % 4 = 0 /\ a.starts[k] <= Len(a.bytes)
         /\ AttrsEnd(a.bytes) = Len(a.bytes)
<1> DEFINE Offset == {o \in HEADER_SIZE .. Len(a.bytes) : o % 4 = 0}
<1>1. /\ a.bytes \in Seq(0 .. 255) /\ a.starts \in Seq(Offset)
      /\ Len(a.starts) \in Nat \ {0} /\ DOMAIN a.attrs = 1 .. Len(a.starts) - 1
      /\ a.starts[1] = HEADER_SIZE /\ a.starts[Len(a.starts)] = Len(a.bytes)
      /\ Half(a.bytes, 2) = Len(a.bytes) - HEADER_SIZE
  BY Zenon DEF StartupAssumption, IsAnswer
<1>2. Len(a.bytes) \in Nat
  BY <1>1
<1>3. \A o \in Offset : o \in Nat /\ o % 4 = 0 /\ o <= Len(a.bytes)
  BY <1>2 DEF HEADER_SIZE
<1> HIDE DEF Offset
<1>4. \A k \in 1 .. Len(a.starts) : a.starts[k] \in Offset
  BY <1>1, ElementOfSeq
<1>5. AttrsEnd(a.bytes) = Len(a.bytes)
  BY <1>1, <1>2 DEF AttrsEnd, HEADER_SIZE
<1> QED BY <1>1, <1>2, <1>3, <1>4, <1>5

LEMMA Padding ==
  ASSUME NEW o \in Nat, NEW end \in Nat, NEW length \in Nat, o % 4 = 0, end % 4 = 0,
         o + 4 + length <= end, end < o + 8 + length
  PROVE  end = o + 4 + ((length + 3) \div 4) * 4
<1>1. PICK n \in Nat : o = n * 4
  <2>1. o = (o \div 4) * 4 /\ o \div 4 \in Nat
    OBVIOUS
  <2> QED BY <2>1
<1>2. PICK m \in Nat : end = m * 4
  <2>1. end = (end \div 4) * 4 /\ end \div 4 \in Nat
    OBVIOUS
  <2> QED BY <2>1
<1>3. m = n + 1 + ((length + 3) \div 4)
  BY <1>1, <1>2
<1> QED BY <1>1, <1>2, <1>3

LEMMA AttributeRead ==
  ASSUME NEW b \in Seq(0 .. 255), NEW o \in Nat, NEW end \in Nat, NEW attr,
         o % 4 = 0, end % 4 = 0, end <= Len(b), AttrsEnd(b) = Len(b),
         Written(b, o, end, attr)
  PROVE  /\ HasAttr(b, o) /\ ~ Overruns(b, o) /\ ~ IsShort(b, o)
         /\ IsIPv4(b, o) <=> IsMapped(attr)
         /\ NextAttr(b, o) = end
         /\ IsMapped(attr) => MappedPort(b, o) = attr.port
<1>1. /\ o + 4 + attr.length <= end /\ end < o + 8 + attr.length
      /\ AttrType(b, o) = attr.type /\ AttrLength(b, o) = attr.length
  BY DEF Written, AttrType, AttrLength
<1>2. ASSUME CarriesAddress(attr)
      PROVE  /\ attr.length >= 8 /\ attr.port \in Nat
             /\ At(b, o + 5) = attr.family
             /\ Half(b, o + 6) =
                  IF attr.type = XOR_MAPPED_ADDRESS THEN XorCookie(attr.port) ELSE attr.port
  BY <1>2 DEF Written
<1>3. attr.length \in Nat
  <2>1. o + 2 \in Nat
    OBVIOUS
  <2>2. Half(b, o + 2) \in Nat
    BY <2>1, ByteTypes
  <2> QED BY <1>1, <2>2 DEF AttrLength
<1>4. Len(b) \in Nat
  OBVIOUS
<1> DEFINE length == attr.length
<1>5. /\ length \in Nat /\ AttrLength(b, o) = length
      /\ o + 4 + length <= end /\ end < o + 8 + length
  BY <1>1, <1>3
<1> HIDE DEF length
<1>6. HasAttr(b, o) /\ ~ Overruns(b, o)
  BY <1>4, <1>5 DEF HasAttr, Overruns
<1>7. IsAddress(b, o) <=> CarriesAddress(attr)
  BY <1>1 DEF IsAddress, CarriesAddress
<1>8. ~ IsShort(b, o)
  BY <1>2, <1>5, <1>7 DEF IsShort, length
<1>9. IsIPv4(b, o) <=> IsMapped(attr)
  BY <1>2, <1>7 DEF IsIPv4, IsMapped
<1>10. NextAttr(b, o) = end
  BY <1>5, Padding DEF NextAttr
<1>11. ASSUME IsMapped(attr) PROVE MappedPort(b, o) = attr.port
  <2>1. CarriesAddress(attr)
    BY <1>11 DEF IsMapped
  <2>2. attr.port \in Nat
    BY <1>2, <2>1
  <2>3. XorCookie(XorCookie(attr.port)) = attr.port
    BY <2>2, CookieTwice
  <2>4. CASE attr.type = XOR_MAPPED_ADDRESS
    BY <1>1, <1>2, <2>1, <2>3, <2>4 DEF MappedPort
  <2>5. CASE attr.type # XOR_MAPPED_ADDRESS
    BY <1>1, <1>2, <2>1, <2>5 DEF MappedPort
  <2> QED BY <2>4, <2>5
<1> QED BY <1>6, <1>8, <1>9, <1>10, <1>11

LEMMA AttributeFound ==
  ASSUME StartupAssumption, NEW a \in Answers, NEW k \in DOMAIN a.attrs
  PROVE  /\ HasAttr(a.bytes, a.starts[k]) /\ ~ Overruns(a.bytes, a.starts[k])
         /\ ~ IsShort(a.bytes, a.starts[k])
         /\ IsIPv4(a.bytes, a.starts[k]) <=> IsMapped(a.attrs[k])
         /\ NextAttr(a.bytes, a.starts[k]) = a.starts[k + 1]
         /\ IsMapped(a.attrs[k]) => MappedPort(a.bytes, a.starts[k]) = a.attrs[k].port
<1>1. Written(a.bytes, a.starts[k], a.starts[k + 1], a.attrs[k])
  BY Zenon DEF StartupAssumption, IsAnswer
<1>2. k \in 1 .. Len(a.starts) /\ k + 1 \in 1 .. Len(a.starts)
  <2>1. k \in 1 .. Len(a.starts) - 1 /\ Len(a.starts) \in Nat \ {0}
    BY AnswerParts, Zenon
  <2> QED BY <2>1
<1>3. /\ a.starts[k] \in Nat /\ a.starts[k] % 4 = 0
      /\ a.starts[k + 1] \in Nat /\ a.starts[k + 1] % 4 = 0
      /\ a.starts[k + 1] <= Len(a.bytes)
      /\ a.bytes \in Seq(0 .. 255) /\ AttrsEnd(a.bytes) = Len(a.bytes)
  BY <1>2, AnswerParts
<1> QED BY <1>1, <1>3, AttributeRead

LEMMA NothingAfterTheLast ==
  ASSUME StartupAssumption, NEW a \in Answers
  PROVE  ~ HasAttr(a.bytes, a.starts[Len(a.starts)])
<1>1. /\ a.starts[Len(a.starts)] = Len(a.bytes) /\ Len(a.bytes) \in Nat
      /\ AttrsEnd(a.bytes) = Len(a.bytes)
  BY AnswerParts, Zenon
<1>2. ASSUME NEW n \in Nat PROVE ~ (n + 4 <= n)
  OBVIOUS
<1> QED BY <1>1, <1>2 DEF HasAttr

LEMMA ParseStep ==
  ASSUME StartupAssumption, StartupInv, ParseInv, [Next]_vars
  PROVE  ParseInv'
<1>1. ASSUME NEW r \in Responses, ProbeReceives(r) PROVE ParseInv'
  <2>1. ASSUME NEW a \in Answers PROVE Reached(a)'
    <3>1. offset' = a.starts[1] /\ 1 \in 1 .. Len(a.starts) /\ 1 .. 1 - 1 = {}
      BY <1>1, AnswerParts DEF ProbeReceives
    <3> QED BY <3>1 DEF Reached
  <2> QED BY <2>1 DEF ParseInv
<1>2. CASE ParseSkips
  <2>1. phase = "parse" /\ response' = response /\ offset' = NextAttr(response, offset)
        /\ HasAttr(response, offset) /\ ~ IsIPv4(response, offset)
    BY <1>2 DEF ParseSkips
  <2>2. ASSUME NEW a \in Answers, a.bytes = response PROVE Reached(a)'
    <3>1. PICK k \in 1 .. Len(a.starts) :
            offset = a.starts[k] /\ \A j \in 1 .. k - 1 : ~ IsMapped(a.attrs[j])
      BY <2>1, <2>2 DEF ParseInv, Reached
    <3>2. k # Len(a.starts)
      BY <2>1, <2>2, <3>1, NothingAfterTheLast
    <3>3. /\ k \in DOMAIN a.attrs /\ k \in Nat /\ k + 1 \in 1 .. Len(a.starts)
          /\ (k + 1) - 1 = k /\ \A j \in 1 .. k : j \in 1 .. k - 1 \/ j = k
      BY <3>2, AnswerParts
    <3>4. offset' = a.starts[k + 1] /\ ~ IsMapped(a.attrs[k])
      BY <2>1, <2>2, <3>1, <3>3, AttributeFound
    <3>5. \A j \in 1 .. (k + 1) - 1 : ~ IsMapped(a.attrs[j])
      BY <3>1, <3>3, <3>4
    <3> QED BY <3>3, <3>4, <3>5 DEF Reached
  <2> QED BY <2>1, <2>2 DEF ParseInv
<1>3. ASSUME phase' # "parse" PROVE ParseInv'
  BY <1>3 DEF ParseInv
<1>4. ASSUME phase' = phase, response' = response, offset' = offset PROVE ParseInv'
  BY <1>4 DEF ParseInv, Reached
<1>5. CASE \/ OpenTap \/ TapThrows \/ NextPeer \/ FormatThrows \/ ProbeSocket \/ ProbeFails
           \/ ParseFails \/ ProbeMoved \/ (\E port \in probing : ProbeSucceeds(port))
           \/ ProbeGivesUp \/ OpenPort \/ AddressThrows \/ BindThrows \/ SocketThrows
  <2>1. phase' # "parse"
    BY <1>5
       DEF OpenTap, TapThrows, NextPeer, FormatThrows, ProbeSocket, ProbeFails, ParseFails,
           ProbeMoved, Found, ProbeSucceeds, ProbeGivesUp, OpenPort, AddressThrows, BindThrows,
           SocketThrows, Throw, NextAttempt, setup
  <2> QED BY <1>3, <2>1
<1>6. CASE Take \/ Release \/ UNCHANGED vars
  <2>1. UNCHANGED own
    BY <1>6, Zenon DEF Take, Release, vars
  <2>2. phase' = phase /\ response' = response /\ offset' = offset
    BY <2>1 DEF own, parse
  <2> QED BY <1>4, <2>2
<1> QED BY <1>1, <1>2, <1>5, <1>6 DEF Next, Start, Probe

\* The attempt ends at the first IPv4 address or, where there is none, at the end.
LEMMA ParseEnds ==
  ASSUME StartupAssumption, StartupInv, ParseInv, [Next]_vars,
         phase = "parse", phase' # "parse", NEW a \in Answers, a.bytes = response
  PROVE  phase' = "open" <=> FirstMapped(a.attrs) = probing
<1>1. PICK k \in 1 .. Len(a.starts) :
        offset = a.starts[k] /\ \A j \in 1 .. k - 1 : ~ IsMapped(a.attrs[j])
  BY DEF ParseInv, Reached
<1>2. probing # {} /\ \E port \in PortNumber : probing = {port}
  <2>1. probing # {} /\ probing = {FirstPort(attempt)} /\ probing \in SUBSET PortNumber
    BY DEF StartupInv, ProbeInv, TypeOK
  <2> QED BY <2>1
<1>3. /\ DOMAIN a.attrs = 1 .. Len(a.starts) - 1 /\ Len(a.starts) \in Nat \ {0}
      /\ k \in Nat
  BY AnswerParts
<1>4. \/ ParseFails /\ phase' = "probe"
      \/ ProbeMoved /\ phase' = "probe"
      \/ phase' = "open" /\ \E port \in probing : ProbeSucceeds(port)
  <2>1. ~ UNCHANGED vars /\ ~ Take /\ ~ Release
    BY Zenon DEF vars, own, Take, Release
  <2>2. ~ (OpenTap \/ TapThrows \/ NextPeer \/ FormatThrows \/ OpenPort \/ AddressThrows
            \/ BindThrows \/ SocketThrows \/ ProbeSocket \/ ProbeFails \/ ProbeGivesUp)
    BY DEF OpenTap, TapThrows, NextPeer, FormatThrows, OpenPort, AddressThrows, BindThrows,
           SocketThrows, ProbeSocket, ProbeFails, ProbeGivesUp
  <2>3. ~ ParseSkips /\ ~ \E r \in Responses : ProbeReceives(r)
    BY DEF ParseSkips, ProbeReceives
  <2>4. ParseFails \/ ProbeMoved \/ \E port \in probing : ProbeSucceeds(port)
    BY <2>1, <2>2, <2>3, Zenon DEF Next, Start, Probe
  <2> QED BY <2>4 DEF ParseFails, ProbeMoved, ProbeSucceeds, NextAttempt
<1>5. CASE k = Len(a.starts)
  <2>1. ~ HasAttr(response, offset)
    BY <1>1, <1>5, NothingAfterTheLast
  <2>2. phase' = "probe"
    BY <1>4, <2>1 DEF ProbeMoved, ProbeSucceeds, Found
  <2>3. \A i \in DOMAIN a.attrs : ~ IsMapped(a.attrs[i])
    BY <1>1, <1>3, <1>5
  <2>4. FirstMapped(a.attrs) = {}
    BY <2>3 DEF FirstMapped, IsMapped
  <2> QED BY <1>2, <2>2, <2>4
<1>6. CASE k # Len(a.starts)
  <2>1. k \in DOMAIN a.attrs
    BY <1>3, <1>6
  <2>2. /\ HasAttr(response, offset) /\ ~ Overruns(response, offset)
        /\ ~ IsShort(response, offset)
        /\ IsIPv4(response, offset) <=> IsMapped(a.attrs[k])
        /\ IsMapped(a.attrs[k]) => MappedPort(response, offset) = a.attrs[k].port
    BY <1>1, <2>1, AttributeFound
  <2>3. IsIPv4(response, offset) /\ ~ ParseFails
    BY <1>4, <2>2 DEF ParseFails, ProbeMoved, ProbeSucceeds, Found
  <2>4. FirstMapped(a.attrs) = {a.attrs[k].port}
    <3> DEFINE mapped == {i \in DOMAIN a.attrs : IsMapped(a.attrs[i])}
    <3>1. k \in mapped /\ \A i \in mapped : k <= i
      BY <1>1, <1>3, <2>1, <2>2, <2>3
    <3>2. \A i \in mapped : i \in Nat
      BY <1>3
    <3>3. \A i \in mapped : i # k => ~ (i <= k)
      BY <1>3, <3>1, <3>2
    <3> HIDE DEF mapped
    <3>4. {j \in mapped : \A i \in mapped : j <= i} = {k}
      BY <3>1, <3>3
    <3>5. FirstMapped(a.attrs) =
            {a.attrs[i].port : i \in {j \in mapped : \A n \in mapped : j <= n}}
      BY Zenon DEF FirstMapped, IsMapped, mapped
    <3> QED BY <3>4, <3>5
  <2>5. MappedPort(response, offset) = a.attrs[k].port
    BY <2>2, <2>3
  <2> QED BY <1>2, <1>4, <2>3, <2>4, <2>5 DEF ProbeMoved, ProbeSucceeds
<1> QED BY <1>5, <1>6

\* What a server answers decides the attempt, for all answers: the parser finds the
\* first IPv4 address, whatever comes before it, and the port under the cookie.
THEOREM AnswersDecide ==
  ASSUME StartupAssumption
  PROVE  Spec => AnswerDecides
<1>1. Init => ParseInv
  BY DEF Init, ParseInv
<1>2. StartupInv /\ ParseInv /\ [Next]_vars => ParseInv'
  BY ParseStep
<1>3. StartupInv /\ ParseInv /\ [Next]_vars =>
        [phase = "parse" /\ phase' # "parse" =>
           \A answer \in Answers :
             answer.bytes = response =>
               (phase' = "open" <=> FirstMapped(answer.attrs) = probing)]_vars
  BY ParseEnds
<1> QED BY <1>1, <1>2, <1>3, StartupInvariant, PTL DEF Spec, AnswerDecides

=============================================================================
