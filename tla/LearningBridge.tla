--------------------------- MODULE LearningBridge ---------------------------
(***************************************************************************)
(* What a switch promises, without the tables and the sweep it keeps the   *)
(* promise with.  It remembers for ever who was last heard where and which *)
(* ARP claim was last made for an IP; it must act on a memory younger than *)
(* MinLife, must not act on one of MaxLife or older, and in between may do *)
(* either, as when the sweep is late.                                      *)
(*                                                                         *)
(* Acting on a memory of an address is sending the frame to the one port   *)
(* the address was last heard on (nowhere if that is the port the frame    *)
(* came from); not acting on it is flooding.  Acting on an ARP claim is    *)
(* answering the request in place of its target, on the port it came from  *)
(* and nowhere else; not acting on it is forwarding the request.           *)
(***************************************************************************)
EXTENDS Integers, EthernetFrame, LearnedTable

CONSTANTS
  Frames,   \* the frames that may arrive
  Port,     \* the ports of the switch
  MinLife,  \* ticks for which something learned is certain to be used
  MaxLife   \* ticks after which something learned is certainly not used

VARIABLES clock, handled, sent, heard, claimed

vars == <<clock, handled, sent, heard, claimed>>

Init ==
  /\ clock = 0
  /\ handled = {} /\ sent = {}
  /\ heard = NoEntries /\ claimed = NoEntries

\* A memory from instant t may be acted on in a step that begins now ...
MayUse(t) == clock - t < MaxLife

\* ... and may be forgotten by the end of that step.
MayForget(t) == clock' - t >= MinLife

Flood(p, f) == {<<q, f>> : q \in Port \ {p}}

Answer(p, f) ==
  /\ f.oper = "request" /\ f.tpa # f.spa
  /\ f.tpa \in DOMAIN claimed' /\ MayUse(claimed'[f.tpa].at)
  /\ sent' = {<<p, ArpReply(f, claimed'[f.tpa].mac)>>}

Forward(p, f) ==
  /\ f.oper = "request" /\ f.tpa # f.spa /\ f.tpa \in DOMAIN claimed'
       => MayForget(claimed'[f.tpa].at)
  /\ \/ IsMulticast(f.dst) /\ sent' = Flood(p, f)
     \/ /\ ~ IsMulticast(f.dst)
        /\ f.dst \in DOMAIN heard' => MayForget(heard'[f.dst].at)
        /\ sent' = Flood(p, f)
     \/ /\ ~ IsMulticast(f.dst)
        /\ f.dst \in DOMAIN heard' /\ MayUse(heard'[f.dst].at)
        /\ sent' = {<<q, f>> : q \in {heard'[f.dst].port} \ {p}}

Remember(p, f, t, u) ==
  /\ heard' = Put(heard, f.src, [port |-> p, at |-> t])
  /\ claimed' = IF IsArp(f) /\ f.spa # NoIp
                  THEN Put(claimed, f.spa, [mac |-> f.sha, at |-> u])
                  ELSE claimed

Handle(p, f) ==
  /\ clock' \in Nat /\ clock' >= clock
  /\ \E t, u \in clock .. clock' : Remember(p, f, t, u)
  /\ handled' = {<<p, f>>}
  /\ Answer(p, f) \/ Forward(p, f)

Wait ==
  /\ clock' \in Nat /\ clock' >= clock
  /\ UNCHANGED <<handled, sent, heard, claimed>>

Next == Wait \/ \E p \in Port, f \in Frames : Handle(p, f)

Spec == Init /\ [][Next]_vars

=============================================================================
