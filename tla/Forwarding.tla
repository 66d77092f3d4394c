----------------------------- MODULE Forwarding -----------------------------
(***************************************************************************)
(* What a switch decides about one frame, given its two tables: what a     *)
(* frame teaches, whether handle_arp answers it, and which ports           *)
(* forward_frame writes it to.  ports is the set of the switch's ports, p  *)
(* the one the frame was read from.  VirtualSwitch decides so with tables  *)
(* that age, and Overlay with the tables of several switches.              *)
(***************************************************************************)
EXTENDS Integers, EthernetFrame

(* handle_arp *)

TeachesIp(f) == IsArp(f) /\ f.spa # NoIp

Answerable(f, ips) == f.oper = "request" /\ f.tpa # f.spa /\ f.tpa \in DOMAIN ips

(* forward_frame *)

\* Mutants: no comparison of the learned port with the source port; the same
\* when flooding; a frame for an unknown address dropped; a flood that stops
\* after the first port
EgressBack(ports, p, f, macs) ==
  IF IsMulticast(f.dst) \/ f.dst \notin DOMAIN macs
    THEN ports \ {p} ELSE {macs[f.dst].port}

EgressEcho(ports, p, f, macs) ==
  IF IsMulticast(f.dst) \/ f.dst \notin DOMAIN macs
    THEN ports ELSE {macs[f.dst].port} \ {p}

EgressKnown(ports, p, f, macs) ==
  (IF IsMulticast(f.dst) THEN ports
   ELSE {macs[m].port : m \in DOMAIN macs \cap {f.dst}}) \ {p}

EgressFirst(ports, p, f, macs) ==
  IF IsMulticast(f.dst) \/ f.dst \notin DOMAIN macs
    THEN {q \in ports \ {p} : \A r \in ports \ {p} : q <= r}
    ELSE {macs[f.dst].port} \ {p}

Egress(ports, p, f, macs) ==
  (IF IsMulticast(f.dst) \/ f.dst \notin DOMAIN macs
     THEN ports ELSE {macs[f.dst].port}) \ {p}

\* What handling f writes, given the tables it is looked up in: reply, or forward
Writes(ports, p, f, macs, ips) ==
  IF Answerable(f, ips)
    THEN {<<p, ArpReply(f, ips[f.tpa].mac)>>}
    ELSE {<<q, f>> : q \in Egress(ports, p, f, macs)}

=============================================================================
