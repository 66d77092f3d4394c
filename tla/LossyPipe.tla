----------------------------- MODULE LossyPipe -----------------------------
(***************************************************************************)
(* What a tunnel promises in one direction: every packet that comes out    *)
(* was put in, and comes out once.  It may come out late, in another       *)
(* order, or never.                                                        *)
(***************************************************************************)
EXTENDS Sequences, SequencesExt

CONSTANT Packet

VARIABLES
  entered,  \* the packets put in so far
  left      \* what came out, in this order

Init == entered = {} /\ left = <<>>

Enter(p) ==
  /\ p \notin entered
  /\ entered' = entered \cup {p}
  /\ UNCHANGED left

Leave(p) ==
  /\ p \in entered \ ToSet(left)
  /\ left' = Append(left, p)
  /\ UNCHANGED entered

Next == \E p \in Packet : Enter(p) \/ Leave(p)

Spec == Init /\ [][Next]_<<entered, left>>

=============================================================================
