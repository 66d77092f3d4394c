------------------------------ MODULE Segment ------------------------------
(***************************************************************************)
(* What a LAN promises its hosts about each frame they send: it comes out  *)
(* at the other TAP devices, once at each, and stays under way until those *)
(* it is for have it.  It may come out at others too, which drop it.  An   *)
(* excused frame may end earlier.                                          *)
(***************************************************************************)
EXTENDS Naturals

CONSTANTS
  Tap,
  Letter,
  From,    \* From[l]: the TAP device letter l is sent from
  For      \* For[l]: the ones it has to reach

VARIABLES
  sent,
  got,     \* pairs <<t, l>>: letter l came out at t
  over,    \* the letters that are not under way any more
  excused

vars == <<sent, got, over, excused>>

Init == sent = {} /\ got = {} /\ over = {} /\ excused = {}

Send(l) ==
  /\ l \notin sent
  /\ sent' = sent \cup {l}
  /\ UNCHANGED <<got, over, excused>>

Excuse ==
  /\ excused \subseteq excused'
  /\ UNCHANGED <<sent, got, over>>

\* Letter l comes out at the devices in T, which may be the last ones.
Carry(l, T) ==
  /\ l \in sent \ over /\ From[l] \notin T
  /\ got \cap (T \X {l}) = {} /\ got' = got \cup (T \X {l})
  /\ excused \subseteq excused'
  /\ \/ over' = over
     \/ over' = over \cup {l} /\ (l \in excused' \/ For[l] \X {l} \subseteq got')
  /\ UNCHANGED sent

Next ==
  \/ \E l \in Letter : Send(l)
  \/ Excuse
  \/ \E l \in Letter, T \in SUBSET Tap : Carry(l, T)

Spec == Init /\ [][Next]_vars

=============================================================================
