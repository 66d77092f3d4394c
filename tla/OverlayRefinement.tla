------------------------- MODULE OverlayRefinement -------------------------
(***************************************************************************)
(* To the hosts, the switches of every tree are one segment: every step of *)
(* Overlay is a step of Segment or changes nothing there.                  *)
(***************************************************************************)
EXTENDS OverlayProofs

(***************************************************************************)
(* A letter travels away from the TAP device it was sent from, whatever    *)
(* the tables say, so it is never written back to it.                      *)
(***************************************************************************)
Outbound == \A c \in wire : c.by = Host => Towards(c.at, c.frame.src)

LEMMA HandleKeepsOutbound ==
  ASSUME OverlayAssumption, AddressAssumption, Tree, TypeOK, Outbound,
         NEW c \in wire, Handle(c)
  PROVE  Outbound'
<1>1. PICK Q, by, g : Spreads(c, Q, by, g)
  BY HandleSpreads
<1>2. ASSUME NEW d \in wire', d.by = Host PROVE Towards(d.at, d.frame.src)
  <2>1. CASE d \in wire \ {c}
    BY <1>2, <2>1 DEF Outbound
  <2>2. ASSUME NEW k \in Q \cap Link, d = Copy(Far[k], c.no, by, g)
        PROVE  Towards(d.at, d.frame.src)
    <3>1. d.at = Far[k] /\ d.frame = g /\ by = Host
      BY <1>2, <2>2 DEF Copy
    <3>2. c.at \in Jack /\ c.at[1] \in Switch /\ c.frame.src \in DOMAIN Home
      BY CopyParts
    <3>3. by = c.by /\ c.at \notin Q /\ g = c.frame /\ k[1] = c.at[1]
      BY <1>1, <3>1, <3>2 DEF Spreads, OverlayAssumption
    <3>4. Towards(c.at, c.frame.src)
      BY <3>1, <3>3 DEF Outbound
    <3> QED BY <3>1, <3>2, <3>3, <3>4, FurtherAway
  <2> QED BY <1>1, <2>1, <2>2, NewCopies
<1> QED BY <1>2 DEF Outbound, Towards

LEMMA AlwaysOutbound == ASSUME Tree PROVE Spec => []Outbound
<1> USE OverlayAssumption, AddressAssumption
<1>1. Init => Outbound
  BY DEF Init, Outbound
<1>2. TypeOK /\ Outbound /\ [Next]_vars => Outbound'
  <2> SUFFICES ASSUME TypeOK, Outbound, [Next]_vars PROVE Outbound'
    OBVIOUS
  <2>1. ASSUME NEW l \in Letters, Send(l) PROVE Outbound'
    <3> DEFINE s == Copy(l.tap, l.no, Host, l.frame)
    <3>1. wire' = wire \cup {s} /\ s.at = l.tap /\ s.frame = l.frame
      BY <2>1 DEF Send, Copy
    <3>2. l.tap \notin Link /\ Home[l.frame.src] = l.tap
      BY DEF OverlayAssumption
    <3> QED BY <3>1, <3>2 DEF Outbound, Towards
  <2>2. ASSUME NEW c \in wire, Handle(c) PROVE Outbound'
    BY <2>2, HandleKeepsOutbound
  <2>3. ASSUME NEW c \in wire, Lose(c) PROVE Outbound'
    BY <2>3 DEF Lose, Outbound, Towards
  <2>4. ASSUME NEW n \in Switch, Forget(n) PROVE Outbound'
    <3>1. wire' = wire
      BY <2>4, Zenon DEF Forget
    <3> QED BY <3>1 DEF Outbound, Towards
  <2>5. CASE UNCHANGED vars
    BY <2>5 DEF vars, Outbound, Towards
  <2> QED BY <2>1, <2>2, <2>3, <2>4, <2>5 DEF Next
<1> QED BY <1>1, <1>2, OverlayTypeCorrect, PTL DEF Spec

LEMMA NotBack ==
  ASSUME OverlayAssumption, Tree, TypeOK, Outbound, Pending, NEW l \in Letters,
         NEW c \in wire, Of(c, l), NEW Q, NEW g, Spreads(c, Q, c.by, g), c.at \notin Q
  PROVE  l.tap \notin Q
<1>1. /\ c.by = Host /\ c.frame = l.frame /\ l.tap \in Jack \ Link
      /\ Home[l.frame.src] = l.tap /\ c.at \in Jack
  BY WhoseCopy, CopyParts DEF OverlayAssumption
<1>2. CASE c.at \notin Link
  BY <1>2, WhoseCopy
<1>3. CASE c.at \in Link
  <2>1. l.tap[1] \in Behind[c.at]
    BY <1>1, <1>3 DEF Outbound, Towards
  <2>2. c.at[1] \notin Behind[c.at]
    BY <1>1, <1>3, HereIsAhead DEF Ahead
  <2> QED BY <2>1, <2>2 DEF Spreads
<1> QED BY <1>2, <1>3

(***************************************************************************)
(* What the steps of Overlay are in the segment.                           *)
(***************************************************************************)
\* A letter none of whose copies comes or goes is as settled as before.
LEMMA SettledAsBefore ==
  ASSUME NEW k, unsent' = unsent,
         \A d \in wire : Of(d, k) => d \in wire',
         \A d \in wire' : Of(d, k) => d \in wire
  PROVE  Settled(k)' <=> Settled(k)
BY DEF Settled, Of

LEMMA ExcusedGrows ==
  ASSUME lost \subseteq lost', answered \subseteq answered', misled \subseteq misled'
  PROVE  Excused \subseteq Excused'
BY DEF Excused

\* What has ended has been everywhere it is for, or is excused.
EndsComplete ==
  \A l \in Ended : l \in Excused \/ Recipients[l] \X {l} \subseteq Received

LEMMA EndedIsComplete ==
  ASSUME OverlayAssumption, FloodIsComplete, UnicastIsComplete
  PROVE  EndsComplete
<1> SUFFICES ASSUME NEW l \in Ended, l \notin Excused, NEW t \in Recipients[l]
             PROVE  <<t, l>> \in Received
  BY DEF EndsComplete
<1>1. l \in Letters /\ Settled(l)
  BY DEF Ended
<1>2. l.no \notin lost \cup answered /\ l.frame.dst \notin misled
  BY <1>1 DEF Excused
<1>3. CASE l \in Floods
  <2>1. t \in Taps \ {l.tap}
    BY <1>1, <1>3 DEF Recipients
  <2>2. <<t, l.no, Host>> \in written
    BY <1>1, <1>2, <1>3, <2>1 DEF FloodIsComplete, ReachedAll, Taps
  <2> QED BY <1>1, <2>1, <2>2 DEF Received
<1>4. CASE l \notin Floods
  <2>1. l.frame.dst \in DOMAIN Home /\ t = Home[l.frame.dst] /\ t # l.tap
    BY <1>1, <1>4 DEF Recipients
  <2>2. l \in ToHosts /\ t \in Taps
    BY <1>1, <2>1, HomeParts DEF ToHosts, Taps
  <2>3. <<t, l.no, Host>> \in written
    BY <1>1, <1>2, <2>1, <2>2 DEF UnicastIsComplete, Arrived
  <2> QED BY <1>1, <2>2, <2>3 DEF Received
<1> QED BY <1>3, <1>4

LEMMA SendIsSend ==
  ASSUME OverlayAssumption, NEW l \in Letters, Send(l)
  PROVE  Lan!Send(l)
<1> DEFINE s == Copy(l.tap, l.no, Host, l.frame)
<1>1. /\ l \in unsent /\ unsent' = unsent \ {l} /\ wire' = wire \cup {s} /\ written' = written
      /\ lost' = lost /\ answered' = answered /\ misled' = misled
  BY DEF Send
<1>2. Received' = Received /\ Excused' = Excused
  BY <1>1 DEF Received, Excused
<1>3. ASSUME NEW k \in Letters PROVE Settled(k)' <=> Settled(k)
  <2>1. CASE k = l
    <3>1. s \in wire' /\ s.no = l.no /\ s.by = Host
      BY <1>1 DEF Copy
    <3> QED BY <1>1, <2>1, <3>1 DEF Settled
  <2>2. CASE k # l
    <3>1. s.no # k.no /\ (k \in unsent' <=> k \in unsent)
      BY <1>1, <2>2 DEF Copy, OverlayAssumption
    <3> QED BY <1>1, <3>1 DEF Settled
  <2> QED BY <2>1, <2>2
<1>4. Ended' = Ended
  BY <1>3 DEF Ended
<1> QED BY <1>1, <1>2, <1>4 DEF Lan!Send

\* A copy of a letter that is handled or lost: the letter was under way, and no
\* other one ends.
LEMMA OthersGoOn ==
  ASSUME OverlayAssumption, Pending, NEW c \in wire, c.by = Host, unsent' = unsent,
         wire \ {c} \subseteq wire', \A d \in wire' : d \in wire \/ d.no = c.no
  PROVE  \E l \in Letters :
           /\ Of(c, l) /\ l \in (Letters \ unsent) \ Ended
           /\ Ended' = Ended \/ Ended' = Ended \cup {l}
<1>1. PICK l \in Letters \ unsent : c.no = l.no /\ c.frame = l.frame
  BY DEF Pending
<1>2. Of(c, l) /\ l \notin Ended
  BY <1>1 DEF Of, Ended, Settled
<1>3. ASSUME NEW k \in Letters, k # l PROVE Settled(k)' <=> Settled(k)
  <2>1. k.no # c.no
    BY <1>1, <1>3 DEF OverlayAssumption
  <2> QED BY <2>1, SettledAsBefore DEF Of
<1>4. /\ \A k \in Letters : k # l => (k \in Ended' <=> k \in Ended)
      /\ Ended \subseteq Letters /\ Ended' \subseteq Letters
  BY <1>3 DEF Ended
<1>5. Ended' = Ended \/ Ended' = Ended \cup {l}
  <2>1. l \in Ended' => Ended' = Ended \cup {l}
    BY <1>1, <1>4
  <2>2. ASSUME l \notin Ended' PROVE Ended' = Ended
    <3>1. \A k : k \in Ended' <=> k \in Ended
      BY <1>2, <1>4, <2>2
    <3> QED BY <3>1
  <2> QED BY <2>1, <2>2
<1> QED BY <1>1, <1>2, <1>5

\* What happens to answers of switches is seen by no letter.
LEMMA AnswersGoBy ==
  ASSUME NEW c \in wire, c.by # Host, unsent' = unsent,
         wire \ {c} \subseteq wire', \A d \in wire' : d \in wire \/ d.by # Host,
         Received' = Received, Excused \subseteq Excused'
  PROVE  Lan!Excuse
<1>1. \A k \in Letters : Settled(k)' <=> Settled(k)
  BY SettledAsBefore DEF Of
<1>2. Ended' = Ended
  BY <1>1 DEF Ended
<1> QED BY <1>2 DEF Lan!Excuse

LEMMA LoseIsCarry ==
  ASSUME OverlayAssumption, Pending, NEW c \in wire, Lose(c)
  PROVE  Lan!Next
<1>1. /\ wire' = wire \ {c} /\ lost' = lost \cup {c.no} /\ unsent' = unsent
      /\ written' = written /\ answered' = answered /\ misled' = misled
  BY DEF Lose
<1>2. Received' = Received /\ Excused \subseteq Excused'
  BY <1>1, ExcusedGrows DEF Received
<1>3. CASE c.by # Host
  BY <1>1, <1>2, <1>3, AnswersGoBy DEF Lan!Next
<1>4. CASE c.by = Host
  <2>1. PICK l \in Letters :
          /\ Of(c, l) /\ l \in (Letters \ unsent) \ Ended
          /\ Ended' = Ended \/ Ended' = Ended \cup {l}
    BY <1>1, <1>4, OthersGoOn
  <2>2. l \in Excused'
    BY <1>1, <2>1 DEF Of, Excused
  <2>3. Lan!Carry(l, {})
    BY <1>1, <1>2, <2>1, <2>2 DEF Lan!Carry
  <2> QED BY <2>3 DEF Lan!Next
<1> QED BY <1>3, <1>4

LEMMA HandleIsCarry ==
  ASSUME OverlayAssumption, AddressAssumption, Tree, TypeOK, Outbound, Pending,
         NoDuplicates', EndsComplete', NEW c \in wire, Handle(c)
  PROVE  Lan!Next
<1>1. PICK Q, by, g : Spreads(c, Q, by, g)
  BY HandleSpreads
<1>2. /\ unsent' = unsent /\ lost' = lost
      /\ answered \subseteq answered' /\ misled \subseteq misled'
  BY DEF Handle
<1>3. /\ c.at[1] \in Switch /\ c.at[1] # Host /\ Excused \subseteq Excused'
  BY <1>2, CopyParts, ExcusedGrows DEF OverlayAssumption
<1>4. /\ wire \ {c} \subseteq wire'
      /\ \A d \in wire' : d \in wire \/ (d.no = c.no /\ d.by = by)
  BY <1>1, Stays, NewCopies DEF Copy
<1>5. /\ written' = written \cup {<<j, c.no, by>> : j \in Q} /\ Q \subseteq Jack
      /\ \A j \in Q : <<j, c.no, by>> \notin written
  BY <1>1 DEF Spreads, NoDuplicates
<1>6. by # Host => Received' = Received
  BY <1>5 DEF Received
<1>7. CASE c.by # Host
  <2>1. by # Host
    BY <1>1, <1>3, <1>7 DEF Spreads
  <2> QED BY <1>2, <1>3, <1>4, <1>6, <1>7, <2>1, AnswersGoBy DEF Lan!Next
<1>8. CASE c.by = Host
  <2>1. PICK l \in Letters :
          /\ Of(c, l) /\ l \in (Letters \ unsent) \ Ended
          /\ Ended' = Ended \/ Ended' = Ended \cup {l}
    BY <1>2, <1>4, <1>8, OthersGoOn
  <2>2. CASE by # Host
    <3>1. l \in Excused'
      BY <1>1, <1>8, <2>1, <2>2 DEF Spreads, Of, Excused
    <3>2. Lan!Carry(l, {})
      BY <1>2, <1>3, <1>6, <2>1, <2>2, <3>1 DEF Lan!Carry
    <3> QED BY <3>2 DEF Lan!Next
  <2>3. CASE by = Host
    <3> DEFINE T == Q \cap Taps
    <3>1. l.tap \notin T
      <4>1. c.at \notin Q
        BY <1>1, <1>3, <2>3 DEF Spreads
      <4>2. Spreads(c, Q, c.by, g)
        BY <1>1, <1>8, <2>3
      <4> QED BY <2>1, <4>1, <4>2, NotBack
    <3>2. Received \cap (T \X {l}) = {}
      BY <1>5, <2>1, <2>3 DEF Received, Of
    <3>3. Received' = Received \cup (T \X {l})
      <4>1. ASSUME NEW t \in Taps, NEW k \in Letters
            PROVE  <<t, k.no, Host>> \in written'
                     <=> <<t, k.no, Host>> \in written \/ (t \in Q /\ k = l)
        BY <1>5, <2>1, <2>3 DEF Of, OverlayAssumption
      <4> QED BY <4>1 DEF Received
    <3>4. l \in Ended' => l \in Excused' \/ Recipients[l] \X {l} \subseteq Received'
      BY DEF EndsComplete
    <3>5. Lan!Carry(l, T)
      BY <1>2, <1>3, <2>1, <3>1, <3>2, <3>3, <3>4 DEF Lan!Carry
    <3> QED BY <3>5 DEF Lan!Next
  <2> QED BY <2>2, <2>3
<1> QED BY <1>7, <1>8

\* Several switches in a tree are one segment to their hosts: Send is the host's,
\* Handle brings the letter to the TAP devices of one switch, Lose may end it, and
\* what the tables forget is not seen.
THEOREM TreeIsSegment == ASSUME Tree PROVE Spec => IsSegment
<1> USE OverlayAssumption, AddressAssumption
<1>1. Init => Lan!Init
  <2> SUFFICES ASSUME Init PROVE Lan!Init
    OBVIOUS
  <2>1. Letters \ unsent = {} /\ Received = {} /\ Ended = {} /\ Excused = {}
    BY DEF Init, Received, Ended, Settled, Excused
  <2> QED BY <2>1 DEF Lan!Init
<1>2. FloodIsComplete /\ UnicastIsComplete => EndsComplete
  BY EndedIsComplete
<1>3. TypeOK /\ Outbound /\ Pending /\ NoDuplicates' /\ EndsComplete' /\ [Next]_vars
        => [Lan!Next]_(Lan!vars)
  <2> SUFFICES ASSUME TypeOK, Outbound, Pending, NoDuplicates', EndsComplete', [Next]_vars
               PROVE  [Lan!Next]_(Lan!vars)
    OBVIOUS
  <2>1. ASSUME NEW l \in Letters, Send(l) PROVE Lan!Next
    BY <2>1, SendIsSend DEF Lan!Next
  <2>2. ASSUME NEW c \in wire, Handle(c) PROVE Lan!Next
    BY <2>2, HandleIsCarry
  <2>3. ASSUME NEW c \in wire, Lose(c) PROVE Lan!Next
    BY <2>3, LoseIsCarry
  <2>4. CASE (\E n \in Switch : Forget(n)) \/ UNCHANGED vars
    <3>1. UNCHANGED <<wire, unsent, written, lost, answered, misled>>
      BY <2>4, Zenon DEF Forget, vars
    <3> QED BY <3>1 DEF Lan!vars, Received, Ended, Settled, Excused
  <2> QED BY <2>1, <2>2, <2>3, <2>4 DEF Next
<1> QED
  BY <1>1, <1>2, <1>3, OverlayTypeCorrect, AlwaysOutbound, AlwaysPending,
     FloodsDoNotMultiply, FloodsAreComplete, UnicastsAreComplete, PTL
  DEF Spec, IsSegment, Lan!Spec

=============================================================================
