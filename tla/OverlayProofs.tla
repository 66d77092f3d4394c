--------------------------- MODULE OverlayProofs ---------------------------
(***************************************************************************)
(* What Overlay guarantees for every set of switches, links, hosts and     *)
(* letters.  The theorems about duplicates and learned ports assume that   *)
(* the links form a tree; with a cycle they are false.                     *)
(***************************************************************************)
EXTENDS Overlay, TLAPS

(***************************************************************************)
(* Jacks and trees.                                                        *)
(***************************************************************************)
LEMMA JackParts ==
  ASSUME NEW j \in Jack
  PROVE  j[1] \in Switch /\ j[2] \in Ports[j[1]] /\ j = <<j[1], j[2]>>
BY DEF Jack

LEMMA PortsAreJacks ==
  ASSUME NEW n \in Switch, NEW p \in Ports[n]
  PROVE  <<n, p>> \in Jack
BY DEF Jack

LEMMA FarLinks ==
  ASSUME OverlayAssumption, NEW k \in Link
  PROVE  k \in Jack /\ Far[k] \in Link /\ Far[k] \in Jack /\ Far[Far[k]] = k
BY DEF OverlayAssumption

\* What lies behind the far end of a link: this switch and its other links.
LEMMA BehindFar ==
  ASSUME OverlayAssumption, Tree, NEW k \in Link
  PROVE  /\ k[1] \in Behind[Far[k]]
         /\ \A i \in Links(k[1]) \ {k} : Behind[i] \subseteq Behind[Far[k]]
         /\ \A x \in Switch : x = k[1] \/ x \in Behind[Far[k]] \/ x \in Behind[k]
<1>1. /\ Far[k] \in Link /\ Far[Far[k]] = k /\ k[1] \in Switch
  BY FarLinks, JackParts
<1>2. Behind[Far[k]] = {k[1]} \cup UNION {Behind[i] : i \in Links(k[1]) \ {k}}
  BY <1>1 DEF Tree
<1>3. Switch = {k[1]} \cup UNION {Behind[i] : i \in Links(k[1])}
  BY <1>1 DEF Tree
<1> QED BY <1>2, <1>3

(***************************************************************************)
(* The switches a copy bound for jack j may still reach.                   *)
(***************************************************************************)
Ahead(j) == IF j \in Link THEN Switch \ Behind[j] ELSE Switch

LEMMA HereIsAhead ==
  ASSUME OverlayAssumption, Tree, NEW j \in Jack
  PROVE  j[1] \in Ahead(j)
<1>1. j \in Link => j[1] \notin Behind[j]
  BY BehindFar, FarLinks DEF Tree
<1> QED BY <1>1, JackParts DEF Ahead

LEMMA BeyondLink ==
  ASSUME OverlayAssumption, Tree, NEW k \in Link
  PROVE  /\ k[1] \notin Ahead(Far[k])
         /\ Ahead(Far[k]) \subseteq Switch
         /\ \A j \in Jack \ {k} : j[1] = k[1] => Ahead(Far[k]) \subseteq Ahead(j)
         /\ \A i \in Link \ {k} : i[1] = k[1] => Ahead(Far[k]) \cap Ahead(Far[i]) = {}
<1>1. Ahead(Far[k]) = Switch \ Behind[Far[k]]
  BY FarLinks DEF Ahead
<1>2. k[1] \in Behind[Far[k]]
  BY BehindFar
<1>3. ASSUME NEW j \in Jack \ {k}, j[1] = k[1]
      PROVE  Ahead(Far[k]) \subseteq Ahead(j)
  <2>1. CASE j \in Link
    <3>1. Behind[j] \subseteq Behind[Far[k]]
      BY <1>3, <2>1, BehindFar DEF Links
    <3> QED BY <1>1, <2>1, <3>1 DEF Ahead
  <2>2. CASE j \notin Link
    BY <1>1, <2>2 DEF Ahead
  <2> QED BY <2>1, <2>2
<1>4. ASSUME NEW i \in Link \ {k}, i[1] = k[1]
      PROVE  Ahead(Far[k]) \cap Ahead(Far[i]) = {}
  <2>1. Ahead(Far[i]) = Switch \ Behind[Far[i]]
    BY FarLinks DEF Ahead
  <2>2. Behind[k] \subseteq Behind[Far[i]] /\ k[1] \in Behind[Far[i]]
    BY <1>4, BehindFar DEF Links
  <2>3. \A x \in Switch : x = k[1] \/ x \in Behind[Far[k]] \/ x \in Behind[k]
    BY BehindFar
  <2> QED BY <1>1, <2>1, <2>2, <2>3
<1> QED BY <1>1, <1>2, <1>3, <1>4

\* Beyond a link is what lies behind it, and every other switch lies behind a link.
LEMMA EveryWayLeads ==
  ASSUME OverlayAssumption, Tree
  PROVE  /\ \A k \in Link : Ahead(Far[k]) = Behind[k]
         /\ \A n, x \in Switch : x # n => \E k \in Links(n) : x \in Behind[k]
<1>1. ASSUME NEW k \in Link PROVE Ahead(Far[k]) = Behind[k]
  <2>1. Far[k] \in Link /\ Behind[Far[k]] = Switch \ Behind[k] /\ Behind[k] \subseteq Switch
    BY FarLinks DEF Tree, OverlayAssumption
  <2> QED BY <2>1 DEF Ahead
<1>2. ASSUME NEW n \in Switch, NEW x \in Switch, x # n
      PROVE  \E k \in Links(n) : x \in Behind[k]
  <2>1. Switch = {n} \cup UNION {Behind[k] : k \in Links(n)}
    BY DEF Tree
  <2> QED BY <1>2, <2>1
<1> QED BY <1>1, <1>2

(***************************************************************************)
(* What handling copy c comes to: it is written to the jacks in Q as frame *)
(* g under the name <<c.no, by>>, either forwarded to other jacks or       *)
(* answered on the one it came from.                                       *)
(***************************************************************************)
Spreads(c, Q, by, g) ==
  /\ Q \subseteq Jack /\ \A j \in Q : j[1] = c.at[1]
  /\ LET now == {<<j, c.no, by>> : j \in Q}
     IN written' = written \cup now /\ repeated' = repeated \cup (written \cap now)
  /\ wire' = (wire \ {c}) \cup {Copy(Far[j], c.no, by, g) : j \in Q \cap Link}
  /\ \/ /\ by = c.by /\ c.at \notin Q /\ g = c.frame
        /\ misled' = misled
     \/ /\ by = c.at[1] /\ Q = {c.at}
        /\ c.frame.oper = "request" /\ g.oper = "reply"
        /\ g \in Frame /\ g.src \in DOMAIN Home /\ g.sha = g.src
        /\ misled' = misled \cup {m \in {g.src} : Towards(c.at, m)}
        /\ answered' = answered \cup {c.no}

LEMMA CopyParts ==
  ASSUME TypeOK, NEW c \in wire
  PROVE  /\ c.at \in Jack /\ c.no \in Numbers /\ c.by \in Switch \cup {Host}
         /\ c.at[1] \in Switch /\ c.at[2] \in Ports[c.at[1]]
         /\ c.at = <<c.at[1], c.at[2]>>
         /\ c.frame \in Frame /\ c.frame.src \in DOMAIN Home
         /\ TeachesIp(c.frame) => c.frame.sha = c.frame.src /\ c.frame.spa \in Ip
<1>1. c.at \in Jack
  BY DEF TypeOK
<1> QED BY <1>1, JackParts DEF TypeOK, TeachesIp, Frame

\* The tables after learning still name ports of the switch and hosts.
LEMMA TablesAfter ==
  ASSUME OverlayAssumption, TypeOK, NEW c \in wire
  PROVE  /\ DOMAIN MacsAfter(c) \subseteq DOMAIN Home
         /\ \A m \in DOMAIN MacsAfter(c) : MacsAfter(c)[m] \in [port : Ports[c.at[1]]]
         /\ DOMAIN IpsAfter(c) \subseteq Ip
         /\ \A i \in DOMAIN IpsAfter(c) : IpsAfter(c)[i] \in [mac : DOMAIN Home]
<1>1. /\ c.at[1] \in Switch /\ c.at[2] \in Ports[c.at[1]]
      /\ c.frame.src \in DOMAIN Home
      /\ TeachesIp(c.frame) => c.frame.sha \in DOMAIN Home /\ c.frame.spa \in Ip
  BY CopyParts
<1>2. /\ DOMAIN macs[c.at[1]] \subseteq DOMAIN Home
      /\ \A m \in DOMAIN macs[c.at[1]] : macs[c.at[1]][m] \in [port : Ports[c.at[1]]]
      /\ DOMAIN ips[c.at[1]] \subseteq Ip
      /\ \A i \in DOMAIN ips[c.at[1]] : ips[c.at[1]][i] \in [mac : DOMAIN Home]
  BY <1>1 DEF TypeOK
<1>3. CASE TeachesIp(c.frame)
  BY <1>1, <1>2, <1>3 DEF MacsAfter, Learned, IpsAfter, Put
<1>4. CASE ~ TeachesIp(c.frame)
  BY <1>1, <1>2, <1>4 DEF MacsAfter, Learned, IpsAfter, Put
<1> QED BY <1>3, <1>4

\* A copy that is not answered is forwarded.
Forwarded(c) ==
  {<<c.at[1], q>> : q \in Egress(Ports[c.at[1]], c.at[2], c.frame, MacsAfter(c))}

LEMMA HandleForwards ==
  ASSUME OverlayAssumption, AddressAssumption, TypeOK, NEW c \in wire, Handle(c),
         ~ Answers(c)
  PROVE  /\ Spreads(c, Forwarded(c), c.by, c.frame)
         /\ c.at \notin Forwarded(c)
         /\ misled' = misled /\ answered' = answered
<1> DEFINE n == c.at[1]
           p == c.at[2]
           f == c.frame
           now == {<<w[1], c.no, By(c)>> : w \in Out(c)}
           E == Egress(Ports[n], p, f, MacsAfter(c))
           Q == {<<n, q>> : q \in E}
<1>0. Q = Forwarded(c)
  BY Zenon DEF Forwarded
<1>1. n \in Switch /\ p \in Ports[n] /\ c.at = <<n, p>> /\ c.at \in Jack
  BY CopyParts
<1>2. /\ wire' = (wire \ {c})
           \cup {Copy(Far[w[1]], c.no, By(c), w[2]) : w \in {v \in Out(c) : v[1] \in Link}}
      /\ written' = written \cup now /\ repeated' = repeated \cup (written \cap now)
  BY DEF Handle
<1>3. Writes(Ports[n], p, f, MacsAfter(c), IpsAfter(c)) = {<<q, f>> : q \in E}
  BY DEF Writes, Answers
<1>4. E \subseteq Ports[n] \ {p}
  BY TablesAfter DEF Egress
<1>5. Q \subseteq Jack /\ c.at \notin Q /\ \A j \in Q : j[1] = n
  BY <1>1, <1>4, PortsAreJacks
<1> HIDE DEF E
<1>6. /\ By(c) = c.by
      /\ \A w \in Out(c) : w[1] \in Q /\ w[2] = f
      /\ \A j \in Q : \E w \in Out(c) : w[1] = j /\ w[2] = f
  <2>1. By(c) = c.by
    BY DEF By
  <2>2. ASSUME NEW w \in Out(c) PROVE w[1] \in Q /\ w[2] = f
    <3>1. PICK v \in {<<q, f>> : q \in E} : w = <<<<n, v[1]>>, v[2]>>
      BY <1>3 DEF Out
    <3>2. PICK q \in E : v = <<q, f>>
      OBVIOUS
    <3>3. w = <<<<n, q>>, f>>
      BY <3>1, <3>2
    <3> QED BY <3>3
  <2>3. ASSUME NEW q \in E PROVE <<<<n, q>>, f>> \in Out(c)
    <3>1. \A v \in Writes(Ports[n], p, f, MacsAfter(c), IpsAfter(c)) :
            <<<<n, v[1]>>, v[2]>> \in Out(c)
      BY DEF Out
    <3>2. <<q, f>> \in Writes(Ports[n], p, f, MacsAfter(c), IpsAfter(c))
      BY <1>3
    <3>3. <<<<n, <<q, f>>[1]>>, <<q, f>>[2]>> \in Out(c)
      BY <3>1, <3>2
    <3> QED BY <3>3
  <2>4. ASSUME NEW j \in Q PROVE \E w \in Out(c) : w[1] = j /\ w[2] = f
    <3>1. PICK q \in E : j = <<n, q>>
      OBVIOUS
    <3>2. <<j, f>> \in Out(c) /\ <<j, f>>[1] = j /\ <<j, f>>[2] = f
      BY <2>3, <3>1
    <3> QED BY <3>2
  <2> QED BY <2>1, <2>2, <2>4
<1> HIDE DEF Q
<1>7. now = {<<j, c.no, c.by>> : j \in Q}
  <2>1. ASSUME NEW x \in now PROVE x \in {<<j, c.no, c.by>> : j \in Q}
    BY <1>6
  <2>2. ASSUME NEW j \in Q PROVE <<j, c.no, c.by>> \in now
    BY <1>6
  <2> QED BY <2>1, <2>2
<1>8. wire' = (wire \ {c}) \cup {Copy(Far[j], c.no, c.by, f) : j \in Q \cap Link}
  <2> DEFINE new == {Copy(Far[w[1]], c.no, By(c), w[2]) :
                       w \in {v \in Out(c) : v[1] \in Link}}
  <2>1. ASSUME NEW x \in new PROVE x \in {Copy(Far[j], c.no, c.by, f) : j \in Q \cap Link}
    BY <1>6
  <2>2. ASSUME NEW j \in Q \cap Link PROVE Copy(Far[j], c.no, c.by, f) \in new
    BY <1>6
  <2> DEFINE fwd == {Copy(Far[j], c.no, c.by, f) : j \in Q \cap Link}
  <2>3. new = fwd
    <3>1. \A x \in new : x \in fwd
      BY <2>1
    <3>2. \A x \in fwd : x \in new
      BY <2>2
    <3> HIDE DEF new, fwd
    <3> QED BY <3>1, <3>2
  <2> QED BY <1>2, <2>3
<1>9. misled' = misled
  BY DEF Handle
<1> HIDE DEF now
<1>10. answered' = answered
  BY DEF Handle
<1> QED BY <1>0, <1>2, <1>5, <1>7, <1>8, <1>9, <1>10 DEF Spreads

LEMMA HandleSpreads ==
  ASSUME OverlayAssumption, AddressAssumption, TypeOK, NEW c \in wire, Handle(c)
  PROVE  \E Q, by, g : Spreads(c, Q, by, g)
<1> DEFINE n == c.at[1]
           p == c.at[2]
           f == c.frame
           now == {<<w[1], c.no, By(c)>> : w \in Out(c)}
<1>1. /\ n \in Switch /\ p \in Ports[n] /\ c.at = <<n, p>> /\ c.at \in Jack
      /\ f \in Frame /\ f.src \in DOMAIN Home
  BY CopyParts
<1>2. /\ wire' = (wire \ {c})
           \cup {Copy(Far[w[1]], c.no, By(c), w[2]) : w \in {v \in Out(c) : v[1] \in Link}}
      /\ written' = written \cup now /\ repeated' = repeated \cup (written \cap now)
  BY DEF Handle
<1>3. CASE Answers(c)
  <2> DEFINE g == ArpReply(f, IpsAfter(c)[f.tpa].mac)
  <2>1. Out(c) = {<<c.at, g>>} /\ By(c) = n
    BY <1>1, <1>3 DEF Out, Writes, Answers, By
  <2>2. /\ f.oper = "request" /\ g.oper = "reply" /\ g.sha = g.src
        /\ g.src = IpsAfter(c)[f.tpa].mac
    BY <1>3 DEF Answers, Answerable, ArpReply
  <2>3. g.src \in DOMAIN Home
    <3>1. f.tpa \in DOMAIN IpsAfter(c)
      BY <1>3 DEF Answers, Answerable
    <3>2. IpsAfter(c)[f.tpa] \in [mac : DOMAIN Home]
      BY <3>1, TablesAfter
    <3> QED BY <3>2, <2>2
  <2>4. g \in Frame
    <3>1. g.src \in Mac
      BY <2>3 DEF OverlayAssumption
    <3>2. f.sha \in Mac /\ f.spa \in Ip \cup {NoIp} /\ f.tpa \in Ip \cup {NoIp}
      BY <1>1 DEF Frame
    <3> QED BY <2>2, <3>1, <3>2 DEF ArpReply, Frame
  <2>5. misled' = misled \cup {m \in {g.src} : Towards(c.at, m)}
    BY <1>3, <2>2 DEF Handle
  <2>6. answered' = answered \cup {c.no}
    BY <1>3 DEF Handle
  <2> HIDE DEF g
  <2>7. now = {<<j, c.no, n>> : j \in {c.at}}
    BY <2>1
  <2>8. wire' = (wire \ {c}) \cup {Copy(Far[j], c.no, n, g) : j \in {c.at} \cap Link}
    BY <1>2, <2>1
  <2> HIDE DEF now
  <2>9. Spreads(c, {c.at}, n, g)
    BY <1>1, <1>2, <2>2, <2>3, <2>4, <2>5, <2>6, <2>7, <2>8 DEF Spreads
  <2> QED BY <2>9
<1>4. CASE ~ Answers(c)
  BY <1>4, HandleForwards
<1> QED BY <1>3, <1>4

(***************************************************************************)
(* Types.                                                                  *)
(***************************************************************************)
WireOK(c) ==
  /\ c = Copy(c.at, c.no, c.by, c.frame)
  /\ c.at \in Jack /\ c.no \in Numbers /\ c.by \in Switch \cup {Host}
  /\ c.frame \in Frame /\ c.frame.src \in DOMAIN Home
  /\ TeachesIp(c.frame) => c.frame.sha = c.frame.src

LEMMA SpreadWire ==
  ASSUME OverlayAssumption, TypeOK, NEW c \in wire, NEW Q, NEW by, NEW g,
         Spreads(c, Q, by, g)
  PROVE  /\ \A d \in wire' : WireOK(d)
         /\ by \in Switch \cup {Host}
         /\ written' \subseteq Jack \X Numbers \X (Switch \cup {Host})
         /\ repeated' \subseteq written'
         /\ misled' \subseteq DOMAIN Home
<1>1. /\ by \in Switch \cup {Host} /\ c.no \in Numbers
      /\ g \in Frame /\ g.src \in DOMAIN Home
      /\ TeachesIp(g) => g.sha = g.src
  BY CopyParts DEF Spreads
<1>2. \A d \in wire' : WireOK(d)
  <2>1. \A d \in wire : WireOK(d)
    BY DEF TypeOK, WireOK
  <2>2. ASSUME NEW j \in Q \cap Link PROVE WireOK(Copy(Far[j], c.no, by, g))
    BY <1>1, FarLinks DEF WireOK, Copy
  <2> QED BY <2>1, <2>2 DEF Spreads
<1>3. written' \subseteq Jack \X Numbers \X (Switch \cup {Host})
  BY <1>1 DEF Spreads, TypeOK
<1>4. repeated' \subseteq written' /\ misled' \subseteq DOMAIN Home
  BY DEF Spreads, TypeOK
<1> QED BY <1>1, <1>2, <1>3, <1>4

\* Every variable always has its type.
THEOREM OverlayTypeCorrect == Spec => []TypeOK
<1> USE OverlayAssumption, AddressAssumption
<1>1. Init => TypeOK
  BY DEF Init, TypeOK, NoEntries
<1>2. TypeOK /\ [Next]_vars => TypeOK'
  <2> SUFFICES ASSUME TypeOK, [Next]_vars PROVE TypeOK'
    OBVIOUS
  <2>1. ASSUME NEW l \in Letters, Send(l) PROVE TypeOK'
    <3>1. WireOK(Copy(l.tap, l.no, Host, l.frame))
      BY DEF WireOK, Copy, OverlayAssumption, Numbers
    <3>2. \A d \in wire' : WireOK(d)
      BY <2>1, <3>1 DEF Send, TypeOK, WireOK
    <3> QED BY <2>1, <3>2 DEF Send, TypeOK, WireOK
  <2>2. ASSUME NEW c \in wire, Lose(c) PROVE TypeOK'
    BY <2>2, CopyParts DEF Lose, TypeOK
  <2>3. ASSUME NEW c \in wire, Handle(c) PROVE TypeOK'
    <3>1. PICK Q, by, g : Spreads(c, Q, by, g)
      BY <2>3, HandleSpreads
    <3>2. /\ \A d \in wire' : WireOK(d)
          /\ written' \subseteq Jack \X Numbers \X (Switch \cup {Host})
          /\ repeated' \subseteq written'
          /\ misled' \subseteq DOMAIN Home
      BY <3>1, SpreadWire
    <3>3. /\ DOMAIN macs' = Switch /\ DOMAIN ips' = Switch
          /\ \A n \in Switch :
               /\ DOMAIN macs'[n] \subseteq DOMAIN Home
               /\ \A m \in DOMAIN macs'[n] : macs'[n][m] \in [port : Ports[n]]
               /\ DOMAIN ips'[n] \subseteq Ip
               /\ \A i \in DOMAIN ips'[n] : ips'[n][i] \in [mac : DOMAIN Home]
      <4>1. /\ c.at[1] \in Switch
            /\ macs' = [macs EXCEPT ![c.at[1]] = MacsAfter(c)]
            /\ ips' = [ips EXCEPT ![c.at[1]] = IpsAfter(c)]
        BY <2>3, CopyParts DEF Handle
      <4> QED BY <4>1, TablesAfter DEF TypeOK
    <3>4. unsent' = unsent /\ forgets' = forgets /\ lost' = lost /\ answered' \subseteq Numbers
      BY <2>3, CopyParts DEF Handle, TypeOK
    <3> QED BY <3>2, <3>3, <3>4 DEF TypeOK, WireOK
  <2>4. ASSUME NEW n \in Switch, Forget(n) PROVE TypeOK'
    <3>1. PICK M \in SUBSET DOMAIN macs[n], I \in SUBSET DOMAIN ips[n] :
            /\ macs' = [macs EXCEPT ![n] = Restrict(@, M)]
            /\ ips' = [ips EXCEPT ![n] = Restrict(@, I)]
      BY <2>4 DEF Forget
    <3>2. /\ DOMAIN macs' = Switch /\ DOMAIN ips' = Switch
          /\ \A k \in Switch :
               /\ DOMAIN macs'[k] \subseteq DOMAIN Home
               /\ \A m \in DOMAIN macs'[k] : macs'[k][m] \in [port : Ports[k]]
               /\ DOMAIN ips'[k] \subseteq Ip
               /\ \A i \in DOMAIN ips'[k] : ips'[k][i] \in [mac : DOMAIN Home]
      BY <3>1 DEF Restrict, TypeOK
    <3>3. /\ UNCHANGED <<wire, unsent, written, repeated, lost, answered, misled>>
          /\ forgets' \in 0 .. MaxForget
      BY <2>4 DEF Forget, TypeOK, OverlayAssumption
    <3> QED BY <3>2, <3>3 DEF TypeOK
  <2>5. CASE UNCHANGED vars
    BY <2>5 DEF vars, TypeOK
  <2> QED BY <2>1, <2>2, <2>3, <2>4, <2>5 DEF Next
<1> QED BY <1>1, <1>2, PTL DEF Spec

(***************************************************************************)
(* No duplicates.  Copies of one name are bound for disjoint parts of the  *)
(* network, and none of the jacks there has carried that name yet; nor has *)
(* a switch that a request may still reach answered it.                    *)
(***************************************************************************)
Clean(c) ==
  /\ \A j \in Jack : j[1] \in Ahead(c.at) => <<j, c.no, c.by>> \notin written
  /\ c.by = Host =>
       \A n \in Switch \cap Ahead(c.at) :
         /\ \A j \in Jack : <<j, c.no, n>> \notin written
         /\ \A d \in wire : ~ (d.no = c.no /\ d.by = n)
  /\ c.by # Host => c.frame.oper = "reply"

Apart ==
  /\ repeated = {}
  /\ \A c \in wire : Clean(c)
  /\ \A c, d \in wire :
       c # d /\ c.no = d.no /\ c.by = d.by => Ahead(c.at) \cap Ahead(d.at) = {}
  /\ \A l \in unsent :
       /\ \A c \in wire : c.no # l.no
       /\ \A j \in Jack, x \in Switch \cup {Host} : <<j, l.no, x>> \notin written

\* The copies that are under way after c was handled: the other ones, and at
\* most one beyond each link it was written to.
LEMMA NewCopies ==
  ASSUME NEW c \in wire, NEW Q, NEW by, NEW g, Spreads(c, Q, by, g), NEW d \in wire'
  PROVE  \/ d \in wire \ {c}
         \/ \E k \in Q \cap Link : d = Copy(Far[k], c.no, by, g)
BY DEF Spreads

LEMMA AheadFacts ==
  ASSUME OverlayAssumption, Tree, TypeOK, NEW c \in wire, NEW Q, NEW by, NEW g,
         Spreads(c, Q, by, g), NEW k \in Q \cap Link
  PROVE  /\ c.at[1] \notin Ahead(Far[k])
         /\ k # c.at => Ahead(Far[k]) \subseteq Ahead(c.at)
         /\ \A i \in Q \cap Link : i # k => Ahead(Far[k]) \cap Ahead(Far[i]) = {}
<1>1. k[1] = c.at[1] /\ c.at \in Jack /\ \A i \in Q : i[1] = c.at[1]
  BY CopyParts DEF Spreads
<1> QED BY <1>1, BeyondLink

LEMMA ForwardKeepsApart ==
  ASSUME OverlayAssumption, Tree, TypeOK, Apart, NEW c \in wire, NEW Q, NEW g,
         Spreads(c, Q, c.by, g), c.at \notin Q, g = c.frame, unsent' = unsent
  PROVE  Apart'
<1> DEFINE n == c.at[1]
           now == {<<j, c.no, c.by>> : j \in Q}
<1>1. /\ n \in Switch /\ n \in Ahead(c.at) /\ c.no \in Numbers /\ c.by \in Switch \cup {Host}
      /\ \A j \in Q : j \in Jack /\ j[1] = n
      /\ written' = written \cup now /\ repeated' = repeated \cup (written \cap now)
  BY CopyParts, HereIsAhead DEF Spreads
<1>2. repeated' = {}
  <2>1. \A j \in Q : <<j, c.no, c.by>> \notin written
    BY <1>1 DEF Apart, Clean
  <2> QED BY <1>1, <2>1 DEF Apart
<1>3. ASSUME NEW d \in wire \ {c} PROVE Clean(d)'
  <2>1. d.no = c.no /\ d.by = c.by => n \notin Ahead(d.at)
    BY <1>1 DEF Apart
  <2>2. ASSUME NEW j \in Jack, j[1] \in Ahead(d.at)
        PROVE  <<j, d.no, d.by>> \notin written'
    BY <1>1, <2>1, <2>2 DEF Apart, Clean
  <2>3. ASSUME d.by = Host, NEW m \in Switch \cap Ahead(d.at)
        PROVE  /\ \A j \in Jack : <<j, d.no, m>> \notin written'
               /\ \A e \in wire' : ~ (e.no = d.no /\ e.by = m)
    <3>1. ~ (c.no = d.no /\ c.by = m)
      BY <2>3 DEF Apart, Clean
    <3>2. \A j \in Jack : <<j, d.no, m>> \notin written
      BY <2>3 DEF Apart, Clean
    <3>3. \A e \in wire : ~ (e.no = d.no /\ e.by = m)
      BY <2>3 DEF Apart, Clean
    <3>4. ASSUME NEW e \in wire' PROVE ~ (e.no = d.no /\ e.by = m)
      BY <3>1, <3>3, NewCopies DEF Copy
    <3> QED BY <1>1, <3>1, <3>2, <3>4
  <2> QED BY <2>2, <2>3 DEF Apart, Clean
<1>4. ASSUME NEW k \in Q \cap Link PROVE Clean(Copy(Far[k], c.no, c.by, g))'
  <2>1. n \notin Ahead(Far[k]) /\ Ahead(Far[k]) \subseteq Ahead(c.at)
    BY AheadFacts
  <2>2. ASSUME NEW j \in Jack, j[1] \in Ahead(Far[k])
        PROVE  <<j, c.no, c.by>> \notin written'
    <3>1. <<j, c.no, c.by>> \notin written /\ j \notin Q
      BY <1>1, <2>1, <2>2 DEF Apart, Clean
    <3> QED BY <1>1, <3>1
  <2>3. ASSUME c.by = Host, NEW m \in Switch \cap Ahead(Far[k])
        PROVE  /\ \A j \in Jack : <<j, c.no, m>> \notin written'
               /\ \A e \in wire' : ~ (e.no = c.no /\ e.by = m)
    <3>1. m # Host
      BY DEF OverlayAssumption
    <3>2. /\ \A j \in Jack : <<j, c.no, m>> \notin written
          /\ \A e \in wire : ~ (e.no = c.no /\ e.by = m)
      BY <2>1, <2>3 DEF Apart, Clean
    <3>3. ASSUME NEW e \in wire' PROVE ~ (e.no = c.no /\ e.by = m)
      BY <2>3, <3>1, <3>2, NewCopies DEF Copy
    <3> QED BY <1>1, <2>3, <3>1, <3>2, <3>3
  <2>4. c.by # Host => g.oper = "reply"
    BY DEF Apart, Clean
  <2> QED BY <2>2, <2>3, <2>4 DEF Clean, Copy
<1>5. ASSUME NEW d \in wire', NEW e \in wire', d # e, d.no = e.no, d.by = e.by
      PROVE  Ahead(d.at) \cap Ahead(e.at) = {}
  <2>1. ASSUME NEW x \in wire \ {c}, NEW k \in Q \cap Link, x.no = c.no, x.by = c.by
        PROVE  Ahead(x.at) \cap Ahead(Far[k]) = {}
    <3>1. Ahead(x.at) \cap Ahead(c.at) = {}
      BY <2>1 DEF Apart
    <3> QED BY <3>1, AheadFacts
  <2>2. CASE d \in wire \ {c} /\ e \in wire \ {c}
    BY <1>5, <2>2 DEF Apart
  <2>3. ASSUME NEW k \in Q \cap Link, d = Copy(Far[k], c.no, c.by, g),
               NEW i \in Q \cap Link, e = Copy(Far[i], c.no, c.by, g)
        PROVE  Ahead(d.at) \cap Ahead(e.at) = {}
    <3>1. i # k /\ d.at = Far[k] /\ e.at = Far[i]
      BY <1>5, <2>3 DEF Copy
    <3> QED BY <3>1, AheadFacts
  <2>4. ASSUME d \in wire \ {c}, NEW k \in Q \cap Link, e = Copy(Far[k], c.no, c.by, g)
        PROVE  Ahead(d.at) \cap Ahead(e.at) = {}
    BY <1>5, <2>1, <2>4 DEF Copy
  <2>5. ASSUME e \in wire \ {c}, NEW k \in Q \cap Link, d = Copy(Far[k], c.no, c.by, g)
        PROVE  Ahead(d.at) \cap Ahead(e.at) = {}
    BY <1>5, <2>1, <2>5 DEF Copy
  <2> QED BY <2>2, <2>3, <2>4, <2>5, NewCopies
<1>6. ASSUME NEW l \in unsent
      PROVE  /\ \A d \in wire' : d.no # l.no
             /\ \A j \in Jack, x \in Switch \cup {Host} : <<j, l.no, x>> \notin written'
  <2>1. c.no # l.no /\ \A d \in wire : d.no # l.no
    BY DEF Apart
  <2>2. ASSUME NEW d \in wire' PROVE d.no # l.no
    BY <2>1, NewCopies DEF Copy
  <2> QED BY <1>1, <2>1, <2>2 DEF Apart
<1>7. \A d \in wire' : Clean(d)'
  BY <1>3, <1>4, NewCopies
<1> QED BY <1>2, <1>5, <1>6, <1>7 DEF Apart

LEMMA AnswerKeepsApart ==
  ASSUME OverlayAssumption, Tree, TypeOK, Apart, NEW c \in wire, NEW Q, NEW g,
         Spreads(c, Q, c.at[1], g), Q = {c.at}, c.frame.oper = "request",
         g.oper = "reply", unsent' = unsent
  PROVE  Apart'
<1> DEFINE n == c.at[1]
           r == Copy(Far[c.at], c.no, n, g)
<1>1. /\ n \in Switch /\ n # Host /\ n \in Ahead(c.at) /\ c.at \in Jack /\ c.no \in Numbers
      /\ written' = written \cup {<<c.at, c.no, n>>}
      /\ repeated' = repeated \cup (written \cap {<<c.at, c.no, n>>})
  BY CopyParts, HereIsAhead DEF Spreads, OverlayAssumption
<1>2. /\ c.by = Host
      /\ \A j \in Jack : <<j, c.no, n>> \notin written
      /\ \A d \in wire : ~ (d.no = c.no /\ d.by = n)
  BY <1>1 DEF Apart, Clean
<1>3. repeated' = {}
  BY <1>1, <1>2 DEF Apart
<1>4. ASSUME NEW d \in wire' PROVE d \in wire \ {c} \/ (d = r /\ c.at \in Link)
  BY NewCopies DEF Copy
<1>5. ASSUME NEW d \in wire \ {c} PROVE Clean(d)'
  <2>1. ASSUME NEW j \in Jack, j[1] \in Ahead(d.at)
        PROVE  <<j, d.no, d.by>> \notin written'
    BY <1>1, <1>2, <2>1 DEF Apart, Clean
  <2>2. ASSUME d.by = Host, NEW m \in Switch \cap Ahead(d.at)
        PROVE  /\ \A j \in Jack : <<j, d.no, m>> \notin written'
               /\ \A e \in wire' : ~ (e.no = d.no /\ e.by = m)
    <3>1. d.no = c.no => m # n
      BY <1>1, <1>2, <2>2 DEF Apart
    <3>2. /\ \A j \in Jack : <<j, d.no, m>> \notin written
          /\ \A e \in wire : ~ (e.no = d.no /\ e.by = m)
      BY <2>2 DEF Apart, Clean
    <3>3. ~ (r.no = d.no /\ r.by = m)
      BY <3>1 DEF Copy
    <3> QED BY <1>1, <1>4, <3>1, <3>2, <3>3
  <2> QED BY <2>1, <2>2 DEF Apart, Clean
<1>6. ASSUME c.at \in Link PROVE Clean(r)'
  <2>1. n \notin Ahead(Far[c.at])
    BY <1>6, BeyondLink
  <2>2. ASSUME NEW j \in Jack, j[1] \in Ahead(Far[c.at])
        PROVE  <<j, c.no, n>> \notin written'
    BY <1>1, <1>2, <2>1, <2>2
  <2> QED BY <1>1, <2>2 DEF Clean, Copy
<1>7. ASSUME NEW d \in wire', NEW e \in wire', d # e, d.no = e.no, d.by = e.by
      PROVE  Ahead(d.at) \cap Ahead(e.at) = {}
  <2>1. r.no = c.no /\ r.by = n
    BY DEF Copy
  <2>2. d \in wire \ {c} /\ e \in wire \ {c}
    BY <1>2, <1>4, <1>7, <2>1
  <2> QED BY <1>7, <2>2 DEF Apart
<1>8. ASSUME NEW l \in unsent
      PROVE  /\ \A d \in wire' : d.no # l.no
             /\ \A j \in Jack, x \in Switch \cup {Host} : <<j, l.no, x>> \notin written'
  <2>1. c.no # l.no /\ r.no = c.no
    BY DEF Apart, Copy
  <2> QED BY <1>1, <1>4, <2>1 DEF Apart
<1>9. \A d \in wire' : Clean(d)'
  BY <1>4, <1>5, <1>6
<1> QED BY <1>3, <1>7, <1>8, <1>9 DEF Apart

LEMMA SendKeepsApart ==
  ASSUME OverlayAssumption, Tree, TypeOK, Apart, NEW l \in Letters, Send(l)
  PROVE  Apart'
<1> DEFINE s == Copy(l.tap, l.no, Host, l.frame)
<1>1. /\ l \in unsent /\ unsent' = unsent \ {l} /\ wire' = wire \cup {s}
      /\ written' = written /\ repeated' = repeated
  BY DEF Send
<1>2. s.at = l.tap /\ s.no = l.no /\ s.by = Host /\ s.frame = l.frame
  BY DEF Copy
<1>3. /\ \A c \in wire : c.no # l.no
      /\ \A j \in Jack, x \in Switch \cup {Host} : <<j, l.no, x>> \notin written
  BY <1>1 DEF Apart
<1>4. ASSUME NEW c \in wire PROVE Clean(c)'
  <2>1. Clean(c) /\ c.no # l.no
    BY <1>3 DEF Apart
  <2>2. \A d \in wire' : d \in wire \/ d.no = l.no
    BY <1>1, <1>2
  <2> QED BY <1>1, <2>1, <2>2 DEF Clean
<1>5. Clean(s)'
  <2>1. \A d \in wire' : d.no = l.no => d = s
    BY <1>1, <1>3
  <2>2. Host \notin Switch
    BY DEF OverlayAssumption
  <2> QED BY <1>1, <1>2, <1>3, <2>1, <2>2 DEF Clean
<1>6. \A c, d \in wire' :
        c # d /\ c.no = d.no /\ c.by = d.by => Ahead(c.at) \cap Ahead(d.at) = {}
  BY <1>1, <1>2, <1>3 DEF Apart
<1>7. \A k \in unsent' :
        /\ \A c \in wire' : c.no # k.no
        /\ \A j \in Jack, x \in Switch \cup {Host} : <<j, k.no, x>> \notin written'
  <2>1. \A k \in unsent' : k \in unsent /\ k.no # l.no
    BY <1>1 DEF OverlayAssumption, TypeOK
  <2> QED BY <1>1, <1>2, <2>1 DEF Apart
<1> QED BY <1>1, <1>4, <1>5, <1>6, <1>7 DEF Apart

\* In a tree no frame is written twice to a jack, whatever is lost, reordered or
\* forgotten.
THEOREM FloodsDoNotMultiply == ASSUME Tree PROVE Spec => []NoDuplicates
<1> USE OverlayAssumption, AddressAssumption
<1>1. Init => Apart
  BY DEF Init, Apart
<1>2. TypeOK /\ Apart /\ [Next]_vars => Apart'
  <2> SUFFICES ASSUME TypeOK, Apart, [Next]_vars PROVE Apart'
    OBVIOUS
  <2>1. ASSUME NEW l \in Letters, Send(l) PROVE Apart'
    BY <2>1, SendKeepsApart
  <2>2. ASSUME NEW c \in wire, Lose(c) PROVE Apart'
    BY <2>2 DEF Lose, Apart, Clean
  <2>3. ASSUME NEW c \in wire, Handle(c) PROVE Apart'
    <3>1. PICK Q, by, g : Spreads(c, Q, by, g)
      BY <2>3, HandleSpreads
    <3>2. unsent' = unsent
      BY <2>3 DEF Handle
    <3>3. CASE by = c.by /\ c.at \notin Q /\ g = c.frame
      BY <3>1, <3>2, <3>3, ForwardKeepsApart
    <3>4. CASE by = c.at[1] /\ Q = {c.at} /\ c.frame.oper = "request" /\ g.oper = "reply"
      BY <3>1, <3>2, <3>4, AnswerKeepsApart
    <3> QED BY <3>1, <3>3, <3>4 DEF Spreads
  <2>4. ASSUME NEW n \in Switch, Forget(n) PROVE Apart'
    <3>1. UNCHANGED <<wire, unsent, written, repeated>>
      BY <2>4, Zenon DEF Forget
    <3> QED BY <3>1 DEF Apart, Clean
  <2>5. CASE UNCHANGED vars
    BY <2>5 DEF vars, Apart, Clean
  <2> QED BY <2>1, <2>2, <2>3, <2>4, <2>5 DEF Next
<1>3. Apart => NoDuplicates
  BY DEF Apart, NoDuplicates
<1> QED BY <1>1, <1>2, <1>3, OverlayTypeCorrect, PTL DEF Spec

(***************************************************************************)
(* Learned ports.  A frame in the name of a host comes from the host's     *)
(* side, unless the host is misled, so learning from it is right.          *)
(***************************************************************************)
Honest ==
  /\ \A n \in Switch : \A m \in DOMAIN macs[n] \ misled :
       Towards(<<n, macs[n][m].port>>, m)
  /\ \A c \in wire : c.frame.src \notin misled => Towards(c.at, c.frame.src)

LEMMA HomeParts ==
  ASSUME OverlayAssumption, NEW m \in DOMAIN Home
  PROVE  Home[m] \in Jack \ Link /\ Home[m][1] \in Switch
BY JackParts DEF OverlayAssumption

\* What comes from the host's side still does after one more hop ...
LEMMA FurtherAway ==
  ASSUME OverlayAssumption, Tree, NEW j \in Jack, NEW k \in Link, j # k, j[1] = k[1],
         NEW m \in DOMAIN Home, Towards(j, m)
  PROVE  Towards(Far[k], m)
<1>1. CASE j \in Link
  <2>1. Behind[j] \subseteq Behind[Far[k]]
    BY <1>1, BehindFar DEF Links
  <2> QED BY <1>1, <2>1, FarLinks DEF Towards
<1>2. CASE j \notin Link
  BY <1>2, BehindFar, FarLinks DEF Towards
<1> QED BY <1>1, <1>2

\* ... and what goes away from the host comes from its side.
LEMMA OtherWay ==
  ASSUME OverlayAssumption, Tree, NEW k \in Link, NEW m \in DOMAIN Home, ~ Towards(k, m)
  PROVE  Towards(Far[k], m)
BY BehindFar, FarLinks, HomeParts DEF Towards

LEMMA HandleKeepsHonest ==
  ASSUME OverlayAssumption, AddressAssumption, Tree, TypeOK, Honest,
         NEW c \in wire, Handle(c)
  PROVE  Honest'
<1> DEFINE n == c.at[1]
<1>1. PICK Q, by, g : Spreads(c, Q, by, g)
  BY HandleSpreads
<1>2. /\ n \in Switch /\ c.at = <<n, c.at[2]>> /\ c.at \in Jack
      /\ c.frame.src \in DOMAIN Home /\ misled \subseteq misled'
  BY <1>1, CopyParts DEF Spreads
<1>3. ASSUME NEW k \in Switch, NEW m \in DOMAIN macs'[k] \ misled'
      PROVE  Towards(<<k, macs'[k][m].port>>, m)
  <2>1. macs' = [macs EXCEPT ![n] = MacsAfter(c)]
    BY DEF Handle
  <2>2. CASE k # n
    <3>1. macs'[k] = macs[k]
      BY <1>2, <2>1, <2>2 DEF TypeOK
    <3> QED BY <1>2, <3>1 DEF Honest
  <2>3. CASE k = n
    <3>1. macs'[n] = Put(macs[n], c.frame.src, [port |-> c.at[2]])
      BY <1>2, <2>1 DEF TypeOK, MacsAfter, Learned
    <3>2. CASE m = c.frame.src
      BY <1>2, <2>3, <3>1, <3>2 DEF Put, Honest
    <3>3. CASE m # c.frame.src
      BY <1>2, <2>3, <3>1, <3>3 DEF Put, Honest
    <3> QED BY <3>2, <3>3
  <2> QED BY <2>2, <2>3
<1>4. ASSUME NEW d \in wire', d.frame.src \notin misled'
      PROVE  Towards(d.at, d.frame.src)
  <2>1. CASE d \in wire
    BY <1>2, <1>4, <2>1 DEF Honest
  <2>2. ASSUME NEW k \in Q \cap Link, d = Copy(Far[k], c.no, by, g)
        PROVE  Towards(d.at, d.frame.src)
    <3>1. d.at = Far[k] /\ d.frame = g
      BY <2>2 DEF Copy
    <3>2. CASE c.at \notin Q /\ g = c.frame
      <4>1. Towards(c.at, g.src) /\ g.src \in DOMAIN Home
        BY <1>2, <1>4, <3>1, <3>2 DEF Honest
      <4>2. k[1] = n /\ k # c.at
        BY <1>1, <3>2 DEF Spreads
      <4> QED BY <1>2, <3>1, <4>1, <4>2, FurtherAway
    <3>3. CASE /\ Q = {c.at} /\ g.src \in DOMAIN Home
               /\ misled' = misled \cup {m \in {g.src} : Towards(c.at, m)}
      <4>1. k = c.at /\ ~ Towards(c.at, g.src)
        BY <1>4, <3>1, <3>3
      <4> QED BY <3>1, <3>3, <4>1, OtherWay
    <3> QED BY <1>1, <3>2, <3>3 DEF Spreads
  <2> QED BY <1>1, <2>1, <2>2, NewCopies
<1> QED BY <1>3, <1>4 DEF Honest, Towards

LEMMA AlwaysHonest == ASSUME Tree PROVE Spec => []Honest
<1> USE OverlayAssumption, AddressAssumption
<1>1. Init => Honest
  BY DEF Init, Honest, NoEntries
<1>2. TypeOK /\ Honest /\ [Next]_vars => Honest'
  <2> SUFFICES ASSUME TypeOK, Honest, [Next]_vars PROVE Honest'
    OBVIOUS
  <2>1. ASSUME NEW l \in Letters, Send(l) PROVE Honest'
    <3> DEFINE s == Copy(l.tap, l.no, Host, l.frame)
    <3>1. wire' = wire \cup {s} /\ macs' = macs /\ misled' = misled
      BY <2>1 DEF Send
    <3>2. Towards(s.at, s.frame.src)
      BY DEF Copy, Towards, OverlayAssumption
    <3> QED BY <3>1, <3>2 DEF Honest, Towards
  <2>2. ASSUME NEW c \in wire, Lose(c) PROVE Honest'
    BY <2>2 DEF Lose, Honest, Towards
  <2>3. ASSUME NEW c \in wire, Handle(c) PROVE Honest'
    BY <2>3, HandleKeepsHonest
  <2>4. ASSUME NEW n \in Switch, Forget(n) PROVE Honest'
    <3>1. PICK M \in SUBSET DOMAIN macs[n] : macs' = [macs EXCEPT ![n] = Restrict(@, M)]
      BY <2>4 DEF Forget
    <3>2. wire' = wire /\ misled' = misled
      BY <2>4 DEF Forget
    <3>3. ASSUME NEW k \in Switch
          PROVE  /\ DOMAIN macs'[k] \subseteq DOMAIN macs[k]
                 /\ \A m \in DOMAIN macs'[k] : macs'[k][m] = macs[k][m]
      BY <3>1 DEF Restrict, TypeOK
    <3>4. ASSUME NEW k \in Switch, NEW m \in DOMAIN macs'[k] \ misled'
          PROVE  Towards(<<k, macs'[k][m].port>>, m)
      <4>1. m \in DOMAIN macs[k] \ misled /\ macs'[k][m] = macs[k][m]
        BY <3>2, <3>3
      <4>2. Towards(<<k, macs[k][m].port>>, m)
        BY <4>1 DEF Honest
      <4> QED BY <4>1, <4>2
    <3> QED BY <3>2, <3>4 DEF Honest, Towards
  <2>5. CASE UNCHANGED vars
    <3>1. UNCHANGED <<macs, wire, misled>>
      BY <2>5, Zenon DEF vars
    <3> QED BY <3>1 DEF Honest, Towards
  <2> QED BY <2>1, <2>2, <2>3, <2>4, <2>5 DEF Next
<1> QED BY <1>1, <1>2, OverlayTypeCorrect, PTL DEF Spec

\* In a tree every learned port leads to its host, unless a switch answered for
\* the host towards the host.
THEOREM LearnedPortsLeadHome == ASSUME Tree PROVE Spec => []EntriesLeadHome
<1>1. Honest => EntriesLeadHome
  BY DEF Honest, EntriesLeadHome
<1> QED BY <1>1, AlwaysHonest, PTL

(***************************************************************************)
(* Delivery.  As long as a letter has not been everywhere it is for, a     *)
(* copy of it is bound that way: a flood is under way to every switch with *)
(* a TAP device that does not have it, and a frame to a host is on a jack  *)
(* from which the host is still ahead.                                     *)
(***************************************************************************)
Of(c, l) == c.no = l.no /\ c.by = Host

Flooding(l) ==
  \A j \in Jack \ (Link \cup {l.tap}) :
    <<j, l.no, Host>> \in written \/ \E c \in wire : Of(c, l) /\ j[1] \in Ahead(c.at)

Seeking(l) ==
  Arrived(l) \/ \E c \in wire : Of(c, l) /\ ~ Towards(c.at, l.frame.dst)

Pending ==
  /\ \A c \in wire : c.by = Host =>
       \E l \in Letters \ unsent :
         c.no = l.no /\ c.frame = l.frame /\ (c.at \notin Link => c.at = l.tap)
  /\ \A l \in Floods \ unsent : Flooding(l) \/ l.no \in lost \cup answered
  /\ \A l \in ToHosts \ unsent :
       Seeking(l) \/ l.no \in lost \cup answered \/ l.frame.dst \in misled

LEMMA WhoseCopy ==
  ASSUME OverlayAssumption, Pending, NEW l \in Letters, NEW c \in wire, Of(c, l)
  PROVE  /\ c.no = l.no /\ c.by = Host /\ c.frame = l.frame
         /\ c.at \notin Link => c.at = l.tap
<1>1. PICK k \in Letters :
        c.no = k.no /\ c.frame = k.frame /\ (c.at \notin Link => c.at = k.tap)
  BY DEF Pending, Of
<1>2. k = l
  BY <1>1 DEF Of, OverlayAssumption
<1> QED BY <1>1, <1>2 DEF Of

\* A copy forwarded over link k is under way afterwards.
LEMMA UnderWay ==
  ASSUME NEW c \in wire, NEW Q, Spreads(c, Q, c.by, c.frame), NEW l, Of(c, l),
         NEW k \in Q \cap Link
  PROVE  \E d \in wire' : Of(d, l) /\ d.at = Far[k]
<1> DEFINE d == Copy(Far[k], c.no, c.by, c.frame)
<1>1. d \in wire'
  BY DEF Spreads
<1>2. Of(d, l) /\ d.at = Far[k]
  BY DEF Of, Copy
<1> QED BY <1>1, <1>2

LEMMA Stays ==
  ASSUME NEW c \in wire, NEW Q, NEW by, NEW g, Spreads(c, Q, by, g)
  PROVE  wire \ {c} \subseteq wire' /\ written \subseteq written'
BY DEF Spreads

\* A forwarded frame that is flooded is written to every other port.
LEMMA FloodedOut ==
  ASSUME TypeOK, NEW c \in wire,
         IsMulticast(c.frame.dst) \/ c.frame.dst \notin DOMAIN MacsAfter(c),
         NEW j \in Jack, j[1] = c.at[1], j # c.at
  PROVE  j \in Forwarded(c)
<1>1. j[2] \in Ports[c.at[1]] /\ j = <<c.at[1], j[2]>> /\ c.at = <<c.at[1], c.at[2]>>
  BY JackParts, CopyParts
<1>2. j[2] # c.at[2]
  BY <1>1
<1>3. j[2] \in Egress(Ports[c.at[1]], c.at[2], c.frame, MacsAfter(c))
  BY <1>1, <1>2 DEF Egress
<1> QED BY <1>1, <1>3 DEF Forwarded

LEMMA HandleKeepsFlooding ==
  ASSUME OverlayAssumption, AddressAssumption, Tree, TypeOK, Pending,
         NEW c \in wire, Handle(c), NEW l \in Floods, Flooding(l)
  PROVE  Flooding(l)' \/ l.no \in answered'
<1>1. CASE Of(c, l) /\ Answers(c)
  BY <1>1 DEF Handle, Of
<1>2. CASE Of(c, l) /\ ~ Answers(c)
  <2> DEFINE Q == Forwarded(c)
  <2>1. /\ Spreads(c, Q, c.by, c.frame)
        /\ l \in Letters /\ IsMulticast(c.frame.dst)
        /\ c.no = l.no /\ c.by = Host /\ (c.at \notin Link => c.at = l.tap)
        /\ c.at \in Jack /\ c.at[1] \in Switch
    BY <1>2, HandleForwards, WhoseCopy, CopyParts DEF Floods
  <2>2. written' = written \cup {<<j, l.no, Host>> : j \in Q}
    BY <2>1 DEF Spreads
  <2> HIDE DEF Q
  <2>3. ASSUME NEW j \in Jack \ (Link \cup {l.tap}), j[1] \in Ahead(c.at)
        PROVE  <<j, l.no, Host>> \in written' \/ \E d \in wire' : Of(d, l) /\ j[1] \in Ahead(d.at)
    <3>1. CASE j[1] = c.at[1]
      <4>1. j # c.at
        BY <2>1, <2>3
      <4>2. j \in Q
        BY <2>1, <3>1, <4>1, FloodedOut DEF Q
      <4> QED BY <2>2, <4>2
    <3>2. CASE j[1] # c.at[1]
      <4>1. PICK k \in Links(c.at[1]) : j[1] \in Behind[k]
        BY <2>1, <3>2, EveryWayLeads, JackParts
      <4>2. k \in Link /\ k \in Jack /\ k[1] = c.at[1] /\ j[1] \in Ahead(Far[k])
        BY <4>1, FarLinks, EveryWayLeads DEF Links
      <4>3. k # c.at
        BY <2>3, <4>1, <4>2 DEF Ahead
      <4>4. k \in Q
        BY <2>1, <4>2, <4>3, FloodedOut DEF Q
      <4>5. PICK d \in wire' : Of(d, l) /\ d.at = Far[k]
        BY <1>2, <2>1, <4>2, <4>4, UnderWay
      <4> QED BY <4>2, <4>5
    <3> QED BY <3>1, <3>2
  <2>4. ASSUME NEW j \in Jack \ (Link \cup {l.tap}), j[1] \notin Ahead(c.at)
        PROVE  <<j, l.no, Host>> \in written' \/ \E d \in wire' : Of(d, l) /\ j[1] \in Ahead(d.at)
    <3>1. wire \ {c} \subseteq wire' /\ written \subseteq written'
      BY <2>1, Stays
    <3> QED BY <2>4, <3>1 DEF Flooding
  <2> QED BY <2>3, <2>4 DEF Flooding
<1>3. CASE ~ Of(c, l)
  <2>1. wire \ {c} \subseteq wire' /\ written \subseteq written'
    BY HandleSpreads, Stays
  <2> QED BY <1>3, <2>1 DEF Flooding
<1> QED BY <1>1, <1>2, <1>3

\* Where a frame to a host that is ahead goes next: to the host or further that way.
LEMMA NextHop ==
  ASSUME OverlayAssumption, Tree, TypeOK, Honest, Honest',
         NEW c \in wire, Handle(c), misled' = misled, NEW m \in DOMAIN Home \ misled,
         m = c.frame.dst, m # c.frame.src, ~ Towards(c.at, m), Home[m] # c.at
  PROVE  \E j \in Forwarded(c) \cap Jack : Towards(j, m)
<1> DEFINE n == c.at[1]
<1>1. /\ n \in Switch /\ c.at = <<n, c.at[2]>> /\ c.at \in Jack
      /\ Home[m] \in Jack \ Link /\ Home[m][1] \in Switch
  BY CopyParts, HomeParts
<1>2. CASE IsMulticast(c.frame.dst) \/ c.frame.dst \notin DOMAIN MacsAfter(c)
  <2>1. CASE Home[m][1] = n
    <3>1. Home[m] \in Forwarded(c)
      BY <1>1, <1>2, <2>1, FloodedOut
    <3> QED BY <1>1, <3>1 DEF Towards
  <2>2. CASE Home[m][1] # n
    <3>1. PICK k \in Links(n) : Home[m][1] \in Behind[k]
      BY <1>1, <2>2, EveryWayLeads
    <3>2. k \in Link /\ k \in Jack /\ k[1] = n /\ Towards(k, m)
      BY <3>1, FarLinks DEF Links, Towards
    <3>3. k \in Forwarded(c)
      BY <1>2, <3>2, FloodedOut
    <3> QED BY <3>2, <3>3
  <2> QED BY <2>1, <2>2
<1>3. CASE ~ IsMulticast(c.frame.dst) /\ c.frame.dst \in DOMAIN MacsAfter(c)
  <2> DEFINE q == MacsAfter(c)[m].port
             j == <<n, q>>
  <2>1. q \in Ports[n]
    BY <1>3, TablesAfter
  <2>2. macs'[n] = MacsAfter(c)
    BY <1>1 DEF Handle, TypeOK
  <2>3. Towards(j, m)
    <3>1. m \in DOMAIN macs'[n] \ misled' /\ macs'[n][m].port = q
      BY <1>3, <2>2
    <3>2. \A k \in Switch : \A x \in DOMAIN macs'[k] \ misled' :
            Towards(<<k, macs'[k][x].port>>, x)
      BY DEF Honest, Towards
    <3>3. Towards(<<n, macs'[n][m].port>>, m)
      BY <1>1, <3>1, <3>2
    <3> QED BY <3>1, <3>3
  <2>4. q # c.at[2]
    BY <1>1, <2>3
  <2>5. Egress(Ports[n], c.at[2], c.frame, MacsAfter(c)) = {q} \ {c.at[2]}
    BY <1>3 DEF Egress
  <2>6. j \in Forwarded(c)
    BY <2>4, <2>5 DEF Forwarded
  <2>7. j \in Jack
    BY <1>1, <2>1, PortsAreJacks
  <2> QED BY <2>3, <2>6, <2>7
<1> QED BY <1>2, <1>3

LEMMA HandleKeepsSeeking ==
  ASSUME OverlayAssumption, AddressAssumption, Tree, TypeOK, Honest, Honest', Pending,
         NEW c \in wire, Handle(c), NEW l \in ToHosts, Seeking(l)
  PROVE  Seeking(l)' \/ l.no \in answered' \/ l.frame.dst \in misled'
<1> DEFINE m == l.frame.dst
<1>1. CASE Of(c, l) /\ Answers(c)
  BY <1>1 DEF Handle, Of
<1>2. wire \ {c} \subseteq wire' /\ written \subseteq written'
  BY HandleSpreads, Stays
<1>3. CASE Arrived(l) \/ ~ Of(c, l) \/ Towards(c.at, m)
  BY <1>2, <1>3 DEF Seeking, Arrived, Towards
<1>4. CASE Of(c, l) /\ ~ Answers(c) /\ ~ Towards(c.at, m)
  <2>1. /\ Spreads(c, Forwarded(c), c.by, c.frame) /\ misled' = misled
        /\ l \in Letters /\ m \in DOMAIN Home /\ Home[m] # l.tap
        /\ c.no = l.no /\ c.by = Host /\ c.frame = l.frame
        /\ c.at \notin Link => c.at = l.tap
    BY <1>4, HandleForwards, WhoseCopy DEF ToHosts
  <2>2. CASE m \in misled
    BY <2>1, <2>2
  <2>3. CASE m \notin misled
    <3>1. m # c.frame.src /\ Home[m] # c.at
      BY <2>1, HomeParts DEF OverlayAssumption
    <3>2. PICK j \in Forwarded(c) \cap Jack : Towards(j, m)
      BY <1>4, <2>1, <2>3, <3>1, NextHop
    <3>3. CASE j \in Link
      <4>1. PICK d \in wire' : Of(d, l) /\ d.at = Far[j]
        BY <1>4, <2>1, <3>2, <3>3, UnderWay
      <4>2. ~ Towards(Far[j], m)
        BY <2>1, <3>2, <3>3, FarLinks DEF Towards, Tree
      <4> QED BY <4>1, <4>2 DEF Seeking, Towards
    <3>4. CASE j \notin Link
      <4>1. j = Home[m] /\ <<j, c.no, c.by>> \in written'
        BY <2>1, <3>2, <3>4 DEF Towards, Spreads
      <4>2. <<Home[m], l.no, Host>> \in written'
        BY <2>1, <4>1
      <4> QED BY <4>2 DEF Seeking, Arrived
    <3> QED BY <3>3, <3>4
  <2> QED BY <2>2, <2>3
<1> QED BY <1>1, <1>3, <1>4

LEMMA SendKeepsPending ==
  ASSUME OverlayAssumption, Tree, TypeOK, Pending, NEW l \in Letters, Send(l)
  PROVE  Pending'
<1> DEFINE s == Copy(l.tap, l.no, Host, l.frame)
<1>1. /\ l \in unsent /\ unsent' = unsent \ {l} /\ wire' = wire \cup {s}
      /\ written' = written /\ lost' = lost /\ answered' = answered /\ misled' = misled
  BY DEF Send
<1>2. s.at = l.tap /\ s.no = l.no /\ s.by = Host /\ s.frame = l.frame /\ Of(s, l)
  BY DEF Copy, Of
<1>3. l.tap \in Jack \ Link
  BY DEF OverlayAssumption
<1> HIDE DEF s
<1>4. ASSUME NEW c \in wire', c.by = Host
      PROVE  \E k \in Letters \ unsent' :
               c.no = k.no /\ c.frame = k.frame /\ (c.at \notin Link => c.at = k.tap)
  BY <1>1, <1>2, <1>4 DEF Pending
<1>5. Flooding(l)'
  <2>1. \A j \in Jack : j[1] \in Ahead(s.at)
    BY <1>2, <1>3, JackParts DEF Ahead
  <2> QED BY <1>1, <1>2, <2>1 DEF Flooding
<1>6. l \in ToHosts => Seeking(l)'
  BY <1>1, <1>2, <1>3 DEF ToHosts, Seeking, Towards
<1>7. ASSUME NEW k \in Letters \ unsent', k # l
      PROVE  /\ k \notin unsent
             /\ Flooding(k) => Flooding(k)'
             /\ Seeking(k) => Seeking(k)'
  BY <1>1, <1>7 DEF Flooding, Seeking, Arrived, Towards
<1>8. ASSUME NEW k \in Floods \ unsent'
      PROVE  Flooding(k)' \/ k.no \in lost' \cup answered'
  BY <1>1, <1>5, <1>7 DEF Pending, Floods
<1>9. ASSUME NEW k \in ToHosts \ unsent'
      PROVE  Seeking(k)' \/ k.no \in lost' \cup answered' \/ k.frame.dst \in misled'
  BY <1>1, <1>6, <1>7 DEF Pending, ToHosts
<1> QED BY <1>4, <1>8, <1>9 DEF Pending

LEMMA HandleKeepsPending ==
  ASSUME OverlayAssumption, AddressAssumption, Tree, TypeOK, Honest, Honest', Pending,
         NEW c \in wire, Handle(c)
  PROVE  Pending'
<1>1. PICK Q, by, g : Spreads(c, Q, by, g)
  BY HandleSpreads
<1>2. /\ unsent' = unsent /\ lost' = lost
      /\ answered \subseteq answered' /\ misled \subseteq misled'
  BY <1>1 DEF Handle, Spreads
<1>3. ASSUME NEW d \in wire', d.by = Host
      PROVE  \E l \in Letters \ unsent :
               d.no = l.no /\ d.frame = l.frame /\ (d.at \notin Link => d.at = l.tap)
  <2>1. CASE d \in wire
    BY <1>3, <2>1 DEF Pending
  <2>2. ASSUME NEW k \in Q \cap Link, d = Copy(Far[k], c.no, by, g)
        PROVE  /\ c.by = Host /\ d.no = c.no /\ d.frame = c.frame /\ d.at \in Link
    <3>1. d.at = Far[k] /\ d.no = c.no /\ d.by = by /\ d.frame = g
      BY <2>2 DEF Copy
    <3>2. c.at[1] # Host /\ Far[k] \in Link
      BY CopyParts, FarLinks DEF OverlayAssumption
    <3> QED BY <1>1, <1>3, <3>1, <3>2 DEF Spreads
  <2> QED BY <1>1, <2>1, <2>2, NewCopies DEF Pending
<1>4. ASSUME NEW l \in Floods \ unsent
      PROVE  Flooding(l)' \/ l.no \in lost' \cup answered'
  BY <1>2, HandleKeepsFlooding DEF Pending
<1>5. ASSUME NEW l \in ToHosts \ unsent
      PROVE  Seeking(l)' \/ l.no \in lost' \cup answered' \/ l.frame.dst \in misled'
  BY <1>2, HandleKeepsSeeking DEF Pending
<1> QED BY <1>2, <1>3, <1>4, <1>5 DEF Pending

LEMMA LoseKeepsPending ==
  ASSUME Pending, NEW c \in wire, Lose(c)
  PROVE  Pending'
<1>1. /\ wire' = wire \ {c} /\ lost' = lost \cup {c.no}
      /\ unsent' = unsent /\ written' = written /\ answered' = answered /\ misled' = misled
  BY DEF Lose
<1>2. ASSUME NEW l, c.no # l.no
      PROVE  /\ Flooding(l) => Flooding(l)'
             /\ Seeking(l) => Seeking(l)'
  BY <1>1, <1>2 DEF Flooding, Seeking, Arrived, Towards, Of
<1>3. ASSUME NEW l \in Floods \ unsent PROVE Flooding(l)' \/ l.no \in lost' \cup answered'
  BY <1>1, <1>2 DEF Pending
<1>4. ASSUME NEW l \in ToHosts \ unsent
      PROVE  Seeking(l)' \/ l.no \in lost' \cup answered' \/ l.frame.dst \in misled'
  BY <1>1, <1>2 DEF Pending
<1> QED BY <1>1, <1>3, <1>4 DEF Pending

LEMMA AlwaysPending == ASSUME Tree PROVE Spec => []Pending
<1> USE OverlayAssumption, AddressAssumption
<1>1. Init => Pending
  BY DEF Init, Pending, Floods, ToHosts
<1>2. TypeOK /\ Honest /\ Honest' /\ Pending /\ [Next]_vars => Pending'
  <2> SUFFICES ASSUME TypeOK, Honest, Honest', Pending, [Next]_vars PROVE Pending'
    OBVIOUS
  <2>1. ASSUME NEW l \in Letters, Send(l) PROVE Pending'
    BY <2>1, SendKeepsPending
  <2>2. ASSUME NEW c \in wire, Lose(c) PROVE Pending'
    BY <2>2, LoseKeepsPending
  <2>3. ASSUME NEW c \in wire, Handle(c) PROVE Pending'
    BY <2>3, HandleKeepsPending
  <2>4. ASSUME UNCHANGED <<wire, unsent, written, lost, answered, misled>> PROVE Pending'
    BY <2>4 DEF Pending, Flooding, Seeking, Arrived, Towards, Of
  <2>5. ASSUME NEW n \in Switch, Forget(n) PROVE Pending'
    <3>1. UNCHANGED <<wire, unsent, written, lost, answered, misled>>
      BY <2>5, Zenon DEF Forget
    <3> QED BY <2>4, <3>1
  <2>6. CASE UNCHANGED vars
    <3>1. UNCHANGED <<wire, unsent, written, lost, answered, misled>>
      BY <2>6, Zenon DEF vars
    <3> QED BY <2>4, <3>1
  <2> QED BY <2>1, <2>2, <2>3, <2>5, <2>6 DEF Next
<1> QED BY <1>1, <1>2, OverlayTypeCorrect, AlwaysHonest, PTL DEF Spec

\* In a tree a flood ends only where every TAP device but the sender's has the
\* frame, unless a copy was lost or a switch answered it.
THEOREM FloodsAreComplete == ASSUME Tree PROVE Spec => []FloodIsComplete
<1>1. Pending => FloodIsComplete
  <2> SUFFICES ASSUME Pending, NEW l \in Floods, Settled(l), l.no \notin lost \cup answered
               PROVE  ReachedAll(l)
    BY DEF FloodIsComplete
  <2>1. Flooding(l) /\ \A c \in wire : ~ Of(c, l)
    BY DEF Pending, Settled, Of
  <2> QED BY <2>1 DEF Flooding, ReachedAll
<1> QED BY <1>1, AlwaysPending, PTL

\* In a tree a frame to a host comes to an end only at the host, unless a copy was
\* lost, a switch answered it, or answered for the host towards the host.
THEOREM UnicastsAreComplete == ASSUME Tree PROVE Spec => []UnicastIsComplete
<1>1. Pending => UnicastIsComplete
  <2> SUFFICES ASSUME Pending, NEW l \in ToHosts, Settled(l),
                      l.no \notin lost \cup answered, l.frame.dst \notin misled
               PROVE  Arrived(l)
    BY DEF UnicastIsComplete
  <2>1. Seeking(l) /\ \A c \in wire : ~ Of(c, l)
    BY DEF Pending, Settled, Of
  <2> QED BY <2>1 DEF Seeking
<1> QED BY <1>1, AlwaysPending, PTL

=============================================================================
