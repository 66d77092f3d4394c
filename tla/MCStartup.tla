----------------------------- MODULE MCStartup -----------------------------
(***************************************************************************)
(* Real port numbers, and the responses that take every way through the    *)
(* parser.                                                                 *)
(***************************************************************************)
EXTENDS Startup, SequencesExt

\* The probe of the first peer wraps past the last port number; the third
\* peer's port is next to the second's, and the fourth has the port of the
\* second at another address.
SpacedPorts == <<65535, 3, 4, 3>>
SpacedIps   == <<"0.0.0.0", "192.168.1.2", "0.0.0.0", "10.8.0.2">>

\* What entrypoint.sh makes of two PEERS: 0.0.0.0 and PORT for each of them
EntrypointPorts == <<5000, 5000>>
EntrypointIps   == <<"0.0.0.0", "0.0.0.0">>

MCTaps         == <<"tap0", "tap1">>
EntrypointTaps == <<"tap0">>

\* The second peer's address is wrong, or the third peer cannot be parsed.
SomeMistakes == {<<"address", 2>>, <<"format", 3>>}

\* Processes bound to all addresses, as most are, or to that of the fourth peer
SomeForeign ==
  [ip : {"0.0.0.0"}, port : {1, 3, 4, 65535}] \cup [ip : {"10.8.0.2"}, port : {1, 3}]

EntrypointForeign == [ip : {"0.0.0.0"}, port : {5000, 5001, 5002}]

\* The bytes of an attribute and of an answer
Bytes(n) == <<n \div 256, n % 256>>

EncodeAttr(a) ==
  LET padded == CHOOSE n \in a.length .. a.length + 3 : n % 4 = 0
      value  == CASE a.type = XOR_MAPPED_ADDRESS -> <<0, a.family>> \o Bytes(XorCookie(a.port))
                  [] a.type = MAPPED_ADDRESS     -> <<0, a.family>> \o Bytes(a.port)
                  [] OTHER                       -> <<>>
  IN Bytes(a.type) \o Bytes(a.length)
       \o [i \in 1 .. padded |-> IF i <= Len(value) THEN value[i] ELSE 1]

EncodeAttrs(attrs) == FlattenSeq([i \in DOMAIN attrs |-> EncodeAttr(attrs[i])])

Encode(attrs) ==
  <<1, 1>> \o Bytes(Len(EncodeAttrs(attrs))) \o [i \in 1 .. 16 |-> 0] \o EncodeAttrs(attrs)

Answer(attrs) ==
  [attrs  |-> attrs,
   starts |-> [k \in 1 .. Len(attrs) + 1 |-> Len(Encode(SubSeq(attrs, 1, k - 1)))],
   bytes  |-> Encode(attrs)]

Address(type, family, length, port) ==
  [type |-> type, family |-> family, length |-> length, port |-> port]

Xor(port)   == Address(XOR_MAPPED_ADDRESS, IPV4, 8, port)
Plain(port) == Address(MAPPED_ADDRESS, IPV4, 8, port)
IPv6(port)  == Address(XOR_MAPPED_ADDRESS, 2, 20, port)

\* An attribute of another kind, whose length is no multiple of four
Software == [type |-> 32802, family |-> IPV4, length |-> 5, port |-> 0]

AnswersWith(port) ==
  {<<Xor(port)>>, <<Software, Plain(port)>>, <<IPv6(9), Software, Xor(port)>>,
   <<Plain(9), Xor(port)>>, <<Xor(port), Plain(9)>>}

MCAnswers ==
  {Answer(attrs) : attrs \in {<<>>, <<Software>>, <<IPv6(1)>>}
                     \cup UNION {AnswersWith(p) : p \in {1, 4, 65535}}}

\* Cut off, too short an address, and a length field that leaves the address out
Cut(n) == SubSeq(Encode(<<Software, Xor(1)>>), 1, n)
MCGarbled ==
  {Cut(n) : n \in {20, 24, 32, 33, 36, 40, 43}}
    \cup {Encode(<<Address(MAPPED_ADDRESS, IPV4, 4, 1)>>),
          [Encode(<<Software, Xor(1)>>) EXCEPT ![4] = 12],
          [Encode(<<Xor(1)>>) EXCEPT ![3] = 255]}

EntrypointAnswers == {Answer(<<Xor(5001)>>)}

=============================================================================
