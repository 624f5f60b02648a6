-------------------------------- MODULE Wire --------------------------------
(***************************************************************************)
(* What every packet of corev5/v2/message is read and written with:        *)
(* header.go, util.go, message.go and the identifiers of identifier.go.    *)
(*                                                                         *)
(* A packet is a sequence of bytes, 0..255, and a message object is a      *)
(* record: the fields of the Go struct, among them those of the embedded   *)
(* header.  mtypeflags is split into type and flags; packetId is <<>> as   *)
(* long as the slice is not allocated.  Integers stay below 2^31.          *)
(*                                                                         *)
(* A decoder walks over its source with a state [pos, m, err]: pos bytes   *)
(* are consumed, m is the object so far, err is "" or "refused", whatever  *)
(* the error returned, or "panic": the outcome of a read past the end of a *)
(* slice.                                                                  *)
(***************************************************************************)
EXTENDS Integers, Sequences, SequencesExt

MessageType ==
  <<"CONNECT", "CONNACK", "PUBLISH", "PUBACK", "PUBREC", "PUBREL", "PUBCOMP", "SUBSCRIBE",
    "SUBACK", "UNSUBSCRIBE", "UNSUBACK", "PINGREQ", "PINGRESP", "DISCONNECT", "AUTH">>

TypeNo(t) == CHOOSE i \in 1..Len(MessageType) : MessageType[i] = t

DefaultFlags(t) == IF t \in {"PUBREL", "SUBSCRIBE", "UNSUBSCRIBE"} THEN 2 ELSE 0

\* PropertyCode: the identifiers of the properties.
Id ==
  [LoadFormatDescription |-> 1, MessageExpirationTime |-> 2, ContentType |-> 3,
   ResponseTopic |-> 8, RelatedData |-> 9, DefiningIdentifiers |-> 11,
   SessionExpirationInterval |-> 17, AssignCustomerIdentifiers |-> 18,
   ServerSurvivalTime |-> 19, AuthenticationMethod |-> 21, AuthenticationData |-> 22,
   RequestProblemInformation |-> 23, DelayWills |-> 24, RequestResponseInformation |-> 25,
   SolicitedMessage |-> 26, ServerReference |-> 28, ReasonString |-> 31,
   MaximumQuantityReceived |-> 33, MaximumLengthOfTopicAlias |-> 34, ThemeAlias |-> 35,
   MaximumQoS |-> 36, PreservePropertyAvailability |-> 37, UserProperty |-> 38,
   MaximumMessageLength |-> 39, WildcardSubscriptionAvailability |-> 40,
   AvailabilityOfSubscriptionIdentifiers |-> 41, SharedSubscriptionAvailability |-> 42]

\* ValidQos, and the reason codes each packet may carry.
ValidQos(q) == q \in 0..2

ValidReasonCode(t) ==
  CASE t = "DISCONNECT" ->
         {0, 4, 128, 130, 131, 135, 137, 139, 141, 142} \cup (143..144) \cup (147..162)
    [] t = "AUTH" -> {0, 24, 25}
    [] t = "UNSUBACK" -> {0, 17, 128, 131, 135, 143, 145}
    [] t = "SUBACK" -> {0, 1, 2, 128, 131, 135, 143, 145, 151, 158, 161, 162}
    [] t \in {"PUBCOMP", "PUBREL"} -> {0, 146}
    [] t \in {"PUBREC", "PUBACK"} -> {0, 16, 128, 131, 135, 144, 145, 151, 153}
    [] t = "CONNACK" ->
         {0} \cup (128..138) \cup {140, 144, 149, 151} \cup (153..157) \cup {159}

\* ValidTopic: not empty, and neither # (35) nor + (43) in it.
ValidTopic(topic) == topic # <<>> /\ \A i \in 1..Len(topic) : topic[i] \notin {35, 43}

----------------------------------------------------------------------------
(* Integers and length prefixed byte strings.                              *)

PutUint16(v) == <<v \div 256, v % 256>>

PutUint32(v) == PutUint16(v \div 65536) \o PutUint16(v % 65536)

\* lbEncode, and PutUvarint, which agrees with it below 2^28.
lbEncode[x \in Nat] ==
  IF x < 128 THEN <<x>> ELSE <<128 + (x % 128)>> \o lbEncode[x \div 128]

writeLPBytes(b) == PutUint16(Len(b)) \o b

maxRemainingLength == 268435455

\* The outcome of reading a value: the value, the bytes it took, an error.
Ok(v, n) == [v |-> v, n |-> n, err |-> ""]

Fail(e) == [v |-> 0, n |-> 0, err |-> e]

\* The byte groups of a variable byte integer at the head of b.
Groups(b) ==
  LET ends == {i \in 1..Len(b) : b[i] < 128}
  IN  IF ends = {} THEN Len(b) + 1 ELSE CHOOSE i \in ends : \A j \in ends : i <= j

GroupValue(b, n) ==
  FoldLeft(LAMBDA acc, g : acc * 128 + (g % 128), 0, Reverse(SubSeq(b, 1, n)))

\* Mutant: the groups are taken the highest first.
lbDecode_HighFirst(b) ==
  LET Read(n) ==
        IF n > 4 /\ Len(b) > 4 THEN Fail("refused")
        ELSE IF n > Len(b) THEN Fail("panic")
        ELSE Ok(FoldLeft(LAMBDA acc, g : acc * 128 + (g % 128), 0, SubSeq(b, 1, n)), n)
  IN  IF b = <<>> THEN Ok(0, 0) ELSE Read(Groups(b))

lbDecode(b) ==
  LET Read(n) ==
        IF n > 4 /\ Len(b) > 4 THEN Fail("refused")
        ELSE IF n > Len(b) THEN Fail("panic")
        ELSE Ok(GroupValue(b, n), n)
  IN  IF b = <<>> THEN Ok(0, 0) ELSE Read(Groups(b))

\* binary.Uvarint: a number that does not end is read as 0 in no bytes.
Uvarint(b) ==
  LET Read(n) == IF n > Len(b) THEN Ok(0, 0) ELSE Ok(GroupValue(b, n), n)
  IN  Read(Groups(b))

ReadUint(b, w) ==
  IF Len(b) < w THEN Fail("panic")
  ELSE Ok(FoldLeft(LAMBDA acc, d : acc * 256 + d, 0, SubSeq(b, 1, w)), w)

\* readLPBytes tests the length against the whole buffer, the prefix included,
\* so a string that is one or two bytes short is a slice out of range.
readLPBytes(b) ==
  LET Read(n) ==
        IF Len(b) < n THEN Fail("refused")
        ELSE IF Len(b) < n + 2 THEN Fail("panic")
        ELSE Ok(SubSeq(b, 3, n + 2), n + 2)
  IN  IF Len(b) < 2 THEN Fail("refused") ELSE Read(b[1] * 256 + b[2])

----------------------------------------------------------------------------
(* Reading properties: every decoder asks for them in a fixed order.       *)

From(src, pos) == SubSeq(src, pos + 1, Len(src))

At(src, pos, id) == pos < Len(src) /\ src[pos + 1] = id

Step(st, f, r) ==
  IF st.err # "" THEN st
  ELSE [pos |-> st.pos + r.n, err |-> r.err,
        m |-> IF r.err = "" THEN [st.m EXCEPT ![f] = r.v] ELSE st.m]

\* A test of what was read so far, and the error if it fails.
Check(st, Good(_), e) == IF st.err = "" /\ ~Good(st) THEN [st EXCEPT !.err = e] ELSE st

\* A decoder without an error leaves its object clean.
Clean(st) == IF st.err = "" THEN [st EXCEPT !.m.dirty = FALSE] ELSE st

\* A property of a packet: its identifier, how its value is read, the field
\* it goes to, the values that are refused, and what an absent one leaves in
\* which field (none: the field keeps what it holds).  Some decoders look at
\* the byte after the value without a test that there is one.
Prop(id, kind, f, bad) ==
  [id |-> id, kind |-> kind, f |-> f, bad |-> bad, absent |-> <<>>, looksAhead |-> FALSE,
   twice |-> "refused"]

PropElse(id, kind, f, bad, af, av) == [Prop(id, kind, f, bad) EXCEPT !.absent = <<af, av>>]

PropTwiceStops(id, kind, f, bad) == [Prop(id, kind, f, bad) EXCEPT !.twice = "stop"]

PropLookingAhead(id, kind, f, bad) == [Prop(id, kind, f, bad) EXCEPT !.looksAhead = TRUE]

UserProp(f) == Prop(Id.UserProperty, "user", f, {})

Width == [u8 |-> 1, u16 |-> 2, u32 |-> 4]

ReadValue(kind, b) ==
  CASE kind \in DOMAIN Width -> ReadUint(b, Width[kind])
    [] kind = "lp" -> readLPBytes(b)
    [] kind = "vb" -> lbDecode(b)
    [] kind = "u16in1" -> [ReadUint(b, 2) EXCEPT !.n = 1]

\* A value that is always there, at the decoder's position.
ReadField(src, st, kind, f) == Step(st, f, ReadValue(kind, From(src, st.pos)))

\* decodeUserProperty: pairs of strings, as long as the identifier comes again.
\* [q] is the outcome for what starts at q.
decodeUserProperty(src, pos) ==
  LET Joined(k, v, rest) ==
        [v |-> <<k.v, v.v>> \o rest.v, n |-> 1 + k.n + v.n + rest.n, err |-> rest.err]
      pairs[q \in 0..Len(src)] ==
        LET WithValue(k, v) == IF v.err # "" THEN Fail(v.err)
                               ELSE Joined(k, v, pairs[q + 1 + k.n + v.n])
            WithKey(k) == IF k.err # "" THEN Fail(k.err)
                          ELSE WithValue(k, readLPBytes(From(src, q + 1 + k.n)))
        IN  IF At(src, q, Id.UserProperty) THEN WithKey(readLPBytes(From(src, q + 1)))
            ELSE Ok(<<>>, 0)
  IN  pairs[pos]

\* One property.  A second one of the same kind right after it is refused, or,
\* in DISCONNECT, ends the decoding without an error.
ReadProp(src, st, p) ==
  LET Accepted(s) == s.m[p.f] \notin p.bad
      Ahead(s) == p.looksAhead => s.pos < Len(src)
      Once(s) == ~At(src, s.pos, p.id)
  IN  IF st.err # "" THEN st
      ELSE IF p.kind = "user" THEN Step(st, p.f, decodeUserProperty(src, st.pos))
      ELSE IF At(src, st.pos, p.id)
           THEN Check(Check(Check(ReadField(src, [st EXCEPT !.pos = @ + 1], p.kind, p.f),
                                  Accepted, "refused"), Ahead, "panic"), Once, p.twice)
      ELSE IF p.absent = <<>> THEN st
      ELSE [st EXCEPT !.m = [@ EXCEPT ![p.absent[1]] = p.absent[2]]]

ReadProps(src, st, props) == FoldLeft(LAMBDA s, p : ReadProp(src, s, p), st, props)

----------------------------------------------------------------------------
(* Writing properties.                                                     *)

\* The bytes of a property that is written only if cond holds.
Put(cond, id, bytes) == IF cond THEN <<id>> \o bytes ELSE <<>>

\* What a property adds to the length if it is counted.
Cnt(cond, n) == IF cond THEN n ELSE 0

\* writeUserProperty: pairs of strings; a missing last value is an empty one.
writeUserProperty(up) ==
  FlattenSeq([i \in 1..((Len(up) + 1) \div 2) |->
    <<Id.UserProperty>> \o writeLPBytes(up[2 * i - 1])
      \o (IF 2 * i > Len(up) THEN <<0, 0>> ELSE writeLPBytes(up[2 * i]))])

buildUserPropertyLen(up) ==
  FoldLeft(LAMBDA acc, b : acc + Len(b), 5 * ((Len(up) + 1) \div 2), up)

----------------------------------------------------------------------------
(* The fixed header.                                                       *)

\* New: an object of type t with the fields of its packet.  SetType allocates
\* mtypeflags and so makes it dirty.
NewHeader(t) ==
  [type |-> t, flags |-> DefaultFlags(t), remlen |-> 0, packetId |-> <<>>,
   dbuf |-> <<>>, dirty |-> TRUE]

PacketId(m) == IF Len(m.packetId) = 2 THEN m.packetId[1] * 256 + m.packetId[2] ELSE 0

\* 0 is ignored, and only the allocation makes the object dirty.
SetPacketId(m, v) ==
  IF v = 0 THEN m
  ELSE [m EXCEPT !.packetId = PutUint16(v), !.dirty = @ \/ Len(m.packetId) # 2]

SetRemainingLength(m, n) ==
  IF n > maxRemainingLength THEN m ELSE [m EXCEPT !.remlen = n, !.dirty = TRUE]

headerEncode(m) == <<16 * TypeNo(m.type) + m.flags>> \o lbEncode[m.remlen]

headerMsglen(m) ==
  CASE m.remlen <= 127 -> 2
    [] m.remlen > 127 /\ m.remlen <= 16383 -> 3
    [] m.remlen > 16383 /\ m.remlen <= 2097151 -> 4
    [] OTHER -> 5

\* header.decode: the type has to be the object's, the flags those of the type.
headerDecode(m, src) ==
  LET flags == src[1] % 16
      Typed(s) == /\ src[1] \div 16 = TypeNo(m.type)
                  /\ m.type # "PUBLISH" => flags = DefaultFlags(m.type)
                  /\ m.type = "PUBLISH" => ValidQos((flags \div 2) % 4)
      Fits(s) == /\ s.m.remlen <= maxRemainingLength
                 /\ s.m.remlen = 0 => m.type \in {"PINGREQ", "PINGRESP", "AUTH", "DISCONNECT"}
                 /\ s.m.remlen <= Len(src) - s.pos
      WithLength(s) == IF s.err # "" THEN s
                       ELSE Check(Step([s EXCEPT !.pos = 1], "remlen", Uvarint(From(src, 1))),
                                  Fits, "refused")
  IN  WithLength(Check([pos |-> 0, m |-> [m EXCEPT !.dbuf = src, !.flags = flags], err |-> ""],
                       Typed, "refused"))
=============================================================================
