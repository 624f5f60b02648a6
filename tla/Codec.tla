-------------------------------- MODULE Codec --------------------------------
(***************************************************************************)
(* Message objects of corev5/v2/message on their way: one node creates an  *)
(* object, sets fields, encodes it; the next decodes the bytes into an     *)
(* object of its own, may change it and encode it again (that is how the   *)
(* server forwards a PUBLISH), or keeps it as the retained message of its  *)
(* topic by decoding it into the object that holds the last one.           *)
(*                                                                         *)
(* Bytes are values here.  In the code dbuf of a decoded object is the     *)
(* slice it was decoded from (header.go:216) and changes with it: what the *)
(* owner of that slice does to it later is left out.                       *)
(***************************************************************************)
EXTENDS ConnectPacket, SubscribePacket, ControlPacket

CONSTANTS
  Setters,    \* packet type -> <<setter, argument>> pairs a sender may call
  Later,      \* the same once a packet has arrived: on the object decoded from
              \* it, or on the object of the next message
  MaxSets,    \* packet type -> bound: calls on an object before it is encoded
  MaxTrips,   \* bound: packets that are decoded
  FirstIds    \* where the global packet id counter may stand at first

VARIABLES
  msg,        \* the object of the node that holds the packet
  phase,      \* "build", "wire" or "got"
  wire,       \* the bytes last encoded
  sent,       \* the object they were encoded from
  err,        \* the error of the last Decode
  sets,       \* calls on the object since it was created or decoded
  trips,      \* packets decoded so far
  relayed,    \* this packet was decoded by a node before
  gPacketId,  \* the global packet id counter
  retained,   \* the retained message's object
  last        \* the bytes last retained

vars == <<msg, phase, wire, sent, err, sets, trips, relayed, gPacketId, retained, last>>

----------------------------------------------------------------------------
(* The methods of the interface Message, by type.                          *)

New(t) ==
  CASE t = "CONNECT" -> NewConnectMessage
    [] t = "CONNACK" -> NewConnackMessage
    [] t = "PUBLISH" -> NewPublishMessage
    [] t \in {"PUBACK", "PUBREC", "PUBREL", "PUBCOMP"} -> NewAckMessage(t)
    [] t = "SUBSCRIBE" -> NewSubscribeMessage
    [] t = "SUBACK" -> NewSubackMessage
    [] t = "UNSUBSCRIBE" -> NewUnsubscribeMessage
    [] t = "UNSUBACK" -> NewUnsubackMessage
    [] t = "DISCONNECT" -> NewDisconnectMessage
    [] t = "AUTH" -> NewAuthMessage
    [] t \in {"PINGREQ", "PINGRESP"} -> NewHeader(t)

\* Encode into a buffer that holds all it writes.
EncodeLong(m, g) ==
  CASE m.type = "CONNECT" -> connectEncode(m)
    [] m.type = "CONNACK" -> connackEncode(m)
    [] m.type = "PUBLISH" -> publishEncode(m, g)
    [] m.type \in {"PUBACK", "PUBREC", "PUBREL", "PUBCOMP"} -> ackEncode(m)
    [] m.type = "SUBSCRIBE" -> subscribeEncode(m, g)
    [] m.type = "SUBACK" -> subackEncode(m)
    [] m.type = "UNSUBSCRIBE" -> unsubscribeEncode(m, g)
    [] m.type = "UNSUBACK" -> unsubackEncode(m)
    [] m.type = "DISCONNECT" -> disconnectEncode(m)
    [] m.type = "AUTH" -> authEncode(m)
    [] m.type = "PINGREQ" -> pingreqEncode(m)
    [] m.type = "PINGRESP" -> pingrespEncode(m)

\* Len, the size of the buffer that a caller gives to Encode.
MsgLen(m) == IF m.dirty THEN headerMsglen(m) + m.remlen ELSE Len(m.dbuf)

\* Encode into a buffer of Len bytes: what build did not count does not fit, an error
\* of writeLPBytes or an index out of range.
Encode(m, g) ==
  LET r == EncodeLong(m, g)
  IN  IF Len(r.out) > MsgLen(r.m) THEN NotEncoded(r.m) ELSE r

EncodeToBuf(m, g) ==
  CASE m.type = "CONNECT" -> connectEncodeToBuf(m)
    [] m.type = "CONNACK" -> connackEncodeToBuf(m)
    [] m.type = "PUBLISH" -> publishEncodeToBuf(m, g)
    [] m.type \in {"PUBACK", "PUBREC", "PUBREL", "PUBCOMP"} -> ackEncodeToBuf(m)
    [] m.type = "SUBSCRIBE" -> subscribeEncodeToBuf(m, g)
    [] m.type = "SUBACK" -> subackEncodeToBuf(m)
    [] m.type = "UNSUBSCRIBE" -> unsubscribeEncodeToBuf(m, g)
    [] m.type = "UNSUBACK" -> unsubackEncodeToBuf(m)
    [] m.type = "DISCONNECT" -> disconnectEncodeToBuf(m)
    [] m.type = "AUTH" -> authEncodeToBuf(m)
    [] m.type \in {"PINGREQ", "PINGRESP"} -> pingreqEncode(m)

Decode(m, src) ==
  CASE m.type = "CONNECT" -> connectDecode(m, src)
    [] m.type = "CONNACK" -> connackDecode(m, src)
    [] m.type = "PUBLISH" -> publishDecode(m, src)
    [] m.type = "PUBACK" -> pubackDecode(m, src)
    [] m.type = "PUBREC" -> pubrecDecode(m, src)
    [] m.type = "PUBREL" -> pubrelDecode(m, src)
    [] m.type = "PUBCOMP" -> pubcompDecode(m, src)
    [] m.type = "SUBSCRIBE" -> subscribeDecode(m, src)
    [] m.type = "SUBACK" -> subackDecode(m, src)
    [] m.type = "UNSUBSCRIBE" -> unsubscribeDecode(m, src)
    [] m.type = "UNSUBACK" -> unsubackDecode(m, src)
    [] m.type = "DISCONNECT" -> disconnectDecode(m, src)
    [] m.type = "AUTH" -> authDecode(m, src)
    [] m.type \in {"PINGREQ", "PINGRESP"} -> pingDecode(m, src)

\* The fields of a packet type with a setter that only assigns.
PlainFields(t) ==
  CASE t = "CONNECT" -> connectFields
    [] t = "CONNACK" -> connackFields
    [] t = "PUBLISH" -> publishFields
    [] t \in {"PUBACK", "PUBREC", "PUBREL", "PUBCOMP"} -> ackFields
    [] t = "SUBSCRIBE" -> subscribeFields
    [] t = "SUBACK" -> subackFields
    [] t = "UNSUBSCRIBE" -> unsubscribeFields
    [] t = "UNSUBACK" -> unsubackFields
    [] t = "AUTH" -> authFields
    [] t = "DISCONNECT" -> disconnectFields

\* A call of a setter that is more than an assignment, or of a plain one.
Apply(m, s, v) ==
  CASE s = "SetPacketId" -> SetPacketId(m, v)
    [] s = "SetQoS" -> SetQoS(m, v)
    [] s = "SetDup" -> SetDup(m, v)
    [] s = "SetRetain" -> SetRetain(m, v)
    [] s = "SetTopic" -> SetTopic(m, v)
    [] s = "SetNilTopicAndAlias" -> SetNilTopicAndAlias(m, v)
    [] s = "SetVersion" -> SetVersion(m, v)
    [] s = "SetClientId" -> SetClientId(m, v)
    [] s = "SetCleanSession" -> SetFlag(m, 1, v)
    [] s = "SetWillQos" -> SetWillQos(m, v)
    [] s = "SetWillRetain" -> SetFlag(m, 5, v)
    [] s = "SetWillTopic" -> SetWillTopic(m, v)
    [] s = "SetWillMessage" -> SetWillMessage(m, v)
    [] s = "SetUsername" -> SetUsername(m, v)
    [] s = "SetPassword" -> SetPassword(m, v)
    [] s = "AddTopicAll" -> AddTopicAll(m, v)
    [] s = "AddTopic" -> AddTopic(m, v, 1)
    [] s = "RemoveTopic" -> RemoveTopic(m, v)
    [] s = "SetTopicNoLocal" -> SetOption(m, v, "nl", 1)
    [] s = "AddReasonCodes" -> AddReasonCodes(m, v)
    [] s = "AddUnsubTopic" -> AddUnsubTopic(m, v)
    [] s = "RemoveUnsubTopic" -> RemoveUnsubTopic(m, v)
    [] s \in PlainFields(m.type) -> SetField(m, s, v)

----------------------------------------------------------------------------
Init ==
  /\ \E t \in DOMAIN Setters : msg = New(t)
  /\ phase = "build"
  /\ wire = <<>> /\ sent = msg /\ err = ""
  /\ sets = 0 /\ trips = 0 /\ relayed = FALSE
  /\ gPacketId \in FirstIds
  /\ retained = NewPublishMessage /\ last = <<>>

CallSetter ==
  /\ phase = "build" /\ sets < MaxSets[msg.type]
  /\ \E c \in IF trips = 0 THEN Setters[msg.type] ELSE Later[msg.type] :
        msg' = Apply(msg, c[1], c[2])
  /\ sets' = sets + 1
  /\ UNCHANGED <<phase, wire, sent, err, trips, relayed, gPacketId, retained, last>>

\* An encoder draws a packet id from the global counter if it needs one.
DrawsId(m) ==
  /\ m.dirty /\ PacketId(m) = 0
  /\ m.type \in {"SUBSCRIBE", "UNSUBSCRIBE", "PUBLISH"}
  /\ m.type = "PUBLISH" => QoS(m) # 0

\* Encode, or EncodeToBuf, by the caller's choice: an error leaves no bytes.
EncodeWith(E(_, _)) ==
  /\ phase = "build"
  /\ \E r \in {E(msg, gPacketId)} : r.err = "" /\ wire' = r.out /\ sent' = r.m
  /\ gPacketId' = IF DrawsId(msg) THEN (gPacketId + 1) % 65536 ELSE gPacketId
  /\ phase' = "wire"
  /\ UNCHANGED <<msg, err, sets, trips, relayed, retained, last>>

\* writeMessage keeps outtmp, so its buffer may be longer than Len.
EncodeMsg == EncodeWith(Encode) \/ EncodeWith(EncodeLong) \/ EncodeWith(EncodeToBuf)

\* The next node decodes the packet into an object of its own.
DecodeMsg ==
  /\ phase = "wire" /\ trips < MaxTrips
  /\ \E r \in {Decode(New(sent.type), wire)} : msg' = r.m /\ err' = r.err
  /\ phase' = "got" /\ trips' = trips + 1
  /\ UNCHANGED <<wire, sent, sets, relayed, gPacketId, retained, last>>

\* It goes on with the object it decoded: only a PUBLISH is forwarded.
Relay ==
  /\ phase = "got" /\ err = "" /\ msg.type = "PUBLISH"
  /\ phase' = "build" /\ sets' = 0 /\ relayed' = TRUE
  /\ UNCHANGED <<msg, wire, sent, err, trips, gPacketId, retained, last>>

\* Mutant: the object of the message kept before is used as it is if it is for
\* the same topic.
Insert_Reuse ==
  /\ phase = "got" /\ err = "" /\ ~relayed /\ msg.type = "PUBLISH" /\ msg.payload # <<>>
  /\ \E e \in {Encode(msg, gPacketId)} : \E r \in {Decode(retained, e.out)} :
         /\ e.err = "" /\ r.err = ""
         /\ retained' = IF retained.topic = msg.topic THEN retained ELSE r.m
         /\ last' = e.out
  /\ phase' = "build" /\ msg' = NewPublishMessage /\ sets' = 0
  /\ UNCHANGED <<wire, sent, err, trips, relayed, gPacketId>>

\* Retain, at the node the message was published to: if it has a payload,
\* rinsert encodes it and decodes the bytes into the object of the message
\* kept before.  Another message may follow.
Insert ==
  /\ phase = "got" /\ err = "" /\ ~relayed /\ msg.type = "PUBLISH" /\ msg.payload # <<>>
  /\ \E e \in {Encode(msg, gPacketId)} : \E r \in {Decode(retained, e.out)} :
         /\ e.err = "" /\ r.err = ""
         /\ retained' = r.m /\ last' = e.out
  /\ phase' = "build" /\ msg' = NewPublishMessage /\ sets' = 0
  /\ UNCHANGED <<wire, sent, err, trips, relayed, gPacketId>>

Next == CallSetter \/ EncodeMsg \/ DecodeMsg \/ Relay \/ Insert

Spec == Init /\ [][Next]_vars

----------------------------------------------------------------------------
(* What the bytes say to a peer that goes by their lengths.                *)

\* The type of a property's value, as the comments in identifier.go give it.
ValueKind(id) ==
  CASE id \in {1, 23, 25, 36, 37, 40, 41, 42} -> "u8"
    [] id \in {19, 33, 34, 35} -> "u16"
    [] id \in {2, 17, 24, 39} -> "u32"
    [] id \in {3, 8, 9, 18, 21, 22, 26, 28, 31} -> "lp"
    [] id = 11 -> "vb"
    [] id = 38 -> "pair"
    [] OTHER -> "unknown"

\* The bytes a property at position p of w takes, 0 if it is none.
PropertyWidth(w, p) ==
  LET Second(one, two) == IF two.err # "" THEN 0 ELSE 1 + one.n + two.n
      First(k, one) == IF one.err # "" THEN 0
                       ELSE IF k = "pair" THEN Second(one, readLPBytes(From(w, p + 1 + one.n)))
                       ELSE 1 + one.n
      Kind(k) == IF k = "unknown" THEN 0
                 ELSE First(k, ReadValue(IF k = "pair" THEN "lp" ELSE k, From(w, p + 1)))
  IN  Kind(ValueKind(w[p + 1]))

\* The bytes of w from p to e are properties, one after the other.
Tiled(w, p, e) ==
  LET tiled[q \in 0..Len(w)] ==
        LET Fits(n) == n > 0 /\ q + n <= e /\ tiled[q + n]
        IN  q = e \/ (q < e /\ Fits(PropertyWidth(w, q)))
  IN  tiled[p]

\* A property length at p and the properties it announces; and where they end.
SectionEnd(w, p) ==
  LET End(n) == p + n.n + n.v
  IN  End(lbDecode(From(w, p)))

Section(w, p) ==
  /\ p < Len(w) /\ SectionEnd(w, p) <= Len(w)
  /\ Tiled(w, p + lbDecode(From(w, p)).n, SectionEnd(w, p))

StringEnd(w, p) == p + readLPBytes(From(w, p)).n

\* The remaining length is right, and the property sections are where the type
\* of the packet has them.
WellFormed(t, w) ==
  LET Sections(hn, remlen, qos) ==
        /\ hn + remlen = Len(w)
        /\ t = "CONNECT" => /\ Section(w, hn + 10)
                            /\ (w[hn + 8] \div 4) % 2 = 1 =>
                                  Section(w, StringEnd(w, SectionEnd(w, hn + 10)))
        /\ t = "PUBLISH" => Section(w, StringEnd(w, hn) + (IF qos = 0 THEN 0 ELSE 2))
        /\ t \in {"CONNACK", "SUBSCRIBE", "SUBACK", "UNSUBSCRIBE", "UNSUBACK"} => Section(w, hn + 2)
        /\ t \in {"PUBACK", "PUBREC", "PUBREL", "PUBCOMP"} /\ remlen > 3 => Section(w, hn + 3)
        /\ t \in {"DISCONNECT", "AUTH"} /\ remlen > 1 => Section(w, hn + 1)
      Length(len) == Sections(1 + len.n, len.v, (w[1] \div 2) % 4)
  IN  Length(Uvarint(From(w, 1)))

----------------------------------------------------------------------------
(* The objects that the code is known to write or to read wrongly.         *)

\* The counter gave 0, which SetPacketId ignores: the packet id is left out.
IdLeftOut(m) ==
  /\ m.packetId = <<>> /\ m.type \in {"SUBSCRIBE", "UNSUBSCRIBE", "PUBLISH"}
  /\ m.type = "PUBLISH" => QoS(m) # 0

\* build counts what encodeMessage does not write, or the other way round.
Miscounted(m) ==
  \/ IdLeftOut(m)
  \/ /\ m.type = "CONNECT"
     /\ \/ m.willUserProperty # <<>>
        \/ m.maxPacketSize = 0
        \/ WillFlag(m) /\ (m.willTopic = <<>> \/ m.willMessage = <<>>)
  \/ m.type = "CONNACK" /\ m.maxPacketSize \in {0, 1}

\* The places of the properties of a PUBLISH in the order Decode asks for them.
PlaceOf(id) == CHOOSE i \in 1..8 : <<1, 2, 35, 8, 9, 38, 11, 3>>[i] = id

\* The payload starts with the identifier of a property that Decode still asks
\* for, and is taken for it.
PayloadTakenForProperty(m) ==
  LET has == <<m.payloadFormatIndicator # 0, m.messageExpiryInterval > 0, m.topicAlias > 0,
               m.responseTopic # <<>>, m.correlationData # <<>>, m.userProperty # <<>>,
               SubIdWritten(m), m.contentType # <<>>>>
  IN  /\ m.payload # <<>> /\ m.payload[1] \in {1, 2, 35, 8, 9, 38, 11, 3}
      /\ \A i \in 1..8 : has[i] => i <= PlaceOf(m.payload[1])

\* Decode does not give back what was encoded.
Misread(m) ==
  CASE m.type = "PUBLISH" -> PayloadTakenForProperty(m) \/ m.subscriptionIdentifier >= 168435455
    [] m.type \in {"PUBACK", "PUBREC", "PUBREL", "PUBCOMP"} ->
         m.reasonStr # <<>> /\ m.userProperty = <<>>
    [] m.type = "CONNACK" ->
         \/ m.maxQos = 0
         \/ m.sharedSubscriptionAvailable = 1
         \/ /\ m.serverKeepAlive > 0
            /\ \E f \in {"responseInformation", "serverReference", "authMethod", "authData"} : m[f] # <<>>
    [] m.type = "UNSUBSCRIBE" ->
         \E k \in 2..Len(m.topics) :
            FoldLeft(LAMBDA n, t : n + 2 + Len(t), 0, SubSeq(m.topics, k, Len(m.topics))) < k
    [] m.type = "DISCONNECT" -> m.sessionExpiryInterval # Zero4
    [] OTHER -> FALSE

\* Packets the peer has to refuse: what CONNECT may not say, a SUBSCRIBE or
\* UNSUBSCRIBE without topics, an acknowledgement without reason codes or with
\* one that is not for its type.
Refused(m) ==
  CASE m.type = "CONNECT" ->
         \/ m.clientId = <<>> /\ ~CleanStart(m)
         \/ UsernameFlag(m) /\ ~PasswordFlag(m)
         \/ m.authMethod # <<>> /\ m.authData = <<>>
         \/ ~WillFlag(m) /\ (WillRetain(m) \/ WillQos(m) # 0)
    [] m.type \in {"SUBSCRIBE", "UNSUBSCRIBE"} -> m.topics = <<>>
    [] m.type \in {"SUBACK", "UNSUBACK"} -> m.reasonCodes = <<>>
    [] "reasonCode" \in DOMAIN m -> m.reasonCode \notin ValidReasonCode(m.type)
    [] OTHER -> FALSE

\* What the object says: an absent receive maximum is 65535, an absent client
\* identifier "#", and a user property without a value has an empty one.
Meaning(m) ==
  [f \in DOMAIN m \ {"dbuf", "dirty"} |->
     IF f = "receiveMaximum" /\ m[f] = 0 THEN 65535
     ELSE IF f = "clientId" /\ m[f] = <<>> THEN <<35>>
     ELSE IF f = "packetId" /\ m[f] = <<>> /\ m.type \notin {"PUBLISH", "CONNECT", "CONNACK"}
          THEN <<0, 0>>
     ELSE IF f \in {"userProperty", "userProperties", "willUserProperty"} /\ Len(m[f]) % 2 = 1
          THEN Append(m[f], <<>>)
     ELSE m[f]]

\* The will's fields stay with the sender if there is no will.
WillFields == {"willTopic", "willMessage", "willPropertiesLen", "willDelayInterval",
               "payloadFormatIndicator", "willMsgExpiryInterval", "contentType",
               "willUserProperty", "responseTopic", "correlationData"}

SentMeaning(m) ==
  IF m.type = "CONNECT" /\ ~WillFlag(m)
  THEN [f \in DOMAIN Meaning(m) |-> IF f \in WillFields THEN New("CONNECT")[f] ELSE Meaning(m)[f]]
  ELSE IF m.type = "PUBLISH" /\ QoS(m) = 0 THEN [Meaning(m) EXCEPT !.packetId = <<>>]
  ELSE Meaning(m)

\* The object was changed after Decode by a setter that does not mark it
\* (SetRetain, SetDup, SetPacketId, AddTopic): Encode gives the old bytes.
Unmarked(m) == ~m.dirty /\ Encode([m EXCEPT !.dirty = TRUE], 0).out # m.dbuf

----------------------------------------------------------------------------
(* Properties.                                                             *)

\* Whatever the setters called before it, an encoder writes a packet whose
\* lengths are right and that fills the buffer its caller made from Len: build
\* counts exactly what encodeMessage writes, except for the objects named in
\* Miscounted.
LengthsRight ==
  phase = "wire" /\ ~Miscounted(sent) => WellFormed(sent.type, wire) /\ MsgLen(sent) = Len(wire)

\* Encode and EncodeToBuf, two hand-written copies of one format, write the
\* same bytes for every object if Encode is given a buffer that holds them;
\* one of Len bytes, which is what its callers make, does for every object
\* that is not in Miscounted.  (For a CONNECT with a maxPacketSize of 0 or a will
\* with only a topic or only a message, and for a CONNACK with a maxPacketSize
\* of 0, Encode fails or panics in it.)
BufAgrees ==
  phase = "build" =>
    LET to == EncodeToBuf(msg, gPacketId) IN
    /\ EncodeLong(msg, gPacketId) = to
    /\ ~Miscounted(msg) => Encode(msg, gPacketId) = to

\* A node that decodes a packet holds what the sender's object said when it
\* was encoded, on every hop, and takes no packet that it has to refuse; the
\* exceptions are named in Misread, Miscounted and Unmarked.
RoundTrip ==
  phase = "got" /\ ~Miscounted(sent) /\ ~Misread(sent) /\ ~Unmarked(sent) =>
     IF Refused(sent) THEN err # ""
     ELSE err = "" /\ Meaning(msg) = SentMeaning(sent)

\* The fields an object of a PUBLISH carries beyond their zero values.
Carried(m) == {f \in DOMAIN Meaning(m) : Meaning(m)[f] # Meaning(NewPublishMessage)[f]}

\* The object of the retained message, which is decoded into again and again,
\* gives a subscriber, at whatever QoS processSubscribe lowers it to, all that
\* the message retained last carried.  (What an earlier one carried and this
\* one does not is still in it.  A subscriber that reads the object while
\* rinsert decodes into it is left out.)
RetainedKeepsLast ==
  LET Same(now, want) ==
        /\ now.err = ""
        /\ \A f \in Carried(want.m) \ {"flags", "packetId", "remlen", "propertiesLen"} :
              now.m[f] = want.m[f]
      Given(e, want) ==
        want.err = "" /\ ~PayloadTakenForProperty(retained) =>
          e.err = "" /\ Same(Decode(NewPublishMessage, e.out), want)
  IN  last # <<>> =>
        \A q \in 0..QoS(retained) :
           Given(Encode(SetQoS(retained, q), 0), Decode(NewPublishMessage, last))
=============================================================================
