---------------------------- MODULE PublishPacket ----------------------------
(***************************************************************************)
(* PUBLISH and its four acknowledgements: publish.go, puback.go, pubrec.go, *)
(* pubrel.go and pubcomp.go of corev5/v2/message.                          *)
(*                                                                         *)
(* An encoder takes an object and gives [m, out, err]: the object after it *)
(* (build stores the lengths in it), the bytes it wrote and an error.      *)
(***************************************************************************)
EXTENDS Wire

Encoded(m, out) == [m |-> m, out |-> out, err |-> ""]

NotEncoded(m) == [m |-> m, out |-> <<>>, err |-> "refused"]

NewPublishMessage ==
  NewHeader("PUBLISH") @@
  [topic |-> <<>>, propertiesLen |-> 0, payloadFormatIndicator |-> 0,
   messageExpiryInterval |-> 0, topicAlias |-> 0, responseTopic |-> <<>>,
   correlationData |-> <<>>, userProperty |-> <<>>, subscriptionIdentifier |-> 0,
   contentType |-> <<>>, payload |-> <<>>]

Retain(m) == m.flags % 2 = 1

QoS(m) == (m.flags \div 2) % 4

Dup(m) == m.flags \div 8 = 1

\* SetQoS makes the object dirty; SetDup and SetRetain, which change the same
\* byte, do not.
SetQoS(m, q) == [m EXCEPT !.flags = 8 * (@ \div 8) + 2 * q + (@ % 2), !.dirty = TRUE]

SetDup(m, v) == [m EXCEPT !.flags = (IF v THEN 8 ELSE 0) + (@ % 8)]

SetRetain(m, v) == [m EXCEPT !.flags = 2 * (@ \div 2) + (IF v THEN 1 ELSE 0)]

SetTopic(m, t) == IF ValidTopic(t) THEN [m EXCEPT !.topic = t, !.dirty = TRUE] ELSE m

\* The setters of the properties: assign and mark dirty.
SetField(m, f, v) == [m EXCEPT ![f] = v, !.dirty = TRUE]

publishFields ==
  {"payloadFormatIndicator", "messageExpiryInterval", "topicAlias", "responseTopic",
   "correlationData", "userProperty", "subscriptionIdentifier", "contentType", "payload"}

SetNilTopicAndAlias(m, a) == [m EXCEPT !.topicAlias = a, !.topic = <<>>, !.dirty = TRUE]

\* The bound on subscription identifiers in build and in both encoders.
SubIdWritten(m) == m.subscriptionIdentifier > 0 /\ m.subscriptionIdentifier < 168435455

publishBuild(m) ==
  LET WithProps(props) ==
        SetRemainingLength([m EXCEPT !.propertiesLen = props],
          2 + Len(m.topic) + Cnt(QoS(m) # 0, 2) + Len(lbEncode[props]) + props + Len(m.payload))
  IN  WithProps(
        Cnt(m.payloadFormatIndicator # 0, 2) + Cnt(m.messageExpiryInterval > 0, 5)
        + Cnt(m.topicAlias > 0, 3)
        + Cnt(m.responseTopic # <<>>, 3 + Len(m.responseTopic))
        + Cnt(m.correlationData # <<>>, 3 + Len(m.correlationData))
        + buildUserPropertyLen(m.userProperty)
        + Cnt(SubIdWritten(m), 1 + Len(lbEncode[m.subscriptionIdentifier]))
        + Cnt(m.contentType # <<>>, 3 + Len(m.contentType)))

\* The properties as Encode writes them.
publishProps(m) ==
  Put(m.payloadFormatIndicator # 0, Id.LoadFormatDescription, <<m.payloadFormatIndicator>>)
  \o Put(m.messageExpiryInterval > 0, Id.MessageExpirationTime, PutUint32(m.messageExpiryInterval))
  \o Put(m.topicAlias > 0, Id.ThemeAlias, PutUint16(m.topicAlias))
  \o Put(m.responseTopic # <<>>, Id.ResponseTopic, writeLPBytes(m.responseTopic))
  \o Put(m.correlationData # <<>>, Id.RelatedData, writeLPBytes(m.correlationData))
  \o writeUserProperty(m.userProperty)
  \o Put(SubIdWritten(m), Id.DefiningIdentifiers, lbEncode[m.subscriptionIdentifier])
  \o Put(m.contentType # <<>>, Id.ContentType, writeLPBytes(m.contentType))

\* Encode, when the global packet id counter is at g.
publishEncode(m, g) ==
  LET WithId(b) == IF QoS(b) # 0 /\ PacketId(b) = 0 THEN SetPacketId(b, (g + 1) % 65536) ELSE b
      Write(b) ==
        Encoded(b, headerEncode(b) \o writeLPBytes(b.topic)
                   \o (IF QoS(b) # 0 THEN b.packetId ELSE <<>>)
                   \o lbEncode[b.propertiesLen] \o publishProps(b) \o b.payload)
  IN  IF ~m.dirty THEN Encoded(m, m.dbuf)
      ELSE IF (m.topic = <<>> /\ m.topicAlias = 0) \/ m.payload = <<>> THEN NotEncoded(m)
      ELSE Write(WithId(publishBuild(m)))

\* EncodeToBuf, which lists the same fields again.
publishEncodeToBuf(m, g) ==
  LET WithId(b) == IF QoS(b) # 0 /\ PacketId(b) = 0 THEN SetPacketId(b, (g + 1) % 65536) ELSE b
      Write(b) ==
        Encoded(b,
          headerEncode(b) \o writeLPBytes(b.topic) \o (IF QoS(b) # 0 THEN b.packetId ELSE <<>>)
          \o lbEncode[b.propertiesLen]
          \o Put(b.payloadFormatIndicator # 0, Id.LoadFormatDescription, <<b.payloadFormatIndicator>>)
          \o Put(b.messageExpiryInterval > 0, Id.MessageExpirationTime,
                 PutUint32(b.messageExpiryInterval))
          \o Put(b.topicAlias > 0, Id.ThemeAlias, PutUint16(b.topicAlias))
          \o Put(b.responseTopic # <<>>, Id.ResponseTopic, writeLPBytes(b.responseTopic))
          \o Put(b.correlationData # <<>>, Id.RelatedData, writeLPBytes(b.correlationData))
          \o writeUserProperty(b.userProperty)
          \o Put(SubIdWritten(b), Id.DefiningIdentifiers, lbEncode[b.subscriptionIdentifier])
          \o Put(b.contentType # <<>>, Id.ContentType, writeLPBytes(b.contentType))
          \o b.payload)
  IN  IF ~m.dirty THEN Encoded(m, m.dbuf)
      ELSE IF (m.topic = <<>> /\ m.topicAlias = 0) \/ m.payload = <<>> THEN NotEncoded(m)
      ELSE Write(WithId(publishBuild(m)))

\* The order in which Decode asks for the properties.  The properties are not
\* bounded by propertiesLen: whatever byte comes next is taken for the
\* identifier of one.
publishPropsBeforeTopicTest ==
  <<Prop(Id.LoadFormatDescription, "u8", "payloadFormatIndicator", {}),
    Prop(Id.MessageExpirationTime, "u32", "messageExpiryInterval", {}),
    Prop(Id.ThemeAlias, "u16", "topicAlias", {0})>>

publishPropsAfterTopicTest ==
  <<Prop(Id.ResponseTopic, "lp", "responseTopic", {<<>>}),
    Prop(Id.RelatedData, "lp", "correlationData", {<<>>}),
    UserProp("userProperty"),
    Prop(Id.DefiningIdentifiers, "vb", "subscriptionIdentifier", {0}),
    Prop(Id.ContentType, "lp", "contentType", {<<>>})>>

ReadPacketId(src, st) ==
  IF st.err # "" THEN st
  ELSE Step(st, "packetId", IF st.pos + 2 > Len(src) THEN Fail("panic")
                            ELSE Ok(SubSeq(src, st.pos + 1, st.pos + 2), 2))

publishDecode(m, src) ==
  LET WithId(st) == IF QoS(st.m) # 0 THEN ReadPacketId(src, st) ELSE st
      Opening(st) ==
        ReadProps(src, ReadField(src, WithId(ReadField(src, st, "lp", "topic")), "vb", "propertiesLen"),
                  publishPropsBeforeTopicTest)
      Named(st) == st.m.topicAlias = 0 => ValidTopic(st.m.topic)
      Back(st) == ReadProps(src, Check(st, Named, "refused"), publishPropsAfterTopicTest)
      Payload(st, l) ==
        IF st.err # "" THEN st
        ELSE IF l < 0 THEN [st EXCEPT !.err = "panic"]
        ELSE Clean([st EXCEPT !.pos = @ + l, !.m.payload = SubSeq(src, st.pos + 1, st.pos + l)])
      Rest(st, hn) == Payload(st, st.m.remlen - (st.pos - hn))
      Body(h) == Rest(Back(Opening(h)), h.pos)
  IN  Body(headerDecode(m, src))

----------------------------------------------------------------------------
(* PUBACK, PUBREC, PUBREL, PUBCOMP: the last three embed the first.        *)

NewAckMessage(t) ==
  NewHeader(t) @@ [reasonCode |-> 0, propertyLen |-> 0, reasonStr |-> <<>>, userProperty |-> <<>>]

ackFields == {"reasonCode", "reasonStr", "userProperty"}

ackBuild(m) ==
  LET WithProps(props) ==
        SetRemainingLength([m EXCEPT !.propertyLen = props],
          IF props > 0 THEN 3 + props + Len(lbEncode[props])
          ELSE IF m.reasonCode = 0 THEN 2 ELSE 3)
  IN  WithProps(Cnt(m.reasonStr # <<>>, 3 + Len(m.reasonStr)) + buildUserPropertyLen(m.userProperty))

ackEncode(m) ==
  LET Write(b, head) ==
        IF b.remlen = 2 /\ b.reasonCode = 0 THEN Encoded(b, head)
        ELSE IF b.propertyLen = 0 THEN Encoded(b, head \o <<b.reasonCode>>)
        ELSE Encoded(b, head \o <<b.reasonCode>> \o lbEncode[b.propertyLen]
                        \o Put(b.reasonStr # <<>>, Id.ReasonString, writeLPBytes(b.reasonStr))
                        \o writeUserProperty(b.userProperty))
      Built(b) == Write(b, headerEncode(b) \o (IF Len(b.packetId) = 2 THEN b.packetId ELSE <<0, 0>>))
  IN  IF ~m.dirty THEN Encoded(m, m.dbuf) ELSE Built(ackBuild(m))

\* Mutant: a packet id that is not set is left out.
ackEncodeToBuf_NoId(m) ==
  LET Props(b) == lbEncode[b.propertyLen]
                  \o Put(b.reasonStr # <<>>, Id.ReasonString, writeLPBytes(b.reasonStr))
                  \o writeUserProperty(b.userProperty)
      Write(b) ==
        Encoded(b, headerEncode(b) \o b.packetId
                   \o (IF b.remlen = 2 /\ b.reasonCode = 0 THEN <<>>
                       ELSE <<b.reasonCode>> \o (IF b.propertyLen > 0 THEN Props(b) ELSE <<>>)))
  IN  IF ~m.dirty THEN Encoded(m, m.dbuf) ELSE Write(ackBuild(m))

ackEncodeToBuf(m) ==
  LET Props(b) == lbEncode[b.propertyLen]
                  \o Put(b.reasonStr # <<>>, Id.ReasonString, writeLPBytes(b.reasonStr))
                  \o writeUserProperty(b.userProperty)
      Write(b) ==
        Encoded(b, headerEncode(b) \o (IF Len(b.packetId) = 2 THEN b.packetId ELSE <<0, 0>>)
                   \o (IF b.remlen = 2 /\ b.reasonCode = 0 THEN <<>>
                       ELSE <<b.reasonCode>> \o (IF b.propertyLen > 0 THEN Props(b) ELSE <<>>)))
  IN  IF ~m.dirty THEN Encoded(m, m.dbuf) ELSE Write(ackBuild(m))

\* decodeOther, from the reason code on.
decodeOther(src, st) ==
  LET Valid(s) == s.m.reasonCode \in ValidReasonCode(s.m.type)
      WithLen(s) == IF s.pos < Len(src) THEN ReadField(src, s, "vb", "propertyLen") ELSE s
  IN  Clean(ReadProps(src, WithLen(Check(ReadField(src, st, "u8", "reasonCode"), Valid, "refused")),
                      <<PropLookingAhead(Id.ReasonString, "lp", "reasonStr", {}),
                        UserProp("userProperty")>>))

pubackDecode(m, src) ==
  LET Body(s) == IF s.err # "" THEN s
                 ELSE IF s.m.remlen = 2 THEN [s EXCEPT !.m.reasonCode = 0]
                 ELSE decodeOther(src, s)
  IN  Body(ReadPacketId(src, headerDecode(m, src)))

pubrecDecode(m, src) == pubackDecode(m, src)

pubrelDecode(m, src) == pubackDecode(m, src)

pubcompDecode(m, src) == pubackDecode(m, src)
=============================================================================
