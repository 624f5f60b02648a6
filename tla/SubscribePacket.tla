--------------------------- MODULE SubscribePacket ---------------------------
(***************************************************************************)
(* SUBSCRIBE, SUBACK, UNSUBSCRIBE and UNSUBACK of corev5/v2/message.       *)
(*                                                                         *)
(* The five parallel slices of a SUBSCRIBE (topics, qos, noLocal,          *)
(* retainAsPub, retainHandling) are one sequence of records.               *)
(***************************************************************************)
EXTENDS PublishPacket

NewSubscribeMessage ==
  NewHeader("SUBSCRIBE") @@
  [propertiesLen |-> 0, subscriptionIdentifier |-> 0, userProperty |-> <<>>, topics |-> <<>>]

subscribeFields == {"subscriptionIdentifier", "userProperty"}

Filter(t, q, nl, rap, rh) == [topic |-> t, qos |-> q, nl |-> nl, rap |-> rap, rh |-> rh]

IndexOf(fs, t) == CHOOSE i \in 1..Len(fs) : fs[i].topic = t /\ \A j \in 1..(i - 1) : fs[j].topic # t

Mentions(fs, t) == \E i \in 1..Len(fs) : fs[i].topic = t

\* AddTopicAll: a topic that is there already only gets the QoS, and the
\* object does not become dirty.
AddTopicAll(m, f) ==
  IF ~ValidQos(f.qos) \/ f.rh > 2 THEN m
  ELSE IF Mentions(m.topics, f.topic) THEN [m EXCEPT !.topics[IndexOf(m.topics, f.topic)].qos = f.qos]
  ELSE [m EXCEPT !.topics = Append(@, f), !.dirty = TRUE]

\* AddTopic: the same without options.
AddTopic(m, t, q) ==
  IF ~ValidQos(q) THEN m
  ELSE IF Mentions(m.topics, t) THEN [m EXCEPT !.topics[IndexOf(m.topics, t)].qos = q]
  ELSE [m EXCEPT !.topics = Append(@, Filter(t, q, 0, 0, 0)), !.dirty = TRUE]

RemoveTopic(m, t) ==
  [m EXCEPT !.topics = IF Mentions(@, t) THEN RemoveAt(@, IndexOf(@, t)) ELSE @, !.dirty = TRUE]

\* SetTopicNoLocal, SetTopicRetainAsPublished, SetTopicRetainHandling.
SetOption(m, t, opt, v) ==
  IF Mentions(m.topics, t) THEN [m EXCEPT !.topics[IndexOf(m.topics, t)][opt] = v, !.dirty = TRUE] ELSE m

subIdWritten(m) == m.subscriptionIdentifier > 0 /\ m.subscriptionIdentifier <= 268435455

subscribeBuild(m) ==
  LET WithProps(props) ==
        SetRemainingLength([m EXCEPT !.propertiesLen = props],
          2 + props + Len(lbEncode[props])
          + FoldLeft(LAMBDA n, f : n + 3 + Len(f.topic), 0, m.topics))
  IN  WithProps(Cnt(subIdWritten(m), 1 + Len(lbEncode[m.subscriptionIdentifier]))
                + buildUserPropertyLen(m.userProperty))

Options(f) == f.qos + 4 * f.nl + 8 * f.rap + 16 * f.rh

\* SUBSCRIBE and UNSUBSCRIBE draw a packet id from the global counter g.
WithPacketId(b, g) == IF PacketId(b) = 0 THEN SetPacketId(b, (g + 1) % 65536) ELSE b

subscribeEncode(m, g) ==
  LET Write(b) ==
        Encoded(b, headerEncode(b) \o b.packetId \o lbEncode[b.propertiesLen]
          \o Put(subIdWritten(b), Id.DefiningIdentifiers, lbEncode[b.subscriptionIdentifier])
          \o writeUserProperty(b.userProperty)
          \o FlattenSeq([i \in 1..Len(b.topics) |->
                           writeLPBytes(b.topics[i].topic) \o <<Options(b.topics[i])>>]))
  IN  IF ~m.dirty THEN Encoded(m, m.dbuf) ELSE Write(WithPacketId(subscribeBuild(m), g))

subscribeEncodeToBuf(m, g) ==
  LET Item(f) == writeLPBytes(f.topic) \o <<Options(f)>>
      Write(b) ==
        Encoded(b,
          FoldLeft(LAMBDA acc, f : acc \o Item(f),
            headerEncode(b) \o b.packetId \o lbEncode[b.propertiesLen]
            \o Put(subIdWritten(b), Id.DefiningIdentifiers, lbEncode[b.subscriptionIdentifier])
            \o writeUserProperty(b.userProperty), b.topics))
  IN  IF ~m.dirty THEN Encoded(m, m.dbuf) ELSE Write(WithPacketId(subscribeBuild(m), g))

\* The list of filters of a SUBSCRIBE: [p] is the outcome from position p on.
decodeFilters(src, pos, end) ==
  LET Option(t, o, rest) ==
        IF o % 4 = 3 \/ (o \div 16) % 4 = 3 \/ o \div 64 # 0 THEN Fail("refused")
        ELSE [v |-> <<Filter(t.v, o % 4, (o \div 4) % 2, (o \div 8) % 2, (o \div 16) % 4)>> \o rest.v,
              n |-> t.n + 1 + rest.n, err |-> rest.err]
      list[p \in 0..Len(src)] ==
        LET Topic(t) == IF t.err # "" THEN Fail(t.err)
                        ELSE IF p + t.n >= Len(src) THEN Fail("panic")
                        ELSE Option(t, src[p + t.n + 1], list[p + t.n + 1])
        IN  IF p >= end THEN Ok(<<>>, 0) ELSE Topic(readLPBytes(From(src, p)))
  IN  list[pos]

\* The filters are appended to those the object holds already.
subscribeDecode(m, src) ==
  LET Announced(st) == st.m.propertiesLen <= Len(src) - st.pos
      Opening(h) ==
        ReadProps(src,
          Check(ReadField(src, ReadPacketId(src, h), "vb", "propertiesLen"), Announced, "refused"),
          <<PropLookingAhead(Id.DefiningIdentifiers, "vb", "subscriptionIdentifier", {0}),
            UserProp("userProperty")>>)
      Added(st, fs) == Step(st, "topics", [fs EXCEPT !.v = IF fs.err = "" THEN m.topics \o @ ELSE @])
      Filters(st, hn) == Added(st, decodeFilters(src, st.pos, hn + st.m.remlen))
      NotEmpty(st) == st.m.topics # <<>>
      Body(h) == Clean(Check(Filters(Opening(h), h.pos), NotEmpty, "refused"))
  IN  Body(headerDecode(m, src))

----------------------------------------------------------------------------
(* SUBACK.                                                                 *)

NewSubackMessage ==
  NewHeader("SUBACK") @@
  [propertiesLen |-> 0, reasonStr |-> <<>>, userProperty |-> <<>>, reasonCodes |-> <<>>]

subackFields == {"reasonStr", "userProperty"}

\* AddReasonCodes: the codes before an invalid one stay.
AddReasonCodes(m, codes) ==
  LET bad == {i \in 1..Len(codes) : codes[i] \notin {0, 1, 2, 128}}
      n == IF bad = {} THEN Len(codes) ELSE (CHOOSE i \in bad : \A j \in bad : i <= j) - 1
  IN  [m EXCEPT !.reasonCodes = @ \o SubSeq(codes, 1, n), !.dirty = @ \/ bad = {}]

subackBuild(m) ==
  LET WithProps(props) ==
        SetRemainingLength([m EXCEPT !.propertiesLen = props],
                           2 + props + Len(lbEncode[props]) + Len(m.reasonCodes))
  IN  WithProps(Cnt(m.reasonStr # <<>>, 3 + Len(m.reasonStr)) + buildUserPropertyLen(m.userProperty))

PacketIdOrZero(m) == IF Len(m.packetId) = 2 THEN m.packetId ELSE <<0, 0>>

subackEncode(m) ==
  LET Write(b) ==
        Encoded(b, headerEncode(b) \o PacketIdOrZero(b) \o lbEncode[b.propertiesLen]
          \o Put(b.reasonStr # <<>>, Id.ReasonString, writeLPBytes(b.reasonStr))
          \o writeUserProperty(b.userProperty) \o b.reasonCodes)
  IN  IF ~m.dirty THEN Encoded(m, m.dbuf)
      ELSE IF ~(ToSet(m.reasonCodes) \subseteq ValidReasonCode("SUBACK")) THEN NotEncoded(m)
      ELSE Write(subackBuild(m))

subackEncodeToBuf(m) ==
  LET Props(b) == Put(b.reasonStr # <<>>, Id.ReasonString, writeLPBytes(b.reasonStr))
                  \o writeUserProperty(b.userProperty)
      Write(b) == Encoded(b, headerEncode(b) \o PacketIdOrZero(b) \o lbEncode[b.propertiesLen]
                             \o Props(b) \o b.reasonCodes)
  IN  IF ~m.dirty THEN Encoded(m, m.dbuf)
      ELSE IF ~(ToSet(m.reasonCodes) \subseteq ValidReasonCode("SUBACK")) THEN NotEncoded(m)
      ELSE Write(subackBuild(m))

\* The reason codes take what remains of the packet.
decodeReasonCodes(src, st, hn) ==
  LET Codes(l) == IF l <= 0 THEN Fail(IF l = 0 THEN "refused" ELSE "panic")
                  ELSE Ok(SubSeq(src, st.pos + 1, st.pos + l), l)
      Valid(s) == ToSet(s.m.reasonCodes) \subseteq ValidReasonCode(s.m.type)
  IN  Clean(Check(Step(st, "reasonCodes", Codes(st.m.remlen - (st.pos - hn))), Valid, "refused"))

subackDecode(m, src) ==
  LET Announced(st) == st.m.propertiesLen <= Len(src) - st.pos
      Opening(h) ==
        ReadProps(src,
          Check(ReadField(src, ReadPacketId(src, h), "vb", "propertiesLen"), Announced, "refused"),
          <<PropLookingAhead(Id.ReasonString, "lp", "reasonStr", {}), UserProp("userProperty")>>)
      Body(h) == decodeReasonCodes(src, Opening(h), h.pos)
  IN  Body(headerDecode(m, src))

----------------------------------------------------------------------------
(* UNSUBSCRIBE.                                                            *)

NewUnsubscribeMessage ==
  NewHeader("UNSUBSCRIBE") @@ [propertyLen |-> 0, userProperty |-> <<>>, topics |-> <<>>]

unsubscribeFields == {"userProperty"}

AddUnsubTopic(m, t) ==
  IF t \in ToSet(m.topics) THEN m ELSE [m EXCEPT !.topics = Append(@, t), !.dirty = TRUE]

RemoveUnsubTopic(m, t) ==
  [m EXCEPT !.topics = IF t \in ToSet(@)
                       THEN RemoveAt(@, CHOOSE i \in 1..Len(@) : @[i] = t) ELSE @,
            !.dirty = TRUE]

unsubscribeBuild(m) ==
  LET WithProps(props) ==
        SetRemainingLength([m EXCEPT !.propertyLen = props],
          2 + props + Len(lbEncode[props]) + FoldLeft(LAMBDA n, t : n + 2 + Len(t), 0, m.topics))
  IN  WithProps(buildUserPropertyLen(m.userProperty))

unsubscribeEncode(m, g) ==
  LET Write(b) ==
        Encoded(b, headerEncode(b) \o b.packetId \o lbEncode[b.propertyLen]
          \o writeUserProperty(b.userProperty)
          \o FlattenSeq([i \in 1..Len(b.topics) |-> writeLPBytes(b.topics[i])]))
  IN  IF ~m.dirty THEN Encoded(m, m.dbuf) ELSE Write(WithPacketId(unsubscribeBuild(m), g))

unsubscribeEncodeToBuf(m, g) ==
  LET Opening(b) ==
        headerEncode(b) \o b.packetId \o lbEncode[b.propertyLen] \o writeUserProperty(b.userProperty)
      Write(b) == Encoded(b, FoldLeft(LAMBDA acc, t : acc \o writeLPBytes(t), Opening(b), b.topics))
  IN  IF ~m.dirty THEN Encoded(m, m.dbuf) ELSE Write(WithPacketId(unsubscribeBuild(m), g))

\* The list of topics: after every one of them remlen is also reduced by the
\* option byte that only SUBSCRIBE has.  [p, k]: position p, k topics read.
decodeUnsubTopics(src, pos, end) ==
  LET Joined(t, rest) == [v |-> <<t.v>> \o rest.v, n |-> t.n + rest.n, err |-> rest.err]
      list[p \in 0..Len(src), k \in 0..Len(src)] ==
        LET Topic(t) == IF t.err # "" THEN Fail(t.err) ELSE Joined(t, list[p + t.n, k + 1])
        IN  IF p + k >= end THEN Ok(<<>>, 0) ELSE Topic(readLPBytes(From(src, p)))
  IN  list[pos, 0]

unsubscribeDecode(m, src) ==
  LET WithLen(st) == IF Len(src) - st.pos >= 4 THEN ReadField(src, st, "vb", "propertyLen") ELSE st
      Opening(h) == ReadProp(src, WithLen(ReadPacketId(src, h)), UserProp("userProperty"))
      Added(st, ts) == Step(st, "topics", [ts EXCEPT !.v = IF ts.err = "" THEN m.topics \o @ ELSE @])
      Topics(st, hn) == Added(st, decodeUnsubTopics(src, st.pos, hn + st.m.remlen))
      NotEmpty(st) == st.m.topics # <<>>
      Body(h) == Clean(Check(Topics(Opening(h), h.pos), NotEmpty, "refused"))
  IN  Body(headerDecode(m, src))

----------------------------------------------------------------------------
(* UNSUBACK.                                                               *)

NewUnsubackMessage ==
  NewHeader("UNSUBACK") @@
  [propertyLen |-> 0, reasonStr |-> <<>>, userProperty |-> <<>>, reasonCodes |-> <<>>]

unsubackFields == {"reasonStr", "userProperty", "reasonCodes"}

\* Mutant: the length of the property length is not counted.
unsubackBuild_NoLen(m) ==
  LET props == Cnt(m.reasonStr # <<>>, 3 + Len(m.reasonStr)) + buildUserPropertyLen(m.userProperty)
  IN  SetRemainingLength([m EXCEPT !.propertyLen = props], 2 + props + Len(m.reasonCodes))

unsubackBuild(m) ==
  LET WithProps(props) ==
        SetRemainingLength([m EXCEPT !.propertyLen = props],
                           2 + props + Len(lbEncode[props]) + Len(m.reasonCodes))
  IN  WithProps(Cnt(m.reasonStr # <<>>, 3 + Len(m.reasonStr)) + buildUserPropertyLen(m.userProperty))

unsubackEncode(m) ==
  LET Write(b) ==
        Encoded(b, headerEncode(b) \o PacketIdOrZero(b) \o lbEncode[b.propertyLen]
          \o Put(b.reasonStr # <<>>, Id.ReasonString, writeLPBytes(b.reasonStr))
          \o writeUserProperty(b.userProperty) \o b.reasonCodes)
  IN  IF ~m.dirty THEN Encoded(m, m.dbuf) ELSE Write(unsubackBuild(m))

unsubackEncodeToBuf(m) ==
  LET Props(b) == Put(b.reasonStr # <<>>, Id.ReasonString, writeLPBytes(b.reasonStr))
                  \o writeUserProperty(b.userProperty)
      Write(b) == Encoded(b, headerEncode(b) \o PacketIdOrZero(b) \o lbEncode[b.propertyLen]
                             \o Props(b) \o b.reasonCodes)
  IN  IF ~m.dirty THEN Encoded(m, m.dbuf) ELSE Write(unsubackBuild(m))

unsubackDecode(m, src) ==
  LET Opening(h) ==
        ReadProps(src, ReadField(src, ReadPacketId(src, h), "vb", "propertyLen"),
          <<PropLookingAhead(Id.ReasonString, "lp", "reasonStr", {}), UserProp("userProperty")>>)
      Body(h) == decodeReasonCodes(src, Opening(h), h.pos)
  IN  Body(headerDecode(m, src))
=============================================================================
