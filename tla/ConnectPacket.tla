---------------------------- MODULE ConnectPacket ----------------------------
(***************************************************************************)
(* CONNECT and CONNACK: connect.go and connack.go of corev5/v2/message.    *)
(***************************************************************************)
EXTENDS PublishPacket

NewConnectMessage ==
  NewHeader("CONNECT") @@
  [connectFlags |-> 0, version |-> 0, keepAlive |-> 0, protoName |-> <<>>, clientId |-> <<>>,
   willTopic |-> <<>>, willMessage |-> <<>>, username |-> <<>>, password |-> <<>>,
   propertiesLen |-> 0, sessionExpiryInterval |-> 0, receiveMaximum |-> 0,
   maxPacketSize |-> 1024, topicAliasMax |-> 0, requestRespInfo |-> 0,
   requestProblemInfo |-> 1, userProperty |-> <<>>, authMethod |-> <<>>, authData |-> <<>>,
   willPropertiesLen |-> 0, willDelayInterval |-> 0, payloadFormatIndicator |-> 0,
   willMsgExpiryInterval |-> 0, contentType |-> <<>>, willUserProperty |-> <<>>,
   responseTopic |-> <<>>, correlationData |-> <<>>]

\* The fields with a setter that only assigns and marks the object dirty.
connectFields ==
  {"sessionExpiryInterval", "receiveMaximum", "maxPacketSize", "topicAliasMax", "requestRespInfo",
   "requestProblemInfo", "userProperty", "willUserProperty", "authMethod", "authData",
   "willDelayInterval", "payloadFormatIndicator", "willMsgExpiryInterval", "contentType",
   "responseTopic", "correlationData", "keepAlive"}

\* SupportedVersions: version 5 goes with the name MQTT.
protoNameOf(v) == IF v = 5 THEN <<77, 81, 84, 84>> ELSE <<>>

\* The bits of connectFlags.
Flag(m, k) == (m.connectFlags \div 2^k) % 2 = 1

CleanStart(m) == Flag(m, 1)
WillFlag(m) == Flag(m, 2)
WillQos(m) == (m.connectFlags \div 8) % 4
WillRetain(m) == Flag(m, 5)
PasswordFlag(m) == Flag(m, 6)
UsernameFlag(m) == Flag(m, 7)

SetFlag(m, k, v) ==
  [m EXCEPT !.connectFlags = @ + (IF v THEN 2^k ELSE 0) - (IF Flag(m, k) THEN 2^k ELSE 0),
            !.dirty = TRUE]

SetVersion(m, v) ==
  IF v = 5 THEN [m EXCEPT !.protoName = protoNameOf(v), !.version = v, !.dirty = TRUE] ELSE m

SetWillQos(m, q) ==
  IF ValidQos(q) THEN [m EXCEPT !.connectFlags = @ - 8 * WillQos(m) + 8 * q, !.dirty = TRUE] ELSE m

validClientId(cid) ==
  \A i \in 1..Len(cid) :
     cid[i] \in {32, 45, 47, 95} \cup (48..57) \cup (65..90) \cup (97..122)

SetClientId(m, v) == IF validClientId(v) THEN SetField(m, "clientId", v) ELSE m

\* The will flag follows the topic and the message, except that a message
\* taken back clears it even if a topic is left.
SetWillTopic(m, v) ==
  LET m1 == SetField(m, "willTopic", v)
  IN  IF v # <<>> THEN SetFlag(m1, 2, TRUE)
      ELSE IF m.willMessage = <<>> THEN SetFlag(m1, 2, FALSE) ELSE m1

SetWillMessage(m, v) == SetFlag(SetField(m, "willMessage", v), 2, v # <<>>)

SetUsername(m, v) == SetFlag(SetField(m, "username", v), 7, v # <<>>)

SetPassword(m, v) == SetFlag(SetField(m, "password", v), 6, v # <<>>)

\* build: the user properties of the will are added to the local propertiesLen
\* after it was stored, so they are counted in remlen and in neither length.
connectBuild(m) ==
  LET payload ==
        4 + 2 + Len(m.protoName) + 2 + Len(m.clientId)
        + Cnt(WillFlag(m) /\ m.willTopic # <<>>, 2 + Len(m.willTopic))
        + Cnt(WillFlag(m) /\ m.willMessage # <<>>, 2 + Len(m.willMessage))
        + Cnt(UsernameFlag(m), 2 + Len(m.username))
        + Cnt(PasswordFlag(m), 2 + Len(m.password))
      WithProps(props, will) ==
        SetRemainingLength([m EXCEPT !.propertiesLen = props, !.willPropertiesLen = will],
          payload + props + buildUserPropertyLen(m.willUserProperty) + Len(lbEncode[props])
          + Cnt(WillFlag(m), will + Len(lbEncode[will])))
  IN  WithProps(
        Cnt(m.sessionExpiryInterval > 0, 5) + Cnt(m.receiveMaximum \in 1..65534, 3)
        + Cnt(m.maxPacketSize > 0, 5) + Cnt(m.topicAliasMax > 0, 3)
        + Cnt(m.requestRespInfo # 0, 2) + Cnt(m.requestProblemInfo # 1, 2)
        + buildUserPropertyLen(m.userProperty)
        + Cnt(m.authMethod # <<>>, 3 + Len(m.authMethod))
        + Cnt(m.authData # <<>>, 3 + Len(m.authData)),
        Cnt(m.willDelayInterval > 0, 5) + Cnt(m.payloadFormatIndicator = 1, 2)
        + Cnt(m.willMsgExpiryInterval > 0, 5)
        + Cnt(m.contentType # <<>>, 3 + Len(m.contentType))
        + Cnt(m.responseTopic # <<>>, 3 + Len(m.responseTopic))
        + Cnt(m.correlationData # <<>>, 3 + Len(m.correlationData)))

\* encodeMessage, up to the client identifier.
connectHead(m) ==
  writeLPBytes(protoNameOf(m.version)) \o <<m.version, m.connectFlags>> \o PutUint16(m.keepAlive)
  \o lbEncode[m.propertiesLen]
  \o Put(m.sessionExpiryInterval > 0, Id.SessionExpirationInterval, PutUint32(m.sessionExpiryInterval))
  \o Put(m.receiveMaximum \in 1..65534, Id.MaximumQuantityReceived, PutUint16(m.receiveMaximum))
  \o Put(TRUE, Id.MaximumMessageLength, PutUint32(m.maxPacketSize))
  \o Put(m.topicAliasMax > 0, Id.MaximumLengthOfTopicAlias, PutUint16(m.topicAliasMax))
  \o Put(m.requestRespInfo # 0, Id.RequestResponseInformation, <<m.requestRespInfo>>)
  \o Put(m.requestProblemInfo # 1, Id.RequestProblemInformation, <<m.requestProblemInfo>>)
  \o writeUserProperty(m.userProperty)
  \o Put(m.authMethod # <<>>, Id.AuthenticationMethod, writeLPBytes(m.authMethod))
  \o Put(m.authData # <<>>, Id.AuthenticationData, writeLPBytes(m.authData))

\* encodeMessage, the payload.
connectPayload(m) ==
  LET will ==
        lbEncode[m.willPropertiesLen]
        \o Put(m.willDelayInterval > 0, Id.DelayWills, PutUint32(m.willDelayInterval))
        \o Put(m.payloadFormatIndicator > 0, Id.LoadFormatDescription, <<m.payloadFormatIndicator>>)
        \o Put(m.willMsgExpiryInterval > 0, Id.MessageExpirationTime, PutUint32(m.willMsgExpiryInterval))
        \o Put(m.contentType # <<>>, Id.ContentType, writeLPBytes(m.contentType))
        \o Put(m.responseTopic # <<>>, Id.ResponseTopic, writeLPBytes(m.responseTopic))
        \o Put(m.correlationData # <<>>, Id.RelatedData, writeLPBytes(m.correlationData))
        \o writeUserProperty(m.willUserProperty)
        \o writeLPBytes(m.willTopic) \o writeLPBytes(m.willMessage)
  IN  writeLPBytes(m.clientId)
      \o (IF WillFlag(m) THEN will ELSE <<>>)
      \o (IF UsernameFlag(m) /\ m.username # <<>> THEN writeLPBytes(m.username) ELSE <<>>)
      \o (IF PasswordFlag(m) /\ m.password # <<>> THEN writeLPBytes(m.password) ELSE <<>>)

connectEncode(m) ==
  LET Write(b) == Encoded(b, headerEncode(b) \o connectHead(b) \o connectPayload(b))
  IN  IF ~m.dirty THEN Encoded(m, m.dbuf)
      ELSE IF m.version # 5 THEN NotEncoded(m)
      ELSE Write(connectBuild(m))

\* encodeMessageToBuf lists the same fields again.
connectToBuf(m) ==
  LET will ==
        lbEncode[m.willPropertiesLen]
        \o Put(m.willDelayInterval > 0, Id.DelayWills, PutUint32(m.willDelayInterval))
        \o Put(m.payloadFormatIndicator > 0, Id.LoadFormatDescription, <<m.payloadFormatIndicator>>)
        \o Put(m.willMsgExpiryInterval > 0, Id.MessageExpirationTime, PutUint32(m.willMsgExpiryInterval))
        \o Put(m.contentType # <<>>, Id.ContentType, writeLPBytes(m.contentType))
        \o Put(m.responseTopic # <<>>, Id.ResponseTopic, writeLPBytes(m.responseTopic))
        \o Put(m.correlationData # <<>>, Id.RelatedData, writeLPBytes(m.correlationData))
        \o writeUserProperty(m.willUserProperty)
        \o writeLPBytes(m.willTopic) \o writeLPBytes(m.willMessage)
  IN  writeLPBytes(protoNameOf(m.version)) \o <<m.version, m.connectFlags>> \o PutUint16(m.keepAlive)
      \o lbEncode[m.propertiesLen]
      \o Put(m.sessionExpiryInterval > 0, Id.SessionExpirationInterval, PutUint32(m.sessionExpiryInterval))
      \o Put(m.receiveMaximum \in 1..65534, Id.MaximumQuantityReceived, PutUint16(m.receiveMaximum))
      \o Put(TRUE, Id.MaximumMessageLength, PutUint32(m.maxPacketSize))
      \o Put(m.topicAliasMax > 0, Id.MaximumLengthOfTopicAlias, PutUint16(m.topicAliasMax))
      \o Put(m.requestRespInfo # 0, Id.RequestResponseInformation, <<m.requestRespInfo>>)
      \o Put(m.requestProblemInfo # 1, Id.RequestProblemInformation, <<m.requestProblemInfo>>)
      \o writeUserProperty(m.userProperty)
      \o Put(m.authMethod # <<>>, Id.AuthenticationMethod, writeLPBytes(m.authMethod))
      \o Put(m.authData # <<>>, Id.AuthenticationData, writeLPBytes(m.authData))
      \o writeLPBytes(m.clientId)
      \o (IF WillFlag(m) THEN will ELSE <<>>)
      \o (IF UsernameFlag(m) /\ m.username # <<>> THEN writeLPBytes(m.username) ELSE <<>>)
      \o (IF PasswordFlag(m) /\ m.password # <<>> THEN writeLPBytes(m.password) ELSE <<>>)

connectEncodeToBuf(m) ==
  LET Write(b) == Encoded(b, headerEncode(b) \o connectToBuf(b))
  IN  IF ~m.dirty THEN Encoded(m, m.dbuf)
      ELSE IF m.version # 5 THEN NotEncoded(m)
      ELSE Write(connectBuild(m))

\* decodeMessage: protocol name, version, flags and keep alive.
decodeConnectHead(src, h) ==
  LET Supported(s) == s.m.version = 5 /\ s.m.protoName = protoNameOf(5)
      Legal(s) == /\ ~Flag(s.m, 0) /\ ValidQos(WillQos(s.m))
                  /\ ~WillFlag(s.m) => ~WillRetain(s.m) /\ WillQos(s.m) = 0
                  /\ UsernameFlag(s.m) => PasswordFlag(s.m)
                  /\ Len(src) - s.pos >= 2
      Version(s) == Check(ReadField(src, s, "u8", "version"), Supported, "refused")
      Flags(s) == Check(ReadField(src, s, "u8", "connectFlags"), Legal, "refused")
  IN  ReadField(src, Flags(Version(ReadField(src, h, "lp", "protoName"))), "u16", "keepAlive")

\* decodeMessage: the properties.
decodeConnectProps(src, st) ==
  LET Announced(s) == Len(src) - s.pos >= s.m.propertiesLen
      WithData(s) == s.m.authMethod # <<>> => At(src, s.pos, Id.AuthenticationData)
      Props(s) ==
        ReadProps(src, s,
          <<Prop(Id.SessionExpirationInterval, "u32", "sessionExpiryInterval", {}),
            PropElse(Id.MaximumQuantityReceived, "u16", "receiveMaximum", {0},
                     "receiveMaximum", 65535),
            Prop(Id.MaximumMessageLength, "u32", "maxPacketSize", {0}),
            Prop(Id.MaximumLengthOfTopicAlias, "u16", "topicAliasMax", {}),
            Prop(Id.RequestResponseInformation, "u8", "requestRespInfo", 2..255),
            PropElse(Id.RequestProblemInformation, "u8", "requestProblemInfo", 2..255,
                     "requestProblemInfo", 1),
            UserProp("userProperty"),
            Prop(Id.AuthenticationMethod, "lp", "authMethod", {})>>)
  IN  ReadProp(src,
        Check(Props(Check(ReadField(src, st, "vb", "propertiesLen"), Announced, "refused")),
              WithData, "refused"),
        Prop(Id.AuthenticationData, "lp", "authData", {}))

\* decodeMessage: the client identifier; an empty one becomes "#".
decodeClientId(src, st) ==
  LET Accepted(s) == /\ s.m.clientId = <<>> => CleanStart(s.m)
                     /\ validClientId(s.m.clientId)
      Named(s) == IF s.err = "" /\ s.m.clientId = <<>> THEN [s EXCEPT !.m.clientId = <<35>>] ELSE s
  IN  Named(Check(ReadField(src, st, "lp", "clientId"), Accepted, "refused"))

\* decodeMessage: the will, then the user name and the password.
decodeConnectWill(src, st) ==
  LET Props(s) ==
        ReadProps(src, s,
          <<Prop(Id.DelayWills, "u32", "willDelayInterval", {}),
            Prop(Id.LoadFormatDescription, "u8", "payloadFormatIndicator", 2..255),
            Prop(Id.MessageExpirationTime, "u32", "willMsgExpiryInterval", {}),
            Prop(Id.ContentType, "lp", "contentType", {}),
            Prop(Id.ResponseTopic, "lp", "responseTopic", {}),
            Prop(Id.RelatedData, "lp", "correlationData", {}),
            UserProp("willUserProperty")>>)
  IN  IF WillFlag(st.m)
      THEN ReadField(src, ReadField(src, Props(ReadField(src, st, "vb", "willPropertiesLen")),
                                    "lp", "willTopic"), "lp", "willMessage")
      ELSE st

decodeCredentials(src, st) ==
  LET User(s) == IF UsernameFlag(s.m) /\ s.pos < Len(src) THEN ReadField(src, s, "lp", "username")
                 ELSE s
      Pass(s) == IF PasswordFlag(s.m) /\ s.pos < Len(src) THEN ReadField(src, s, "lp", "password")
                 ELSE s
  IN  Pass(User(st))

connectDecode(m, src) ==
  LET Payload(s) == decodeCredentials(src, decodeConnectWill(src, decodeClientId(src, s)))
      Body(h) == IF h.err # "" THEN h
                 ELSE Clean(Payload(decodeConnectProps(src, decodeConnectHead(src, h))))
  IN  Body(headerDecode(m, src))

----------------------------------------------------------------------------
(* CONNACK.                                                                *)

NewConnackMessage ==
  NewHeader("CONNACK") @@
  [sessionPresent |-> 0, reasonCode |-> 0, propertiesLen |-> 0, sessionExpiryInterval |-> 0,
   receiveMaximum |-> 0, maxQos |-> 0, retainAvailable |-> 1, maxPacketSize |-> 1024,
   assignedIdentifier |-> <<>>, topicAliasMax |-> 0, reasonStr |-> <<>>,
   userProperties |-> <<>>, wildcardSubscriptionAvailable |-> 0,
   subscriptionIdentifierAvailable |-> 0, sharedSubscriptionAvailable |-> 0,
   serverKeepAlive |-> 0, responseInformation |-> <<>>, serverReference |-> <<>>,
   authMethod |-> <<>>, authData |-> <<>>]

connackFields == DOMAIN NewConnackMessage \ (DOMAIN NewHeader("CONNACK") \cup {"propertiesLen"})

\* build: a receive maximum that need not be sent becomes 65535.
connackBuild(m) ==
  LET WithProps(props) ==
        SetRemainingLength(
          [m EXCEPT !.propertiesLen = props,
                    !.receiveMaximum = IF @ \in 1..65534 THEN @ ELSE 65535],
          2 + props + Len(lbEncode[props]))
  IN  WithProps(
        Cnt(m.sessionExpiryInterval > 0, 5) + Cnt(m.receiveMaximum \in 1..65534, 3)
        + Cnt(m.maxQos > 0, 2) + Cnt(m.retainAvailable # 1, 2) + Cnt(m.maxPacketSize > 0, 5)
        + Cnt(m.assignedIdentifier # <<>>, 3 + Len(m.assignedIdentifier))
        + Cnt(m.topicAliasMax > 0, 3) + Cnt(m.reasonStr # <<>>, 3 + Len(m.reasonStr))
        + buildUserPropertyLen(m.userProperties)
        + Cnt(m.wildcardSubscriptionAvailable # 1, 2)
        + Cnt(m.subscriptionIdentifierAvailable # 1, 2)
        + Cnt(m.sharedSubscriptionAvailable # 1, 2) + Cnt(m.serverKeepAlive > 0, 3)
        + Cnt(m.responseInformation # <<>>, 3 + Len(m.responseInformation))
        + Cnt(m.serverReference # <<>>, 3 + Len(m.serverReference))
        + Cnt(m.authMethod # <<>>, 3 + Len(m.authMethod))
        + Cnt(m.authData # <<>>, 3 + Len(m.authData)))

\* The properties as Encode writes them, in two halves.
connackPropsHead(m) ==
  Put(m.sessionExpiryInterval > 0, Id.SessionExpirationInterval, PutUint32(m.sessionExpiryInterval))
  \o Put(m.receiveMaximum \in 1..65534, Id.MaximumQuantityReceived, PutUint16(m.receiveMaximum))
  \o Put(m.maxQos > 0, Id.MaximumQoS, <<m.maxQos>>)
  \o Put(m.retainAvailable # 1, Id.PreservePropertyAvailability, <<m.retainAvailable>>)
  \o Put(m.maxPacketSize # 1, Id.MaximumMessageLength, PutUint32(m.maxPacketSize))
  \o Put(m.assignedIdentifier # <<>>, Id.AssignCustomerIdentifiers, writeLPBytes(m.assignedIdentifier))
  \o Put(m.topicAliasMax > 0, Id.MaximumLengthOfTopicAlias, PutUint16(m.topicAliasMax))
  \o Put(m.reasonStr # <<>>, Id.ReasonString, writeLPBytes(m.reasonStr))
  \o writeUserProperty(m.userProperties)

connackPropsTail(m) ==
  Put(m.wildcardSubscriptionAvailable # 1, Id.WildcardSubscriptionAvailability,
      <<m.wildcardSubscriptionAvailable>>)
  \o Put(m.subscriptionIdentifierAvailable # 1, Id.AvailabilityOfSubscriptionIdentifiers,
         <<m.subscriptionIdentifierAvailable>>)
  \o Put(m.sharedSubscriptionAvailable # 1, Id.SharedSubscriptionAvailability,
         <<m.sharedSubscriptionAvailable>>)
  \o Put(m.serverKeepAlive > 0, Id.ServerSurvivalTime, PutUint16(m.serverKeepAlive))
  \o Put(m.responseInformation # <<>>, Id.SolicitedMessage, writeLPBytes(m.responseInformation))
  \o Put(m.serverReference # <<>>, Id.ServerReference, writeLPBytes(m.serverReference))
  \o Put(m.authMethod # <<>>, Id.AuthenticationMethod, writeLPBytes(m.authMethod))
  \o Put(m.authData # <<>>, Id.AuthenticationData, writeLPBytes(m.authData))

\* Encode leaves the flag byte alone when no session is present: dst is fresh.
connackEncode(m) ==
  LET Write(b) ==
        IF m.reasonCode > 162 THEN NotEncoded(b)
        ELSE Encoded(b, headerEncode(b) \o <<b.sessionPresent, b.reasonCode>>
                        \o lbEncode[b.propertiesLen] \o connackPropsHead(b) \o connackPropsTail(b))
  IN  IF ~m.dirty THEN Encoded(m, m.dbuf) ELSE Write(connackBuild(m))

connackEncodeToBuf(m) ==
  LET Props(b) ==
        Put(b.sessionExpiryInterval > 0, Id.SessionExpirationInterval, PutUint32(b.sessionExpiryInterval))
        \o Put(b.receiveMaximum \in 1..65534, Id.MaximumQuantityReceived, PutUint16(b.receiveMaximum))
        \o Put(b.maxQos > 0, Id.MaximumQoS, <<b.maxQos>>)
        \o Put(b.retainAvailable # 1, Id.PreservePropertyAvailability, <<b.retainAvailable>>)
        \o Put(b.maxPacketSize # 1, Id.MaximumMessageLength, PutUint32(b.maxPacketSize))
        \o Put(b.assignedIdentifier # <<>>, Id.AssignCustomerIdentifiers,
               writeLPBytes(b.assignedIdentifier))
        \o Put(b.topicAliasMax > 0, Id.MaximumLengthOfTopicAlias, PutUint16(b.topicAliasMax))
        \o Put(b.reasonStr # <<>>, Id.ReasonString, writeLPBytes(b.reasonStr))
        \o writeUserProperty(b.userProperties)
        \o Put(b.wildcardSubscriptionAvailable # 1, Id.WildcardSubscriptionAvailability,
               <<b.wildcardSubscriptionAvailable>>)
        \o Put(b.subscriptionIdentifierAvailable # 1, Id.AvailabilityOfSubscriptionIdentifiers,
               <<b.subscriptionIdentifierAvailable>>)
        \o Put(b.sharedSubscriptionAvailable # 1, Id.SharedSubscriptionAvailability,
               <<b.sharedSubscriptionAvailable>>)
        \o Put(b.serverKeepAlive > 0, Id.ServerSurvivalTime, PutUint16(b.serverKeepAlive))
        \o Put(b.responseInformation # <<>>, Id.SolicitedMessage, writeLPBytes(b.responseInformation))
        \o Put(b.serverReference # <<>>, Id.ServerReference, writeLPBytes(b.serverReference))
        \o Put(b.authMethod # <<>>, Id.AuthenticationMethod, writeLPBytes(b.authMethod))
        \o Put(b.authData # <<>>, Id.AuthenticationData, writeLPBytes(b.authData))
      Write(b) ==
        IF m.reasonCode > 162 THEN NotEncoded(b)
        ELSE Encoded(b, headerEncode(b) \o <<b.sessionPresent, b.reasonCode>>
                        \o lbEncode[b.propertiesLen] \o Props(b))
  IN  IF ~m.dirty THEN Encoded(m, m.dbuf) ELSE Write(connackBuild(m))

\* The order in which Decode asks for the properties, in two halves.  An absent
\* shared subscription property sets the field of the subscription identifiers,
\* and only one of the two bytes of the keep alive is stepped over.
connackDecodeHead ==
  <<Prop(Id.SessionExpirationInterval, "u32", "sessionExpiryInterval", {}),
    PropElse(Id.MaximumQuantityReceived, "u16", "receiveMaximum", {0}, "receiveMaximum", 65535),
    PropElse(Id.MaximumQoS, "u8", "maxQos", 3..255, "maxQos", 2),
    PropElse(Id.PreservePropertyAvailability, "u8", "retainAvailable", 2..255,
             "retainAvailable", 1),
    Prop(Id.MaximumMessageLength, "u32", "maxPacketSize", {0}),
    Prop(Id.AssignCustomerIdentifiers, "lp", "assignedIdentifier", {}),
    Prop(Id.MaximumLengthOfTopicAlias, "u16", "topicAliasMax", {}),
    Prop(Id.ReasonString, "lp", "reasonStr", {}),
    UserProp("userProperties")>>

connackDecodeTail ==
  <<PropElse(Id.WildcardSubscriptionAvailability, "u8", "wildcardSubscriptionAvailable", 2..255,
             "wildcardSubscriptionAvailable", 1),
    PropElse(Id.AvailabilityOfSubscriptionIdentifiers, "u8", "subscriptionIdentifierAvailable",
             2..255, "subscriptionIdentifierAvailable", 1),
    PropElse(Id.SharedSubscriptionAvailability, "u8", "sharedSubscriptionAvailable", 2..255,
             "subscriptionIdentifierAvailable", 1),
    Prop(Id.ServerSurvivalTime, "u16in1", "serverKeepAlive", {}),
    Prop(Id.SolicitedMessage, "lp", "responseInformation", {}),
    Prop(Id.ServerReference, "lp", "serverReference", {}),
    Prop(Id.AuthenticationMethod, "lp", "authMethod", {}),
    Prop(Id.AuthenticationData, "lp", "authData", {})>>

connackDecode(m, src) ==
  LET FlagOk(s) == s.m.sessionPresent \in 0..1
      Valid(s) == s.m.reasonCode \in ValidReasonCode("CONNACK")
      Flags(s) == Check(ReadField(src, s, "u8", "sessionPresent"), FlagOk, "refused")
      Code(s) == Check(ReadField(src, s, "u8", "reasonCode"), Valid, "refused")
      Body(h) == Clean(ReadProps(src, ReadField(src, Code(Flags(h)), "vb", "propertiesLen"),
                                 connackDecodeHead \o connackDecodeTail))
  IN  Body(headerDecode(m, src))
=============================================================================
