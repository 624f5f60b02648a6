---------------------------- MODULE ControlPacket ----------------------------
(***************************************************************************)
(* AUTH, DISCONNECT, PINGREQ and PINGRESP of corev5/v2/message.            *)
(***************************************************************************)
EXTENDS PublishPacket

NewAuthMessage ==
  NewHeader("AUTH") @@
  [reasonCode |-> 0, propertiesLen |-> 0, authMethod |-> <<>>, authData |-> <<>>,
   reasonStr |-> <<>>, userProperty |-> <<>>]

authFields == {"reasonCode", "authMethod", "authData", "reasonStr", "userProperty"}

authBuild(m) ==
  LET WithProps(props) ==
        SetRemainingLength([m EXCEPT !.propertiesLen = props],
          IF props = 0 /\ m.reasonCode = 0 THEN 0 ELSE 1 + props + Len(lbEncode[props]))
  IN  WithProps(Cnt(m.authMethod # <<>>, 3 + Len(m.authMethod))
                + Cnt(m.authData # <<>>, 3 + Len(m.authData))
                + Cnt(m.reasonStr # <<>>, 3 + Len(m.reasonStr))
                + buildUserPropertyLen(m.userProperty))

authEmpty(m) ==
  m.reasonCode = 0 /\ m.authMethod = <<>> /\ m.authData = <<>> /\ m.reasonStr = <<>>
  /\ m.userProperty = <<>>

authEncode(m) ==
  LET Write(b) ==
        IF authEmpty(b) THEN Encoded(b, headerEncode(b))
        ELSE Encoded(b, headerEncode(b) \o <<b.reasonCode>> \o lbEncode[b.propertiesLen]
               \o Put(b.authMethod # <<>>, Id.AuthenticationMethod, writeLPBytes(b.authMethod))
               \o Put(b.authData # <<>>, Id.AuthenticationData, writeLPBytes(b.authData))
               \o Put(b.reasonStr # <<>>, Id.ReasonString, writeLPBytes(b.reasonStr))
               \o writeUserProperty(b.userProperty))
  IN  IF ~m.dirty THEN Encoded(m, m.dbuf) ELSE Write(authBuild(m))

authEncodeToBuf(m) ==
  LET Props(b) ==
        Put(b.authMethod # <<>>, Id.AuthenticationMethod, writeLPBytes(b.authMethod))
        \o Put(b.authData # <<>>, Id.AuthenticationData, writeLPBytes(b.authData))
        \o Put(b.reasonStr # <<>>, Id.ReasonString, writeLPBytes(b.reasonStr))
        \o writeUserProperty(b.userProperty)
      Write(b) ==
        Encoded(b, headerEncode(b) \o
          (IF authEmpty(b) THEN <<>> ELSE <<b.reasonCode>> \o lbEncode[b.propertiesLen] \o Props(b)))
  IN  IF ~m.dirty THEN Encoded(m, m.dbuf) ELSE Write(authBuild(m))

authDecode(m, src) ==
  LET Valid(s) == s.m.reasonCode \in ValidReasonCode("AUTH")
      Body(h) ==
        IF h.err = "" /\ h.m.remlen = 0 THEN [h EXCEPT !.m.reasonCode = 0]
        ELSE Clean(ReadProps(src,
               ReadField(src, Check(ReadField(src, h, "u8", "reasonCode"), Valid, "refused"),
                         "vb", "propertiesLen"),
               <<Prop(Id.AuthenticationMethod, "lp", "authMethod", {}),
                 Prop(Id.AuthenticationData, "lp", "authData", {}),
                 Prop(Id.ReasonString, "lp", "reasonStr", {}), UserProp("userProperty")>>))
  IN  Body(headerDecode(m, src))

----------------------------------------------------------------------------
(* DISCONNECT.  The session expiry interval is kept as its four bytes: what *)
(* Decode makes of it does not fit into TLC's integers.                    *)

Zero4 == <<0, 0, 0, 0>>

NewDisconnectMessage ==
  NewHeader("DISCONNECT") @@
  [reasonCode |-> 0, propertyLen |-> 0, sessionExpiryInterval |-> Zero4, reasonStr |-> <<>>,
   serverReference |-> <<>>, userProperty |-> <<>>]

disconnectFields ==
  {"reasonCode", "sessionExpiryInterval", "reasonStr", "serverReference", "userProperty"}

disconnectBuild(m) ==
  LET WithProps(props) ==
        SetRemainingLength([m EXCEPT !.propertyLen = props],
          IF props = 0 /\ m.reasonCode = 0 THEN 0 ELSE 1 + props + Len(lbEncode[props]))
  IN  WithProps(Cnt(m.sessionExpiryInterval # Zero4, 5)
                + Cnt(m.reasonStr # <<>>, 3 + Len(m.reasonStr))
                + buildUserPropertyLen(m.userProperty)
                + Cnt(m.serverReference # <<>>, 3 + Len(m.serverReference)))

disconnectEncode(m) ==
  LET Write(b) ==
        IF b.reasonCode = 0 /\ b.remlen = 0 THEN Encoded(b, headerEncode(b))
        ELSE Encoded(b, headerEncode(b) \o <<b.reasonCode>> \o lbEncode[b.propertyLen]
               \o Put(b.sessionExpiryInterval # Zero4, Id.SessionExpirationInterval,
                      b.sessionExpiryInterval)
               \o Put(b.reasonStr # <<>>, Id.ReasonString, writeLPBytes(b.reasonStr))
               \o writeUserProperty(b.userProperty)
               \o Put(b.serverReference # <<>>, Id.ServerReference, writeLPBytes(b.serverReference)))
  IN  IF ~m.dirty THEN Encoded(m, m.dbuf) ELSE Write(disconnectBuild(m))

disconnectEncodeToBuf(m) ==
  LET Props(b) ==
        Put(b.sessionExpiryInterval # Zero4, Id.SessionExpirationInterval, b.sessionExpiryInterval)
        \o Put(b.reasonStr # <<>>, Id.ReasonString, writeLPBytes(b.reasonStr))
        \o writeUserProperty(b.userProperty)
        \o Put(b.serverReference # <<>>, Id.ServerReference, writeLPBytes(b.serverReference))
      Write(b) ==
        Encoded(b, headerEncode(b) \o
          (IF b.reasonCode = 0 /\ b.remlen = 0 THEN <<>>
           ELSE <<b.reasonCode>> \o lbEncode[b.propertyLen] \o Props(b)))
  IN  IF ~m.dirty THEN Encoded(m, m.dbuf) ELSE Write(disconnectBuild(m))

\* The session expiry interval is read from the start of the packet, not from
\* where the decoder is.
ReadSessionExpiry(src, st) ==
  LET Accepted(s) == s.m.sessionExpiryInterval # Zero4
      Once(s) == ~At(src, s.pos, Id.SessionExpirationInterval)
  IN  IF st.err # "" \/ ~At(src, st.pos, Id.SessionExpirationInterval) THEN st
      ELSE Check(Check(Step(st, "sessionExpiryInterval",
                            IF Len(src) < 4 THEN Fail("panic") ELSE Ok(SubSeq(src, 1, 4), 5)),
                       Accepted, "refused"), Once, "stop")

\* The object stays dirty whatever is decoded.
disconnectDecode(m, src) ==
  LET Valid(s) == s.m.reasonCode \in ValidReasonCode("DISCONNECT")
      Props(s) ==
        ReadProps(src, ReadSessionExpiry(src, ReadField(src, s, "vb", "propertyLen")),
          <<PropTwiceStops(Id.ReasonString, "lp", "reasonStr", {}), UserProp("userProperty"),
            PropTwiceStops(Id.ServerReference, "lp", "serverReference", {})>>)
      Code(s) == IF s.err = "" /\ s.m.remlen < 2 THEN [s EXCEPT !.m.propertyLen = 0]
                 ELSE [Props(s) EXCEPT !.err = IF @ = "stop" THEN "" ELSE @]
      Body(h) == IF h.err # "" THEN h
                 ELSE IF h.m.remlen = 0 THEN [h EXCEPT !.m.reasonCode = 0]
                 ELSE Code(Check(ReadField(src, h, "u8", "reasonCode"), Valid, "refused"))
  IN  Body(headerDecode(m, src))

----------------------------------------------------------------------------
(* PINGREQ and PINGRESP are a header; decoding does not make them clean.   *)

pingreqEncode(m) == Encoded(m, IF m.dirty THEN headerEncode(m) ELSE m.dbuf)

pingrespEncode(m) == Encoded(m, IF m.dirty THEN headerEncode(m) ELSE m.dbuf)

pingDecode(m, src) == headerDecode(m, src)
=============================================================================
