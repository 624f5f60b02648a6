------------------------------ MODULE MCCodec ------------------------------
(***************************************************************************)
(* Codec for TLC: every packet type, for every field a value or two, among *)
(* them those at the edges (0, the largest subscription identifiers, a     *)
(* payload that starts with a property identifier, a user property without *)
(* a value, four topics in one UNSUBSCRIBE).                               *)
(***************************************************************************)
EXTENDS Codec

A == <<97>>
B == <<98>>
Pair == <<<<107>>, <<118>>>>

PublishSetters ==
  {<<"SetQoS", 1>>, <<"SetRetain", TRUE>>, <<"SetPacketId", 258>>, <<"SetTopic", A>>,
   <<"SetNilTopicAndAlias", 7>>, <<"payloadFormatIndicator", 1>>, <<"messageExpiryInterval", 65537>>,
   <<"responseTopic", B>>, <<"correlationData", B>>, <<"userProperty", Pair>>,
   <<"userProperty", <<A>>>>, <<"subscriptionIdentifier", 128>>,
   <<"subscriptionIdentifier", 168435455>>, <<"contentType", A>>,
   <<"payload", <<80>>>>, <<"payload", <<3, 0, 1, 80>>>>, <<"payload", <<1, 0, 80>>>>}

AckSetters ==
  {<<"SetPacketId", 258>>, <<"reasonCode", 146>>, <<"reasonCode", 16>>, <<"reasonStr", A>>,
   <<"userProperty", Pair>>}

ConnectSetters ==
  {<<"SetVersion", 5>>, <<"SetCleanSession", TRUE>>, <<"SetClientId", A>>, <<"keepAlive", 300>>,
   <<"SetWillQos", 1>>, <<"SetWillRetain", TRUE>>, <<"SetWillTopic", A>>, <<"SetWillTopic", <<>>>>,
   <<"SetWillMessage", B>>, <<"SetUsername", A>>, <<"SetPassword", B>>,
   <<"sessionExpiryInterval", 9>>, <<"receiveMaximum", 20>>, <<"receiveMaximum", 65535>>,
   <<"maxPacketSize", 70000>>, <<"maxPacketSize", 0>>, <<"topicAliasMax", 3>>, <<"requestRespInfo", 1>>,
   <<"requestProblemInfo", 0>>, <<"userProperty", Pair>>, <<"authMethod", A>>, <<"authData", B>>,
   <<"willDelayInterval", 5>>, <<"payloadFormatIndicator", 1>>, <<"willMsgExpiryInterval", 6>>,
   <<"contentType", A>>, <<"willUserProperty", Pair>>, <<"responseTopic", A>>,
   <<"correlationData", B>>}

ConnackSetters ==
  {<<"sessionPresent", 1>>, <<"reasonCode", 135>>, <<"sessionExpiryInterval", 9>>,
   <<"receiveMaximum", 20>>, <<"maxQos", 1>>, <<"maxQos", 2>>, <<"retainAvailable", 0>>,
   <<"maxPacketSize", 70000>>, <<"maxPacketSize", 1>>, <<"maxPacketSize", 0>>,
   <<"assignedIdentifier", A>>, <<"topicAliasMax", 3>>, <<"reasonStr", A>>, <<"userProperties", Pair>>,
   <<"wildcardSubscriptionAvailable", 1>>, <<"subscriptionIdentifierAvailable", 1>>,
   <<"sharedSubscriptionAvailable", 1>>, <<"serverKeepAlive", 300>>,
   <<"responseInformation", A>>, <<"serverReference", B>>, <<"authMethod", A>>, <<"authData", B>>}

SubscribeSetters ==
  {<<"SetPacketId", 258>>, <<"subscriptionIdentifier", 268435455>>, <<"userProperty", Pair>>,
   <<"AddTopicAll", Filter(A, 2, 1, 1, 2)>>, <<"AddTopicAll", Filter(B, 0, 0, 1, 1)>>,
   <<"AddTopic", B>>, <<"RemoveTopic", A>>, <<"SetTopicNoLocal", B>>}

SubackSetters ==
  {<<"SetPacketId", 258>>, <<"reasonStr", A>>, <<"userProperty", Pair>>,
   <<"AddReasonCodes", <<1, 128>>>>, <<"AddReasonCodes", <<0, 3>>>>}

UnsubscribeSetters ==
  {<<"SetPacketId", 258>>, <<"userProperty", Pair>>, <<"AddUnsubTopic", A>>, <<"AddUnsubTopic", B>>,
   <<"AddUnsubTopic", <<99>>>>, <<"AddUnsubTopic", <<100>>>>, <<"RemoveUnsubTopic", A>>}

UnsubackSetters ==
  {<<"SetPacketId", 258>>, <<"reasonStr", A>>, <<"userProperty", Pair>>,
   <<"reasonCodes", <<0, 17>>>>}

AuthSetters ==
  {<<"reasonCode", 24>>, <<"authMethod", A>>, <<"authData", B>>, <<"reasonStr", A>>,
   <<"userProperty", Pair>>}

DisconnectSetters ==
  {<<"reasonCode", 4>>, <<"sessionExpiryInterval", <<0, 0, 1, 2>>>>, <<"reasonStr", A>>,
   <<"serverReference", B>>, <<"userProperty", Pair>>}

AllSetters ==
  [CONNECT |-> ConnectSetters, CONNACK |-> ConnackSetters, PUBLISH |-> PublishSetters,
   PUBACK |-> AckSetters, PUBREC |-> AckSetters, PUBREL |-> AckSetters, PUBCOMP |-> AckSetters,
   SUBSCRIBE |-> SubscribeSetters, SUBACK |-> SubackSetters, UNSUBSCRIBE |-> UnsubscribeSetters,
   UNSUBACK |-> UnsubackSetters, AUTH |-> AuthSetters, DISCONNECT |-> DisconnectSetters,
   PINGREQ |-> {}, PINGRESP |-> {}]

\* What the server changes in a PUBLISH it forwards, and what makes another one.
LaterSetters ==
  [PUBLISH |-> {<<"SetQoS", 0>>, <<"SetRetain", FALSE>>, <<"SetPacketId", 513>>,
                <<"subscriptionIdentifier", 9>>, <<"SetNilTopicAndAlias", 2>>, <<"SetTopic", B>>,
                <<"topicAlias", 0>>, <<"payload", <<81>>>>}]

SetsOf ==
  [t \in DOMAIN AllSetters |->
     CASE t \in {"CONNECT", "CONNACK", "PUBLISH"} -> 3
       [] t = "UNSUBSCRIBE" -> 5
       [] OTHER -> 4]
=============================================================================
