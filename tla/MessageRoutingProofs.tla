------------------------- MODULE MessageRoutingProofs -------------------------
(***************************************************************************)
(* Theorems about the traffic of a switch node.  Every step of the node is *)
(* a step of the registry or leaves it alone, so the theorems about the    *)
(* registry hold here too, and the ones about messages rest on them.       *)
(***************************************************************************)
EXTENDS MessageRouting, RegistryDirectoryProofs, FiniteSetTheorems

LEMMA RegistryUntouched ==
    ASSUME NEW c \in Conns, FilterStep(c) \/ SendStep(c)
    PROVE  UNCHANGED vars
BY DEF FilterStep, SendStep, Forward, Unforward, Subscribe, Unsubscribe, Reject,
       Unreject, Refilter, PublishData, PublishDataToTargets, ServiceRequest,
       ServiceResponse, Send

LEMMA RegistryNext ==
    ASSUME [RoutingNext]_routingVars PROVE [Next]_vars
<1>1. ASSUME NEW c \in Conns, RegistryStep(c) PROVE Next
  <2>1. Asked \subseteq Request
    BY DEF Asked
  <2> QED BY <1>1, <2>1 DEF RegistryStep, Next
<1>2. CASE UNCHANGED routingVars
  BY <1>2 DEF routingVars
<1> QED BY <1>1, <1>2, RegistryUntouched DEF RoutingNext

(* The node with its traffic is a registry: no message and no filter       *)
(* command (CommandHandler) writes a map of SwitchContext that             *)
(* register_endpoint keeps.                                                *)
THEOREM RoutingIsRegistry == RoutingSpec => Spec
<1>1. RoutingInit => Init
  BY DEF RoutingInit
<1> QED BY <1>1, RegistryNext, PTL DEF RoutingSpec, Spec

-----------------------------------------------------------------------------
(* Type correctness of the filters, the index and the forwarded message.   *)
LEMMA UnderType ==
    ASSUME NEW index \in [Ids -> Eps \cup {NoEp}], NEW is \in SUBSET Ids
    PROVE  Under(index, is) \subseteq Eps
BY DEF Under

LEMMA RecipientsType ==
    ASSUME NEW c, NEW pool \in SUBSET Eps, NEW type, NEW to \in Recipients(c, pool, type)
    PROVE  to \in SUBSET Eps
BY DEF Recipients

LEMMA AudienceType ==
    ASSUME RegistryAssumption, RoutingTypeOK, NEW c \in Conns, Acts(c)
    PROVE  Audience(c) \subseteq Eps
<1>1. Acting(c) \in Eps /\ filters[Acting(c)].fwd_targets \subseteq AnyId
  BY DEF RoutingTypeOK, TypeOK, Acts, Acting, Lookup, Filter
<1>2. NoId \notin filters[Acting(c)].fwd_targets =>
         filters[Acting(c)].fwd_targets \subseteq Ids
  BY <1>1 DEF AnyId
<1>3. normal_endpoints \in [Ids -> Eps \cup {NoEp}]
  BY DEF RoutingTypeOK, TypeOK
<1> QED BY <1>2, <1>3, UnderType DEF Audience

LEMMA FilterType ==
    ASSUME RoutingAssumption, RoutingTypeOK, NEW c \in Conns, FilterStep(c)
    PROVE  /\ filters' \in [Eps -> Filter]
           /\ message_subscribers' \in [MsgTypes -> SUBSET Ids]
           /\ sent' = Quiet
<1>1. Acts(c) => Acting(c) \in Eps /\ connId[c] \in Ids
  BY DEF RoutingTypeOK, TypeOK, Acts, Acting, Lookup
<1>2. ASSUME NEW targets \in SUBSET FwdIds, Forward(c, targets) \/ Unforward(c, targets)
      PROVE  /\ filters' \in [Eps -> Filter]
             /\ UNCHANGED message_subscribers
             /\ sent' = Quiet
  <2>1. /\ [filters[Acting(c)] EXCEPT !.fwd_targets = @ \cup targets] \in Filter
        /\ [filters[Acting(c)] EXCEPT !.fwd_targets = @ \ targets] \in Filter
    BY <1>1, <1>2 DEF Forward, Unforward, RoutingTypeOK, Filter, RoutingAssumption
  <2> QED BY <1>2, <2>1 DEF Forward, Unforward, Refilter, RoutingTypeOK
<1>3. ASSUME NEW sources \in SUBSET SrcIds, NEW messages \in SUBSET MsgTypes,
             \/ Subscribe(c, sources, messages)
             \/ Unsubscribe(c, sources, messages)
             \/ Reject(c, sources, messages)
             \/ Unreject(c, sources, messages)
      PROVE  /\ filters' \in [Eps -> Filter]
             /\ message_subscribers' \in [MsgTypes -> SUBSET Ids]
             /\ sent' = Quiet
  <2> DEFINE old == filters[Acting(c)]
  <2>1. Acts(c) /\ sources \subseteq Ids
    BY <1>3 DEF Subscribe, Unsubscribe, Reject, Unreject, RoutingAssumption
  <2>2. old \in Filter
    BY <1>1, <2>1 DEF RoutingTypeOK
  <2>3. /\ [old EXCEPT !.subs_sources = @ \cup sources, !.subs_messages = @ \cup messages]
             \in Filter
        /\ [old EXCEPT !.subs_sources = @ \ sources, !.subs_messages = @ \ messages]
             \in Filter
        /\ [old EXCEPT !.rej_sources = @ \cup sources, !.rej_messages = @ \cup messages]
             \in Filter
        /\ [old EXCEPT !.rej_sources = @ \ sources, !.rej_messages = @ \ messages]
             \in Filter
    BY <2>1, <2>2 DEF Filter
  <2>4. filters' \in [Eps -> Filter] /\ sent' = Quiet
    BY <1>3, <2>3 DEF Subscribe, Unsubscribe, Reject, Unreject, Refilter, RoutingTypeOK
  <2>5. message_subscribers' \in [MsgTypes -> SUBSET Ids]
    BY <1>1, <1>3, <2>1 DEF Subscribe, Unsubscribe, Reject, Unreject, AddSubscriber,
                            DropSubscriber, RoutingTypeOK
  <2> QED BY <2>4, <2>5
<1> QED BY <1>2, <1>3 DEF FilterStep, RoutingTypeOK

LEMMA SendType ==
    ASSUME RegistryAssumption, RoutingAssumption, RoutingTypeOK,
           NEW c \in Conns, SendStep(c)
    PROVE  sent' \in Forwarded /\ UNCHANGED <<filters, message_subscribers>>
<1>1. ASSUME NEW cmd \in {"PUBLISH", "PUBLISH_2", "SVC", "SVC_RSP"}, NEW t \in SvcTypes,
             NEW type \in MsgTypes, NEW named \in SUBSET Ids, NEW to \in SUBSET Eps,
             Send(cmd, c, t, type, named, to)
      PROVE  sent' \in Forwarded /\ UNCHANGED <<filters, message_subscribers>>
  BY <1>1 DEF Send, Forwarded, AnyConn
<1>2. /\ endpoints \in [Ids -> Eps \cup {NoEp}]
      /\ message_subscribers \in [MsgTypes -> SUBSET Ids]
      /\ service_endpoints \in [SvcTypes -> SUBSET Eps]
      /\ AllTypes \in SvcTypes /\ NoType \in MsgTypes
  BY DEF RoutingTypeOK, TypeOK, RegistryAssumption, RoutingAssumption
<1>3. CASE PublishData(c)
  BY <1>1, <1>2, <1>3, AudienceType, RecipientsType DEF PublishData
<1>4. ASSUME NEW type \in MsgTypes, NEW named \in SUBSET Ids,
             PublishDataToTargets(c, type, named)
      PROVE  sent' \in Forwarded /\ UNCHANGED <<filters, message_subscribers>>
  <2>1. /\ Under(endpoints, named) \subseteq Eps
        /\ Under(endpoints, message_subscribers[type]) \subseteq Eps
        /\ Audience(c) \subseteq Eps
    BY <1>2, <1>4, UnderType, AudienceType DEF PublishDataToTargets
  <2>2. PICK to : /\ \/ to \in Recipients(c, Under(endpoints, named), type)
                     \/ to \in Recipients(c, Under(endpoints, message_subscribers[type]), type)
                     \/ to \in Recipients(c, Audience(c), NoType)
                  /\ Send("PUBLISH_2", c, AllTypes, type, named, to)
    BY <1>4 DEF PublishDataToTargets
  <2>3. to \in SUBSET Eps
    BY <2>1, <2>2, RecipientsType
  <2> QED BY <1>1, <1>2, <2>2, <2>3
<1>5. ASSUME NEW t \in SvcTypes, NEW svc_cmd \in MsgTypes, ServiceRequest(c, t, svc_cmd)
      PROVE  sent' \in Forwarded /\ UNCHANGED <<filters, message_subscribers>>
  <2>1. PICK able \in Recipients(c, Servers(t), svc_cmd) :
           \E to \in IF able = {} THEN {{}} ELSE {{o} : o \in able} :
              Send("SVC", c, t, svc_cmd, {}, to)
    BY <1>5 DEF ServiceRequest
  <2>2. PICK to \in IF able = {} THEN {{}} ELSE {{o} : o \in able} :
           Send("SVC", c, t, svc_cmd, {}, to)
    BY <2>1
  <2>3. able \in SUBSET Eps
    BY <1>2, RecipientsType DEF Servers
  <2> QED BY <1>1, <2>2, <2>3
<1>6. ASSUME NEW t \in SvcTypes, NEW svc_cmd \in MsgTypes, NEW source \in Ids,
             ServiceResponse(c, t, svc_cmd, source)
      PROVE  sent' \in Forwarded /\ UNCHANGED <<filters, message_subscribers>>
  BY <1>1, <1>2, <1>6, UnderType DEF ServiceResponse
<1> QED BY <1>3, <1>4, <1>5, <1>6 DEF SendStep

LEMMA RoutingTypeStep ==
    ASSUME RoutingTypeOK, TypeOK', [RoutingNext]_routingVars PROVE RoutingTypeOK'
<1>1. ASSUME NEW c \in Conns, RegistryStep(c) PROVE RoutingTypeOK'
  <2>1. filters' \in [Eps -> Filter]
    BY <1>1 DEF RegistryStep, Forget, RoutingTypeOK, NoFilter, Filter
  <2>2. sent' \in Forwarded
    BY <1>1, RegistryAssumption, RoutingAssumption
    DEF RegistryStep, Quiet, Forwarded, AnyConn, RegistryAssumption, RoutingAssumption
  <2> QED BY <1>1, <2>1, <2>2 DEF RegistryStep, RoutingTypeOK
<1>2. ASSUME NEW c \in Conns, FilterStep(c) PROVE RoutingTypeOK'
  <2>1. Quiet \in Forwarded
    BY RegistryAssumption, RoutingAssumption
    DEF Quiet, Forwarded, AnyConn, RegistryAssumption, RoutingAssumption
  <2> QED BY <1>2, <2>1, FilterType, RoutingAssumption DEF RoutingTypeOK
<1>3. ASSUME NEW c \in Conns, SendStep(c) PROVE RoutingTypeOK'
  BY <1>3, SendType, RegistryAssumption, RoutingAssumption DEF RoutingTypeOK
<1>4. CASE UNCHANGED routingVars
  BY <1>4 DEF routingVars, RoutingTypeOK
<1> QED BY <1>1, <1>2, <1>3, <1>4 DEF RoutingNext

LEMMA RoutingInitType == RoutingInit => RoutingTypeOK
BY InitType, RegistryAssumption, RoutingAssumption
DEF RoutingInit, RoutingTypeOK, NoFilter, Filter, Quiet, Forwarded, AnyConn,
    RegistryAssumption, RoutingAssumption

(* Every variable keeps its type, whatever clients send.                   *)
THEOREM RoutingTypeCorrect == RoutingSpec => []RoutingTypeOK
<1>1. RoutingTypeOK /\ TypeOK' /\ [RoutingNext]_routingVars => RoutingTypeOK'
  BY RoutingTypeStep
<1> QED BY <1>1, RoutingInitType, RoutingIsRegistry, TypeCorrect, PTL DEF RoutingSpec

-----------------------------------------------------------------------------
(* The index of subscribers.                                               *)
LEMMA ActingHeld ==
    ASSUME TypeOK, NEW c \in Conns, Acts(c)
    PROVE  /\ connId[c] \in Ids /\ Acting(c) = endpoints[connId[c]]
           /\ Acting(c) \in Eps /\ Acting(c) \in Held
BY DEF TypeOK, Acts, Acting, Lookup, Held

(* What a step of the registry registers is what it was, or a new object.  *)
LEMMA RegisteredOrNew ==
    ASSUME RegistryAssumption, TypeOK, Next, NEW i \in Ids
    PROVE  endpoints'[i] \in {endpoints[i], NoEp} \cup (Eps \ Held)
<1>1. ASSUME NEW c \in Conns, OnConnectionReady(c)
      PROVE  endpoints' = endpoints
  BY <1>1 DEF OnConnectionReady, mapVars
<1>2. ASSUME NEW c \in Conns, OnConnectionClosed(c)
      PROVE  endpoints'[i] \in {endpoints[i], NoEp}
  BY <1>2, ClosedEndpoints
<1>3. ASSUME NEW c \in Conns, NEW r \in Request, Register(c, r)
      PROVE  endpoints'[i] \in {endpoints[i]} \cup (Eps \ Held)
  <2>1. PICK j \in Ids : \/ endpoints[j] = NoEp /\ RegisterNew(c, j, r)
                         \/ endpoints[j] # NoEp /\ RegisterExisting(c, j, r)
    BY <1>3, RegisterCases
  <2> QED BY <2>1 DEF RegisterNew, RegisterObject, RegisterExisting, RegisterAgain, TypeOK
<1>4. ASSUME NEW c \in Conns, NEW targets \in SUBSET Ids, Kickout(c, targets)
      PROVE  endpoints' = endpoints
  BY <1>4 DEF Kickout, mapVars
<1> QED BY <1>1, <1>2, <1>3, <1>4 DEF Next

(* An object no map refers to has the empty filters of the constructor, so *)
(* that a new Endpoint has subscribed to nothing.                          *)
FreshFilters == \A o \in Eps : o \notin Held => filters[o] = NoFilter

IndexInv == FreshFilters /\ SubscribersComplete

LEMMA RegistryStepIndex ==
    ASSUME RegistryAssumption, RoutingTypeOK, TypeOK', IndexInv,
           NEW c \in Conns, RegistryStep(c)
    PROVE  IndexInv'
<1>1. Next /\ TypeOK
  <2>1. Asked \subseteq Request
    BY DEF Asked
  <2> QED BY <2>1 DEF RegistryStep, Next, RoutingTypeOK
<1>2. FreshFilters'
  BY DEF RegistryStep, Forget, FreshFilters
<1>3. ASSUME NEW i \in Ids, endpoints'[i] # NoEp,
             NEW m \in filters'[endpoints'[i]].subs_messages
      PROVE  i \in message_subscribers'[m]
  <2>1. endpoints'[i] \in Eps /\ endpoints'[i] \in Held'
    BY <1>3 DEF TypeOK, Held
  <2>2. filters'[endpoints'[i]] = filters[endpoints'[i]]
    BY <2>1 DEF RegistryStep, Forget
  <2>3. endpoints'[i] \in Held
    BY <1>3, <2>1, <2>2 DEF IndexInv, FreshFilters, NoFilter
  <2>4. endpoints'[i] = endpoints[i]
    BY <1>1, <1>3, <2>3, RegisteredOrNew
  <2> QED BY <1>3, <2>2, <2>4 DEF IndexInv, SubscribersComplete, RegistryStep
<1> QED BY <1>2, <1>3 DEF IndexInv, SubscribersComplete

LEMMA FilterStepIndex ==
    ASSUME RoutingAssumption, RoutingTypeOK, OneHolder, IndexInv,
           NEW c \in Conns, FilterStep(c)
    PROVE  IndexInv'
<1> DEFINE o == Acting(c)
           Changed(filter) == filters' = [filters EXCEPT ![o] = filter]
<1>1. TypeOK /\ UNCHANGED vars
  BY RegistryUntouched DEF RoutingTypeOK
<1>2. /\ endpoints' = endpoints
      /\ Held' = Held
  BY <1>1 DEF vars, mapVars, Held
<1>3. Acts(c)
  BY Zenon DEF FilterStep, Forward, Unforward, Subscribe, Unsubscribe, Reject, Unreject
<1>4. /\ connId[c] \in Ids /\ o = endpoints[connId[c]] /\ o \in Eps /\ o \in Held
      /\ \A i \in Ids : endpoints[i] = o => i = connId[c]
  <2>1. connId[c] \in Ids /\ o = endpoints[connId[c]] /\ o \in Eps /\ o \in Held
    BY <1>1, <1>3, ActingHeld
  <2> QED BY <1>3, <2>1, Zenon DEF OneHolder, Acts
<1>5. filters[o] \in Filter
  BY <1>4 DEF RoutingTypeOK
<1>6. FreshFilters'
  <2>1. \A x \in Eps : x # o => filters'[x] = filters[x]
    BY Zenon DEF FilterStep, Forward, Unforward, Subscribe, Unsubscribe, Reject, Unreject,
           Refilter, RoutingTypeOK
  <2> QED BY <1>2, <1>4, <2>1 DEF IndexInv, FreshFilters
<1>7. SubscribersComplete'
  <2> SUFFICES ASSUME NEW i \in Ids, endpoints[i] # NoEp,
                      NEW m \in filters'[endpoints[i]].subs_messages
               PROVE  i \in message_subscribers'[m]
    BY <1>2 DEF SubscribersComplete
  <2>1. endpoints[i] \in Eps /\ filters[endpoints[i]] \in Filter
    BY DEF RoutingTypeOK, TypeOK
  <2>2. endpoints[i] # o => m \in filters[endpoints[i]].subs_messages
    BY Zenon, <2>1 DEF FilterStep, Forward, Unforward, Subscribe, Unsubscribe, Reject,
                Unreject, Refilter, RoutingTypeOK
  <2>3. m \in filters[endpoints[i]].subs_messages =>
           m \in MsgTypes /\ i \in message_subscribers[m]
    BY <2>1 DEF IndexInv, SubscribersComplete, Filter
  <2>4. ASSUME NEW targets, Forward(c, targets) \/ Unforward(c, targets)
        PROVE  i \in message_subscribers'[m]
    <3>1. m \in filters[endpoints[i]].subs_messages
      BY <1>4, <1>5, <2>2, <2>4 DEF Forward, Unforward, Refilter, RoutingTypeOK, Filter
    <3> QED BY <2>3, <2>4, <3>1 DEF Forward, Unforward
  <2>5. ASSUME NEW sources, NEW messages,
               Reject(c, sources, messages) \/ Unreject(c, sources, messages)
        PROVE  i \in message_subscribers'[m]
    <3>1. filters'[o].subs_messages = filters[o].subs_messages
      <4>1. \E new \in {[filters[o] EXCEPT !.rej_sources = @ \cup sources,
                                        !.rej_messages = @ \cup messages],
                     [filters[o] EXCEPT !.rej_sources = @ \ sources,
                                        !.rej_messages = @ \ messages]} :
               filters'[o] = new
        BY <1>4, <2>5 DEF Reject, Unreject, Refilter, RoutingTypeOK
      <4> QED BY <1>5, <4>1 DEF Filter
    <3>2. m \in filters[endpoints[i]].subs_messages
      BY <2>2, <3>1
    <3> QED BY <2>3, <2>5, <3>2 DEF Reject, Unreject
  <2>6. ASSUME NEW sources, NEW messages \in SUBSET MsgTypes,
               Subscribe(c, sources, messages)
        PROVE  i \in message_subscribers'[m]
    <3>1. \/ m \in filters[endpoints[i]].subs_messages
          \/ endpoints[i] = o /\ m \in messages
      BY <1>4, <1>5, <2>2, <2>6 DEF Subscribe, Refilter, RoutingTypeOK, Filter
    <3>2. /\ m \in MsgTypes
          /\ i \in message_subscribers[m] \/ (i = connId[c] /\ m \in messages)
      BY <1>4, <2>3, <3>1
    <3> QED BY <2>6, <3>2 DEF Subscribe, AddSubscriber
  <2>7. ASSUME NEW sources, NEW messages \in SUBSET MsgTypes,
               Unsubscribe(c, sources, messages)
        PROVE  i \in message_subscribers'[m]
    <3>1. /\ m \in filters[endpoints[i]].subs_messages
          /\ endpoints[i] = o => m \notin messages
      BY <1>4, <1>5, <2>2, <2>7 DEF Unsubscribe, Refilter, RoutingTypeOK, Filter
    <3>2. m \in MsgTypes /\ i \in message_subscribers[m] /\ ~(i = connId[c] /\ m \in messages)
      BY <1>4, <2>3, <3>1
    <3> QED BY <2>7, <3>2 DEF Unsubscribe, DropSubscriber
  <2> QED BY <2>4, <2>5, <2>6, <2>7 DEF FilterStep
<1> QED BY <1>6, <1>7 DEF IndexInv

LEMMA IndexInit == RoutingInit => IndexInv
BY DEF RoutingInit, Init, IndexInv, FreshFilters, SubscribersComplete

LEMMA IndexStep ==
    ASSUME RoutingTypeOK, TypeOK', OneHolder, IndexInv, [RoutingNext]_routingVars
    PROVE  IndexInv'
<1>1. ASSUME NEW c \in Conns, RegistryStep(c) PROVE IndexInv'
  BY <1>1, RegistryStepIndex, RegistryAssumption
<1>2. ASSUME NEW c \in Conns, FilterStep(c) PROVE IndexInv'
  BY <1>2, FilterStepIndex, RoutingAssumption
<1>3. ASSUME NEW c \in Conns, SendStep(c) PROVE IndexInv'
  <2>1. UNCHANGED <<filters, message_subscribers>> /\ UNCHANGED vars
    BY <1>3, SendType, RegistryUntouched, RegistryAssumption, RoutingAssumption
  <2> QED BY <2>1 DEF vars, mapVars, IndexInv, FreshFilters, SubscribersComplete, Held
<1>4. CASE UNCHANGED routingVars
  BY <1>4 DEF routingVars, vars, mapVars, IndexInv, FreshFilters, SubscribersComplete, Held
<1> QED BY <1>1, <1>2, <1>3, <1>4 DEF RoutingNext

(* The index message_subscribers misses no registered subscriber, through  *)
(* takeovers, several ids on a connection and reuse of ids: subscribe and  *)
(* unsubscribe write it under the id read through the connection, and that *)
(* is the one key of the sender's Endpoint.                                *)
THEOREM SubscribersCorrect == RoutingSpec => []SubscribersComplete
<1>1. RoutingTypeOK /\ TypeOK' /\ OneHolder /\ IndexInv /\ [RoutingNext]_routingVars
        => IndexInv'
  BY IndexStep
<1>2. IndexInv => SubscribersComplete
  BY DEF IndexInv
<1> QED BY <1>1, <1>2, IndexInit, RoutingIsRegistry, RoutingTypeCorrect, TypeCorrect,
           ActingCorrect, PTL DEF RoutingSpec

-----------------------------------------------------------------------------
(* Whom messages reach.                                                    *)
LEMMA RegisteredHeld ==
    ASSUME TypeOK, NEW o \in Endpoints
    PROVE  o \in Held /\ o \in Eps /\ ep[o].conn \in Conns
BY DEF Endpoints, Under, TypeOK, Held

(* The comparison of ids in is_forwarding_allowed tells connections apart  *)
(* as long as the target's connection exists.                              *)
LEMMA LiveDiffers ==
    ASSUME TypeOK, OneHolder, NEW c \in Conns, Acts(c),
           NEW o \in Endpoints, ~Dangles(o)
    PROVE  DifferentIds(c, o) = {ep[o].conn # c}
<1>1. ep[o].conn \in Conns /\ connId[c] # NoId
  <2>1. connId[c] \in Ids /\ connId[c] # NoId
    BY ActingHeld, RegistryAssumption DEF RegistryAssumption
  <2> QED BY <2>1, RegisteredHeld
<1>2. (connId[ep[o].conn] # connId[c]) = (ep[o].conn # c)
  BY <1>1 DEF OneHolder
<1>3. EndpointIdOf(o) = {connId[ep[o].conn]}
  BY DEF EndpointIdOf
<1> QED BY <1>2, <1>3 DEF DifferentIds

(* ... so a message goes to those of a pool that accept it, but the sender.*)
LEMMA LiveRecipients ==
    ASSUME TypeOK, OneHolder, NEW c \in Conns, Acts(c), NEW type, NEW pool,
           NEW to \in Recipients(c, pool, type), NEW o \in pool,
           o \in Endpoints, ~Dangles(o)
    PROVE  o \in to <=> Reachable(c, o, type)
<1>1. DifferentIds(c, o) = {ep[o].conn # c}
  BY LiveDiffers
<1>2. Accepts(o, connId[c], type) => (o \in to) = (ep[o].conn # c)
  BY <1>1 DEF Recipients
<1>3. o \in to => Accepts(o, connId[c], type)
  BY DEF Recipients
<1> QED BY <1>2, <1>3 DEF Reachable

LEMMA QuietOrSend ==
    ASSUME RegistryAssumption, RoutingAssumption, RoutingTypeOK,
           [RoutingNext]_routingVars
    PROVE  \/ sent' = Quiet
           \/ UNCHANGED routingVars
           \/ /\ \E c \in Conns : SendStep(c)
              /\ UNCHANGED <<vars, filters, message_subscribers>>
<1>1. ASSUME NEW c \in Conns, RegistryStep(c) PROVE sent' = Quiet
  BY <1>1 DEF RegistryStep
<1>2. ASSUME NEW c \in Conns, FilterStep(c) PROVE sent' = Quiet
  BY <1>2, FilterType
<1>3. ASSUME NEW c \in Conns, SendStep(c)
      PROVE  UNCHANGED <<vars, filters, message_subscribers>>
  BY <1>3, SendType, RegistryUntouched
<1> QED BY <1>1, <1>2, <1>3 DEF RoutingNext

LEMMA SubscribersReached ==
    ASSUME RoutingTypeOK, OneHolder, SubscribersComplete, NEW c \in Conns,
           NEW type \in MsgTypes, PublishDataToTargets(c, type, {}),
           NEW o \in Endpoints, type \in filters[o].subs_messages,
           Reachable(c, o, type), ~Dangles(o)
    PROVE  o \in sent'.to
<1>1. PICK i \in Ids : endpoints[i] = o /\ o # NoEp
  BY DEF Endpoints, Under
<1>2. i \in message_subscribers[type]
  BY <1>1 DEF SubscribersComplete
<1>3. o \in Under(endpoints, message_subscribers[type])
  BY <1>1, <1>2 DEF Under
<1>4. PICK to \in Recipients(c, Under(endpoints, message_subscribers[type]), type) :
         Send("PUBLISH_2", c, AllTypes, type, {}, to)
  BY <1>2 DEF PublishDataToTargets
<1>5. TypeOK /\ Acts(c)
  BY DEF RoutingTypeOK, PublishDataToTargets
<1>6. o \in to
  BY <1>3, <1>4, <1>5, LiveRecipients
<1> QED BY <1>4, <1>6 DEF Send

LEMMA SendKind ==
    ASSUME NEW c \in Conns, SendStep(c)
    PROVE  /\ sent'.by = c /\ Acts(c)
           /\ sent'.cmd \in {"PUBLISH", "PUBLISH_2", "SVC", "SVC_RSP"}
           /\ sent'.cmd = "PUBLISH" => PublishData(c)
           /\ sent'.cmd = "PUBLISH_2" => /\ sent'.type \in MsgTypes
                                         /\ sent'.named \in SUBSET Ids
                                         /\ PublishDataToTargets(c, sent'.type, sent'.named)
           /\ sent'.cmd = "SVC" => /\ sent'.svc_type \in SvcTypes
                                   /\ sent'.type \in MsgTypes
                                   /\ ServiceRequest(c, sent'.svc_type, sent'.type)
           /\ sent'.cmd = "SVC_RSP" =>
                \E source \in Ids : sent'.to = Under(endpoints, {source})
<1>1. CASE PublishData(c)
  BY <1>1 DEF PublishData, Send
<1>2. ASSUME NEW type \in MsgTypes, NEW named \in SUBSET Ids,
             PublishDataToTargets(c, type, named)
      PROVE  /\ sent'.cmd = "PUBLISH_2" /\ sent'.by = c /\ Acts(c)
             /\ sent'.type = type /\ sent'.named = named
  BY <1>2 DEF PublishDataToTargets, Send
<1>3. ASSUME NEW t \in SvcTypes, NEW svc_cmd \in MsgTypes, ServiceRequest(c, t, svc_cmd)
      PROVE  /\ sent'.cmd = "SVC" /\ sent'.by = c /\ Acts(c)
             /\ sent'.svc_type = t /\ sent'.type = svc_cmd
  BY <1>3 DEF ServiceRequest, Send
<1>4. ASSUME NEW t \in SvcTypes, NEW svc_cmd \in MsgTypes, NEW source \in Ids,
             ServiceResponse(c, t, svc_cmd, source)
      PROVE  /\ sent'.cmd = "SVC_RSP" /\ sent'.by = c /\ Acts(c)
             /\ sent'.to = Under(endpoints, {source})
  BY <1>4 DEF ServiceResponse, Send
<1> QED BY <1>1, <1>2, <1>3, <1>4 DEF SendStep

(* A PUBLISH_2 without targets (handlePublishDataToTargets) is sent to all *)
(* live subscribers of its type, whatever ids clients register and take.   *)
THEOREM SubscriptionReachesCorrect == RoutingSpec => []SubscriptionReaches
<1>1. RoutingInit => SubscriptionReaches
  BY DEF RoutingInit, SubscriptionReaches, Quiet
<1>2. RoutingTypeOK /\ OneHolder /\ SubscribersComplete /\ SubscriptionReaches
        /\ [RoutingNext]_routingVars => SubscriptionReaches'
  <2> SUFFICES ASSUME RoutingTypeOK, OneHolder, SubscribersComplete,
                      SubscriptionReaches, [RoutingNext]_routingVars
               PROVE  SubscriptionReaches'
    OBVIOUS
  <2>1. CASE sent' = Quiet
    BY <2>1 DEF SubscriptionReaches, Quiet
  <2>2. CASE UNCHANGED routingVars
    BY <2>2 DEF routingVars, vars, connVars, mapVars, SubscriptionReaches, Endpoints,
                Under, Reachable, Accepts, Listens, Dangles, Online
  <2>3. ASSUME NEW c \in Conns, SendStep(c),
               UNCHANGED <<vars, filters, message_subscribers>>
        PROVE  SubscriptionReaches'
    <3> SUFFICES ASSUME sent'.cmd = "PUBLISH_2", sent'.named = {},
                        NEW o \in Endpoints, sent'.type \in filters[o].subs_messages,
                        Reachable(sent'.by, o, sent'.type), ~Dangles(o)
                 PROVE  o \in sent'.to
      BY <2>3 DEF vars, connVars, mapVars, SubscriptionReaches, Endpoints, Under,
                  Reachable, Accepts, Listens, Dangles, Online
    <3> QED BY <2>3, SendKind, SubscribersReached
  <2> QED BY <2>1, <2>2, <2>3, QuietOrSend, RegistryAssumption, RoutingAssumption
<1> QED BY <1>1, <1>2, RoutingIsRegistry, RoutingTypeCorrect, ActingCorrect,
           SubscribersCorrect, PTL DEF RoutingSpec

(* The fallback of PUBLISH_2 ignores the type, but is taken only while the *)
(* index is empty, and then no registered endpoint has a white list.       *)
LEMMA WhiteListPassed ==
    ASSUME RoutingTypeOK, SubscribersComplete, NEW c \in Conns,
           NEW type \in MsgTypes \ {NoType}, PublishDataToTargets(c, type, {}),
           NEW o \in Endpoints, o \in sent'.to
    PROVE  Listens(filters[o].subs_messages, type)
<1>1. CASE \E m \in MsgTypes : message_subscribers[m] # {}
  <2>1. PICK to \in Recipients(c, Under(endpoints, message_subscribers[type]), type) :
           Send("PUBLISH_2", c, AllTypes, type, {}, to)
    BY <1>1 DEF PublishDataToTargets
  <2>2. Accepts(o, connId[c], type)
    BY <2>1 DEF Recipients, Send
  <2> QED BY <2>2 DEF Accepts
<1>2. CASE \A m \in MsgTypes : message_subscribers[m] = {}
  <2>1. PICK i \in Ids : endpoints[i] = o /\ o # NoEp
    BY DEF Endpoints, Under
  <2>2. filters[o].subs_messages \subseteq MsgTypes
    BY <2>1 DEF RoutingTypeOK, TypeOK, Filter
  <2>3. filters[o].subs_messages = {}
    BY <1>2, <2>1, <2>2 DEF SubscribersComplete
  <2> QED BY <2>3 DEF Listens
<1> QED BY <1>1, <1>2

(* A PUBLISH_2 without targets (handlePublishDataToTargets) is sent to no  *)
(* registered endpoint that has subscribed to other types only, whatever   *)
(* is left in the index of those that have gone.                           *)
THEOREM WhiteListCorrect == RoutingSpec => []WhiteListRespected
<1>1. RoutingInit => WhiteListRespected
  BY DEF RoutingInit, WhiteListRespected, Quiet
<1>2. RoutingTypeOK /\ SubscribersComplete /\ WhiteListRespected
        /\ [RoutingNext]_routingVars => WhiteListRespected'
  <2> SUFFICES ASSUME RoutingTypeOK, SubscribersComplete, WhiteListRespected,
                      [RoutingNext]_routingVars
               PROVE  WhiteListRespected'
    OBVIOUS
  <2>1. CASE sent' = Quiet
    BY <2>1 DEF WhiteListRespected, Quiet
  <2>2. CASE UNCHANGED routingVars
    BY <2>2 DEF routingVars, vars, mapVars, WhiteListRespected, Endpoints, Under, Listens
  <2>3. ASSUME NEW c \in Conns, SendStep(c),
               UNCHANGED <<vars, filters, message_subscribers>>
        PROVE  WhiteListRespected'
    <3> SUFFICES ASSUME sent'.cmd = "PUBLISH_2", sent'.named = {}, sent'.type # NoType,
                        NEW o \in Endpoints, o \in sent'.to
                 PROVE  Listens(filters[o].subs_messages, sent'.type)
      BY <2>3 DEF vars, mapVars, WhiteListRespected, Endpoints, Under, Listens
    <3> QED BY <2>3, SendKind, WhiteListPassed
  <2> QED BY <2>1, <2>2, <2>3, QuietOrSend, RegistryAssumption, RoutingAssumption
<1> QED BY <1>1, <1>2, RoutingTypeCorrect, SubscribersCorrect, PTL DEF RoutingSpec

-----------------------------------------------------------------------------
(* Clients that keep to one id each and take nobody's over.                *)
Orderly == ~MayTakeOver /\ OneIdPerConnection

(* What the registry keeps for them, and the messages rest on.             *)
OrderlyInv ==
    /\ RoutingTypeOK /\ OneHolder
    /\ ServiceIndexExact /\ RoleIndexExact /\ NoDangling

LEMMA OrderlyInvCorrect ==
    ASSUME Orderly PROVE RoutingSpec => []OrderlyInv
<1>1. ~MayTakeOver /\ OneIdPerConnection
  BY DEF Orderly
<1>2. /\ Spec => []RoleIndexExact
      /\ Spec => []NoDangling
  BY <1>1, RoleIndexCorrect, NoDanglingCorrect
<1> QED BY <1>2, RoutingIsRegistry, RoutingTypeCorrect, ActingCorrect,
           ServiceIndexCorrect, PTL DEF OrderlyInv

LEMMA RegisteredAlive ==
    ASSUME OrderlyInv, NEW o \in Endpoints
    PROVE  ~Dangles(o)
BY DEF OrderlyInv, NoDangling, Endpoints, Under, Dangles

LEMMA PoolsRegistered ==
    ASSUME RegistryAssumption, OrderlyInv, NEW c \in Conns, Acts(c)
    PROVE  /\ \A is \in SUBSET Ids : Under(endpoints, is) \subseteq Endpoints
           /\ Audience(c) \subseteq Endpoints
           /\ \A t \in SvcTypes : Servers(t) \subseteq Endpoints
<1>1. \A is \in SUBSET Ids : Under(endpoints, is) \subseteq Endpoints
  BY DEF Under, Endpoints
<1>2. Audience(c) \subseteq Endpoints
  <2>1. \A is \in SUBSET Ids : Under(normal_endpoints, is) \subseteq Endpoints
    BY DEF OrderlyInv, RoleIndexExact, Under, Endpoints
  <2>2. filters[Acting(c)].fwd_targets \subseteq AnyId
    BY ActingHeld DEF OrderlyInv, RoutingTypeOK, Filter
  <2>3. NoId \notin filters[Acting(c)].fwd_targets =>
           filters[Acting(c)].fwd_targets \in SUBSET Ids
    BY <2>2 DEF AnyId
  <2> QED BY <2>1, <2>3 DEF Audience
<1>3. ASSUME NEW t \in SvcTypes PROVE Servers(t) \subseteq Endpoints
  <2>1. \A s \in SvcTypes : service_endpoints[s] \subseteq Endpoints
    BY RegistryAssumption
    DEF OrderlyInv, ServiceIndexExact, Endpoints, Under, RegistryAssumption
  <2> QED BY <2>1, RegistryAssumption DEF Servers, RegistryAssumption
<1> QED BY <1>1, <1>2, <1>3

LEMMA SentToRegistered ==
    ASSUME RegistryAssumption, OrderlyInv, NEW c \in Conns, SendStep(c)
    PROVE  sent'.to \subseteq Endpoints
<1>1. Acts(c)
  BY SendKind
<1>2. \A pool, type : \A to \in Recipients(c, pool, type) : to \subseteq pool
  BY DEF Recipients
<1>3. \A m \in MsgTypes : message_subscribers[m] \in SUBSET Ids
  BY DEF OrderlyInv, RoutingTypeOK
<1>4. CASE PublishData(c)
  BY <1>1, <1>2, <1>4, PoolsRegistered DEF PublishData, Send
<1>5. ASSUME NEW type \in MsgTypes, NEW named \in SUBSET Ids,
             PublishDataToTargets(c, type, named)
      PROVE  sent'.to \subseteq Endpoints
  <2>1. PICK pool \in {Under(endpoints, named), Audience(c),
                       Under(endpoints, message_subscribers[type])},
             kind \in {type, NoType} :
                sent'.to \in Recipients(c, pool, kind)
    BY <1>5 DEF PublishDataToTargets, Send
  <2>2. pool \subseteq Endpoints
    BY <1>1, <1>3, <2>1, PoolsRegistered
  <2> QED BY <1>2, <2>1, <2>2
<1>6. ASSUME NEW t \in SvcTypes, NEW svc_cmd \in MsgTypes, ServiceRequest(c, t, svc_cmd)
      PROVE  sent'.to \subseteq Endpoints
  <2>1. PICK able \in Recipients(c, Servers(t), svc_cmd) :
           \E to \in IF able = {} THEN {{}} ELSE {{o} : o \in able} :
              Send("SVC", c, t, svc_cmd, {}, to)
    BY <1>6 DEF ServiceRequest
  <2>2. sent'.to \subseteq able
    BY <2>1 DEF Send
  <2> QED BY <1>1, <1>2, <2>1, <2>2, PoolsRegistered
<1>7. ASSUME NEW source \in Ids, sent'.to = Under(endpoints, {source})
      PROVE  sent'.to \subseteq Endpoints
  BY <1>1, <1>7, PoolsRegistered
<1>8. ASSUME NEW t \in SvcTypes, NEW svc_cmd \in MsgTypes, NEW source \in Ids,
             ServiceResponse(c, t, svc_cmd, source)
      PROVE  sent'.to = Under(endpoints, {source})
  BY <1>8 DEF ServiceResponse, Send
<1> QED BY <1>4, <1>5, <1>6, <1>7, <1>8 DEF SendStep

(* For those clients nothing is written through the pointer of a client    *)
(* that has left: no handler picks a recipient that is not registered.     *)
THEOREM RecipientsAliveCorrect ==
    ASSUME Orderly PROVE RoutingSpec => []RecipientsAlive
<1>1. RoutingInit => RecipientsAlive
  BY DEF RoutingInit, RecipientsAlive, Quiet
<1>2. OrderlyInv /\ RecipientsAlive /\ [RoutingNext]_routingVars => RecipientsAlive'
  <2> SUFFICES ASSUME OrderlyInv, RecipientsAlive, [RoutingNext]_routingVars
               PROVE  RecipientsAlive'
    OBVIOUS
  <2>1. CASE sent' = Quiet
    BY <2>1 DEF RecipientsAlive, Quiet
  <2>2. CASE UNCHANGED routingVars
    BY <2>2 DEF routingVars, vars, connVars, RecipientsAlive, Dangles, Online
  <2>3. ASSUME NEW c \in Conns, SendStep(c), UNCHANGED vars
        PROVE  RecipientsAlive'
    <3>1. \A o \in sent'.to : ~Dangles(o)
      BY <2>3, SentToRegistered, RegisteredAlive, RegistryAssumption
    <3> QED BY <2>3, <3>1 DEF vars, connVars, RecipientsAlive, Dangles, Online
  <2> QED BY <2>1, <2>2, <2>3, QuietOrSend, RegistryAssumption, RoutingAssumption
          DEF OrderlyInv
<1> QED BY <1>1, <1>2, OrderlyInvCorrect, PTL DEF RoutingSpec

LEMMA ServersExact ==
    ASSUME RegistryAssumption, OrderlyInv, NEW t \in SvcTypes, ServicesOf(t) # {}
    PROVE  Servers(t) = ServicesOf(t)
<1>1. service_endpoints[t] = ServicesOf(t)
  <2>1. \A o : o \in ServicesOf(t) <=>
               /\ o \in Eps /\ \E i \in Ids : endpoints[i] = o
               /\ ep[o].role = "Service" /\ ep[o].svc_type = t
    BY RegistryAssumption DEF OrderlyInv, RoutingTypeOK, TypeOK, ServicesOf,
                              Endpoints, Under, RegistryAssumption
  <2> QED BY <2>1 DEF OrderlyInv, ServiceIndexExact
<1>2. t \in service_keys
  BY <1>1 DEF OrderlyInv, ServiceIndexExact
<1> QED BY <1>1, <1>2 DEF Servers

LEMMA RequestServed ==
    ASSUME RegistryAssumption, OrderlyInv, NEW c \in Conns, NEW t \in SvcTypes,
           NEW svc_cmd \in MsgTypes, ServiceRequest(c, t, svc_cmd)
    PROVE  /\ (\E o \in ServicesOf(t) : Reachable(c, o, svc_cmd)) => sent'.to # {}
           /\ ServicesOf(t) # {} => sent'.to \subseteq ServicesOf(t)
<1> SUFFICES ASSUME ServicesOf(t) # {}
             PROVE  /\ (\E o \in ServicesOf(t) : Reachable(c, o, svc_cmd)) => sent'.to # {}
                    /\ sent'.to \subseteq ServicesOf(t)
  OBVIOUS
<1>1. PICK able \in Recipients(c, ServicesOf(t), svc_cmd) :
         \E to \in IF able = {} THEN {{}} ELSE {{o} : o \in able} :
            Send("SVC", c, t, svc_cmd, {}, to)
  BY ServersExact DEF ServiceRequest
<1>2. able \subseteq ServicesOf(t)
  BY DEF Recipients
<1>3. ASSUME NEW o \in ServicesOf(t), Reachable(c, o, svc_cmd) PROVE o \in able
  <2>1. o \in Endpoints /\ ~Dangles(o)
    BY RegisteredAlive DEF ServicesOf
  <2>2. TypeOK /\ OneHolder /\ Acts(c)
    BY DEF OrderlyInv, RoutingTypeOK, ServiceRequest
  <2> QED BY <1>3, <2>1, <2>2, LiveRecipients
<1>4. /\ able # {} => sent'.to # {}
      /\ sent'.to \subseteq able
  BY <1>1 DEF Send
<1> QED BY <1>2, <1>3, <1>4

(* A service request (handleServiceRequest) finds a registered service of  *)
(* its type whenever one accepts it, and reaches no other while one exists.*)
THEOREM TypedServerCorrect ==
    ASSUME Orderly PROVE RoutingSpec => []TypedServerFound
<1>1. RoutingInit => TypedServerFound
  BY DEF RoutingInit, TypedServerFound, Quiet
<1>2. OrderlyInv /\ TypedServerFound /\ [RoutingNext]_routingVars => TypedServerFound'
  <2> SUFFICES ASSUME OrderlyInv, TypedServerFound, [RoutingNext]_routingVars
               PROVE  TypedServerFound'
    OBVIOUS
  <2>1. CASE sent' = Quiet
    BY <2>1 DEF TypedServerFound, Quiet
  <2>2. CASE UNCHANGED routingVars
    BY <2>2 DEF routingVars, vars, connVars, mapVars, TypedServerFound, ServicesOf,
                Endpoints, Under, Reachable, Accepts, Listens
  <2>3. ASSUME NEW c \in Conns, SendStep(c),
               UNCHANGED <<vars, filters, message_subscribers>>
        PROVE  TypedServerFound'
    <3>1. \A t : ServicesOf(t)' = ServicesOf(t)
      BY <2>3 DEF vars, mapVars, ServicesOf, Endpoints, Under
    <3>2. \A d, o, type : Reachable(d, o, type)' = Reachable(d, o, type)
      BY <2>3 DEF vars, connVars, Reachable, Accepts, Listens
    <3>3. sent'.cmd = "SVC" =>
             /\ sent'.by = c
             /\ \/ ~\E o \in ServicesOf(sent'.svc_type) : Reachable(c, o, sent'.type)
                \/ sent'.to # {}
             /\ \/ ServicesOf(sent'.svc_type) = {}
                \/ sent'.to \subseteq ServicesOf(sent'.svc_type)
      BY <2>3, SendKind, RequestServed, RegistryAssumption
    <3> QED BY <3>1, <3>2, <3>3 DEF TypedServerFound
  <2> QED BY <2>1, <2>2, <2>3, QuietOrSend, RegistryAssumption, RoutingAssumption
          DEF OrderlyInv
<1> QED BY <1>1, <1>2, OrderlyInvCorrect, PTL DEF RoutingSpec

-----------------------------------------------------------------------------
(* Broadcasts.                                                             *)
Addressed(c) ==
    LET fwd == filters[Acting(c)].fwd_targets
    IN {o \in Endpoints : /\ ep[o].role = "Normal"
                          /\ Reachable(c, o, NoType)
                          /\ fwd # {} /\ NoId \notin fwd =>
                                 \E i \in fwd : endpoints[i] = o}

LEMMA PublishExact ==
    ASSUME RegistryAssumption, OrderlyInv, NEW c \in Conns, PublishData(c)
    PROVE  sent'.to = Addressed(c)
<1> DEFINE fwd == filters[Acting(c)].fwd_targets
<1>1. TypeOK /\ OneHolder /\ RoleIndexExact /\ Acts(c)
  BY DEF OrderlyInv, RoutingTypeOK, PublishData
<1>2. PICK to \in Recipients(c, Audience(c), NoType) : sent'.to = to
  BY DEF PublishData, Send
<1>3. fwd \subseteq AnyId
  BY <1>1, ActingHeld DEF OrderlyInv, RoutingTypeOK, Filter
<1>4. \A i \in Ids : normal_endpoints[i] # NoEp <=>
                     endpoints[i] # NoEp /\ ep[endpoints[i]].role = "Normal"
  BY <1>1, RegistryAssumption DEF RoleIndexExact, TypeOK, RegistryAssumption
<1>5. \A i \in Ids : normal_endpoints[i] # NoEp => normal_endpoints[i] = endpoints[i]
  BY <1>1 DEF RoleIndexExact
<1>6. \A o \in Endpoints : o \in Audience(c) <=>
         /\ ep[o].role = "Normal"
         /\ fwd # {} /\ NoId \notin fwd => \E i \in fwd : endpoints[i] = o
  <2>1. CASE fwd = {} \/ NoId \in fwd
    BY <1>4, <1>5, <2>1 DEF Audience, Under, Endpoints
  <2>2. CASE ~(fwd = {} \/ NoId \in fwd)
    <3>1. fwd \subseteq Ids
      BY <1>3, <2>2 DEF AnyId
    <3> QED BY <1>4, <1>5, <2>2, <3>1 DEF Audience, Under, Endpoints
  <2> QED BY <2>1, <2>2
<1>7. to \subseteq Audience(c) /\ Audience(c) \subseteq Endpoints
  BY <1>1, PoolsRegistered DEF Recipients
<1>8. \A o \in Audience(c) : o \in to <=> Reachable(c, o, NoType)
  BY <1>1, <1>7, LiveRecipients, RegisteredAlive
<1> QED BY <1>2, <1>6, <1>7, <1>8 DEF Addressed

(* A PUBLISH (handlePublishData) reaches exactly the other Normal endpoints*)
(* that the sender forwards to and that accept it: nobody who has left or  *)
(* changed its role, and no fewer.                                         *)
THEOREM BroadcastExactCorrect ==
    ASSUME Orderly PROVE RoutingSpec => []BroadcastExact
<1>1. RoutingInit => BroadcastExact
  BY DEF RoutingInit, BroadcastExact, Quiet
<1>2. OrderlyInv /\ BroadcastExact /\ [RoutingNext]_routingVars => BroadcastExact'
  <2> SUFFICES ASSUME OrderlyInv, BroadcastExact, [RoutingNext]_routingVars
               PROVE  BroadcastExact'
    OBVIOUS
  <2>1. CASE sent' = Quiet
    BY <2>1 DEF BroadcastExact, Quiet
  <2>2. CASE UNCHANGED routingVars
    BY <2>2 DEF routingVars, vars, connVars, mapVars, BroadcastExact, Endpoints,
                Under, Reachable, Accepts, Listens, Acting, Lookup
  <2>3. ASSUME NEW c \in Conns, SendStep(c),
               UNCHANGED <<vars, filters, message_subscribers>>
        PROVE  BroadcastExact'
    <3>1. Addressed(c)' = Addressed(c)
      BY <2>3 DEF vars, connVars, mapVars, Addressed, Endpoints, Under, Reachable,
                  Accepts, Listens, Acting, Lookup
    <3>2. sent'.cmd = "PUBLISH" => sent'.by = c /\ sent'.to = Addressed(c)
      BY <2>3, SendKind, PublishExact, RegistryAssumption
    <3> QED BY <3>1, <3>2 DEF BroadcastExact, Addressed
  <2> QED BY <2>1, <2>2, <2>3, QuietOrSend, RegistryAssumption, RoutingAssumption
          DEF OrderlyInv
<1> QED BY <1>1, <1>2, OrderlyInvCorrect, PTL DEF RoutingSpec

-----------------------------------------------------------------------------
LEMMA DisjointSum ==
    ASSUME NEW A, NEW B, NEW C, IsFiniteSet(A), IsFiniteSet(B), IsFiniteSet(C),
           A \cap B = {}, (A \cup B) \cap C = {}
    PROVE  Cardinality((A \cup B) \cup C) = Cardinality(A) + Cardinality(B) + Cardinality(C)
<1>1. /\ IsFiniteSet(A \cup B)
      /\ Cardinality(A \cup B) = Cardinality(A) + Cardinality(B) - Cardinality({})
  BY FS_Union
<1>2. Cardinality((A \cup B) \cup C) = Cardinality(A \cup B) + Cardinality(C) - Cardinality({})
  BY <1>1, FS_Union
<1>3. Cardinality({}) = 0
  BY FS_EmptySet
<1>4. /\ Cardinality(A) \in Nat /\ Cardinality(B) \in Nat /\ Cardinality(C) \in Nat
      /\ Cardinality(A \cup B) \in Nat
  BY <1>1, FS_CardinalityType
<1> QED BY <1>1, <1>2, <1>3, <1>4

(* For those clients the counts that INFO reports add up, with any number  *)
(* of ids: the ids of the services, read through their connections, are the*)
(* ids they are registered under, each once, and no other role has them.   *)
THEOREM CountsCorrect ==
    ASSUME Orderly, IsFiniteSet(Ids) PROVE RoutingSpec => []CountsAddUp
<1> DEFINE of(role) == {i \in Ids : endpoints[i] # NoEp /\ ep[endpoints[i]].role = role}
           services == UNION {service_endpoints[t] : t \in service_keys}
<1>1. OrderlyInv /\ OneId => CountsAddUp
  <2> SUFFICES ASSUME OrderlyInv, OneId PROVE CountsAddUp
    OBVIOUS
  <2>1. TypeOK
    BY DEF OrderlyInv, RoutingTypeOK
  <2>2. \A i \in Ids : endpoints[i] # NoEp =>
           /\ endpoints[i] \in Eps
           /\ ep[endpoints[i]].role \in Roles
           /\ ep[endpoints[i]].svc_type \in SvcTypes
           /\ connId[ep[endpoints[i]].conn] = i
    <3> SUFFICES ASSUME NEW i \in Ids, endpoints[i] # NoEp
                 PROVE  /\ endpoints[i] \in Eps
                        /\ ep[endpoints[i]].role \in Roles
                        /\ ep[endpoints[i]].svc_type \in SvcTypes
                        /\ connId[ep[endpoints[i]].conn] = i
      OBVIOUS
    <3>1. endpoints[i] \in Eps /\ endpoints[i] \in Held
      BY <2>1 DEF TypeOK, Held
    <3> QED BY <2>1, <3>1 DEF TypeOK, OneId, Endpoint
  <2>3. {i \in Ids : endpoints[i] # NoEp} = (of("Normal") \cup of("Admin")) \cup of("Service")
    BY <2>2 DEF Roles
  <2>4. {i \in Ids : normal_endpoints[i] # NoEp} = of("Normal")
    BY DEF OrderlyInv, RoleIndexExact
  <2>5. {i \in Ids : admin_endpoints[i] # NoEp} = of("Admin")
    BY DEF OrderlyInv, RoleIndexExact
  <2>6. {connId[ep[o].conn] : o \in services} = of("Service")
    <3>1. ASSUME NEW o \in services PROVE connId[ep[o].conn] \in of("Service")
      <4>1. PICK t \in service_keys : o \in service_endpoints[t]
        OBVIOUS
      <4>2. t \in SvcTypes
        BY <2>1 DEF TypeOK
      <4>3. PICK i \in Ids : endpoints[i] = o /\ o \in Eps /\ ep[o].role = "Service"
        BY <4>1, <4>2 DEF OrderlyInv, ServiceIndexExact
      <4>4. o # NoEp
        BY <4>3, RegistryAssumption DEF RegistryAssumption
      <4> QED BY <2>2, <4>3, <4>4
    <3>2. ASSUME NEW i \in of("Service")
          PROVE  \E o \in services : connId[ep[o].conn] = i
      <4>1. ep[endpoints[i]].svc_type \in SvcTypes /\ endpoints[i] \in Eps
        BY <2>2
      <4>2. /\ endpoints[i] \in service_endpoints[ep[endpoints[i]].svc_type]
            /\ ep[endpoints[i]].svc_type \in service_keys
        BY <4>1 DEF OrderlyInv, ServiceIndexExact
      <4> QED BY <2>2, <4>2
    <3> HIDE DEF services
    <3> QED BY <3>1, <3>2
  <2>7. IsFiniteSet(of("Normal")) /\ IsFiniteSet(of("Admin")) /\ IsFiniteSet(of("Service"))
    BY FS_Subset
  <2>8. of("Normal") \cap of("Admin") = {}
        /\ (of("Normal") \cup of("Admin")) \cap of("Service") = {}
    OBVIOUS
  <2>9. Info = [endpoints |-> Cardinality((of("Normal") \cup of("Admin")) \cup of("Service")),
                normal_endpoints |-> Cardinality(of("Normal")),
                admin_endpoints |-> Cardinality(of("Admin")),
                service_endpoints |-> Cardinality(of("Service"))]
    BY <2>3, <2>4, <2>5, <2>6 DEF Info
  <2> HIDE DEF of
  <2>10. Cardinality((of("Normal") \cup of("Admin")) \cup of("Service")) =
           Cardinality(of("Normal")) + Cardinality(of("Admin")) + Cardinality(of("Service"))
    BY <2>7, <2>8, DisjointSum
  <2> QED BY <2>9, <2>10 DEF CountsAddUp
<1>2. ~MayTakeOver /\ OneIdPerConnection
  BY DEF Orderly
<1>3. Spec => []OneId
  BY <1>2, OneIdCorrect
<1> QED BY <1>1, <1>3, OrderlyInvCorrect, RoutingIsRegistry, PTL
=============================================================================
