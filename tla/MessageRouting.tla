---------------------------- MODULE MessageRouting ----------------------------
(***************************************************************************)
(* The traffic of a switch node: the filters each endpoint sets with FWD,  *)
(* SUB and REJECT, the index of message subscribers, and whom a PUBLISH, a *)
(* PUBLISH_2 or a service message is sent to.  It adds to EndpointRegistry *)
(* the other handlers of CommandHandler (server/switch_command_handler.cpp)*)
(* and the parts of SwitchService and Endpoint they call.                  *)
(*                                                                         *)
(* A handler looks its sender up by the id of the connection; the registry *)
(* keeps that endpoint's connection the very same one (OwnLookup), so      *)
(* ep->Id() is connId[c] for the sender.  A handler that only answers with *)
(* an error or a report is not a step.                                     *)
(***************************************************************************)
EXTENDS EndpointRegistry

CONSTANTS
    MsgTypes,    \* message types (and service commands) clients name
    NoType,      \* message type 0: no type
    FwdIds,      \* the ids clients name in FWD and UNFWD
    SrcIds,      \* the sources clients name in SUB, UNSUB, REJECT, UNREJECT
    AskedRoles,  \* the roles clients register in
    Commands     \* the commands clients send, besides REG

(* NoId, the 0 of FWD, stands for everybody.                               *)
ASSUME RoutingAssumption ==
    /\ NoType \in MsgTypes
    /\ FwdIds \subseteq AnyId
    /\ SrcIds \subseteq Ids
    /\ AskedRoles \subseteq Roles
    /\ Commands \subseteq {"FWD", "UNFWD", "SUB", "UNSUB", "REJECT", "UNREJECT",
                           "PUBLISH", "PUBLISH_2", "SVC", "SVC_RSP", "KICKOUT"}

VARIABLES
    filters,              \* the five sets of each Endpoint object
    message_subscribers,  \* SwitchContext::message_subscribers
    sent                  \* what the last callback forwarded, and to whom

routingVars == <<vars, filters, message_subscribers, sent>>

-----------------------------------------------------------------------------
Filter == [fwd_targets : SUBSET AnyId,
           subs_sources : SUBSET Ids, rej_sources : SUBSET Ids,
           subs_messages : SUBSET MsgTypes, rej_messages : SUBSET MsgTypes]

NoFilter == [fwd_targets |-> {}, subs_sources |-> {}, rej_sources |-> {},
             subs_messages |-> {}, rej_messages |-> {}]

(* A forwarded message: the command, the sending connection, the service   *)
(* type, the message type or service command, the ids it names, and the    *)
(* Endpoints to whose connections it is written.                           *)
Forwarded == [cmd : {"none", "PUBLISH", "PUBLISH_2", "SVC", "SVC_RSP"},
              by : AnyConn, svc_type : SvcTypes, type : MsgTypes,
              named : SUBSET Ids, to : SUBSET Eps]

Quiet == [cmd |-> "none", by |-> NoConn, svc_type |-> AllTypes,
          type |-> NoType, named |-> {}, to |-> {}]

(* message_subscribers has a key exactly for the types with a subscriber.  *)
RoutingTypeOK ==
    /\ TypeOK
    /\ filters \in [Eps -> Filter]
    /\ message_subscribers \in [MsgTypes -> SUBSET Ids]
    /\ sent \in Forwarded

RoutingInit ==
    /\ Init
    /\ filters = [o \in Eps |-> NoFilter]
    /\ message_subscribers = [m \in MsgTypes |-> {}]
    /\ sent = Quiet

-----------------------------------------------------------------------------
(* Connections and registrations, as in EndpointRegistry.  The filters go  *)
(* with their object; nothing takes an id out of message_subscribers.      *)
Forget == filters' = [o \in Eps |-> IF o \in Held' THEN filters[o] ELSE NoFilter]

Asked == {r \in Request : r.role \in AskedRoles /\ r.code}

RegistryStep(c) ==
    /\ \/ OnConnectionReady(c)
       \/ OnConnectionClosed(c)
       \/ \E r \in Asked : Register(c, r)
       \/ "KICKOUT" \in Commands /\ \E targets \in SUBSET Ids : Kickout(c, targets)
    /\ Forget
    /\ sent' = Quiet
    /\ UNCHANGED message_subscribers

-----------------------------------------------------------------------------
(* A command of a registered client, found by the id of its connection.    *)
Acts(c) == status[c] = "open" /\ Acting(c) # NoEp

Refilter(c, filter) ==
    /\ filters' = [filters EXCEPT ![Acting(c)] = filter]
    /\ sent' = Quiet
    /\ UNCHANGED vars

Forward(c, targets) ==
    /\ Acts(c)
    /\ targets # {}
    /\ Refilter(c, [filters[Acting(c)] EXCEPT !.fwd_targets = @ \cup targets])
    /\ UNCHANGED message_subscribers

Unforward(c, targets) ==
    /\ Acts(c)
    /\ targets # {}
    /\ Refilter(c, [filters[Acting(c)] EXCEPT !.fwd_targets = @ \ targets])
    /\ UNCHANGED message_subscribers

\* Fault: only the first message type of the list is indexed.
AddSubscriberOfOne(i, messages) ==
    message_subscribers' =
        [m \in MsgTypes |->
            IF messages # {} /\ m = CHOOSE x \in messages : TRUE
            THEN message_subscribers[m] \cup {i} ELSE message_subscribers[m]]

(* message_subscribers after SUB and UNSUB of the id i.                    *)
AddSubscriber(i, messages) ==
    message_subscribers' =
        [m \in MsgTypes |-> message_subscribers[m] \cup {x \in {i} : m \in messages}]

\* Fault: every subscription of the id is dropped.
DropSubscriberOfAll(i, messages) ==
    message_subscribers' =
        [m \in MsgTypes |-> IF messages = {} THEN message_subscribers[m]
                            ELSE message_subscribers[m] \ {i}]

DropSubscriber(i, messages) ==
    message_subscribers' =
        [m \in MsgTypes |-> message_subscribers[m] \ {x \in {i} : m \in messages}]

Subscribe(c, sources, messages) ==
    /\ Acts(c)
    /\ sources # {} \/ messages # {}
    /\ Refilter(c, [filters[Acting(c)] EXCEPT !.subs_sources = @ \cup sources,
                                              !.subs_messages = @ \cup messages])
    /\ AddSubscriber(connId[c], messages)

Unsubscribe(c, sources, messages) ==
    /\ Acts(c)
    /\ sources # {} \/ messages # {}
    /\ Refilter(c, [filters[Acting(c)] EXCEPT !.subs_sources = @ \ sources,
                                              !.subs_messages = @ \ messages])
    /\ DropSubscriber(connId[c], messages)

Reject(c, sources, messages) ==
    /\ Acts(c)
    /\ sources # {} \/ messages # {}
    /\ Refilter(c, [filters[Acting(c)] EXCEPT !.rej_sources = @ \cup sources,
                                              !.rej_messages = @ \cup messages])
    /\ UNCHANGED message_subscribers

Unreject(c, sources, messages) ==
    /\ Acts(c)
    /\ sources # {} \/ messages # {}
    /\ Refilter(c, [filters[Acting(c)] EXCEPT !.rej_sources = @ \ sources,
                                              !.rej_messages = @ \ messages])
    /\ UNCHANGED message_subscribers

-----------------------------------------------------------------------------
(* Endpoint::IsSubscribedSource and IsSubscribedMessage: an empty white    *)
(* list admits everything.                                                 *)
Listens(list, x) == list = {} \/ x \in list

(* SwitchService::is_forwarding_allowed, but for the comparison of ids.    *)
Accepts(o, source, type) ==
    /\ source \notin filters[o].rej_sources
    /\ Listens(filters[o].subs_sources, source)
    /\ type # NoType => /\ type \notin filters[o].rej_messages
                        /\ Listens(filters[o].subs_messages, type)

(* Whether source_ep->Id() differs from target_ep->Id(): either answer     *)
(* when the target's connection is gone.                                   *)
DifferentIds(c, o) == {i # connId[c] : i \in EndpointIdOf(o)}

(* The endpoints of `pool` that a message of c may be sent to.             *)
Recipients(c, pool, type) ==
    LET accepting == {o \in pool : Accepts(o, connId[c], type)}
    IN {to \in SUBSET accepting :
           \A o \in accepting : (o \in to) \in DifferentIds(c, o)}

(* The Endpoints a map holds under the given ids.                          *)
Under(index, is) == {index[i] : i \in is} \ {NoEp}

Send(cmd, c, svc_type, type, named, to) ==
    /\ sent' = [cmd |-> cmd, by |-> c, svc_type |-> svc_type, type |-> type,
                named |-> named, to |-> to]
    /\ UNCHANGED <<vars, filters, message_subscribers>>

\* Fault: only an empty list of targets stands for everybody.
AudienceOfForwards(c) ==
    LET fwd == filters[Acting(c)].fwd_targets
    IN Under(normal_endpoints, IF fwd = {} THEN Ids ELSE fwd \ {NoId})

(* Whom a plain PUBLISH addresses: every Normal endpoint, or those the     *)
(* sender forwards to.                                                     *)
Audience(c) ==
    LET fwd == filters[Acting(c)].fwd_targets
    IN Under(normal_endpoints, IF fwd = {} \/ NoId \in fwd THEN Ids ELSE fwd)

PublishData(c) ==
    /\ Acts(c)
    /\ \E to \in Recipients(c, Audience(c), NoType) :
         Send("PUBLISH", c, AllTypes, NoType, {}, to)

(* PUBLISH_2 goes to the ids it names, to the subscribers of its type, or, *)
(* when nobody subscribes to any type, wherever a PUBLISH would go.        *)
PublishDataToTargets(c, type, named) ==
    /\ Acts(c)
    /\ \E to \in
         IF named # {} THEN Recipients(c, Under(endpoints, named), type)
         ELSE IF \E m \in MsgTypes : message_subscribers[m] # {}
         THEN Recipients(c, Under(endpoints, message_subscribers[type]), type)
         ELSE Recipients(c, Audience(c), NoType) :
           Send("PUBLISH_2", c, AllTypes, type, named, to)

\* Fault: only the entry of type 0 is searched.
ServersOfAllTypes(t) == service_endpoints[AllTypes]

(* The services a request of type t is offered to: the entry of t if there *)
(* is one, be it empty, and otherwise the one of type 0.                   *)
Servers(t) ==
    IF t \in service_keys THEN service_endpoints[t] ELSE service_endpoints[AllTypes]

(* A service request goes to one service that accepts it, if there is any; *)
(* otherwise the sender is answered with an error.                         *)
ServiceRequest(c, t, svc_cmd) ==
    /\ Acts(c)
    /\ \E able \in Recipients(c, Servers(t), svc_cmd) :
       \E to \in IF able = {} THEN {{}} ELSE {{o} : o \in able} :
         Send("SVC", c, t, svc_cmd, {}, to)

(* The answer to the client whose id the request carried.                  *)
ServiceResponse(c, t, svc_cmd, source) ==
    /\ Acts(c)
    /\ Send("SVC_RSP", c, t, svc_cmd, {source}, Under(endpoints, {source}))

(* What INFO counts (SwitchService::get_stats): services are counted by    *)
(* the ids their connections have now.                                     *)
Info ==
    [endpoints |-> Cardinality({i \in Ids : endpoints[i] # NoEp}),
     normal_endpoints |-> Cardinality({i \in Ids : normal_endpoints[i] # NoEp}),
     admin_endpoints |-> Cardinality({i \in Ids : admin_endpoints[i] # NoEp}),
     service_endpoints |->
        Cardinality({connId[ep[o].conn] : o \in UNION {service_endpoints[t] : t \in service_keys}})]

-----------------------------------------------------------------------------
FilterStep(c) ==
    \/ \E targets \in SUBSET FwdIds :
         \/ "FWD" \in Commands /\ Forward(c, targets)
         \/ "UNFWD" \in Commands /\ Unforward(c, targets)
    \/ \E sources \in SUBSET SrcIds, messages \in SUBSET MsgTypes :
         \/ "SUB" \in Commands /\ Subscribe(c, sources, messages)
         \/ "UNSUB" \in Commands /\ Unsubscribe(c, sources, messages)
         \/ "REJECT" \in Commands /\ Reject(c, sources, messages)
         \/ "UNREJECT" \in Commands /\ Unreject(c, sources, messages)

SendStep(c) ==
    \/ "PUBLISH" \in Commands /\ PublishData(c)
    \/ \E type \in MsgTypes, named \in SUBSET Ids :
         "PUBLISH_2" \in Commands /\ PublishDataToTargets(c, type, named)
    \/ \E t \in SvcTypes, svc_cmd \in MsgTypes :
         \/ "SVC" \in Commands /\ ServiceRequest(c, t, svc_cmd)
         \/ \E source \in Ids :
              "SVC_RSP" \in Commands /\ ServiceResponse(c, t, svc_cmd, source)

RoutingNext == \E c \in Conns : RegistryStep(c) \/ FilterStep(c) \/ SendStep(c)

RoutingSpec == RoutingInit /\ [][RoutingNext]_routingVars

-----------------------------------------------------------------------------
(* The registered Endpoints, and those a message of connection c accepts   *)
(* by their own lists.                                                     *)
Endpoints == Under(endpoints, Ids)

Reachable(c, o, type) == Accepts(o, connId[c], type) /\ ep[o].conn # c

(* An endpoint that has subscribed to a message type and is registered is  *)
(* in the index of that type under its id, whatever connection it was      *)
(* moved to and whatever other ids its connection has carried since:       *)
(* SUB and UNSUB index ep->Id(), which is read through the connection.     *)
SubscribersComplete ==
    \A i \in Ids : endpoints[i] # NoEp =>
        \A m \in filters[endpoints[i]].subs_messages : i \in message_subscribers[m]

(* A PUBLISH_2 without targets is sent to every live endpoint that has     *)
(* subscribed to its type and does not reject it or its sender.            *)
SubscriptionReaches ==
    sent.cmd = "PUBLISH_2" /\ sent.named = {} =>
        {o \in Endpoints : /\ sent.type \in filters[o].subs_messages
                           /\ Reachable(sent.by, o, sent.type)
                           /\ ~Dangles(o)} \subseteq sent.to

(* A PUBLISH_2 without targets reaches no registered endpoint whose white  *)
(* list of messages does not admit its type: neither one that registered   *)
(* under the id of an earlier subscriber, which the index still holds, nor *)
(* one that the fallback to PUBLISH, which ignores the type, includes.     *)
WhiteListRespected ==
    sent.cmd = "PUBLISH_2" /\ sent.named = {} /\ sent.type # NoType =>
        \A o \in sent.to \cap Endpoints : Listens(filters[o].subs_messages, sent.type)

(* A PUBLISH is sent to the other registered endpoints whose role is       *)
(* Normal, that the sender forwards to and that accept it: to no fewer,    *)
(* and to nobody who has left or changed its role.                         *)
BroadcastExact ==
    sent.cmd = "PUBLISH" =>
        LET fwd == filters[Acting(sent.by)].fwd_targets
        IN sent.to =
             {o \in Endpoints :
                 /\ ep[o].role = "Normal"
                 /\ Reachable(sent.by, o, NoType)
                 /\ fwd # {} /\ NoId \notin fwd =>
                        \E i \in fwd : endpoints[i] = o}

(* The registered services of a type.                                      *)
ServicesOf(t) ==
    {o \in Endpoints : ep[o].role = "Service" /\ ep[o].svc_type = t}

(* A service request finds a registered service of its type whenever one   *)
(* accepts it, and goes to no service of another type while one exists.    *)
TypedServerFound ==
    sent.cmd = "SVC" =>
        LET typed == ServicesOf(sent.svc_type)
        IN /\ (\E o \in typed : Reachable(sent.by, o, sent.type)) => sent.to # {}
           /\ typed # {} => sent.to \subseteq typed

(* Nothing is ever written to the connection of a client that has left.    *)
RecipientsAlive == \A o \in sent.to : ~Dangles(o)

(* The counts INFO reports add up: an endpoint is listed once, under one   *)
(* role, and no two services have the same id.                             *)
CountsAddUp ==
    Info.endpoints =
        Info.normal_endpoints + Info.admin_endpoints + Info.service_endpoints
=============================================================================
