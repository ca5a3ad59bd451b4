--------------------------- MODULE EndpointRegistry ---------------------------
(***************************************************************************)
(* The registry of a switch node: which TCP connection acts for which      *)
(* endpoint.  It models SwitchContext (server/switch_context.cpp), the     *)
(* connection callbacks of SwitchServer, SwitchService::register_endpoint  *)
(* and SwitchService::kickout_endpoint.                                    *)
(*                                                                         *)
(* The server is one event loop, so a step is one callback run to its end. *)
(* A handler that only answers with an error changes nothing: its paths    *)
(* are the negations of the guards below and are not steps.                *)
(***************************************************************************)
EXTENDS Naturals, FiniteSets

CONSTANTS
    Conns,               \* addresses of TcpConnection objects
    Ids,                 \* endpoint ids a client may hold (never 0)
    NoId,                \* 0: the id of a connection before SetID
    Eps,                 \* addresses of Endpoint objects
    NoEp,                \* "not in the map"
    NoConn,              \* the connection of an Endpoint that does not exist
    SvcTypes,            \* service types
    AllTypes,            \* service type 0, the one the constructor sets
    OneIdPerConnection,  \* TRUE: clients register again only the id they hold
    MayTakeOver          \* TRUE: clients may present the token of an endpoint

(* Ids, objects and types are told apart from the markers for "none".      *)
ASSUME RegistryAssumption ==
    /\ NoId \notin Ids
    /\ NoEp \notin Eps
    /\ NoConn \notin Conns
    /\ AllTypes \in SvcTypes
    /\ OneIdPerConnection \in BOOLEAN
    /\ MayTakeOver \in BOOLEAN

VARIABLES
    status,             \* state of each connection
    connId,             \* TcpConnection::ID()
    told,               \* the id in the last REG success sent on a connection
    pending_clients,    \* connections listed as not registered yet
    ep,                 \* the fields of each Endpoint object
    endpoints,          \* SwitchContext::endpoints
    normal_endpoints,   \* SwitchContext::normal_endpoints
    admin_endpoints,    \* SwitchContext::admin_endpoints
    service_endpoints,  \* the set stored under a service type
    service_keys        \* the service types that have an entry

connVars == <<status, connId, told, pending_clients>>
mapVars == <<endpoints, normal_endpoints, admin_endpoints,
             service_endpoints, service_keys>>
vars == <<connVars, ep, mapVars>>

-----------------------------------------------------------------------------
AnyId == Ids \cup {NoId}
Roles == {"Normal", "Admin", "Service"}
AnyConn == Conns \cup {NoConn}
Endpoint == [role : Roles \cup {"Undefined"}, svc_type : SvcTypes,
             conn : AnyConn]

(* What a REG command carries: the id asked for (NoId: the server chooses),*)
(* the role, the service type, whether its token is the current token of   *)
(* that endpoint, and whether its access code is the one of the role.      *)
Request == [id : AnyId, role : Roles, svc_type : SvcTypes,
            token : BOOLEAN, code : BOOLEAN]

NoEndpoint == [role |-> "Undefined", svc_type |-> AllTypes, conn |-> NoConn]

\* Fault: register_endpoint forgets SetRole on the new object.
NewEndpointWithoutRole(c, r) ==
    [role |-> "Undefined", svc_type |-> r.svc_type, conn |-> c]

NewEndpoint(c, r) ==
    [role |-> r.role,
     svc_type |-> IF r.role = "Service" THEN r.svc_type ELSE AllTypes,
     conn |-> c]

-----------------------------------------------------------------------------
(* The Endpoint a connection acts for: endpoints.find(conn->ID()).         *)
Lookup(i) == IF i \in Ids THEN endpoints[i] ELSE NoEp
Acting(c) == Lookup(connId[c])

Online(c) == status[c] # "closed"

(* Endpoint objects are shared_ptrs: one lives while a map refers to it.   *)
Held ==
    {o \in Eps : \/ \E i \in Ids : o \in {endpoints[i], normal_endpoints[i],
                                          admin_endpoints[i]}
                 \/ \E t \in SvcTypes : o \in service_endpoints[t]}

(* The objects after a step: `fields` for those some map still refers to.  *)
Collect(fields) ==
    ep' = [o \in Eps |-> IF o \in Held' THEN fields[o] ELSE NoEndpoint]

(* An Endpoint keeps a plain pointer to its connection.  Once that         *)
(* connection is closed the pointer dangles, and what FD() and ID() read   *)
(* through it is any value.                                                *)
Dangles(o) == \A c \in Conns : ep[o].conn = c => ~Online(c)

SameFD(c, o) == IF Dangles(o) THEN BOOLEAN ELSE {ep[o].conn = c}

EndpointIdOf(o) == IF Dangles(o) THEN AnyId ELSE {connId[ep[o].conn]}

(* Every variable has its type, and an object that a map refers to is a    *)
(* complete Endpoint: its role and its connection have been set.           *)
TypeOK ==
    /\ status \in [Conns -> {"closed", "open", "closing"}]
    /\ connId \in [Conns -> AnyId]
    /\ told \in [Conns -> AnyId]
    /\ pending_clients \subseteq Conns
    /\ ep \in [Eps -> Endpoint]
    /\ endpoints \in [Ids -> Eps \cup {NoEp}]
    /\ normal_endpoints \in [Ids -> Eps \cup {NoEp}]
    /\ admin_endpoints \in [Ids -> Eps \cup {NoEp}]
    /\ service_endpoints \in [SvcTypes -> SUBSET Eps]
    /\ service_keys \subseteq SvcTypes
    /\ \A o \in Held : ep[o].role \in Roles /\ ep[o].conn \in Conns

-----------------------------------------------------------------------------
Init ==
    /\ status = [c \in Conns |-> "closed"]
    /\ connId = [c \in Conns |-> NoId]
    /\ told = [c \in Conns |-> NoId]
    /\ pending_clients = {}
    /\ ep = [o \in Eps |-> NoEndpoint]
    /\ endpoints = [i \in Ids |-> NoEp]
    /\ normal_endpoints = [i \in Ids |-> NoEp]
    /\ admin_endpoints = [i \in Ids |-> NoEp]
    /\ service_endpoints = [t \in SvcTypes |-> {}]
    /\ service_keys = {}

(* A client connects.  The address of a closed connection may be reused,   *)
(* also while an Endpoint still points to it.                              *)
OnConnectionReady(c) ==
    /\ status[c] = "closed"
    /\ status' = [status EXCEPT ![c] = "open"]
    /\ pending_clients' = pending_clients \cup {c}
    /\ UNCHANGED <<connId, told, ep, mapVars>>

\* Fault: the close callback does not remove the endpoint.
KeepEndpoint(c) == UNCHANGED <<ep, mapVars>>

(* SwitchContext::RemoveEndpoint on the id of a closing connection: the    *)
(* role map is cleared under k = ep->Id(), `endpoints` under the id given, *)
(* and the entry of a service type stays, possibly empty.                  *)
RemoveListed(c, o, k) ==
    /\ endpoints' = [endpoints EXCEPT ![connId[c]] = NoEp]
    /\ normal_endpoints' = IF ep[o].role = "Normal" /\ k \in Ids
                           THEN [normal_endpoints EXCEPT ![k] = NoEp]
                           ELSE normal_endpoints
    /\ admin_endpoints' = IF ep[o].role = "Admin" /\ k \in Ids
                          THEN [admin_endpoints EXCEPT ![k] = NoEp]
                          ELSE admin_endpoints
    /\ service_endpoints' =
         IF ep[o].role = "Service"
         THEN [service_endpoints EXCEPT ![ep[o].svc_type] = @ \ {o}]
         ELSE service_endpoints
    /\ UNCHANGED service_keys
    /\ Collect(ep)

RemoveEndpoint(c) ==
    IF Acting(c) = NoEp
    THEN UNCHANGED <<ep, mapVars>>
    ELSE \E k \in EndpointIdOf(Acting(c)) : RemoveListed(c, Acting(c), k)

(* The connection is gone: its peer closed it, or Disconnect took effect.  *)
OnConnectionClosed(c) ==
    /\ Online(c)
    /\ status' = [status EXCEPT ![c] = "closed"]
    /\ connId' = [connId EXCEPT ![c] = NoId]
    /\ told' = [told EXCEPT ![c] = NoId]
    /\ pending_clients' = pending_clients \ {c}
    /\ RemoveEndpoint(c)

-----------------------------------------------------------------------------
(* What a client of the modelled discipline asks for on connection c.      *)
Disciplined(c, r) ==
    /\ OneIdPerConnection /\ told[c] # NoId => r.id = told[c]
    /\ r.token => MayTakeOver

\* Fault: the connection of the new endpoint is not given its id.
KeepID(c, i) == UNCHANGED connId

SetID(c, i) == connId' = [connId EXCEPT ![c] = i]

\* Fault: the older connection is not disconnected.
AfterNoDisconnect(kicked) == status

(* The connections after Disconnect on some of them: each is read no more, *)
(* and its close callback runs later.                                      *)
AfterDisconnect(kicked) ==
    [d \in Conns |-> IF d \in kicked /\ status[d] = "open" THEN "closing"
                                                         ELSE status[d]]

\* Fault: the connection stays in the pending list.
RegisteredStillPending(c, i) ==
    /\ told' = [told EXCEPT ![c] = i]
    /\ UNCHANGED pending_clients

(* The bookkeeping at the end of every successful registration.            *)
Registered(c, i) ==
    /\ told' = [told EXCEPT ![c] = i]
    /\ pending_clients' = pending_clients \ {c}

(* A new Endpoint, the object o, under an id that is not in use.           *)
RegisterObject(c, i, r, o) ==
    /\ endpoints' = [endpoints EXCEPT ![i] = o]
    /\ normal_endpoints' = IF r.role = "Normal"
                           THEN [normal_endpoints EXCEPT ![i] = o]
                           ELSE normal_endpoints
    /\ admin_endpoints' = IF r.role = "Admin"
                          THEN [admin_endpoints EXCEPT ![i] = o]
                          ELSE admin_endpoints
    /\ service_endpoints' =
         IF r.role = "Service"
         THEN [service_endpoints EXCEPT ![r.svc_type] = @ \cup {o}]
         ELSE service_endpoints
    /\ service_keys' =
         service_keys \cup (IF r.role = "Service" THEN {r.svc_type} ELSE {})
    /\ Collect([ep EXCEPT ![o] = NewEndpoint(c, r)])
    /\ SetID(c, i)
    /\ UNCHANGED status
    /\ Registered(c, i)

RegisterNew(c, i, r) == \E o \in Eps \ Held : RegisterObject(c, i, r, o)

\* Fault: the endpoint also stays listed under its old role.
MoveIndexKeepingOld(index, role, i, o, r) ==
    IF r.role = role THEN [index EXCEPT ![i] = o] ELSE index

(* Switching the role of an endpoint moves it between the role maps.       *)
MoveIndex(index, role, i, o, r) ==
    IF r.role = ep[o].role THEN index
    ELSE IF r.role = role THEN [index EXCEPT ![i] = o]
    ELSE IF ep[o].role = role THEN [index EXCEPT ![i] = NoEp]
    ELSE index

\* Fault: only a role switch takes the endpoint out of its old set.
LeavesTypeOnRoleSwitch(o, r) == ep[o].role = "Service" /\ r.role # "Service"

(* Whether a registration takes the endpoint out of the set of its old     *)
(* service type, and whether it puts it into the set of the requested one. *)
LeavesType(o, r) ==
    \/ ep[o].role = "Service" /\ r.role # "Service"
    \/ r.role = "Service" /\ r.svc_type # ep[o].svc_type

JoinsType(o, r) ==
    /\ r.role = "Service"
    /\ ep[o].role # "Service" \/ r.svc_type # ep[o].svc_type

(* The service map after a registration: the old set is dropped when empty.*)
MoveService(o, r) ==
    /\ service_endpoints' =
         [t \in SvcTypes |->
            (service_endpoints[t] \
               {x \in {o} : t = ep[o].svc_type /\ LeavesType(o, r)})
            \cup {x \in {o} : t = r.svc_type /\ JoinsType(o, r)}]
    /\ service_keys' =
         (service_keys \ {t \in {ep[o].svc_type} :
                             LeavesType(o, r) /\ service_endpoints'[t] = {}})
         \cup {t \in {r.svc_type} : JoinsType(o, r)}

\* Fault: any connection may take an id over.
EntitledAlways(same, r) == TRUE

(* Who may register an id in use: its own connection, or the bearer of the *)
(* token of the endpoint.                                                  *)
Entitled(same, r) == same \/ r.token

(* The Endpoint o after a registration through c; `same` tells whether its *)
(* connection was found to be c already.                                   *)
UpdatedEndpoint(c, r, o, same) ==
    [role |-> r.role,
     svc_type |-> IF r.role = "Service" THEN r.svc_type ELSE ep[o].svc_type,
     conn |-> IF same THEN ep[o].conn ELSE c]

\* Fault: the id is given to the new connection and also left to the older.
RegisterAgainWithID(c, i, r, o, same) ==
    /\ Entitled(same, r)
    /\ status' = AfterDisconnect(IF same THEN {} ELSE {ep[o].conn})
    /\ normal_endpoints' = MoveIndex(normal_endpoints, "Normal", i, o, r)
    /\ admin_endpoints' = MoveIndex(admin_endpoints, "Admin", i, o, r)
    /\ MoveService(o, r)
    /\ UNCHANGED endpoints
    /\ SetID(c, i)
    /\ Collect([ep EXCEPT ![o] = UpdatedEndpoint(c, r, o, same)])
    /\ Registered(c, i)

(* An id in use, registered again or taken over.  The connection it is     *)
(* taken from is disconnected; SetID is not called on the new one.         *)
RegisterAgain(c, i, r, o, same) ==
    /\ Entitled(same, r)
    /\ status' = AfterDisconnect(IF same THEN {} ELSE {ep[o].conn})
    /\ normal_endpoints' = MoveIndex(normal_endpoints, "Normal", i, o, r)
    /\ admin_endpoints' = MoveIndex(admin_endpoints, "Admin", i, o, r)
    /\ MoveService(o, r)
    /\ UNCHANGED <<endpoints, connId>>
    /\ Collect([ep EXCEPT ![o] = UpdatedEndpoint(c, r, o, same)])
    /\ Registered(c, i)

RegisterExisting(c, i, r) ==
    \E same \in SameFD(c, endpoints[i]) : RegisterAgain(c, i, r, endpoints[i], same)

(* REG.  The id 0 asks the server to allocate a free one.                  *)
Register(c, r) ==
    /\ status[c] = "open"
    /\ Disciplined(c, r)
    /\ r.code
    /\ \E i \in IF r.id = NoId THEN {j \in Ids : endpoints[j] = NoEp}
                               ELSE {r.id} :
         IF endpoints[i] = NoEp THEN RegisterNew(c, i, r)
                                ELSE RegisterExisting(c, i, r)

(* KICKOUT by an admin: the connections of the targets are disconnected;   *)
(* the maps are left to OnConnectionClosed.                                *)
Kickout(c, targets) ==
    /\ status[c] = "open"
    /\ Acting(c) # NoEp
    /\ ep[Acting(c)].role = "Admin"
    /\ targets # {}
    /\ status' = AfterDisconnect({ep[endpoints[i]].conn :
                                    i \in {j \in targets : endpoints[j] # NoEp}})
    /\ UNCHANGED <<connId, told, pending_clients, ep, mapVars>>

Next ==
    \E c \in Conns :
        \/ OnConnectionReady(c)
        \/ OnConnectionClosed(c)
        \/ \E r \in Request : Register(c, r)
        \/ \E targets \in SUBSET Ids : Kickout(c, targets)

Spec == Init /\ [][Next]_vars

-----------------------------------------------------------------------------
(* A connection that carries an id and has not been disconnected finds, in *)
(* every handler, an Endpoint that sends to that same connection: takeover *)
(* (register_endpoint) and removal (RemoveEndpoint) never leave it acting  *)
(* for nobody or for another client's endpoint.                            *)
OwnLookup ==
    \A c \in Conns : status[c] = "open" /\ connId[c] # NoId =>
        /\ Acting(c) # NoEp
        /\ ep[Acting(c)].conn = c

(* An id is carried by one connection at most, from SetID until its close  *)
(* callback, and is registered all that time; and an object is registered  *)
(* under one id.  A takeover leaves the id with the older connection.      *)
OneHolder ==
    /\ \A c \in Conns : connId[c] # NoId => Online(c) /\ Acting(c) # NoEp
    /\ \A c, d \in Conns : connId[c] # NoId /\ connId[c] = connId[d] => c = d
    /\ \A i, j \in Ids : endpoints[i] # NoEp /\ endpoints[i] = endpoints[j] => i = j

(* The set of a service type holds exactly the registered endpoints whose  *)
(* role is Service and whose type it is, through role and type switches,   *)
(* takeovers and removals: no request goes to a removed endpoint, and none *)
(* misses a registered one.                                                *)
ServiceIndexExact ==
    \A t \in SvcTypes :
        /\ service_endpoints[t] =
             {o \in Eps : /\ \E i \in Ids : endpoints[i] = o
                          /\ ep[o].role = "Service"
                          /\ ep[o].svc_type = t}
        /\ service_endpoints[t] # {} => t \in service_keys

(* Each role map lists under an id the registered endpoint of that id and  *)
(* role and nothing else: what PUBLISH broadcasts to and INFO reports.     *)
RoleIndexExact ==
    \A i \in Ids :
        LET under(role) == IF endpoints[i] # NoEp /\ ep[endpoints[i]].role = role
                           THEN endpoints[i] ELSE NoEp
        IN /\ normal_endpoints[i] = under("Normal")
           /\ admin_endpoints[i] = under("Admin")

(* The connections OnConnectionReady listed are unlisted by the first      *)
(* successful registration, whichever path it takes, or by the close.      *)
PendingExact == pending_clients = {c \in Conns : Online(c) /\ told[c] = NoId}

(* No registered Endpoint points to a connection that is gone: the close   *)
(* callback clears every endpoint of the connection.                       *)
NoDangling ==
    \A i \in Ids : endpoints[i] # NoEp =>
        \E c \in Conns : Online(c) /\ ep[endpoints[i]].conn = c

(* Every registered id is carried by a connection: ids are not used up by  *)
(* clients that have left, and a REG without an id, which draws until it   *)
(* finds a free one, finds one unless that many clients are connected.     *)
IdsCarried ==
    \A i \in Ids : endpoints[i] # NoEp => \E c \in Conns : Online(c) /\ connId[c] = i

(* The id the server answered to REG is the id the connection acts under.  *)
ToldIsActing ==
    \A c \in Conns : status[c] = "open" /\ told[c] # NoId =>
        connId[c] = told[c]

(* Closing a connection removes no endpoint that another connection serves.*)
CloseRemovesOwn ==
    [][\A c \in Conns : OnConnectionClosed(c) =>
         \A i \in Ids : endpoints[i] # NoEp /\ ep[endpoints[i]].conn # c =>
             endpoints'[i] = endpoints[i]]_vars

(* A disconnected client stops being an endpoint once the loop has run its *)
(* close callback: KICKOUT leaves the clearing to OnConnectionClosed.      *)
KickedOutIsForgotten ==
    \A c \in Conns : status[c] = "closing" ~>
        \A i \in Ids : endpoints[i] # NoEp => ep[endpoints[i]].conn # c

(* The directory the maps stand for: the connection of the registered      *)
(* Endpoint, and the role maps that list it under its id.                  *)
Vacant == [conn |-> NoConn, roles |-> {}]

ListedRoles(i) ==
    {role \in Roles :
        \/ role = "Normal" /\ normal_endpoints[i] = endpoints[i]
        \/ role = "Admin" /\ admin_endpoints[i] = endpoints[i]
        \/ role = "Service" /\ \E t \in SvcTypes : endpoints[i] \in service_endpoints[t]}

Roster ==
    [i \in Ids |-> IF endpoints[i] = NoEp THEN Vacant
                   ELSE [conn |-> ep[endpoints[i]].conn, roles |-> ListedRoles(i)]]

Dir == INSTANCE Directory WITH
    online <- {c \in Conns : Online(c)},
    roster <- Roster

(* Clients that keep to one id each and take nobody's over see a directory:*)
(* every callback of the server is one step of it, or none.                *)
ImplementsDirectory == Dir!DirSpec
=============================================================================
