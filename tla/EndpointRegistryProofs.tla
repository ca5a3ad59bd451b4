----------------------- MODULE EndpointRegistryProofs -----------------------
(***************************************************************************)
(* Theorems about the registry, for any sets of connections, ids, objects  *)
(* and service types.                                                      *)
(***************************************************************************)
EXTENDS EndpointRegistry, TLAPS

(* A map that refers to Endpoint objects, and one of its entries changed.  *)
LEMMA IndexType ==
    ASSUME NEW index \in [Ids -> Eps \cup {NoEp}], NEW i, NEW o \in Eps \cup {NoEp}
    PROVE  [index EXCEPT ![i] = o] \in [Ids -> Eps \cup {NoEp}]
OBVIOUS

LEMMA MoveIndexType ==
    ASSUME NEW index \in [Ids -> Eps \cup {NoEp}], NEW role, NEW i,
           NEW o \in Eps, NEW r
    PROVE  MoveIndex(index, role, i, o, r) \in [Ids -> Eps \cup {NoEp}]
BY DEF MoveIndex

(* Collect leaves a well-typed heap when the new fields are well typed and *)
(* complete for every object some map refers to.                           *)
LEMMA CollectType ==
    ASSUME NEW fields \in [Eps -> Endpoint], Collect(fields),
           RegistryAssumption,
           \A o \in Held' : fields[o].role \in Roles /\ fields[o].conn \in Conns
    PROVE  /\ ep' \in [Eps -> Endpoint]
           /\ \A o \in Held' : ep'[o].role \in Roles /\ ep'[o].conn \in Conns
<1>1. NoEndpoint \in Endpoint
  BY DEF NoEndpoint, Endpoint, AnyConn, RegistryAssumption
<1>2. Held' \subseteq Eps
  BY DEF Held
<1> QED BY <1>1, <1>2 DEF Collect

LEMMA LookupType ==
    ASSUME TypeOK, NEW c \in Conns, Acting(c) # NoEp
    PROVE  /\ Acting(c) \in Held
           /\ connId[c] \in Ids
           /\ Acting(c) = endpoints[connId[c]]
BY DEF TypeOK, Acting, Lookup, Held

LEMMA DisconnectType ==
    ASSUME TypeOK, NEW kicked
    PROVE  AfterDisconnect(kicked) \in [Conns -> {"closed", "open", "closing"}]
BY DEF TypeOK, AfterDisconnect

-----------------------------------------------------------------------------
(* Each callback keeps the types.                                          *)
LEMMA InitType == ASSUME RegistryAssumption, Init PROVE TypeOK
BY DEF Init, TypeOK, Held, NoEndpoint, Endpoint, AnyConn, AnyId, RegistryAssumption

LEMMA ReadyType ==
    ASSUME TypeOK, NEW c \in Conns, OnConnectionReady(c)
    PROVE  TypeOK'
BY DEF OnConnectionReady, TypeOK, mapVars, Held

LEMMA ClosedType ==
    ASSUME RegistryAssumption, TypeOK, NEW c \in Conns, OnConnectionClosed(c)
    PROVE  TypeOK'
<1>1. /\ status' \in [Conns -> {"closed", "open", "closing"}]
      /\ connId' \in [Conns -> AnyId]
      /\ told' \in [Conns -> AnyId]
      /\ pending_clients' \subseteq Conns
  BY DEF OnConnectionClosed, TypeOK, AnyId
<1>2. CASE Acting(c) = NoEp
  BY <1>1, <1>2 DEF OnConnectionClosed, RemoveEndpoint, TypeOK, mapVars, Held
<1>3. CASE Acting(c) # NoEp
  <2> DEFINE o == Acting(c)
  <2>1. PICK k \in EndpointIdOf(o) : RemoveListed(c, o, k)
    BY <1>3 DEF OnConnectionClosed, RemoveEndpoint
  <2>2. /\ endpoints' \in [Ids -> Eps \cup {NoEp}]
        /\ normal_endpoints' \in [Ids -> Eps \cup {NoEp}]
        /\ admin_endpoints' \in [Ids -> Eps \cup {NoEp}]
    BY <2>1, IndexType DEF TypeOK, RemoveListed
  <2>3. /\ service_endpoints' \in [SvcTypes -> SUBSET Eps]
        /\ service_keys' \subseteq SvcTypes
    BY <2>1 DEF TypeOK, RemoveListed
  <2>4. Held' \subseteq Held
    BY <2>1, RegistryAssumption DEF RemoveListed, Held, TypeOK, RegistryAssumption
  <2>5. \A x \in Held' : ep[x].role \in Roles /\ ep[x].conn \in Conns
    BY <2>4 DEF TypeOK
  <2>6. /\ ep' \in [Eps -> Endpoint]
        /\ \A x \in Held' : ep'[x].role \in Roles /\ ep'[x].conn \in Conns
    BY <2>1, <2>5, CollectType DEF TypeOK, RemoveListed
  <2> QED BY <1>1, <2>2, <2>3, <2>6 DEF TypeOK
<1> QED BY <1>2, <1>3

LEMMA RegisterNewType ==
    ASSUME RegistryAssumption, TypeOK, NEW c \in Conns, NEW i \in Ids,
           NEW r \in Request, RegisterNew(c, i, r)
    PROVE  TypeOK'
<1>1. PICK o \in Eps \ Held : RegisterObject(c, i, r, o)
  BY DEF RegisterNew
<1> DEFINE fields == [ep EXCEPT ![o] = NewEndpoint(c, r)]
<1>2. /\ status' \in [Conns -> {"closed", "open", "closing"}]
      /\ connId' \in [Conns -> AnyId]
      /\ told' \in [Conns -> AnyId]
      /\ pending_clients' \subseteq Conns
  BY <1>1 DEF RegisterObject, SetID, Registered, TypeOK, AnyId
<1>3. /\ endpoints' \in [Ids -> Eps \cup {NoEp}]
      /\ normal_endpoints' \in [Ids -> Eps \cup {NoEp}]
      /\ admin_endpoints' \in [Ids -> Eps \cup {NoEp}]
  BY <1>1, IndexType DEF RegisterObject, TypeOK
<1>4. /\ service_endpoints' \in [SvcTypes -> SUBSET Eps]
      /\ service_keys' \subseteq SvcTypes
  BY <1>1 DEF RegisterObject, TypeOK, Request
<1>5. NewEndpoint(c, r) \in Endpoint
  BY RegistryAssumption DEF NewEndpoint, Endpoint, Request, AnyConn, RegistryAssumption
<1>6. fields \in [Eps -> Endpoint]
  BY <1>5 DEF TypeOK
<1>7. Held' \subseteq Held \cup {o}
  BY <1>1 DEF RegisterObject, Held, TypeOK
<1>8. \A x \in Held' : fields[x].role \in Roles /\ fields[x].conn \in Conns
  BY <1>7 DEF TypeOK, Held, NewEndpoint, Request
<1>9. /\ ep' \in [Eps -> Endpoint]
      /\ \A x \in Held' : ep'[x].role \in Roles /\ ep'[x].conn \in Conns
  BY <1>1, <1>6, <1>8, CollectType DEF RegisterObject
<1> QED BY <1>2, <1>3, <1>4, <1>9 DEF TypeOK

LEMMA RegisterExistingType ==
    ASSUME RegistryAssumption, TypeOK, NEW c \in Conns, NEW i \in Ids,
           endpoints[i] # NoEp, NEW r \in Request, RegisterExisting(c, i, r)
    PROVE  TypeOK'
<1> DEFINE o == endpoints[i]
<1>1. PICK same \in SameFD(c, o) : RegisterAgain(c, i, r, o, same)
  BY DEF RegisterExisting
<1> DEFINE fields == [ep EXCEPT ![o] = UpdatedEndpoint(c, r, o, same)]
<1>2. o \in Held /\ o \in Eps
  BY DEF TypeOK, Held
<1>3. /\ status' \in [Conns -> {"closed", "open", "closing"}]
      /\ connId' \in [Conns -> AnyId]
      /\ told' \in [Conns -> AnyId]
      /\ pending_clients' \subseteq Conns
  BY <1>1, DisconnectType DEF RegisterAgain, Registered, TypeOK, AnyId
<1>4. /\ endpoints' \in [Ids -> Eps \cup {NoEp}]
      /\ normal_endpoints' \in [Ids -> Eps \cup {NoEp}]
      /\ admin_endpoints' \in [Ids -> Eps \cup {NoEp}]
  BY <1>1, <1>2, MoveIndexType DEF RegisterAgain, TypeOK
<1>5. /\ service_endpoints' \in [SvcTypes -> SUBSET Eps]
      /\ service_keys' \subseteq SvcTypes
  BY <1>1, <1>2 DEF RegisterAgain, MoveService, TypeOK, Request
<1>6. /\ UpdatedEndpoint(c, r, o, same) \in Endpoint
      /\ UpdatedEndpoint(c, r, o, same).role \in Roles
      /\ UpdatedEndpoint(c, r, o, same).conn \in Conns
  BY <1>2 DEF UpdatedEndpoint, Endpoint, Request, TypeOK, AnyConn
<1>7. fields \in [Eps -> Endpoint]
  BY <1>6 DEF TypeOK
<1>8. Held' \subseteq Held
  BY <1>1, <1>2 DEF RegisterAgain, MoveIndex, MoveService, Held, TypeOK
<1>9. \A x \in Held' : fields[x].role \in Roles /\ fields[x].conn \in Conns
  BY <1>6, <1>8 DEF TypeOK, Held
<1>10. /\ ep' \in [Eps -> Endpoint]
       /\ \A x \in Held' : ep'[x].role \in Roles /\ ep'[x].conn \in Conns
  BY <1>1, <1>7, <1>9, CollectType DEF RegisterAgain
<1> QED BY <1>3, <1>4, <1>5, <1>10 DEF TypeOK

(* REG reaches one of the two with an id and a request of their types.     *)
LEMMA RegisterCases ==
    ASSUME TypeOK, NEW c \in Conns, NEW r \in Request, Register(c, r)
    PROVE  \E i \in Ids :
             \/ endpoints[i] = NoEp /\ RegisterNew(c, i, r)
             \/ endpoints[i] # NoEp /\ RegisterExisting(c, i, r)
BY DEF Register, Request, AnyId

LEMMA KickoutType ==
    ASSUME TypeOK, NEW c \in Conns, NEW targets, Kickout(c, targets)
    PROVE  TypeOK'
BY DisconnectType DEF Kickout, TypeOK, Held, mapVars

LEMMA TypeStep ==
    ASSUME TypeOK, [Next]_vars PROVE TypeOK'
<1>1. ASSUME NEW c \in Conns, OnConnectionReady(c) PROVE TypeOK'
  BY <1>1, ReadyType
<1>2. ASSUME NEW c \in Conns, OnConnectionClosed(c) PROVE TypeOK'
  BY <1>2, ClosedType, RegistryAssumption
<1>3. ASSUME NEW c \in Conns, NEW r \in Request, Register(c, r) PROVE TypeOK'
  BY <1>3, RegisterCases, RegisterNewType, RegisterExistingType, RegistryAssumption
<1>4. ASSUME NEW c \in Conns, NEW targets \in SUBSET Ids, Kickout(c, targets)
      PROVE  TypeOK'
  BY <1>4, KickoutType
<1>5. CASE UNCHANGED vars
  BY <1>5 DEF vars, connVars, mapVars, TypeOK, Held
<1> QED BY <1>1, <1>2, <1>3, <1>4, <1>5 DEF Next

(* Every variable keeps its type and every listed object stays a complete  *)
(* Endpoint, for any number of connections, ids and service types.         *)
THEOREM TypeCorrect == Spec => []TypeOK
<1>1. Init => TypeOK
  BY InitType, RegistryAssumption
<1>2. TypeOK /\ [Next]_vars => TypeOK'
  BY TypeStep
<1> QED BY <1>1, <1>2, PTL DEF Spec

-----------------------------------------------------------------------------
(* OwnLookup is not inductive: that no other connection carries the id of  *)
(* c, and that the Endpoint of c is registered under that id only, is what *)
(* keeps the steps of others from touching it.  OneHolder says so.         *)
ActingInv == OneHolder /\ OwnLookup

LEMMA ReadyActing ==
    ASSUME TypeOK, ActingInv, NEW c \in Conns, OnConnectionReady(c)
    PROVE  ActingInv'
BY DEF OnConnectionReady, ActingInv, OneHolder, OwnLookup, Online, Acting,
       Lookup, TypeOK, mapVars

LEMMA ClosedActing ==
    ASSUME RegistryAssumption, TypeOK, ActingInv,
           NEW c \in Conns, OnConnectionClosed(c)
    PROVE  ActingInv'
<1>1. /\ status' = [status EXCEPT ![c] = "closed"]
      /\ connId' = [connId EXCEPT ![c] = NoId]
      /\ RemoveEndpoint(c)
  BY DEF OnConnectionClosed
<1>2. CASE Acting(c) = NoEp
  BY <1>1, <1>2 DEF RemoveEndpoint, ActingInv, OneHolder, OwnLookup, Online,
                    Acting, Lookup, TypeOK, mapVars
<1>3. CASE Acting(c) # NoEp
  <2>1. PICK k \in EndpointIdOf(Acting(c)) : RemoveListed(c, Acting(c), k)
    BY <1>1, <1>3 DEF RemoveEndpoint
  <2>2. endpoints' = [endpoints EXCEPT ![connId[c]] = NoEp]
    BY <2>1 DEF RemoveListed
  <2>3. connId[c] \in Ids
    BY <1>3, LookupType
  <2>4. OneHolder'
    BY <1>1, <2>2, <2>3, RegistryAssumption
    DEF ActingInv, OneHolder, Online, Acting, Lookup, TypeOK, AnyId, RegistryAssumption
  <2>5. \A x \in Eps : (\E i \in Ids : endpoints'[i] = x) => ep'[x] = ep[x]
    BY <2>1 DEF RemoveListed, Collect, Held
  <2>6. OwnLookup'
    BY <1>1, <2>2, <2>3, <2>4, <2>5, RegistryAssumption
    DEF ActingInv, OneHolder, OwnLookup, Online, Acting, Lookup, TypeOK, AnyId,
        RegistryAssumption
  <2> QED BY <2>4, <2>6 DEF ActingInv
<1> QED BY <1>2, <1>3

LEMMA RegisterNewActing ==
    ASSUME RegistryAssumption, TypeOK, ActingInv, NEW c \in Conns, NEW i \in Ids,
           status[c] = "open", endpoints[i] = NoEp,
           NEW r \in Request, RegisterNew(c, i, r)
    PROVE  ActingInv'
<1>1. PICK o \in Eps \ Held : RegisterObject(c, i, r, o)
  BY DEF RegisterNew
<1>2. /\ endpoints' = [endpoints EXCEPT ![i] = o]
      /\ connId' = [connId EXCEPT ![c] = i]
      /\ status' = status
  BY <1>1 DEF RegisterObject, SetID
<1>3. \A j \in Ids : endpoints[j] # o
  BY DEF Held
<1>4. OneHolder'
  BY <1>2, <1>3, RegistryAssumption
  DEF ActingInv, OneHolder, Online, Acting, Lookup, TypeOK, AnyId, RegistryAssumption
<1>5. /\ ep'[o].conn = c
      /\ \A x \in Eps \ {o} : (\E j \in Ids : endpoints'[j] = x) => ep'[x] = ep[x]
  BY <1>1 DEF RegisterObject, Collect, Held, NewEndpoint, TypeOK
<1>6. OwnLookup'
  BY <1>2, <1>3, <1>4, <1>5, RegistryAssumption
  DEF ActingInv, OneHolder, OwnLookup, Online, Acting, Lookup, TypeOK, AnyId,
      RegistryAssumption
<1> QED BY <1>4, <1>6 DEF ActingInv

LEMMA RegisterExistingActing ==
    ASSUME RegistryAssumption, TypeOK, ActingInv, NEW c \in Conns, NEW i \in Ids,
           endpoints[i] # NoEp, NEW r \in Request, RegisterExisting(c, i, r)
    PROVE  ActingInv'
<1> DEFINE o == endpoints[i]
<1>1. PICK same \in SameFD(c, o) : RegisterAgain(c, i, r, o, same)
  BY DEF RegisterExisting
<1>2. endpoints' = endpoints /\ connId' = connId
  BY <1>1 DEF RegisterAgain
<1>3. status' = AfterDisconnect(IF same THEN {} ELSE {ep[o].conn})
  BY <1>1 DEF RegisterAgain
<1>4. \A d \in Conns : status'[d] = "closed" <=> status[d] = "closed"
  BY <1>3 DEF AfterDisconnect
<1>5. OneHolder'
  BY <1>2, <1>4 DEF ActingInv, OneHolder, Online, Acting, Lookup
<1>6. \A x \in Eps \ {o} : (\E j \in Ids : endpoints'[j] = x) => ep'[x] = ep[x]
  BY <1>1 DEF RegisterAgain, Collect, Held
<1>7. o \in Eps /\ o \in Held'
  BY <1>2 DEF TypeOK, Held
<1>8. ep'[o].conn = IF same THEN ep[o].conn ELSE c
  BY <1>1, <1>7 DEF RegisterAgain, Collect, UpdatedEndpoint, TypeOK
<1>9. \A d \in Conns : status'[d] = "open" =>
         status[d] = "open" /\ (same \/ d # ep[o].conn)
  BY <1>3 DEF AfterDisconnect
<1>10. OwnLookup'
  BY <1>2, <1>5, <1>6, <1>7, <1>8, <1>9
  DEF ActingInv, OneHolder, OwnLookup, Online, Acting, Lookup, TypeOK, AnyId
<1> QED BY <1>5, <1>10 DEF ActingInv

LEMMA KickoutActing ==
    ASSUME TypeOK, ActingInv, NEW c \in Conns, NEW targets, Kickout(c, targets)
    PROVE  ActingInv'
BY DEF Kickout, AfterDisconnect, ActingInv, OneHolder, OwnLookup, Online,
       Acting, Lookup, TypeOK, mapVars

(* The two invariants hold together.                                       *)
LEMMA ActingCorrect == Spec => [](OneHolder /\ OwnLookup)
<1>1. Init => ActingInv
  BY RegistryAssumption
  DEF Init, ActingInv, OneHolder, OwnLookup, Online, Acting, Lookup
<1>2. TypeOK /\ ActingInv /\ [Next]_vars => ActingInv'
  <2> SUFFICES ASSUME TypeOK, ActingInv, [Next]_vars PROVE ActingInv'
    OBVIOUS
  <2>1. ASSUME NEW c \in Conns, OnConnectionReady(c) PROVE ActingInv'
    BY <2>1, ReadyActing
  <2>2. ASSUME NEW c \in Conns, OnConnectionClosed(c) PROVE ActingInv'
    BY <2>2, ClosedActing, RegistryAssumption
  <2>3. ASSUME NEW c \in Conns, NEW r \in Request, Register(c, r) PROVE ActingInv'
    <3>1. status[c] = "open"
      BY <2>3 DEF Register
    <3> QED BY <2>3, <3>1, RegisterCases, RegisterNewActing,
               RegisterExistingActing, RegistryAssumption
  <2>4. ASSUME NEW c \in Conns, NEW targets \in SUBSET Ids, Kickout(c, targets)
        PROVE  ActingInv'
    BY <2>4, KickoutActing
  <2>5. CASE UNCHANGED vars
    BY <2>5 DEF vars, connVars, mapVars, ActingInv, OneHolder, OwnLookup,
                Online, Acting, Lookup
  <2> QED BY <2>1, <2>2, <2>3, <2>4, <2>5 DEF Next
<1>3. ActingInv => OneHolder /\ OwnLookup
  BY DEF ActingInv
<1> QED BY <1>1, <1>2, <1>3, TypeCorrect, PTL DEF Spec

(* At every moment a connection that carries an id and has not been        *)
(* disconnected acts for the registered Endpoint of that id, which sends   *)
(* to it: handleCommand never handles a command on behalf of another       *)
(* client, whatever ids clients ask for and whichever tokens they present. *)
THEOREM OwnLookupCorrect == Spec => []OwnLookup
BY ActingCorrect, PTL

(* An id has one holder and an Endpoint one id, through registrations,     *)
(* takeovers and closings in any order.                                    *)
THEOREM OneHolderCorrect == Spec => []OneHolder
BY ActingCorrect, PTL

(* A connection object that is used again has been told no id.             *)
PendingInv ==
    /\ PendingExact
    /\ \A c \in Conns : status[c] = "closed" => told[c] = NoId

LEMMA PendingInvCorrect == Spec => []PendingInv
<1>1. Init => PendingInv
  BY DEF Init, PendingInv, PendingExact, Online
<1>2. TypeOK /\ PendingInv /\ [Next]_vars => PendingInv'
  <2> SUFFICES ASSUME TypeOK, PendingInv, [Next]_vars PROVE PendingInv'
    OBVIOUS
  <2> USE DEF PendingInv, PendingExact, Online, TypeOK
  <2>1. ASSUME NEW c \in Conns, OnConnectionReady(c) PROVE PendingInv'
    BY <2>1 DEF OnConnectionReady
  <2>2. ASSUME NEW c \in Conns, OnConnectionClosed(c) PROVE PendingInv'
    BY <2>2 DEF OnConnectionClosed
  <2>3. ASSUME NEW c \in Conns, NEW r \in Request, Register(c, r) PROVE PendingInv'
    <3>1. PICK i \in Ids : RegisterNew(c, i, r) \/ RegisterExisting(c, i, r)
      BY <2>3, RegisterCases
    <3>2. Registered(c, i) /\ i # NoId
      BY <3>1, RegistryAssumption
      DEF RegisterNew, RegisterObject, RegisterExisting, RegisterAgain, RegistryAssumption
    <3>3. status[c] = "open"
      BY <2>3 DEF Register
    <3>4. \A d \in Conns : status'[d] # "closed" <=> status[d] # "closed"
      BY <3>1 DEF RegisterNew, RegisterObject, RegisterExisting, RegisterAgain, AfterDisconnect
    <3> QED BY <3>2, <3>3, <3>4 DEF Registered
  <2>4. ASSUME NEW c \in Conns, NEW targets \in SUBSET Ids, Kickout(c, targets)
        PROVE  PendingInv'
    BY <2>4 DEF Kickout, AfterDisconnect
  <2>5. CASE UNCHANGED vars
    BY <2>5 DEF vars, connVars, mapVars
  <2> QED BY <2>1, <2>2, <2>3, <2>4, <2>5 DEF Next
<1> QED BY <1>1, <1>2, TypeCorrect, PTL DEF Spec

(* pending_clients lists whoever is connected and has not been answered a  *)
(* registration: register_endpoint unlists it on each of its paths.        *)
THEOREM PendingCorrect == Spec => []PendingExact
<1>1. PendingInv => PendingExact
  BY DEF PendingInv
<1> QED BY <1>1, PendingInvCorrect, PTL

-----------------------------------------------------------------------------
(* The objects a service type should hold.                                 *)
ServersOf(t) ==
    {o \in Eps : /\ \E i \in Ids : endpoints[i] = o
                 /\ ep[o].role = "Service"
                 /\ ep[o].svc_type = t}

LEMMA ClosedService ==
    ASSUME RegistryAssumption, TypeOK, OneHolder, ServiceIndexExact,
           NEW c \in Conns, OnConnectionClosed(c)
    PROVE  ServiceIndexExact'
<1>1. CASE Acting(c) = NoEp
  BY <1>1 DEF OnConnectionClosed, RemoveEndpoint, ServiceIndexExact, mapVars
<1>2. CASE Acting(c) # NoEp
  <2> DEFINE o == Acting(c)
  <2>1. PICK k \in EndpointIdOf(o) : RemoveListed(c, o, k)
    BY <1>2 DEF OnConnectionClosed, RemoveEndpoint
  <2>2. connId[c] \in Ids /\ o = endpoints[connId[c]] /\ o \in Eps
    BY <1>2, LookupType DEF Held
  <2>3. \A x \in Eps : (\E i \in Ids : endpoints'[i] = x)
                       <=> x # o /\ (\E i \in Ids : endpoints[i] = x)
    BY <2>1, <2>2, RegistryAssumption
    DEF RemoveListed, OneHolder, TypeOK, RegistryAssumption
  <2>4. \A x \in Eps : (\E i \in Ids : endpoints'[i] = x) => ep'[x] = ep[x]
    BY <2>1 DEF RemoveListed, Collect, Held
  <2>5. \A t \in SvcTypes : service_endpoints'[t] = service_endpoints[t] \ {o}
    BY <2>1, <2>2 DEF RemoveListed, ServiceIndexExact, TypeOK
  <2> QED BY <2>1, <2>3, <2>4, <2>5 DEF RemoveListed, ServiceIndexExact
<1> QED BY <1>1, <1>2

LEMMA RegisterNewService ==
    ASSUME RegistryAssumption, TypeOK, ServiceIndexExact, NEW c \in Conns,
           NEW i \in Ids, endpoints[i] = NoEp,
           NEW r \in Request, RegisterNew(c, i, r)
    PROVE  ServiceIndexExact'
<1>1. PICK o \in Eps \ Held : RegisterObject(c, i, r, o)
  BY DEF RegisterNew
<1>2. \A x \in Eps : (\E j \in Ids : endpoints'[j] = x)
                     <=> x = o \/ (\E j \in Ids : endpoints[j] = x)
  BY <1>1, RegistryAssumption DEF RegisterObject, TypeOK, RegistryAssumption
<1>3. \A x \in Eps \ {o} : (\E j \in Ids : endpoints'[j] = x) => ep'[x] = ep[x]
  BY <1>1 DEF RegisterObject, Collect, Held
<1>4. ep'[o] = NewEndpoint(c, r)
  BY <1>1, <1>2 DEF RegisterObject, Collect, Held, TypeOK
<1>5. \A t \in SvcTypes : o \notin service_endpoints[t]
  BY DEF Held
<1>6. \A t \in SvcTypes : \A x : x \in service_endpoints'[t] <=>
         \/ x \in service_endpoints[t]
         \/ x = o /\ r.role = "Service" /\ r.svc_type = t
  <2>1. CASE r.role = "Service"
    BY <1>1, <2>1 DEF RegisterObject, TypeOK
  <2>2. CASE r.role # "Service"
    BY <1>1, <2>2 DEF RegisterObject, TypeOK
  <2> QED BY <2>1, <2>2
<1>7. \A t \in SvcTypes : service_endpoints'[t] = ServersOf(t)'
  <2>0. \A t \in SvcTypes : service_endpoints'[t] \subseteq Eps
    BY <1>1, <1>6 DEF TypeOK
  <2> SUFFICES ASSUME NEW t \in SvcTypes, NEW x \in Eps
               PROVE  x \in service_endpoints'[t] <=> x \in ServersOf(t)'
    BY <2>0 DEF ServersOf
  <2>1. CASE x = o
    <3>1. ep'[o].role = r.role /\ (r.role = "Service" => ep'[o].svc_type = r.svc_type)
      BY <1>4 DEF NewEndpoint
    <3>2. \E j \in Ids : endpoints'[j] = x
      BY <2>1, <1>2
    <3>3. x \in ServersOf(t)' <=> r.role = "Service" /\ r.svc_type = t
      BY <2>1, <3>1, <3>2 DEF ServersOf
    <3> QED BY <2>1, <3>3, <1>5, <1>6
  <2>2. CASE x # o
    BY <2>2, <1>2, <1>3, <1>6 DEF ServersOf, ServiceIndexExact
  <2> QED BY <2>1, <2>2
<1>8. \A t \in SvcTypes : service_endpoints'[t] # {} => t \in service_keys'
  BY <1>1, <1>6 DEF RegisterObject, ServiceIndexExact
<1> QED BY <1>7, <1>8 DEF ServiceIndexExact, ServersOf

LEMMA RegisterExistingService ==
    ASSUME RegistryAssumption, TypeOK, OneHolder, ServiceIndexExact,
           NEW c \in Conns, NEW i \in Ids, endpoints[i] # NoEp,
           NEW r \in Request, RegisterExisting(c, i, r)
    PROVE  ServiceIndexExact'
<1> DEFINE o == endpoints[i]
<1>1. PICK same \in SameFD(c, o) : RegisterAgain(c, i, r, o, same)
  BY DEF RegisterExisting
<1>2. o \in Eps /\ endpoints' = endpoints
  BY <1>1 DEF RegisterAgain, TypeOK
<1>3. \A x \in Eps \ {o} : (\E j \in Ids : endpoints[j] = x) => ep'[x] = ep[x]
  BY <1>1, <1>2 DEF RegisterAgain, Collect, Held
<1>4. ep'[o] = UpdatedEndpoint(c, r, o, same)
  BY <1>1, <1>2 DEF RegisterAgain, Collect, Held, TypeOK
<1>5. /\ ep[o].role = "Service" => o \in service_endpoints[ep[o].svc_type]
      /\ \A t \in SvcTypes : o \in service_endpoints[t] =>
            ep[o].role = "Service" /\ ep[o].svc_type = t
  BY <1>2 DEF ServiceIndexExact, TypeOK, Endpoint
<1>6. \A t \in SvcTypes : o \in service_endpoints'[t] <=>
         r.role = "Service" /\ r.svc_type = t
  BY <1>1, <1>5 DEF RegisterAgain, MoveService, LeavesType, JoinsType
<1>7. \A t \in SvcTypes, x \in Eps \ {o} :
         x \in service_endpoints'[t] <=> x \in service_endpoints[t]
  BY <1>1 DEF RegisterAgain, MoveService
<1>8. \A t \in SvcTypes : service_endpoints'[t] \subseteq Eps
  BY <1>1, <1>2 DEF RegisterAgain, MoveService, TypeOK
<1>9. ep'[o].role = r.role /\ (r.role = "Service" => ep'[o].svc_type = r.svc_type)
  BY <1>4 DEF UpdatedEndpoint
<1>10. \A t \in SvcTypes : service_endpoints'[t] = ServersOf(t)'
  BY <1>2, <1>3, <1>6, <1>7, <1>8, <1>9 DEF ServiceIndexExact, ServersOf
<1>11. \A t \in SvcTypes : service_endpoints'[t] # {} => t \in service_keys'
  BY <1>1 DEF RegisterAgain, MoveService, ServiceIndexExact
<1> QED BY <1>10, <1>11 DEF ServiceIndexExact, ServersOf

(* A service request is offered to exactly the registered endpoints that   *)
(* serve its type: no removed endpoint is left in a set, none is missing,  *)
(* after any sequence of role and type switches, takeovers and closes.     *)
THEOREM ServiceIndexCorrect == Spec => []ServiceIndexExact
<1>1. Init => ServiceIndexExact
  BY RegistryAssumption DEF Init, ServiceIndexExact, RegistryAssumption
<1>2. TypeOK /\ OneHolder /\ ServiceIndexExact /\ [Next]_vars => ServiceIndexExact'
  <2> SUFFICES ASSUME TypeOK, OneHolder, ServiceIndexExact, [Next]_vars
               PROVE  ServiceIndexExact'
    OBVIOUS
  <2>1. ASSUME NEW c \in Conns, OnConnectionReady(c) PROVE ServiceIndexExact'
    BY <2>1 DEF OnConnectionReady, ServiceIndexExact, mapVars
  <2>2. ASSUME NEW c \in Conns, OnConnectionClosed(c) PROVE ServiceIndexExact'
    BY <2>2, ClosedService, RegistryAssumption
  <2>3. ASSUME NEW c \in Conns, NEW r \in Request, Register(c, r)
        PROVE  ServiceIndexExact'
    BY <2>3, RegisterCases, RegisterNewService, RegisterExistingService,
       RegistryAssumption
  <2>4. ASSUME NEW c \in Conns, NEW targets \in SUBSET Ids, Kickout(c, targets)
        PROVE  ServiceIndexExact'
    BY <2>4 DEF Kickout, ServiceIndexExact, mapVars
  <2>5. CASE UNCHANGED vars
    BY <2>5 DEF vars, connVars, mapVars, ServiceIndexExact
  <2> QED BY <2>1, <2>2, <2>3, <2>4, <2>5 DEF Next
<1> QED BY <1>1, <1>2, TypeCorrect, ActingCorrect, PTL DEF Spec

-----------------------------------------------------------------------------
(* Without takeovers the Endpoint found under the id of a connection sends *)
(* to that connection until the close callback has run, not only while the *)
(* connection is open.                                                     *)
Serves == \A c \in Conns : connId[c] # NoId => ep[Acting(c)].conn = c

(* What a registration does to a registered Endpoint without a takeover.   *)
LEMMA AgainWithoutToken ==
    ASSUME TypeOK, ~MayTakeOver, NEW c \in Conns, NEW i \in Ids,
           endpoints[i] # NoEp, NEW r \in Request, Disciplined(c, r),
           RegisterExisting(c, i, r)
    PROVE  /\ RegisterAgain(c, i, r, endpoints[i], TRUE)
           /\ ~Dangles(endpoints[i]) => ep[endpoints[i]].conn = c
           /\ UNCHANGED <<endpoints, connId, status>>
           /\ ep'[endpoints[i]].role = r.role
           /\ ep'[endpoints[i]].conn = ep[endpoints[i]].conn
           /\ \A j \in Ids : endpoints[j] # NoEp /\ endpoints[j] # endpoints[i] =>
                 ep'[endpoints[j]] = ep[endpoints[j]]
<1> DEFINE o == endpoints[i]
<1>1. PICK same \in SameFD(c, o) : RegisterAgain(c, i, r, o, same)
  BY DEF RegisterExisting
<1>2. ~r.token
  BY DEF Disciplined, Request
<1>3. same \in BOOLEAN
  BY DEF SameFD
<1>4. same = TRUE
  BY <1>1, <1>2, <1>3 DEF RegisterAgain, Entitled
<1>5. RegisterAgain(c, i, r, o, TRUE)
  BY <1>1, <1>4
<1>6. ~Dangles(o) => ep[o].conn = c
  BY <1>4 DEF SameFD
<1>7. AfterDisconnect({}) = status
  BY DEF AfterDisconnect, TypeOK
<1>8. UNCHANGED <<endpoints, connId, status>>
  BY <1>5, <1>7 DEF RegisterAgain
<1>9. o \in Eps /\ o \in Held'
  BY <1>8 DEF TypeOK, Held
<1>10. ep'[o] = UpdatedEndpoint(c, r, o, TRUE)
  BY <1>5, <1>9 DEF RegisterAgain, Collect, TypeOK
<1>11. ASSUME NEW j \in Ids, endpoints[j] # NoEp, endpoints[j] # o
       PROVE  ep'[endpoints[j]] = ep[endpoints[j]]
  <2>1. endpoints[j] \in Eps /\ endpoints[j] \in Held'
    BY <1>8, <1>11 DEF TypeOK, Held
  <2> QED BY <1>5, <1>11, <2>1 DEF RegisterAgain, Collect, TypeOK
<1>12. ep'[o].role = r.role /\ ep'[o].conn = ep[o].conn
  BY <1>10 DEF UpdatedEndpoint
<1> QED BY <1>5, <1>6, <1>8, <1>11, <1>12

(* What registering a new id does, whoever asks.                           *)
LEMMA NewObject ==
    ASSUME RegistryAssumption, TypeOK, NEW c \in Conns, NEW i \in Ids,
           endpoints[i] = NoEp, NEW r \in Request, NEW o \in Eps \ Held,
           RegisterObject(c, i, r, o)
    PROVE  /\ endpoints' = [endpoints EXCEPT ![i] = o]
           /\ connId' = [connId EXCEPT ![c] = i]
           /\ \A j \in Ids : endpoints[j] # o
           /\ ep'[o] = NewEndpoint(c, r)
           /\ \A j \in Ids : endpoints[j] # NoEp => ep'[endpoints[j]] = ep[endpoints[j]]
<1>1. endpoints' = [endpoints EXCEPT ![i] = o] /\ connId' = [connId EXCEPT ![c] = i]
  BY DEF RegisterObject, SetID
<1>2. \A j \in Ids : endpoints[j] # o
  BY DEF Held
<1>3. o \in Held'
  BY <1>1 DEF Held, TypeOK
<1>4. ep'[o] = NewEndpoint(c, r)
  BY <1>3 DEF RegisterObject, Collect, TypeOK
<1>5. ASSUME NEW j \in Ids, endpoints[j] # NoEp
      PROVE  ep'[endpoints[j]] = ep[endpoints[j]]
  <2>1. endpoints[j] \in Eps /\ endpoints[j] \in Held'
    BY <1>1, <1>5 DEF TypeOK, Held
  <2> QED BY <1>2, <1>5, <2>1 DEF RegisterObject, Collect, TypeOK
<1> QED BY <1>1, <1>2, <1>4, <1>5

(* What the close callback does to the registered Endpoints.               *)
LEMMA ClosedEndpoints ==
    ASSUME TypeOK, NEW c \in Conns, OnConnectionClosed(c)
    PROVE  /\ connId' = [connId EXCEPT ![c] = NoId]
           /\ endpoints' = [i \in Ids |-> IF i = connId[c] THEN NoEp ELSE endpoints[i]]
           /\ \A j \in Ids : endpoints'[j] # NoEp => ep'[endpoints[j]] = ep[endpoints[j]]
<1>1. connId' = [connId EXCEPT ![c] = NoId] /\ RemoveEndpoint(c)
  BY DEF OnConnectionClosed
<1>2. CASE Acting(c) = NoEp
  BY <1>1, <1>2 DEF RemoveEndpoint, Acting, Lookup, TypeOK, mapVars
<1>3. CASE Acting(c) # NoEp
  <2>1. PICK k \in EndpointIdOf(Acting(c)) : RemoveListed(c, Acting(c), k)
    BY <1>1, <1>3 DEF RemoveEndpoint
  <2>2. connId[c] \in Ids
    BY <1>3, LookupType
  <2>3. endpoints' = [i \in Ids |-> IF i = connId[c] THEN NoEp ELSE endpoints[i]]
    BY <2>1, <2>2 DEF RemoveListed, TypeOK
  <2>4. ASSUME NEW j \in Ids, endpoints'[j] # NoEp
        PROVE  ep'[endpoints[j]] = ep[endpoints[j]]
    <3>1. endpoints'[j] = endpoints[j] /\ endpoints[j] \in Eps /\ endpoints[j] \in Held'
      BY <2>3, <2>4 DEF TypeOK, Held
    <3> QED BY <2>1, <3>1 DEF RemoveListed, Collect
  <2> QED BY <1>1, <2>3, <2>4
<1> QED BY <1>2, <1>3
=============================================================================
