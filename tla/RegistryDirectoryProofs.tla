----------------------- MODULE RegistryDirectoryProofs -----------------------
(***************************************************************************)
(* Theorems about clients that take no endpoint over, and about clients    *)
(* that moreover keep to one id per connection: for the latter the         *)
(* registry is a directory.                                                *)
(***************************************************************************)
EXTENDS EndpointRegistryProofs

(* Init and the steps that touch neither ids nor Endpoints.                *)
LEMMA ServesStep ==
    ASSUME RegistryAssumption, ~MayTakeOver, TypeOK, OneHolder, Serves, [Next]_vars
    PROVE  Serves'
<1>1. ASSUME NEW c \in Conns, OnConnectionReady(c) PROVE Serves'
  BY <1>1 DEF OnConnectionReady, Serves, Acting, Lookup, mapVars
<1>2. ASSUME NEW c \in Conns, OnConnectionClosed(c) PROVE Serves'
  <2>1. \A d \in Conns : connId'[d] # NoId =>
           /\ d # c /\ connId'[d] = connId[d] /\ connId[d] \in Ids
           /\ endpoints[connId[d]] # NoEp
           /\ endpoints'[connId[d]] = endpoints[connId[d]]
    BY <1>2, ClosedEndpoints DEF TypeOK, AnyId, OneHolder, Acting, Lookup
  <2> QED BY <1>2, <2>1, ClosedEndpoints DEF Serves, Acting, Lookup
<1>3. ASSUME NEW c \in Conns, NEW r \in Request, Register(c, r) PROVE Serves'
  <2>1. PICK i \in Ids : \/ endpoints[i] = NoEp /\ RegisterNew(c, i, r)
                         \/ endpoints[i] # NoEp /\ RegisterExisting(c, i, r)
    BY <1>3, RegisterCases
  <2>2. CASE endpoints[i] = NoEp /\ RegisterNew(c, i, r)
    <3>1. PICK o \in Eps \ Held : RegisterObject(c, i, r, o)
      BY <2>2 DEF RegisterNew
    <3>2. ASSUME NEW d \in Conns, connId'[d] # NoId
          PROVE  ep'[endpoints'[connId'[d]]].conn = d
      <4>1. CASE d = c
        <5>1. connId'[d] = i /\ endpoints'[i] = o /\ ep'[o] = NewEndpoint(c, r)
          BY <2>2, <3>1, <4>1, NewObject, RegistryAssumption DEF TypeOK
        <5> QED BY <4>1, <5>1 DEF NewEndpoint
      <4>2. CASE d # c
        <5>1. connId'[d] = connId[d] /\ connId[d] \in Ids /\ connId[d] # i
          BY <2>2, <3>1, <3>2, <4>2, NewObject DEF TypeOK, AnyId, OneHolder, Acting, Lookup
        <5>2. endpoints[connId[d]] # NoEp /\ ep[endpoints[connId[d]]].conn = d
          BY <3>2, <5>1 DEF OneHolder, Serves, Acting, Lookup
        <5> QED BY <2>2, <3>1, <5>1, <5>2, NewObject DEF TypeOK
      <4> QED BY <4>1, <4>2
    <3>3. \A d \in Conns : connId'[d] # NoId => connId'[d] \in Ids
      BY <2>2, <3>1, NewObject DEF TypeOK, AnyId
    <3> QED BY <3>2, <3>3 DEF Serves, Acting, Lookup
  <2>3. CASE endpoints[i] # NoEp /\ RegisterExisting(c, i, r)
    <3>1. Disciplined(c, r)
      BY <1>3 DEF Register
    <3>2. \A j \in Ids : endpoints[j] # NoEp => ep'[endpoints[j]].conn = ep[endpoints[j]].conn
      <4>1. ep'[endpoints[i]].conn = ep[endpoints[i]].conn
        BY <2>3, <3>1, AgainWithoutToken
      <4>2. \A j \in Ids : endpoints[j] # NoEp /\ endpoints[j] # endpoints[i] =>
               ep'[endpoints[j]] = ep[endpoints[j]]
        BY <2>3, <3>1, AgainWithoutToken
      <4> QED BY <4>1, <4>2
    <3>3. endpoints' = endpoints /\ connId' = connId
      BY <2>3, <3>1, AgainWithoutToken
    <3> QED BY <3>2, <3>3 DEF Serves, OneHolder, Acting, Lookup, TypeOK, AnyId
  <2> QED BY <2>1, <2>2, <2>3
<1>4. ASSUME NEW c \in Conns, NEW targets \in SUBSET Ids, Kickout(c, targets)
      PROVE  Serves'
  BY <1>4 DEF Kickout, Serves, Acting, Lookup, mapVars
<1>5. CASE UNCHANGED vars
  BY <1>5 DEF vars, connVars, mapVars, Serves, Acting, Lookup
<1> QED BY <1>1, <1>2, <1>3, <1>4, <1>5 DEF Next

THEOREM ServesCorrect ==
    ASSUME ~MayTakeOver PROVE Spec => []Serves
<1>1. Init => Serves
  BY DEF Init, Serves
<1>2. TypeOK /\ OneHolder /\ Serves /\ [Next]_vars => Serves'
  BY ServesStep, RegistryAssumption
<1> QED BY <1>1, <1>2, TypeCorrect, ActingCorrect, PTL DEF Spec

(* Without takeovers the close callback of a connection removes no endpoint*)
(* that another connection serves (RemoveEndpoint by conn->ID()).          *)
THEOREM CloseRemovesOwnCorrect ==
    ASSUME ~MayTakeOver PROVE Spec => CloseRemovesOwn
<1> DEFINE A == \A c \in Conns : OnConnectionClosed(c) =>
                  \A i \in Ids : endpoints[i] # NoEp /\ ep[endpoints[i]].conn # c =>
                      endpoints'[i] = endpoints[i]
<1>1. TypeOK /\ Serves /\ [Next]_vars => [A]_vars
  <2> SUFFICES ASSUME TypeOK, Serves, NEW c \in Conns, OnConnectionClosed(c),
                      NEW i \in Ids, endpoints[i] # NoEp, ep[endpoints[i]].conn # c
               PROVE  endpoints'[i] = endpoints[i]
    OBVIOUS
  <2>1. i # connId[c]
    BY RegistryAssumption DEF Serves, Acting, Lookup, RegistryAssumption
  <2> QED BY <2>1, ClosedEndpoints
<1> QED BY <1>1, TypeCorrect, ServesCorrect, PTL DEF Spec, CloseRemovesOwn

-----------------------------------------------------------------------------
(* The entry a role map should have under an id.                           *)
ListedUnder(i, role) ==
    IF endpoints[i] # NoEp /\ ep[endpoints[i]].role = role THEN endpoints[i] ELSE NoEp

LEMMA RoleIndexUnder ==
    RoleIndexExact <=> \A i \in Ids : /\ normal_endpoints[i] = ListedUnder(i, "Normal")
                                      /\ admin_endpoints[i] = ListedUnder(i, "Admin")
BY DEF RoleIndexExact, ListedUnder

LEMMA ClosedRoles ==
    ASSUME RegistryAssumption, TypeOK, OneHolder, Serves, RoleIndexExact,
           NEW c \in Conns, OnConnectionClosed(c)
    PROVE  RoleIndexExact'
<1>1. CASE Acting(c) = NoEp
  BY <1>1 DEF OnConnectionClosed, RemoveEndpoint, RoleIndexExact, mapVars
<1>2. CASE Acting(c) # NoEp
  <2> DEFINE o == Acting(c)
  <2>1. PICK k \in EndpointIdOf(o) : RemoveListed(c, o, k)
    BY <1>2 DEF OnConnectionClosed, RemoveEndpoint
  <2>2. connId[c] \in Ids /\ o = endpoints[connId[c]] /\ Online(c)
    BY <1>2, LookupType DEF OnConnectionClosed
  <2>3. ep[o].conn = c
    BY <2>2, RegistryAssumption DEF Serves, RegistryAssumption
  <2>4. k = connId[c]
    BY <2>1, <2>2, <2>3 DEF EndpointIdOf, Dangles
  <2>5. \A i \in Ids : i # connId[c] => /\ ListedUnder(i, "Normal")' = ListedUnder(i, "Normal")
                                        /\ ListedUnder(i, "Admin")' = ListedUnder(i, "Admin")
    BY ClosedEndpoints DEF ListedUnder
  <2>6. endpoints'[connId[c]] = NoEp
    BY <2>2, ClosedEndpoints
  <2>7. normal_endpoints' = [i \in Ids |-> IF i = connId[c] THEN NoEp
                                                           ELSE normal_endpoints[i]]
    <3>1. CASE ep[o].role = "Normal"
      BY <2>1, <2>2, <2>4, <3>1 DEF RemoveListed, TypeOK
    <3>2. CASE ep[o].role # "Normal"
      <4>1. normal_endpoints[connId[c]] = NoEp
        BY <2>2, <3>2 DEF RoleIndexExact
      <4> QED BY <2>1, <3>2, <4>1 DEF RemoveListed, TypeOK
    <3> QED BY <3>1, <3>2
  <2>8. admin_endpoints' = [i \in Ids |-> IF i = connId[c] THEN NoEp
                                                          ELSE admin_endpoints[i]]
    <3>1. CASE ep[o].role = "Admin"
      BY <2>1, <2>2, <2>4, <3>1 DEF RemoveListed, TypeOK
    <3>2. CASE ep[o].role # "Admin"
      <4>1. admin_endpoints[connId[c]] = NoEp
        BY <2>2, <3>2 DEF RoleIndexExact
      <4> QED BY <2>1, <3>2, <4>1 DEF RemoveListed, TypeOK
    <3> QED BY <3>1, <3>2
  <2> QED
    <3> SUFFICES ASSUME NEW i \in Ids
                 PROVE  /\ normal_endpoints'[i] = ListedUnder(i, "Normal")'
                        /\ admin_endpoints'[i] = ListedUnder(i, "Admin")'
      BY DEF RoleIndexExact, ListedUnder
    <3>1. CASE i = connId[c]
      BY <2>6, <2>7, <2>8, <3>1 DEF ListedUnder
    <3>2. CASE i # connId[c]
      BY <2>5, <2>7, <2>8, <3>2, RoleIndexUnder
    <3> QED BY <3>1, <3>2
<1> QED BY <1>1, <1>2

LEMMA RegisterNewRoles ==
    ASSUME RegistryAssumption, TypeOK, RoleIndexExact, NEW c \in Conns,
           NEW i \in Ids, endpoints[i] = NoEp,
           NEW r \in Request, RegisterNew(c, i, r)
    PROVE  RoleIndexExact'
<1>1. PICK o \in Eps \ Held : RegisterObject(c, i, r, o)
  BY DEF RegisterNew
<1>2. \A j \in Ids : j # i => /\ ListedUnder(j, "Normal")' = ListedUnder(j, "Normal")
                              /\ ListedUnder(j, "Admin")' = ListedUnder(j, "Admin")
  BY <1>1, NewObject DEF ListedUnder, TypeOK
<1>3. endpoints'[i] = o /\ o # NoEp /\ ep'[o].role = r.role
  <2>1. ep'[o] = NewEndpoint(c, r) /\ endpoints'[i] = o
    BY <1>1, NewObject DEF TypeOK
  <2> QED BY <2>1, RegistryAssumption DEF NewEndpoint, RegistryAssumption
<1>4. normal_endpoints[i] = NoEp /\ admin_endpoints[i] = NoEp
  BY DEF RoleIndexExact
<1>5. /\ normal_endpoints'[i] = (IF r.role = "Normal" THEN o ELSE NoEp)
      /\ admin_endpoints'[i] = (IF r.role = "Admin" THEN o ELSE NoEp)
  BY <1>1, <1>4 DEF RegisterObject, TypeOK
<1>6. \A j \in Ids : j # i => /\ normal_endpoints'[j] = normal_endpoints[j]
                              /\ admin_endpoints'[j] = admin_endpoints[j]
  BY <1>1 DEF RegisterObject, TypeOK
<1> QED BY <1>2, <1>3, <1>5, <1>6 DEF RoleIndexExact, ListedUnder

LEMMA RegisterExistingRoles ==
    ASSUME ~MayTakeOver, TypeOK, OneHolder, RoleIndexExact, NEW c \in Conns,
           NEW i \in Ids, endpoints[i] # NoEp, NEW r \in Request,
           Disciplined(c, r), RegisterExisting(c, i, r)
    PROVE  RoleIndexExact'
<1> DEFINE o == endpoints[i]
<1>1. /\ endpoints' = endpoints
      /\ ep'[o].role = r.role
      /\ \A j \in Ids : endpoints[j] # NoEp /\ endpoints[j] # o =>
            ep'[endpoints[j]] = ep[endpoints[j]]
  BY AgainWithoutToken
<1>2. /\ normal_endpoints' = MoveIndex(normal_endpoints, "Normal", i, o, r)
      /\ admin_endpoints' = MoveIndex(admin_endpoints, "Admin", i, o, r)
  BY AgainWithoutToken DEF RegisterAgain
<1>3. \A j \in Ids : j # i => endpoints[j] = NoEp \/ endpoints[j] # o
  BY DEF OneHolder
<1>4. \A j \in Ids : j # i => /\ normal_endpoints'[j] = normal_endpoints[j]
                              /\ admin_endpoints'[j] = admin_endpoints[j]
  BY <1>2 DEF MoveIndex, TypeOK
<1>5. \A j \in Ids : j # i => /\ ListedUnder(j, "Normal")' = ListedUnder(j, "Normal")
                              /\ ListedUnder(j, "Admin")' = ListedUnder(j, "Admin")
  BY <1>1, <1>3 DEF ListedUnder
<1>6. /\ normal_endpoints[i] = (IF ep[o].role = "Normal" THEN o ELSE NoEp)
      /\ admin_endpoints[i] = (IF ep[o].role = "Admin" THEN o ELSE NoEp)
  BY DEF RoleIndexExact
<1>7. /\ normal_endpoints'[i] = (IF r.role = "Normal" THEN o ELSE NoEp)
      /\ admin_endpoints'[i] = (IF r.role = "Admin" THEN o ELSE NoEp)
  BY <1>2, <1>6 DEF MoveIndex, TypeOK
<1> QED BY <1>1, <1>4, <1>5, <1>7 DEF RoleIndexExact, ListedUnder

(* Without takeovers a broadcast and INFO see under each id the registered *)
(* endpoint of that role and nothing else, whatever ids a connection asks  *)
(* for and however often roles are switched.                               *)
THEOREM RoleIndexCorrect ==
    ASSUME ~MayTakeOver PROVE Spec => []RoleIndexExact
<1>1. Init => RoleIndexExact
  BY DEF Init, RoleIndexExact
<1>2. TypeOK /\ OneHolder /\ Serves /\ RoleIndexExact /\ [Next]_vars => RoleIndexExact'
  <2> SUFFICES ASSUME TypeOK, OneHolder, Serves, RoleIndexExact, [Next]_vars
               PROVE  RoleIndexExact'
    OBVIOUS
  <2>1. ASSUME NEW c \in Conns, OnConnectionReady(c) PROVE RoleIndexExact'
    BY <2>1 DEF OnConnectionReady, RoleIndexExact, mapVars
  <2>2. ASSUME NEW c \in Conns, OnConnectionClosed(c) PROVE RoleIndexExact'
    BY <2>2, ClosedRoles, RegistryAssumption
  <2>3. ASSUME NEW c \in Conns, NEW r \in Request, Register(c, r)
        PROVE  RoleIndexExact'
    <3>1. Disciplined(c, r)
      BY <2>3 DEF Register
    <3> QED BY <2>3, <3>1, RegisterCases, RegisterNewRoles, RegisterExistingRoles,
               RegistryAssumption
  <2>4. ASSUME NEW c \in Conns, NEW targets \in SUBSET Ids, Kickout(c, targets)
        PROVE  RoleIndexExact'
    BY <2>4 DEF Kickout, RoleIndexExact, mapVars
  <2>5. CASE UNCHANGED vars
    BY <2>5 DEF vars, connVars, mapVars, RoleIndexExact
  <2> QED BY <2>1, <2>2, <2>3, <2>4, <2>5 DEF Next
<1> QED BY <1>1, <1>2, TypeCorrect, ActingCorrect, ServesCorrect, PTL DEF Spec

-----------------------------------------------------------------------------
(* One id per connection: the client knows the id its connection carries,  *)
(* and every registered Endpoint points to the connection with its id.     *)
OneId ==
    /\ told = connId
    /\ \A i \in Ids : endpoints[i] # NoEp =>
         ep[endpoints[i]].conn \in Conns /\ connId[ep[endpoints[i]].conn] = i

(* A step in which no client asks for a second id.                         *)
OneIdRegister(c, r) == Register(c, r) /\ (told[c] # NoId => r.id = told[c])

OneIdNext ==
    \E c \in Conns :
        \/ OnConnectionReady(c)
        \/ OnConnectionClosed(c)
        \/ \E r \in Request : OneIdRegister(c, r)
        \/ \E targets \in SUBSET Ids : Kickout(c, targets)

LEMMA OneIdStep ==
    ASSUME RegistryAssumption, ~MayTakeOver, TypeOK,
           OneHolder, Serves, OneId, [OneIdNext]_vars
    PROVE  OneId'
<1>1. ASSUME NEW c \in Conns, OnConnectionReady(c) PROVE OneId'
  BY <1>1 DEF OnConnectionReady, OneId, mapVars
<1>2. ASSUME NEW c \in Conns, OnConnectionClosed(c) PROVE OneId'
  <2>1. told' = connId'
    BY <1>2 DEF OnConnectionClosed, OneId
  <2>2. ASSUME NEW i \in Ids, endpoints'[i] # NoEp
        PROVE  ep'[endpoints'[i]].conn \in Conns /\ connId'[ep'[endpoints'[i]].conn] = i
    <3>1. endpoints'[i] = endpoints[i] /\ i # connId[c] /\ ep'[endpoints[i]] = ep[endpoints[i]]
      BY <1>2, <2>2, ClosedEndpoints
    <3>2. ep[endpoints[i]].conn \in Conns /\ connId[ep[endpoints[i]].conn] = i
      BY <2>2, <3>1 DEF OneId
    <3> QED BY <1>2, <3>1, <3>2, ClosedEndpoints DEF TypeOK
  <2> QED BY <2>1, <2>2 DEF OneId
<1>3. ASSUME NEW c \in Conns, NEW r \in Request, OneIdRegister(c, r) PROVE OneId'
  <2> DEFINE free == {j \in Ids : endpoints[j] = NoEp}
  <2>1. /\ Disciplined(c, r)
        /\ \E i \in IF r.id = NoId THEN free ELSE {r.id} :
             IF endpoints[i] = NoEp THEN RegisterNew(c, i, r)
                                    ELSE RegisterExisting(c, i, r)
    BY <1>3 DEF OneIdRegister, Register
  <2>2. PICK i \in Ids :
          /\ r.id = NoId \/ r.id = i
          /\ \/ endpoints[i] = NoEp /\ RegisterNew(c, i, r)
             \/ endpoints[i] # NoEp /\ RegisterExisting(c, i, r)
    BY <2>1 DEF Request, AnyId
  <2>3. CASE endpoints[i] = NoEp /\ RegisterNew(c, i, r)
    <3>1. PICK o \in Eps \ Held : RegisterObject(c, i, r, o)
      BY <2>3 DEF RegisterNew
    <3>2. told[c] # NoId => r.id = told[c]
      BY <1>3 DEF OneIdRegister
    <3>3. connId[c] = NoId
      BY <2>2, <2>3, <3>2 DEF OneId, OneHolder, Acting, Lookup
    <3>4. told' = connId'
      BY <3>1 DEF RegisterObject, SetID, Registered, OneId
    <3>5. /\ endpoints' = [endpoints EXCEPT ![i] = o]
          /\ connId' = [connId EXCEPT ![c] = i]
          /\ ep'[o] = NewEndpoint(c, r)
          /\ \A j \in Ids : endpoints[j] # NoEp => ep'[endpoints[j]] = ep[endpoints[j]]
      BY <2>3, <3>1, NewObject
    <3>6. ep'[o].conn = c
      BY <3>5 DEF NewEndpoint
    <3>7. ASSUME NEW j \in Ids, j # i, endpoints'[j] # NoEp
          PROVE  ep'[endpoints'[j]].conn \in Conns /\ connId'[ep'[endpoints'[j]].conn] = j
      <4>1. endpoints'[j] = endpoints[j] /\ endpoints[j] # NoEp
            /\ ep'[endpoints[j]] = ep[endpoints[j]]
        BY <3>5, <3>7 DEF TypeOK
      <4>2. ep[endpoints[j]].conn \in Conns /\ connId[ep[endpoints[j]].conn] = j
        BY <4>1 DEF OneId
      <4>3. ep[endpoints[j]].conn # c
        BY <3>3, <4>2, RegistryAssumption DEF RegistryAssumption
      <4> QED BY <3>5, <4>1, <4>2, <4>3 DEF TypeOK
    <3>8. endpoints'[i] = o /\ connId'[c] = i
      BY <3>5 DEF TypeOK
    <3> QED BY <3>4, <3>6, <3>7, <3>8 DEF OneId
  <2>4. CASE endpoints[i] # NoEp /\ RegisterExisting(c, i, r)
    <3>1. /\ RegisterAgain(c, i, r, endpoints[i], TRUE)
          /\ ~Dangles(endpoints[i]) => ep[endpoints[i]].conn = c
          /\ endpoints' = endpoints /\ connId' = connId
          /\ ep'[endpoints[i]].conn = ep[endpoints[i]].conn
          /\ \A j \in Ids : endpoints[j] # NoEp /\ endpoints[j] # endpoints[i] =>
                ep'[endpoints[j]] = ep[endpoints[j]]
      BY <2>1, <2>4, AgainWithoutToken
    <3>2. ep[endpoints[i]].conn \in Conns /\ connId[ep[endpoints[i]].conn] = i
      BY <2>4 DEF OneId
    <3>3. ep[endpoints[i]].conn = c
      BY <3>1, <3>2, RegistryAssumption DEF Dangles, OneHolder, RegistryAssumption
    <3>4. told' = connId'
      BY <3>1, <3>2, <3>3 DEF RegisterAgain, Registered, OneId, TypeOK
    <3>5. \A j \in Ids : endpoints[j] # NoEp =>
             ep'[endpoints[j]].conn = ep[endpoints[j]].conn
      BY <3>1
    <3> QED BY <3>1, <3>4, <3>5 DEF OneId
  <2> QED BY <2>2, <2>3, <2>4
<1>4. ASSUME NEW c \in Conns, NEW targets \in SUBSET Ids, Kickout(c, targets)
      PROVE  OneId'
  BY <1>4 DEF Kickout, OneId, mapVars
<1>5. CASE UNCHANGED vars
  BY <1>5 DEF vars, connVars, mapVars, OneId
<1> QED BY <1>1, <1>2, <1>3, <1>4, <1>5 DEF OneIdNext

THEOREM OneIdCorrect ==
    ASSUME ~MayTakeOver, OneIdPerConnection PROVE Spec => []OneId
<1>1. Init => OneId
  BY DEF Init, OneId
<1>2. [Next]_vars => [OneIdNext]_vars
  BY DEF Next, OneIdNext, OneIdRegister, Register, Disciplined
<1>3. TypeOK /\ OneHolder /\ Serves /\ OneId /\ [Next]_vars => OneId'
  BY <1>2, OneIdStep, RegistryAssumption
<1> QED BY <1>1, <1>3, TypeCorrect, ActingCorrect, ServesCorrect, PTL DEF Spec

(* With one id per connection and no takeovers no registered Endpoint      *)
(* points to a connection that is gone, so no handler sends through one.   *)
THEOREM NoDanglingCorrect ==
    ASSUME ~MayTakeOver, OneIdPerConnection PROVE Spec => []NoDangling
<1>1. OneHolder /\ OneId => NoDangling
  BY RegistryAssumption DEF OneHolder, OneId, NoDangling, RegistryAssumption
<1> QED BY <1>1, ActingCorrect, OneIdCorrect, PTL

(* For those clients an id is in use only while a connection carries it:   *)
(* the loop of allocate_endpoint_id can fail to end only with every id held*)
(* by a client that is connected.                                          *)
THEOREM IdsCarriedCorrect ==
    ASSUME ~MayTakeOver, OneIdPerConnection PROVE Spec => []IdsCarried
<1>1. OneHolder /\ OneId => IdsCarried
  BY RegistryAssumption DEF OneHolder, OneId, IdsCarried, RegistryAssumption
<1> QED BY <1>1, ActingCorrect, OneIdCorrect, PTL

(* ... and a client is handled under the id the server answered to its REG.*)
THEOREM ToldIsActingCorrect ==
    ASSUME ~MayTakeOver, OneIdPerConnection PROVE Spec => []ToldIsActing
<1>1. OneId => ToldIsActing
  BY DEF OneId, ToldIsActing
<1> QED BY <1>1, OneIdCorrect, PTL

-----------------------------------------------------------------------------
(* What the refinement rests on, and the roster under it: the connection   *)
(* and the one role of the registered Endpoint.                            *)
DirInv == /\ TypeOK /\ OneHolder /\ Serves /\ OneId
          /\ RoleIndexExact /\ ServiceIndexExact

RosterExact ==
    \A i \in Ids :
        /\ endpoints[i] = NoEp => Roster[i] = Vacant
        /\ endpoints[i] # NoEp =>
             /\ Roster[i] = [conn |-> ep[endpoints[i]].conn,
                             roles |-> {ep[endpoints[i]].role}]
             /\ Roster[i].conn = ep[endpoints[i]].conn
             /\ Roster[i] # Vacant

LEMMA RosterEntry == DirInv => RosterExact
<1> SUFFICES ASSUME DirInv, NEW i \in Ids
             PROVE  /\ endpoints[i] = NoEp => Roster[i] = Vacant
                    /\ endpoints[i] # NoEp =>
                         /\ Roster[i] = [conn |-> ep[endpoints[i]].conn,
                                         roles |-> {ep[endpoints[i]].role}]
                         /\ Roster[i].conn = ep[endpoints[i]].conn
                         /\ Roster[i] # Vacant
  BY DEF RosterExact
<1>1. CASE endpoints[i] = NoEp
  BY <1>1 DEF Roster
<1>2. CASE endpoints[i] # NoEp
  <2> DEFINE o == endpoints[i]
  <2>1. o \in Eps /\ ep[o].role \in Roles /\ ep[o].conn \in Conns
    BY <1>2 DEF DirInv, TypeOK, Held
  <2>2. (normal_endpoints[i] = o) <=> ep[o].role = "Normal"
    BY <1>2 DEF DirInv, RoleIndexExact
  <2>3. (admin_endpoints[i] = o) <=> ep[o].role = "Admin"
    BY <1>2 DEF DirInv, RoleIndexExact
  <2>4. (\E t \in SvcTypes : o \in service_endpoints[t]) <=> ep[o].role = "Service"
    BY <2>1 DEF DirInv, ServiceIndexExact, TypeOK, Endpoint
  <2>5. ListedRoles(i) = {ep[o].role}
    BY <2>1, <2>2, <2>3, <2>4 DEF ListedRoles, Roles
  <2>6. Roster[i] = [conn |-> ep[o].conn, roles |-> {ep[o].role}]
    BY <1>2, <2>5 DEF Roster
  <2>7. Roster[i].conn # Vacant.conn
    BY <2>1, <2>6, RegistryAssumption DEF Vacant, RegistryAssumption
  <2> QED BY <1>2, <2>1, <2>6, <2>7
<1> QED BY <1>1, <1>2

LEMMA RosterEntryNext == DirInv' => RosterExact'
<1>1. (DirInv => RosterExact)'
  BY RosterEntry, PTL
<1> QED BY <1>1

(* Who is listed, and through which connection, as the directory sees it.  *)
LEMMA RosterListed ==
    ASSUME RegistryAssumption, DirInv, NEW i \in Ids
    PROVE  /\ Dir!Listed(i) <=> endpoints[i] # NoEp
           /\ Dir!Listed(i) => Roster[i].conn \in Conns /\ connId[Roster[i].conn] = i
<1>1. Dir!Listed(i) <=> endpoints[i] # NoEp
  BY RosterEntry DEF RosterExact, Dir!Listed
<1>2. endpoints[i] # NoEp => Roster[i].conn = ep[endpoints[i]].conn
  BY RosterEntry DEF RosterExact
<1>3. endpoints[i] # NoEp =>
        ep[endpoints[i]].conn \in Conns /\ connId[ep[endpoints[i]].conn] = i
  BY DEF DirInv, OneId
<1> QED BY <1>1, <1>2, <1>3

(* A step that leaves the registered Endpoints alone leaves the roster.    *)
LEMMA RosterSame ==
    ASSUME UNCHANGED <<ep, mapVars>>
    PROVE  Roster' = Roster
BY DEF Roster, ListedRoles, mapVars

LEMMA ClosedLeaves ==
    ASSUME RegistryAssumption, DirInv, DirInv', NEW c \in Conns, OnConnectionClosed(c)
    PROVE  Dir!Leave(c)
<1>1. c \in {d \in Conns : Online(d)}
  BY DEF OnConnectionClosed
<1>2. {d \in Conns : Online(d)}' = {d \in Conns : Online(d)} \ {c}
  BY DEF OnConnectionClosed, Online, DirInv, TypeOK
<1>3. ASSUME NEW i \in Ids
      PROVE  Roster'[i] = IF Dir!Listed(i) /\ Roster[i].conn = c THEN Vacant ELSE Roster[i]
  <2>1. CASE endpoints[i] = NoEp
    <3>1. endpoints'[i] = NoEp
      BY <2>1, ClosedEndpoints DEF DirInv
    <3> QED BY <2>1, <3>1, RosterEntry, RosterEntryNext DEF RosterExact
  <2>2. CASE endpoints[i] # NoEp /\ i = connId[c]
    <3>1. endpoints'[i] = NoEp
      BY <2>2, ClosedEndpoints DEF DirInv
    <3>2. Roster[i].conn = c /\ Dir!Listed(i)
      <4>1. ep[endpoints[i]].conn = c
        BY <2>2, RegistryAssumption DEF DirInv, Serves, Acting, Lookup, RegistryAssumption
      <4> QED BY <2>2, <4>1, RosterEntry, RosterListed DEF RosterExact
    <3>3. Roster'[i] = Vacant
      BY <3>1 DEF Roster, Vacant
    <3> QED BY <3>2, <3>3
  <2>3. CASE endpoints[i] # NoEp /\ i # connId[c]
    <3>1. endpoints'[i] = endpoints[i] /\ ep'[endpoints[i]] = ep[endpoints[i]]
      BY <2>3, ClosedEndpoints DEF DirInv
    <3>2. Roster[i].conn # c
      BY <2>3, RosterListed
    <3>3. Roster'[i] = [conn |-> ep'[endpoints'[i]].conn, roles |-> {ep'[endpoints'[i]].role}]
      BY <2>3, <3>1, RosterEntryNext DEF RosterExact
    <3>4. Roster[i] = [conn |-> ep[endpoints[i]].conn, roles |-> {ep[endpoints[i]].role}]
      BY <2>3, RosterEntry DEF RosterExact
    <3> QED BY <3>1, <3>2, <3>3, <3>4
  <2> QED BY <2>1, <2>2, <2>3
<1>4. Roster' = [i \in Ids |-> IF Dir!Listed(i) /\ Roster[i].conn = c
                              THEN Vacant ELSE Roster[i]]
  BY <1>3 DEF Roster
<1> QED BY <1>1, <1>2, <1>4 DEF Dir!Leave

(* A new registration is a claim, one of an id in use a change of role.    *)
LEMMA RegisterClaims ==
    ASSUME RegistryAssumption, DirInv, DirInv', OneIdPerConnection, ~MayTakeOver,
           NEW c \in Conns, NEW r \in Request, Register(c, r)
    PROVE  \E i \in Ids : Dir!Claim(c, i, r.role) \/ Dir!ChangeRole(c, i, r.role)
<1>1. /\ status[c] = "open"
      /\ Disciplined(c, r)
      /\ \E i \in IF r.id = NoId THEN {j \in Ids : endpoints[j] = NoEp} ELSE {r.id} :
           IF endpoints[i] = NoEp THEN RegisterNew(c, i, r)
                                  ELSE RegisterExisting(c, i, r)
  BY DEF Register
<1>2. PICK i \in Ids :
        /\ r.id = NoId \/ r.id = i
        /\ \/ endpoints[i] = NoEp /\ RegisterNew(c, i, r)
           \/ endpoints[i] # NoEp /\ RegisterExisting(c, i, r)
  BY <1>1 DEF Request, AnyId
<1>3. CASE endpoints[i] = NoEp /\ RegisterNew(c, i, r)
  <2>1. PICK o \in Eps \ Held : RegisterObject(c, i, r, o)
    BY <1>3 DEF RegisterNew
  <2>2. TypeOK
    BY DEF DirInv
  <2>3. /\ endpoints' = [endpoints EXCEPT ![i] = o]
        /\ ep'[o] = NewEndpoint(c, r)
        /\ \A j \in Ids : endpoints[j] # NoEp => ep'[endpoints[j]] = ep[endpoints[j]]
    BY <1>3, <2>1, <2>2, NewObject
  <2>4. connId[c] = NoId
    BY <1>1, <1>2, <1>3 DEF Disciplined, DirInv, OneId, OneHolder, Acting, Lookup
  <2>5. \A j \in Ids : Dir!Listed(j) => Roster[j].conn # c
    BY <2>4, RosterListed, RegistryAssumption DEF RegistryAssumption
  <2>6. endpoints'[i] # NoEp /\ ep'[endpoints'[i]].conn = c /\ ep'[endpoints'[i]].role = r.role
    <3>1. endpoints'[i] = o /\ o # NoEp
      BY <2>2, <2>3, RegistryAssumption DEF TypeOK, RegistryAssumption
    <3> QED BY <2>3, <3>1 DEF NewEndpoint
  <2>7. Roster'[i] = [conn |-> c, roles |-> {r.role}]
    BY <2>6, RosterEntryNext DEF RosterExact
  <2>8. ASSUME NEW j \in Ids, j # i PROVE Roster'[j] = Roster[j]
    <3>1. endpoints'[j] = endpoints[j]
      BY <2>2, <2>3, <2>8 DEF TypeOK
    <3>2. CASE endpoints[j] = NoEp
      BY <3>1, <3>2 DEF Roster, Vacant
    <3>3. CASE endpoints[j] # NoEp
      <4>1. endpoints'[j] # NoEp /\ ep'[endpoints'[j]] = ep[endpoints[j]]
        BY <2>3, <3>1, <3>3
      <4> QED BY <3>3, <4>1, RosterEntry, RosterEntryNext DEF RosterExact
    <3> QED BY <3>2, <3>3
  <2>9. Roster' = [Roster EXCEPT ![i] = [conn |-> c, roles |-> {r.role}]]
    BY <2>7, <2>8 DEF Roster
  <2>10. ~Dir!Listed(i)
    BY <1>3, RosterListed
  <2>11. c \in {d \in Conns : Online(d)} /\ UNCHANGED {d \in Conns : Online(d)}
    BY <1>1, <2>1 DEF RegisterObject, Online
  <2> QED BY <2>5, <2>9, <2>10, <2>11 DEF Dir!Claim
<1>4. CASE endpoints[i] # NoEp /\ RegisterExisting(c, i, r)
  <2>1. TypeOK
    BY DEF DirInv
  <2>2. /\ ~Dangles(endpoints[i]) => ep[endpoints[i]].conn = c
        /\ endpoints' = endpoints /\ connId' = connId /\ status' = status
        /\ ep'[endpoints[i]].role = r.role
        /\ ep'[endpoints[i]].conn = ep[endpoints[i]].conn
        /\ \A j \in Ids : endpoints[j] # NoEp /\ endpoints[j] # endpoints[i] =>
              ep'[endpoints[j]] = ep[endpoints[j]]
    BY <1>1, <1>4, <2>1, AgainWithoutToken
  <2>3. ep[endpoints[i]].conn = c
    BY <1>4, <2>2, RegistryAssumption
    DEF Dangles, DirInv, OneId, OneHolder, RegistryAssumption
  <2>4. Roster[i].conn = c /\ Dir!Listed(i)
    BY <1>4, <2>3, RosterEntry, RosterListed DEF RosterExact
  <2>5. Roster'[i] = [conn |-> c, roles |-> {r.role}]
    BY <1>4, <2>2, <2>3, RosterEntryNext DEF RosterExact
  <2>6. ASSUME NEW j \in Ids, j # i PROVE Roster'[j] = Roster[j]
    <3>1. CASE endpoints[j] = NoEp
      BY <2>2, <3>1 DEF Roster, Vacant
    <3>2. CASE endpoints[j] # NoEp
      <4>1. ep'[endpoints[j]] = ep[endpoints[j]]
        BY <2>2, <2>6, <3>2 DEF DirInv, OneHolder
      <4> QED BY <2>2, <3>2, <4>1, RosterEntry, RosterEntryNext DEF RosterExact
    <3> QED BY <3>1, <3>2
  <2>7. Roster[i] = [conn |-> c, roles |-> {ep[endpoints[i]].role}]
    BY <1>4, <2>3, RosterEntry DEF RosterExact
  <2>8. Roster' = [Roster EXCEPT ![i].roles = {r.role}]
    <3>1. [Roster[i] EXCEPT !.roles = {r.role}] = [conn |-> c, roles |-> {r.role}]
      BY <2>7
    <3>2. Roster' = [Roster EXCEPT ![i] = [Roster[i] EXCEPT !.roles = {r.role}]]
      BY <2>5, <2>6, <3>1 DEF Roster
    <3> QED BY <3>2
  <2>9. UNCHANGED {d \in Conns : Online(d)}
    BY <2>2 DEF Online
  <2> QED BY <2>4, <2>8, <2>9 DEF Dir!ChangeRole
<1> QED BY <1>2, <1>3, <1>4

(* Every callback of the server is one step of the directory, or none.     *)
LEMMA DirStep ==
    ASSUME RegistryAssumption, DirInv, DirInv', OneIdPerConnection, ~MayTakeOver,
           [Next]_vars
    PROVE  [Dir!DirNext]_(Dir!dirVars)
<1>1. ASSUME NEW c \in Conns, OnConnectionReady(c) PROVE Dir!Connect(c)
  <2>1. Roster' = Roster
    BY <1>1, RosterSame DEF OnConnectionReady
  <2>2. c \notin {d \in Conns : Online(d)}
        /\ {d \in Conns : Online(d)}' = {d \in Conns : Online(d)} \cup {c}
    BY <1>1 DEF OnConnectionReady, Online, DirInv, TypeOK
  <2> QED BY <2>1, <2>2 DEF Dir!Connect
<1>2. ASSUME NEW c \in Conns, NEW targets \in SUBSET Ids, Kickout(c, targets)
      PROVE  UNCHANGED Dir!dirVars
  <2>1. Roster' = Roster
    BY <1>2, RosterSame DEF Kickout
  <2>2. UNCHANGED {d \in Conns : Online(d)}
    BY <1>2 DEF Kickout, AfterDisconnect, Online
  <2> QED BY <2>1, <2>2 DEF Dir!dirVars
<1>3. CASE UNCHANGED vars
  <2>1. Roster' = Roster
    BY <1>3, RosterSame DEF vars
  <2>2. UNCHANGED {d \in Conns : Online(d)}
    BY <1>3 DEF vars, connVars, Online
  <2> QED BY <2>1, <2>2 DEF Dir!dirVars
<1>4. ASSUME NEW c \in Conns, NEW r \in Request, Register(c, r) PROVE Dir!DirNext
  BY <1>4, RegisterClaims DEF Dir!DirNext, Request
<1>5. ASSUME NEW c \in Conns, OnConnectionClosed(c) PROVE Dir!DirNext
  BY <1>5, ClosedLeaves DEF Dir!DirNext
<1> QED BY <1>1, <1>2, <1>3, <1>4, <1>5 DEF Next, Dir!DirNext

(* Clients that keep to one id per connection and take nobody's endpoint   *)
(* over see a directory: an id belongs to the connection that claimed it,  *)
(* in one role at a time, until that connection leaves.                    *)
THEOREM DirectoryImplemented ==
    ASSUME ~MayTakeOver, OneIdPerConnection PROVE Spec => ImplementsDirectory
<1>1. Init => Dir!DirInit
  BY DEF Init, Dir!DirInit, Online, Roster
<1>2. DirInv /\ DirInv' /\ [Next]_vars => [Dir!DirNext]_(Dir!dirVars)
  BY DirStep, RegistryAssumption
<1>3. TypeOK /\ OneHolder /\ Serves /\ OneId /\ RoleIndexExact /\ ServiceIndexExact
      => DirInv
  BY DEF DirInv
<1> QED BY <1>1, <1>2, <1>3, TypeCorrect, ActingCorrect, ServesCorrect, OneIdCorrect,
           RoleIndexCorrect, ServiceIndexCorrect, PTL
        DEF Spec, ImplementsDirectory, Dir!DirSpec
=============================================================================
