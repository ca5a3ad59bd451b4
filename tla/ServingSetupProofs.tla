-------------------------- MODULE ServingSetupProofs --------------------------
(***************************************************************************)
(* Theorems about access codes and SETUP, for any codes, options and mode  *)
(* names.  Every step is a step of the registry or leaves it alone, so the *)
(* theorems about the registry hold here too.                              *)
(***************************************************************************)
EXTENDS ServingSetup, RegistryDirectoryProofs

LEMMA SetupRegistryNext ==
    ASSUME [SetupNext]_setupVars PROVE [Next]_vars
<1>1. ASSUME NEW c \in Conns, OtherStep(c) PROVE Next
  BY <1>1 DEF OtherStep, Next
<1>2. ASSUME NEW c \in Conns, NEW r \in Request, NEW code \in Text, RegisterWith(c, r, code)
      PROVE  Next
  BY <1>2 DEF RegisterWith, Next
<1>3. ASSUME NEW c \in Conns, NEW command \in SetupCommand, HandleSetup(c, command)
      PROVE  UNCHANGED vars
  BY <1>3 DEF HandleSetup
<1>4. CASE UNCHANGED setupVars
  BY <1>4 DEF setupVars
<1> QED BY <1>1, <1>2, <1>3, <1>4 DEF SetupNext

(* The registry with access codes of its own (register_endpoint, setup) is *)
(* the registry: what is proved of it holds whatever codes are in force.   *)
THEOREM SetupIsRegistry == SetupSpec => Spec
<1>1. SetupInit => Init
  BY DEF SetupInit
<1> QED BY <1>1, SetupRegistryNext, PTL DEF SetupSpec, Spec

-----------------------------------------------------------------------------
(* The types of what this module adds to the registry.                     *)
CodesTypeOK ==
    /\ codes \in [Roles -> Codes]
    /\ serving_mode \in Modes
    /\ earned \in [Ids -> SUBSET Roles]
    /\ answer \in {"none", "denied", "unauthorised", "invalid mode", "success"}

LEMMA ModeType == ASSUME NEW tag PROVE TagToServingMode(tag) \in Modes
BY DEF TagToServingMode, Modes

LEMMA CodesInit == ASSUME SetupInit PROVE CodesTypeOK
<1>1. codes \in [Roles -> Codes]
  <2>1. PICK argument \in [Roles -> Text], field \in [Roles -> Text \cup {Absent}] :
          codes = [role \in Roles |->
             IF Option(argument[role], field[role]) = Empty THEN DefaultCode[role]
             ELSE Option(argument[role], field[role])]
    BY DEF SetupInit
  <2>2. ASSUME NEW role \in Roles, Option(argument[role], field[role]) # Empty
        PROVE  Option(argument[role], field[role]) \in Codes
    <3>1. argument[role] \in Text /\ field[role] \in Text \cup {Absent}
      OBVIOUS
    <3> QED BY <2>2, <3>1 DEF Option, Text
  <2> QED BY <2>1, <2>2, SetupAssumption DEF SetupAssumption
<1>2. serving_mode \in Modes
  BY ModeType DEF SetupInit
<1> QED BY <1>1, <1>2 DEF SetupInit, CodesTypeOK

LEMMA SetupCodes ==
    ASSUME CodesTypeOK, NEW command \in SetupCommand, Setup(command)
    PROVE  /\ codes' \in [Roles -> Codes] /\ serving_mode' \in Modes
           /\ answer' \in {"unauthorised", "invalid mode", "success"}
           /\ answer' = "unauthorised" => UNCHANGED <<codes, serving_mode>>
           /\ answer' # "success" => serving_mode' = serving_mode
           /\ serving_mode' # serving_mode => serving_mode' # "Undefined"
<1>1. command.new_admin_code \in Text /\ command.new_access_code \in Text
  BY DEF SetupCommand
<1>2. NewCodes(command) \in [Roles -> Codes]
  BY <1>1 DEF NewCodes, Text, CodesTypeOK, Roles
<1> QED BY <1>2, ModeType DEF Setup, CodesTypeOK

LEMMA CodesNext ==
    ASSUME CodesTypeOK, TypeOK, [SetupNext]_setupVars PROVE CodesTypeOK'
<1>1. ASSUME NEW c \in Conns, OtherStep(c) PROVE CodesTypeOK'
  BY <1>1 DEF OtherStep, CodesTypeOK
<1>2. ASSUME NEW c \in Conns, NEW r \in Request, NEW code \in Text, RegisterWith(c, r, code)
      PROVE  CodesTypeOK'
  BY <1>2 DEF RegisterWith, CodesTypeOK
<1>3. ASSUME NEW c \in Conns, NEW command \in SetupCommand, HandleSetup(c, command)
      PROVE  CodesTypeOK'
  BY <1>3, SetupCodes DEF HandleSetup, CodesTypeOK
<1>4. CASE UNCHANGED setupVars
  BY <1>4 DEF setupVars, CodesTypeOK
<1> QED BY <1>1, <1>2, <1>3, <1>4 DEF SetupNext

(* The types are invariant; in particular no option, file or SETUP leaves  *)
(* a role without a code that a client could present (SwitchContext,       *)
(* SwitchService::setup).                                                  *)
THEOREM SetupTypeCorrect == SetupSpec => []SetupTypeOK
<1>1. SetupInit => CodesTypeOK
  BY CodesInit
<1>2. CodesTypeOK /\ TypeOK /\ [SetupNext]_setupVars => CodesTypeOK'
  BY CodesNext
<1>3. CodesTypeOK /\ TypeOK => SetupTypeOK
  BY DEF CodesTypeOK, SetupTypeOK
<1> QED BY <1>1, <1>2, <1>3, SetupIsRegistry, TypeCorrect, PTL DEF SetupSpec

-----------------------------------------------------------------------------
(* A registration gives the requested role to the endpoint of one id, and  *)
(* leaves the roles of the others alone.                                   *)
LEMMA RegisterRoles ==
    ASSUME TypeOK, OneHolder, NEW c \in Conns, NEW r \in Request, Register(c, r)
    PROVE  /\ told'[c] \in Ids
           /\ endpoints'[told'[c]] # NoEp => ep'[endpoints'[told'[c]]].role = r.role
           /\ \A j \in Ids \ {told'[c]} : endpoints'[j] # NoEp =>
                endpoints[j] # NoEp /\ ep'[endpoints'[j]].role = ep[endpoints[j]].role
<1>1. PICK i \in Ids : \/ endpoints[i] = NoEp /\ RegisterNew(c, i, r)
                       \/ endpoints[i] # NoEp /\ RegisterExisting(c, i, r)
  BY RegisterCases
<1>2. CASE RegisterNew(c, i, r)
  <2>1. PICK o \in Eps \ Held : RegisterObject(c, i, r, o)
    BY <1>2 DEF RegisterNew
  <2>2. told'[c] = i /\ endpoints' = [endpoints EXCEPT ![i] = o]
    BY <2>1 DEF RegisterObject, Registered, TypeOK
  <2>3. \A x \in Held' : ep'[x] = [ep EXCEPT ![o] = NewEndpoint(c, r)][x]
    BY <2>1 DEF RegisterObject, Collect, Held
  <2>4. \A j \in Ids : endpoints'[j] # NoEp => endpoints'[j] \in Held' /\ endpoints'[j] \in Eps
    BY <2>2, <2>1 DEF TypeOK, Held
  <2>5. \A j \in Ids : endpoints[j] # o
    BY <2>1 DEF Held
  <2> QED BY <2>2, <2>3, <2>4, <2>5 DEF NewEndpoint, TypeOK
<1>3. CASE endpoints[i] # NoEp /\ RegisterExisting(c, i, r)
  <2> DEFINE o == endpoints[i]
  <2>1. PICK same \in SameFD(c, o) : RegisterAgain(c, i, r, o, same)
    BY <1>3 DEF RegisterExisting
  <2>2. told'[c] = i /\ endpoints' = endpoints
    BY <2>1 DEF RegisterAgain, Registered, TypeOK
  <2>3. \A x \in Held' : ep'[x] = [ep EXCEPT ![o] = UpdatedEndpoint(c, r, o, same)][x]
    BY <2>1 DEF RegisterAgain, Collect, Held
  <2>4. \A j \in Ids : endpoints'[j] # NoEp => endpoints'[j] \in Held' /\ endpoints'[j] \in Eps
    BY <2>2 DEF TypeOK, Held
  <2>5. \A j \in Ids \ {i} : endpoints[j] # o
    BY <1>3 DEF OneHolder
  <2> QED BY <2>2, <2>3, <2>4, <2>5 DEF UpdatedEndpoint, TypeOK
<1> QED BY <1>1, <1>2, <1>3

LEMMA RoleEarnedStep ==
    ASSUME TypeOK, CodesTypeOK, OneHolder, RoleEarned, [SetupNext]_setupVars
    PROVE  RoleEarned'
<1>1. ASSUME NEW c \in Conns, OnConnectionReady(c) \/ (\E targets \in SUBSET Ids : Kickout(c, targets)),
             earned' = earned
      PROVE  RoleEarned'
  BY <1>1 DEF OnConnectionReady, Kickout, mapVars, RoleEarned
<1>2. ASSUME NEW c \in Conns, OnConnectionClosed(c), earned' = earned PROVE RoleEarned'
  BY <1>2, ClosedEndpoints DEF RoleEarned
<1>3. ASSUME NEW c \in Conns, NEW r \in Request, NEW code \in Text, RegisterWith(c, r, code)
      PROVE  RoleEarned'
  <2>1. /\ Register(c, r) /\ r.code
        /\ earned' = [earned EXCEPT ![told'[c]] = {role \in Roles : codes[role] = code}]
    BY <1>3 DEF RegisterWith, Register
  <2>2. code = codes[r.role] /\ r.role \in Roles
    BY <1>3, <2>1 DEF RegisterWith, CodeOf, Request
  <2> DEFINE i == told'[c]
  <2>3. /\ i \in Ids
        /\ endpoints'[i] # NoEp => ep'[endpoints'[i]].role = r.role
        /\ \A j \in Ids \ {i} : endpoints'[j] # NoEp =>
             endpoints[j] # NoEp /\ ep'[endpoints'[j]].role = ep[endpoints[j]].role
    BY <2>1, RegisterRoles
  <2>4. r.role \in earned'[i] /\ \A j \in Ids \ {i} : earned'[j] = earned[j]
    BY <2>1, <2>2, <2>3 DEF CodesTypeOK
  <2> HIDE DEF i
  <2> QED BY <2>3, <2>4 DEF RoleEarned
<1>4. ASSUME NEW c \in Conns, NEW command \in SetupCommand, HandleSetup(c, command)
      PROVE  RoleEarned'
  BY <1>4 DEF HandleSetup, vars, mapVars, RoleEarned
<1>5. CASE UNCHANGED setupVars
  BY <1>5 DEF setupVars, vars, mapVars, RoleEarned
<1> QED BY <1>1, <1>2, <1>3, <1>4, <1>5 DEF SetupNext, OtherStep

(* Nobody acts in a role without having shown a code that was then one of  *)
(* that role, whatever takeovers, role switches and SETUPs come in between *)
(* (register_endpoint, setup).                                             *)
THEOREM RoleEarnedCorrect == SetupSpec => []RoleEarned
<1>1. SetupInit => RoleEarned
  BY DEF SetupInit, Init, RoleEarned
<1>2. SetupTypeOK => TypeOK /\ CodesTypeOK
  BY DEF SetupTypeOK, CodesTypeOK
<1>3. TypeOK /\ CodesTypeOK /\ OneHolder /\ RoleEarned /\ [SetupNext]_setupVars
        => RoleEarned'
  BY RoleEarnedStep
<1> QED BY <1>1, <1>2, <1>3, SetupTypeCorrect, SetupIsRegistry, ActingCorrect, PTL
        DEF SetupSpec

-----------------------------------------------------------------------------
(* What the answer to SETUP tells of what was done; and a code is replaced *)
(* only where a code of the admins has been shown for a registered id, even*)
(* where takeovers leave the map of the admins without it                  *)
(* (SwitchService::setup).                                                 *)
THEOREM SetupOutcomeCorrect == SetupSpec => SetupOutcome
<1> DEFINE A == /\ serving_mode' # serving_mode => answer' = "success" /\ serving_mode' # "Undefined"
                /\ codes' # codes => /\ answer' \in {"invalid mode", "success"}
                                     /\ \E i \in Ids : endpoints[i] # NoEp /\ "Admin" \in earned[i]
<1>1. SetupTypeOK /\ RoleEarned /\ [SetupNext]_setupVars => [A]_setupVars
  <2> SUFFICES ASSUME SetupTypeOK, RoleEarned, SetupNext PROVE A
    OBVIOUS
  <2>1. ASSUME NEW c \in Conns, OtherStep(c) PROVE A
    BY <2>1 DEF OtherStep
  <2>2. ASSUME NEW c \in Conns, NEW r \in Request, NEW code \in Text, RegisterWith(c, r, code)
        PROVE  A
    BY <2>2 DEF RegisterWith
  <2>3. ASSUME NEW c \in Conns, NEW command \in SetupCommand, HandleSetup(c, command)
        PROVE  A
    <3>1. CASE ep[Acting(c)].role = "Admin" /\ Setup(command)
      <4>1. connId[c] \in Ids /\ endpoints[connId[c]] # NoEp
            /\ ep[endpoints[connId[c]]].role = "Admin"
        BY <2>3, <3>1 DEF HandleSetup, Acting, Lookup
      <4>2. "Admin" \in earned[connId[c]]
        BY <4>1 DEF RoleEarned
      <4>3. CodesTypeOK
        BY DEF SetupTypeOK, CodesTypeOK
      <4> QED BY <3>1, <4>1, <4>2, <4>3, SetupCodes
    <3>2. CASE UNCHANGED <<codes, serving_mode>>
      BY <3>2
    <3> QED BY <2>3, <3>1, <3>2 DEF HandleSetup
  <2> QED BY <2>1, <2>2, <2>3 DEF SetupNext
<1> QED BY <1>1, SetupTypeCorrect, RoleEarnedCorrect, PTL DEF SetupSpec, SetupOutcome
=============================================================================
