----------------------------- MODULE ServingSetup -----------------------------
(***************************************************************************)
(* The access codes that admit clients to a role, and the serving mode: how*)
(* they come from the command line and the configuration file, and how an  *)
(* admin replaces them with SETUP while clients register with them.        *)
(*                                                                         *)
(* EndpointRegistry takes the outcome of the code check as an input of REG;*)
(* here REG carries the code itself.  A SETUP that is refused is a step,   *)
(* since it is about errors that the properties speak.                     *)
(***************************************************************************)
EXTENDS EndpointRegistry

CONSTANTS
    Codes,        \* access codes
    Empty,        \* the empty string: no code, no mode
    Absent,       \* a field that the configuration file does not contain
    DefaultCode,  \* the code of each role that is compiled in
    ModeTags      \* names of serving modes, right or wrong, that are given

ASSUME SetupAssumption ==
    /\ Empty \notin Codes
    /\ Absent \notin Codes \cup ModeTags \cup {Empty}
    /\ DefaultCode \in [Roles -> Codes]

VARIABLES
    codes,         \* admin_code, access_code and service_access_code, by role
    serving_mode,  \* SwitchContext::serving_mode
    earned,        \* the roles that the code last presented for an id was for
    answer         \* what the last SETUP was answered

setupVars == <<vars, codes, serving_mode, earned, answer>>

-----------------------------------------------------------------------------
Modes == {"Undefined", "Normal", "Proxy", "RProxy", "ClusterNode"}

Text == Codes \cup {Empty}

SetupCommand == [access_code : Text, new_admin_code : Text,
                 new_access_code : Text, mode : ModeTags \cup {Empty}]

(* The variables have their types; and no code is ever empty: REG refuses  *)
(* an empty code, so that no client could get the role any more.           *)
SetupTypeOK ==
    /\ TypeOK
    /\ codes \in [Roles -> Codes]
    /\ serving_mode \in Modes
    /\ earned \in [Ids -> SUBSET Roles]
    /\ answer \in {"none", "denied", "unauthorised", "invalid mode", "success"}

TagToServingMode(tag) ==
    CASE tag = "normal" -> "Normal"
      [] tag = "proxy" -> "Proxy"
      [] tag = "rproxy" -> "RProxy"
      [] OTHER -> "Undefined"

(* An option: the configuration file overrides the command line with every *)
(* field that it contains, also with an empty one.                         *)
Option(argument, field) == IF field = Absent THEN argument ELSE field

(* The constructor of SwitchContext leaves what the options do not give: to*)
(* the defaults, but the mode has none and is not initialised.             *)
SetupInit ==
    /\ Init
    /\ \E argument \in [Roles -> Text], field \in [Roles -> Text \cup {Absent}] :
         codes = [role \in Roles |->
             IF Option(argument[role], field[role]) = Empty THEN DefaultCode[role]
             ELSE Option(argument[role], field[role])]
    /\ \E argument \in ModeTags \cup {Empty}, field \in ModeTags \cup {Empty, Absent} :
         IF Option(argument, field) = Empty THEN serving_mode \in Modes
         ELSE serving_mode = TagToServingMode(Option(argument, field))
    /\ earned = [i \in Ids |-> {}]
    /\ answer = "none"

-----------------------------------------------------------------------------
\* Fault: the code of Normal clients admits to Service.
CodeOfClients(role) == IF role = "Service" THEN codes["Normal"] ELSE codes[role]

(* The code that register_endpoint compares with for a role.               *)
CodeOf(role) == codes[role]

(* REG with an access code.                                                *)
RegisterWith(c, r, code) ==
    /\ r.code = (code # Empty /\ code = CodeOf(r.role))
    /\ Register(c, r)
    /\ earned' = [earned EXCEPT ![told'[c]] = {role \in Roles : codes[role] = code}]
    /\ answer' = "none"
    /\ UNCHANGED <<codes, serving_mode>>

(* Steps that have nothing to do with codes.                               *)
OtherStep(c) ==
    /\ \/ OnConnectionReady(c)
       \/ OnConnectionClosed(c)
       \/ \E targets \in SUBSET Ids : Kickout(c, targets)
    /\ answer' = "none"
    /\ UNCHANGED <<codes, serving_mode, earned>>

(* SETUP may name a new admin code only with the current one.              *)
Authorised(command) ==
    command.new_admin_code # Empty =>
        /\ command.access_code # Empty
        /\ command.access_code = codes["Admin"]

\* Fault: a new code is stored as it is given.
NewCodesAsGiven(command) ==
    [codes EXCEPT !["Admin"] = IF command.new_admin_code = Empty THEN @
                               ELSE command.new_admin_code,
                  !["Normal"] = command.new_access_code]

(* The codes after SETUP; that of the services cannot be changed.          *)
NewCodes(command) ==
    [codes EXCEPT !["Admin"] = IF command.new_admin_code = Empty THEN @
                               ELSE command.new_admin_code,
                  !["Normal"] = IF command.new_access_code = Empty THEN @
                                ELSE command.new_access_code]

\* Fault: the mode is stored before it is found to be invalid.
SetupStoringMode(command) ==
    \/ /\ ~Authorised(command)
       /\ answer' = "unauthorised"
       /\ UNCHANGED <<codes, serving_mode>>
    \/ /\ Authorised(command)
       /\ codes' = NewCodes(command)
       /\ serving_mode' = IF command.mode = Empty THEN serving_mode
                          ELSE TagToServingMode(command.mode)
       /\ answer' = IF command.mode # Empty /\ serving_mode' = "Undefined"
                    THEN "invalid mode" ELSE "success"

(* SwitchService::setup.  Codes are stored before the mode is looked at.   *)
Setup(command) ==
    \/ /\ ~Authorised(command)
       /\ answer' = "unauthorised"
       /\ UNCHANGED <<codes, serving_mode>>
    \/ /\ Authorised(command)
       /\ codes' = NewCodes(command)
       /\ \/ /\ command.mode = Empty
             /\ answer' = "success"
             /\ UNCHANGED serving_mode
          \/ /\ command.mode # Empty
             /\ TagToServingMode(command.mode) = "Undefined"
             /\ answer' = "invalid mode"
             /\ UNCHANGED serving_mode
          \/ /\ command.mode # Empty
             /\ TagToServingMode(command.mode) # "Undefined"
             /\ answer' = "success"
             /\ serving_mode' = TagToServingMode(command.mode)

(* SETUP by a registered client: only an admin may.                        *)
HandleSetup(c, command) ==
    /\ status[c] = "open"
    /\ Acting(c) # NoEp
    /\ \/ ep[Acting(c)].role = "Admin" /\ Setup(command)
       \/ /\ ep[Acting(c)].role # "Admin"
          /\ answer' = "denied"
          /\ UNCHANGED <<codes, serving_mode>>
    /\ UNCHANGED <<vars, earned>>

SetupNext ==
    \E c \in Conns :
        \/ OtherStep(c)
        \/ \E r \in Request, code \in Text : RegisterWith(c, r, code)
        \/ \E command \in SetupCommand : HandleSetup(c, command)

SetupSpec == SetupInit /\ [][SetupNext]_setupVars

-----------------------------------------------------------------------------
(* Whoever acts in a role has shown a code of that role, current when it   *)
(* was shown, for the endpoint it acts for: through role switches, through *)
(* takeovers and whatever SETUP makes of the codes in between, which takes *)
(* a role back from nobody.                                                *)
RoleEarned ==
    \A i \in Ids : endpoints[i] # NoEp => ep[endpoints[i]].role \in earned[i]

(* What an answer to SETUP tells of what was done.  Refused, nothing was;  *)
(* with an invalid mode the new codes are in force, although the answer is *)
(* an error, but the mode is as it was; and codes change only while a      *)
(* client is registered that has shown a code of the admins.               *)
SetupOutcome ==
    [][/\ serving_mode' # serving_mode => answer' = "success" /\ serving_mode' # "Undefined"
       /\ codes' # codes => /\ answer' \in {"invalid mode", "success"}
                            /\ \E i \in Ids : endpoints[i] # NoEp /\ "Admin" \in earned[i]]_setupVars
=============================================================================
