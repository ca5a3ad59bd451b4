----------------------------- MODULE SwitchClient -----------------------------
(***************************************************************************)
(* Clients of the library (libswitch_client) and the registry they talk to *)
(* over TCP: SCPeer's connection, the registration state in SCContext, and *)
(* the handlers of SCCommandHandler that write it.  Each client is a       *)
(* process with an event loop of its own; a step is one callback, or one   *)
(* call of the application (the console) into the library, of one side.    *)
(*                                                                         *)
(* Commands and results in flight are a queue per connection and           *)
(* direction.  Either end may lose the connection at any time, and notices *)
(* it by itself: the other end learns of it later.                         *)
(***************************************************************************)
EXTENDS EndpointRegistry, Sequences

CONSTANTS
    Clients,       \* processes that use the library
    OptionRoles,   \* the roles that each client may be configured with
    ClientRoles,   \* the roles that the application of each asks for
    NamedIds,      \* the ids that the application of each may name in a REG
    Kickouts,      \* the target lists that the application of each kicks out
    CodeRoles,     \* the roles that the configured access code admits to
    MaxUnanswered  \* commands an application has on the way at a time

ASSUME ClientAssumption ==
    /\ OptionRoles \in [Clients -> SUBSET Roles]
    /\ ClientRoles \in [Clients -> SUBSET Roles]
    /\ NamedIds \in [Clients -> SUBSET Ids]
    /\ Kickouts \in [Clients -> SUBSET SUBSET Ids]
    /\ CodeRoles \subseteq Roles
    /\ MaxUnanswered \in Nat \ {0}

VARIABLES
    peer,       \* the connection of a client (SCPeer), NoConn: not connected
    context,    \* SCContext of each client
    to_server,  \* commands on the way, by connection
    to_client   \* results on the way, by connection

clientVars == <<peer, context, to_server, to_client>>
systemVars == <<vars, clientVars>>

-----------------------------------------------------------------------------
(* SCContext, as far as it is about registration: `failed` stands for a    *)
(* register_errmsg that is not empty.                                      *)
Context == [is_registered : BOOLEAN, failed : BOOLEAN, endpoint_id : AnyId,
            role : Roles, svc_type : SvcTypes]

Command == [cmd : {"REG"}, reg : Request]
           \cup [cmd : {"KICKOUT"}, targets : SUBSET Ids]

(* A result; role "Undefined" is the 0 of CommandResultRegister::role.     *)
Result == [cmd : {"REG", "KICKOUT"}, ok : BOOLEAN, id : AnyId,
           role : Roles \cup {"Undefined"}]

Error(cmd) == [cmd |-> cmd, ok |-> FALSE, id |-> NoId, role |-> "Undefined"]

(* The success of KICKOUT, which the client kicked out is sent as well.    *)
KickedOut == [Error("KICKOUT") EXCEPT !.ok = TRUE]

(* The variables have their types.                                         *)
ClientTypeOK ==
    /\ TypeOK
    /\ peer \in [Clients -> AnyConn]
    /\ context \in [Clients -> Context]
    /\ to_server \in [Conns -> Seq(Command)]
    /\ to_client \in [Conns -> Seq(Result)]

Connected(k) == peer[k] # NoConn

Answering(c) == Len(to_server[c]) + Len(to_client[c])

ClientInit ==
    /\ Init
    /\ peer = [k \in Clients |-> NoConn]
    /\ \E role \in [Clients -> Roles], svc_type \in [Clients -> SvcTypes] :
         /\ \A k \in Clients : role[k] \in OptionRoles[k]
         /\ context = [k \in Clients |->
                [is_registered |-> FALSE, failed |-> FALSE, endpoint_id |-> NoId,
                 role |-> role[k], svc_type |-> svc_type[k]]]
    /\ to_server = [c \in Conns |-> <<>>]
    /\ to_client = [c \in Conns |-> <<>>]

-----------------------------------------------------------------------------
\* Fault: the id of the context does not stand in for an id of 0.
AskedAsGiven(k, ep_id) == ep_id

(* The id SCCommandHandler::Register asks for when called with ep_id.      *)
AskedId(k, ep_id) == IF ep_id # NoId THEN ep_id ELSE context[k].endpoint_id

\* Fault: a client registers when it is connected and once more after that.
RegisterSelfTwice(k) ==
    [n \in 1 .. 2 |->
        [cmd |-> "REG",
         reg |-> [id |-> AskedId(k, context[k].endpoint_id),
                  role |-> context[k].role, svc_type |-> context[k].svc_type,
                  token |-> FALSE, code |-> context[k].role \in CodeRoles]]]

(* What a client sends first on a connection.                              *)
RegisterSelf(k) ==
    <<[cmd |-> "REG",
       reg |-> [id |-> AskedId(k, context[k].endpoint_id),
                role |-> context[k].role, svc_type |-> context[k].svc_type,
                token |-> FALSE, code |-> context[k].role \in CodeRoles]]>>

(* SCPeer::Connect or Reconnect, with the RegisterSelf of its callback.    *)
(* The server's OnConnectionReady comes before anything it reads from the  *)
(* connection; it is part of this step.                                    *)
Connect(k, c) ==
    /\ ~Connected(k)
    /\ \A j \in Clients : peer[j] # c
    /\ OnConnectionReady(c)
    /\ peer' = [peer EXCEPT ![k] = c]
    /\ to_server' = [to_server EXCEPT ![c] = RegisterSelf(k)]
    /\ to_client' = [to_client EXCEPT ![c] = <<>>]
    /\ UNCHANGED context

(* The client sees its connection end; what was sent to it is lost, what   *)
(* it sent may still arrive.                                               *)
ConnectionLost(k) ==
    /\ Connected(k)
    /\ peer' = [peer EXCEPT ![k] = NoConn]
    /\ to_client' = [to_client EXCEPT ![peer[k]] = <<>>]
    /\ UNCHANGED <<vars, context, to_server>>

Post(k, command) ==
    IF Connected(k)
    THEN /\ Answering(peer[k]) < MaxUnanswered
         /\ to_server' = [to_server EXCEPT ![peer[k]] = Append(@, command)]
    ELSE UNCHANGED to_server

(* The application registers, again or in another role or service type.    *)
(* The context takes these over at once, connected or not.                 *)
RegisterAs(k, ep_id, role, svc_type, token, code) ==
    /\ context' = [context EXCEPT ![k].role = role, ![k].svc_type = svc_type]
    /\ Post(k, [cmd |-> "REG",
                reg |-> [id |-> AskedId(k, ep_id), role |-> role,
                         svc_type |-> svc_type, token |-> token, code |-> code]])
    /\ UNCHANGED <<vars, peer, to_client>>

(* ss_register names an id with --id, whose default is that of the options *)
(* (SwitchClient::ID), or none.  A token that the client holds is that of  *)
(* an id it was told; of which one, if of several, is not kept here.       *)
AppRegister(k) ==
    \E ep_id \in {NoId} \cup NamedIds[k], role \in ClientRoles[k],
      svc_type \in SvcTypes, token, code \in BOOLEAN :
        /\ token => MayTakeOver /\ context[k].is_registered
        /\ RegisterAs(k, ep_id, role, svc_type, token, code)

AppKickout(k) ==
    \E targets \in Kickouts[k] :
        /\ Post(k, [cmd |-> "KICKOUT", targets |-> targets])
        /\ UNCHANGED <<vars, peer, context, to_client>>

-----------------------------------------------------------------------------
(* What a step of the server sends: kickout_endpoint tells a connection    *)
(* before it disconnects it, for KICKOUT and for a takeover; the answer    *)
(* comes last.  What is sent to a client that has gone is lost.            *)
Sent(c, answer) ==
    [d \in Conns |->
        LET kicked == status[d] = "open" /\ status'[d] = "closing"
        IN IF \E k \in Clients : peer[k] = d
           THEN (IF kicked THEN <<KickedOut>> ELSE <<>>)
                \o (IF c = d THEN answer ELSE <<>>)
           ELSE <<>>]

\* Fault: an error is not answered.
AnswerSuccess(c, result) ==
    /\ to_server' = [to_server EXCEPT ![c] = Tail(@)]
    /\ to_client' = [d \in Conns |->
           to_client[d] \o Sent(c, IF result.ok THEN <<result>> ELSE <<>>)[d]]
    /\ UNCHANGED <<peer, context>>

(* The server has read the next command of a connection and answers it.    *)
Answer(c, result) ==
    /\ to_server' = [to_server EXCEPT ![c] = Tail(@)]
    /\ to_client' = [d \in Conns |-> to_client[d] \o Sent(c, <<result>>)[d]]
    /\ UNCHANGED <<peer, context>>

(* A REG that register_endpoint answers with an error.                     *)
Refused(c, r) ==
    \/ ~r.code
    \/ /\ r.id # NoId
       /\ endpoints[r.id] # NoEp
       /\ \E same \in SameFD(c, endpoints[r.id]) : ~Entitled(same, r)

(* The role is reported when it was switched.                              *)
ReportedRole(r, i) ==
    IF endpoints[i] # NoEp /\ ep[endpoints[i]].role # r.role THEN r.role
                                                             ELSE "Undefined"

HandleRegister(c, r) ==
    \/ /\ Register(c, r)
       /\ Answer(c, [cmd |-> "REG", ok |-> TRUE, id |-> told'[c],
                     role |-> ReportedRole(r, told'[c])])
    \/ /\ Refused(c, r)
       /\ UNCHANGED vars
       /\ Answer(c, Error("REG"))

HandleKickout(c, targets) ==
    \/ /\ Kickout(c, targets)
       /\ Answer(c, KickedOut)
    \/ /\ Acting(c) # NoEp => ep[Acting(c)].role # "Admin" \/ targets = {}
       /\ UNCHANGED vars
       /\ Answer(c, Error("KICKOUT"))

HandleCommand(c) ==
    /\ status[c] = "open"
    /\ to_server[c] # <<>>
    /\ LET command == Head(to_server[c])
       IN \/ command.cmd = "REG" /\ HandleRegister(c, command.reg)
          \/ command.cmd = "KICKOUT" /\ HandleKickout(c, command.targets)

(* The server sees a connection end, or runs the close it asked for; what  *)
(* it has not read is lost, what it sent may still arrive.                 *)
ServerClosed(c) ==
    /\ OnConnectionClosed(c)
    /\ to_server' = [to_server EXCEPT ![c] = <<>>]
    /\ UNCHANGED <<peer, context, to_client>>

-----------------------------------------------------------------------------
\* Fault: the role of the result is taken although it is 0.
WithResultRole(x, result) ==
    [x EXCEPT !.is_registered = TRUE, !.failed = FALSE,
              !.endpoint_id = result.id, !.role = result.role]

\* Fault: an id that the context has is kept.
WithFirstId(x, result) ==
    [x EXCEPT !.is_registered = TRUE, !.failed = FALSE,
              !.endpoint_id = IF @ = NoId THEN result.id ELSE @,
              !.role = IF result.role # "Undefined" THEN result.role ELSE @]

(* SCContext after HandleRegisterResult.                                   *)
WithResult(x, result) ==
    [x EXCEPT !.is_registered = TRUE, !.failed = FALSE,
              !.endpoint_id = result.id,
              !.role = IF result.role # "Undefined" THEN result.role ELSE @]

(* The client reads the next result (SCCommandHandler::HandleCommandResult).*)
HandleCommandResult(k) ==
    /\ Connected(k)
    /\ to_client[peer[k]] # <<>>
    /\ LET result == Head(to_client[peer[k]])
       IN context' = [context EXCEPT ![k] =
              IF result.cmd # "REG" THEN @
              ELSE IF result.ok THEN WithResult(@, result)
              ELSE [@ EXCEPT !.failed = TRUE]]
    /\ to_client' = [to_client EXCEPT ![peer[k]] = Tail(@)]
    /\ UNCHANGED <<vars, peer, to_server>>

ClientNext ==
    \/ \E k \in Clients :
         \/ \E c \in Conns : Connect(k, c)
         \/ ConnectionLost(k)
         \/ AppRegister(k)
         \/ AppKickout(k)
         \/ HandleCommandResult(k)
    \/ \E c \in Conns : HandleCommand(c) \/ ServerClosed(c)

ClientSpec == ClientInit /\ [][ClientNext]_systemVars

(* An event loop serves each of its connections: it reads what has arrived,*)
(* is told by TCP in the end that the other side has gone, and the server's*)
(* runs the closes it was asked for.                                       *)
Orphan(c) == \A k \in Clients : peer[k] # c

ServeConnection(c) ==
    \/ HandleCommand(c)
    \/ (status[c] = "closing" \/ Orphan(c)) /\ ServerClosed(c)

ServePeer(k) ==
    \/ HandleCommandResult(k)
    \/ (Connected(k) => ~Online(peer[k])) /\ ConnectionLost(k)

ClientFairness ==
    /\ \A c \in Conns : WF_systemVars(ServeConnection(c))
    /\ \A k \in Clients : WF_systemVars(ServePeer(k))

FairClientSpec == ClientSpec /\ ClientFairness

-----------------------------------------------------------------------------
(* Applications leave the id to the library: they give ss_register no --id,*)
(* and the options, whose id is its default, have none.                    *)
NoneNamed == \A k \in Clients : NamedIds[k] = {}

(* Where applications name no id (NoneNamed), wait for an answer before the*)
(* next command and present no token, clients of the library keep the      *)
(* discipline that the registry's stronger theorems assume: one id per     *)
(* connection, through reconnections, refusals and lost answers.  Where    *)
(* they name ids they do not: AppRegister may register a second one.       *)
Tame == INSTANCE EndpointRegistry WITH OneIdPerConnection <- TRUE

ClientsAreTame == Tame!Spec

(* The last REG of a client was answered with success, none is on the way, *)
(* and the server has not closed the connection.                           *)
Settled(k) ==
    /\ Connected(k)
    /\ status[peer[k]] = "open"
    /\ Answering(peer[k]) = 0
    /\ context[k].is_registered
    /\ ~context[k].failed

(* Where applications name no id (NoneNamed), a client whose REG is settled*)
(* is registered under the id, role and service type that its context shows*)
(* (ss_status), and acts under them.                                       *)
ClientViewRight ==
    \A k \in Clients :
        LET c == peer[k]
            x == context[k]
        IN Settled(k) =>
               /\ connId[c] = x.endpoint_id
               /\ Acting(c) # NoEp
               /\ ep[Acting(c)].role = x.role
               /\ x.role = "Service" => ep[Acting(c)].svc_type = x.svc_type

(* Whatever ids applications name: the id that the context of a client     *)
(* shows once its REG is settled is the one the server has answered last on*)
(* this connection, it is in use, and unless its Endpoint sends elsewhere  *)
(* (to a connection that ended, or another's) it has the role and the      *)
(* service type that the context shows.                                    *)
ShownIsRegistered ==
    \A k \in Clients :
        LET c == peer[k]
            x == context[k]
        IN Settled(k) =>
               /\ told[c] = x.endpoint_id
               /\ endpoints[x.endpoint_id] # NoEp
               /\ LET e == ep[endpoints[x.endpoint_id]]
                  IN e.conn = c => /\ e.role = x.role
                                   /\ x.role = "Service" => e.svc_type = x.svc_type

(* The id of a client is not held for ever by a connection it has left: a  *)
(* REG refused for that reason, by a server that has not seen the older    *)
(* connection end yet, would be accepted later.                            *)
HeldByFormer(k) ==
    LET i == context[k].endpoint_id
    IN /\ i # NoId
       /\ endpoints[i] # NoEp
       /\ Orphan(ep[endpoints[i]].conn)

FormerForgotten == \A k \in Clients : HeldByFormer(k) ~> ~HeldByFormer(k)
=============================================================================
