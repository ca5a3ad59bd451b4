----------------------------- MODULE ClientTraffic -----------------------------
(***************************************************************************)
(* What clients of the library do once they are connected: they call       *)
(* services, serve the calls of others, and set filters and print the      *)
(* copies of them that SCContext keeps.  Composes SwitchClient (the        *)
(* connections, REG and the messages in flight) with MessageRouting (what  *)
(* the server does with a command).                                        *)
(*                                                                         *)
(* A service request names its caller by the id in the context of the      *)
(* client, and the answer is sent to whoever holds that id when it comes.  *)
(* Nothing is sent again and nothing times out.                            *)
(***************************************************************************)
EXTENDS SwitchClient, MessageRouting

CONSTANTS
    Sessions,        \* sess_ids, drawn at random: no two calls share one
    NoClient,        \* the caller of a session that is not in use
    FilterCommands   \* the filter commands that the console of each sends

(* The lists of a filter that a command is about.                          *)
ListsOf(cmd) ==
    IF cmd \in {"FWD", "UNFWD"} THEN {"fwd_targets"}
    ELSE IF cmd \in {"SUB", "UNSUB"} THEN {"subs_sources", "subs_messages"}
    ELSE {"rej_sources", "rej_messages"}

(* The lists in which a command names something.                           *)
Named(command) == {list \in DOMAIN command.lists : command.lists[list] # {}}

(* A command of the console names ids or message types, in the lists it is *)
(* about.                                                                  *)
ASSUME TrafficAssumption ==
    /\ NoClient \notin Clients
    /\ FilterCommands \in [Clients -> SUBSET
           [cmd : {"FWD", "UNFWD", "SUB", "UNSUB", "REJECT", "UNREJECT"}, lists : Filter]]
    /\ \A k \in Clients : \A command \in FilterCommands[k] :
         Named(command) \in (SUBSET ListsOf(command.cmd)) \ {{}}

VARIABLES
    copies,  \* the five sets of each SCContext
    calls    \* what has become of each call: kept by nobody, for the properties

trafficVars == <<systemVars, filters, message_subscribers, sent, copies, calls>>

-----------------------------------------------------------------------------
(* A call: who made it, on which connection, to which connection the server*)
(* has passed it, and what has become of it.  A call that names no caller  *)
(* can only be refused; the connection of its service, or the caller's own,*)
(* may end before the answer comes.                                        *)
Call == [by : Clients \cup {NoClient}, from : AnyConn, via : AnyConn,
         fate : {"none", "waiting", "anonymous", "answered", "refused",
                 "service lost", "caller lost"}]

NoCall == [by |-> NoClient, from |-> NoConn, via |-> NoConn, fate |-> "none"]

(* A ServiceMessage; `ok` is the result code of an answer.                 *)
SvcMessage == [cmd : {"SVC", "SVC_RSP"}, source : AnyId, sess_id : Sessions,
               svc_type : SvcTypes, svc_cmd : MsgTypes, ok : BOOLEAN]

OfService(message) == message.cmd \in {"SVC", "SVC_RSP"}

(* The variables have their types.                                         *)
TrafficTypeOK ==
    /\ RoutingTypeOK
    /\ copies \in [Clients -> Filter]
    /\ calls \in [Sessions -> Call]
    /\ \A c \in Conns : \A n \in DOMAIN to_client[c] :
         OfService(to_client[c][n]) => to_client[c][n] \in SvcMessage

TrafficInit ==
    /\ ClientInit
    /\ filters = [o \in Eps |-> NoFilter]
    /\ message_subscribers = [m \in MsgTypes |-> {}]
    /\ sent = Quiet
    /\ copies = [k \in Clients |-> NoFilter]
    /\ calls = [s \in Sessions |-> NoCall]

-----------------------------------------------------------------------------
(* Steps of SwitchClient, with what they do to filters and calls.          *)
Unrouted == UNCHANGED <<filters, message_subscribers, sent>>

AfterRegistry ==
    /\ Forget
    /\ sent' = IF vars' = vars THEN sent ELSE Quiet
    /\ UNCHANGED message_subscribers

(* The calls after either end has lost connection c: nobody is told.       *)
Break(c) ==
    calls' = [s \in Sessions |->
        IF calls[s].fate \in {"waiting", "anonymous", "service lost"} /\ calls[s].from = c
        THEN [calls[s] EXCEPT !.fate = "caller lost"]
        ELSE IF calls[s].fate = "waiting" /\ calls[s].via = c
        THEN [calls[s] EXCEPT !.fate = "service lost"]
        ELSE calls[s]]

ConnectClient(k, c) == Connect(k, c) /\ AfterRegistry /\ UNCHANGED <<copies, calls>>

LoseConnection(k) ==
    ConnectionLost(k) /\ Break(peer[k]) /\ Unrouted /\ UNCHANGED copies

CloseConnection(c) ==
    /\ ServerClosed(c)
    /\ Break(c)
    /\ AfterRegistry
    /\ UNCHANGED copies

ServerRegisters(c) ==
    /\ to_server[c] # <<>>
    /\ Head(to_server[c]).cmd = "REG"
    /\ HandleCommand(c)
    /\ AfterRegistry
    /\ UNCHANGED <<copies, calls>>

ClientReadsResult(k) ==
    /\ Connected(k)
    /\ to_client[peer[k]] # <<>>
    /\ ~OfService(Head(to_client[peer[k]]))
    /\ HandleCommandResult(k)
    /\ Unrouted
    /\ UNCHANGED <<copies, calls>>

-----------------------------------------------------------------------------
\* Fault: the console has no case for its command ss_reject.
CopyWithoutRejects(f, command) ==
    [list \in DOMAIN f |->
        IF command.cmd \in {"FWD", "SUB"} THEN f[list] \cup command.lists[list]
        ELSE IF command.cmd = "REJECT" THEN f[list]
        ELSE f[list] \ command.lists[list]]

(* SCContext after a filter command of the console, SetForwardTargets ..   *)
(* RemoveRejectedMessages: whether or not it is sent, and accepted.        *)
Copy(f, command) ==
    [list \in DOMAIN f |->
        IF command.cmd \in {"FWD", "SUB", "REJECT"} THEN f[list] \cup command.lists[list]
        ELSE f[list] \ command.lists[list]]

ConsoleFilter(k) ==
    \E command \in FilterCommands[k] :
        /\ copies' = [copies EXCEPT ![k] = Copy(@, command)]
        /\ Post(k, command)
        /\ Unrouted
        /\ UNCHANGED <<vars, peer, context, to_client, calls>>

(* The server's side: refused where the sender is not registered.          *)
Filters(c, command) ==
    LET lists == command.lists
    IN \/ command.cmd = "FWD" /\ Forward(c, lists.fwd_targets)
       \/ command.cmd = "UNFWD" /\ Unforward(c, lists.fwd_targets)
       \/ command.cmd = "SUB" /\ Subscribe(c, lists.subs_sources, lists.subs_messages)
       \/ command.cmd = "UNSUB" /\ Unsubscribe(c, lists.subs_sources, lists.subs_messages)
       \/ command.cmd = "REJECT" /\ Reject(c, lists.rej_sources, lists.rej_messages)
       \/ command.cmd = "UNREJECT" /\ Unreject(c, lists.rej_sources, lists.rej_messages)

ServerFilters(c) ==
    /\ status[c] = "open"
    /\ to_server[c] # <<>>
    /\ Head(to_server[c]).cmd \notin {"REG", "SVC", "SVC_RSP"}
    /\ LET command == Head(to_server[c])
       IN \/ /\ Filters(c, command)
             /\ Answer(c, [Error(command.cmd) EXCEPT !.ok = TRUE])
          \/ /\ ~Acts(c)
             /\ UNCHANGED vars
             /\ Unrouted
             /\ Answer(c, Error(command.cmd))
    /\ UNCHANGED <<copies, calls>>

-----------------------------------------------------------------------------
\* Fault: a call names no caller.
SourceUnknown(k) == NoId

(* The id that a request names as its caller.                              *)
SourceOf(k) == context[k].endpoint_id

(* The application calls a service.  Not connected, nothing is sent.       *)
RequestService(k, s, t, svc_cmd) ==
    /\ calls[s].fate = "none"
    /\ Connected(k)
    /\ calls' = [calls EXCEPT ![s] =
           [by |-> k, from |-> peer[k], via |-> NoConn,
            fate |-> IF context[k].endpoint_id = NoId THEN "anonymous" ELSE "waiting"]]
    /\ Post(k, [cmd |-> "SVC", source |-> SourceOf(k), sess_id |-> s,
                svc_type |-> t, svc_cmd |-> svc_cmd, ok |-> TRUE])
    /\ Unrouted
    /\ UNCHANGED <<vars, peer, context, to_client, copies>>

(* The queues after the server has read the next message of c and written  *)
(* `out` to the connections `to`; what is written to a client that has gone*)
(* is lost.                                                                *)
Deliver(c, to, out) ==
    /\ to_server' = [to_server EXCEPT ![c] = Tail(@)]
    /\ to_client' = [d \in Conns |->
           IF d \in to /\ ~Orphan(d) THEN Append(to_client[d], out) ELSE to_client[d]]
    /\ UNCHANGED <<peer, context, copies>>

Refusal(message) == [message EXCEPT !.cmd = "SVC_RSP", !.ok = FALSE]

\* Fault: the sender is answered with an error in any case.
RefusedAnyway(c, message) == Deliver(c, {ep[o].conn : o \in sent'.to} \cup {c}, Refusal(message))

(* A request goes to the service that was found, or back with an error.    *)
Pass(c, message) ==
    IF sent'.to = {} THEN Deliver(c, {c}, Refusal(message))
    ELSE Deliver(c, {ep[o].conn : o \in sent'.to}, message)

(* The call that has been passed to connection d: perhaps one that the     *)
(* service has left already.                                               *)
Assigned(call, d) ==
    [call EXCEPT !.via = d,
                 !.fate = IF @ = "waiting" /\ d # NoConn /\ Orphan(d) THEN "service lost" ELSE @]

ServerServes(c) ==
    /\ status[c] = "open"
    /\ to_server[c] # <<>>
    /\ Head(to_server[c]).cmd = "SVC"
    /\ LET message == Head(to_server[c])
       IN \/ /\ ServiceRequest(c, message.svc_type, message.svc_cmd)
             /\ Pass(c, message)
             /\ \E d \in IF sent'.to = {} THEN {NoConn} ELSE {ep[o].conn : o \in sent'.to} :
                    calls' = [calls EXCEPT ![message.sess_id] = Assigned(@, d)]
          \/ /\ ~Acts(c)
             /\ UNCHANGED <<vars, calls>>
             /\ Unrouted
             /\ Deliver(c, {c}, Refusal(message))

\* Fault: the service puts its own id in place of the caller's.
AnsweredByMe(k, message) ==
    {[message EXCEPT !.cmd = "SVC_RSP", !.source = SourceOf(k), !.ok = ok] : ok \in BOOLEAN}

(* HandleServiceRequest answers in the message it received, with the result*)
(* code of the application.                                                *)
ServiceAnswer(k, message) == {[message EXCEPT !.cmd = "SVC_RSP", !.ok = ok] : ok \in BOOLEAN}

ClientServes(k) ==
    /\ Connected(k)
    /\ to_client[peer[k]] # <<>>
    /\ Head(to_client[peer[k]]).cmd = "SVC"
    /\ \E answer \in ServiceAnswer(k, Head(to_client[peer[k]])) :
         to_server' = [to_server EXCEPT ![peer[k]] = Append(@, answer)]
    /\ to_client' = [to_client EXCEPT ![peer[k]] = Tail(@)]
    /\ Unrouted
    /\ UNCHANGED <<vars, peer, context, copies, calls>>

(* The server passes an answer on to the id that the request named.        *)
ServerAnswers(c) ==
    /\ status[c] = "open"
    /\ to_server[c] # <<>>
    /\ Head(to_server[c]).cmd = "SVC_RSP"
    /\ LET message == Head(to_server[c])
       IN \/ /\ message.source \in Ids
             /\ ServiceResponse(c, message.svc_type, message.svc_cmd, message.source)
             /\ Deliver(c, {ep[o].conn : o \in sent'.to}, message)
          \/ /\ message.source = NoId
             /\ Acts(c)
             /\ UNCHANGED vars
             /\ Unrouted
             /\ Deliver(c, {}, message)
          \/ /\ ~Acts(c)
             /\ UNCHANGED vars
             /\ Unrouted
             /\ Deliver(c, {c}, Refusal(message))
    /\ UNCHANGED calls

(* The caller reads the answer: HandleServiceResult, or an error message.  *)
ClientReadsAnswer(k) ==
    /\ Connected(k)
    /\ to_client[peer[k]] # <<>>
    /\ Head(to_client[peer[k]]).cmd = "SVC_RSP"
    /\ LET message == Head(to_client[peer[k]])
           s == message.sess_id
       IN calls' = IF calls[s].from # peer[k] \/ calls[s].fate = "caller lost" THEN calls
                   ELSE [calls EXCEPT ![s].fate = IF message.ok THEN "answered" ELSE "refused"]
    /\ to_client' = [to_client EXCEPT ![peer[k]] = Tail(@)]
    /\ Unrouted
    /\ UNCHANGED <<vars, peer, context, to_server, copies>>

-----------------------------------------------------------------------------
ServeConnectionTraffic(c) ==
    \/ ServerRegisters(c)
    \/ ServerFilters(c)
    \/ ServerServes(c)
    \/ ServerAnswers(c)
    \/ (status[c] = "closing" \/ Orphan(c)) /\ CloseConnection(c)

ServePeerTraffic(k) ==
    \/ ClientReadsResult(k)
    \/ ClientServes(k)
    \/ ClientReadsAnswer(k)
    \/ (Connected(k) => ~Online(peer[k])) /\ LoseConnection(k)

TrafficNext ==
    \/ \E k \in Clients :
         \/ \E c \in Conns : ConnectClient(k, c)
         \/ LoseConnection(k)
         \/ ConsoleFilter(k)
         \/ \E s \in Sessions, t \in SvcTypes, svc_cmd \in MsgTypes :
              RequestService(k, s, t, svc_cmd)
         \/ ClientReadsResult(k)
         \/ ClientServes(k)
         \/ ClientReadsAnswer(k)
    \/ \E c \in Conns :
         \/ CloseConnection(c)
         \/ ServerRegisters(c)
         \/ ServerFilters(c)
         \/ ServerServes(c)
         \/ ServerAnswers(c)

TrafficSpec == TrafficInit /\ [][TrafficNext]_trafficVars

(* The event loops serve their connections, as in SwitchClient.            *)
TrafficFairness ==
    /\ \A c \in Conns : WF_trafficVars(ServeConnectionTraffic(c))
    /\ \A k \in Clients : WF_trafficVars(ServePeerTraffic(k))

FairTrafficSpec == TrafficSpec /\ TrafficFairness

-----------------------------------------------------------------------------
(* The messages of session s that are on the way, by connection, direction *)
(* and place in the queue.                                                 *)
OnTheWay(s, queues) ==
    UNION {{<<c, n>> : n \in {n \in DOMAIN queues[c] :
                OfService(queues[c][n]) /\ queues[c][n].sess_id = s}} : c \in Conns}

(* A call is one message at a time, request or answer: it is never answered*)
(* twice, nor passed on and refused; and while the connections of the      *)
(* caller and of the service last, a call that names its caller is never   *)
(* dropped.                                                                *)
OneMessagePerCall ==
    \A s \in Sessions :
        LET n == Cardinality(OnTheWay(s, to_server)) + Cardinality(OnTheWay(s, to_client))
        IN /\ n <= 1
           /\ calls[s].fate = "waiting" => n = 1
           /\ calls[s].fate \in {"answered", "refused"} => n = 0

(* While the connection of the caller lasts, the answer to its call goes to*)
(* that connection and to nobody else.  The server goes by the id that the *)
(* request named, which the caller was told, perhaps on an earlier         *)
(* connection.                                                             *)
AnswersReachCaller ==
    \A s \in Sessions : calls[s].fate # "caller lost" =>
        \A m \in OnTheWay(s, to_client) :
            to_client[m[1]][m[2]].cmd = "SVC_RSP" => m[1] = calls[s].from

(* A call comes to an end: its caller reads an answer or a refusal, or one *)
(* of the two connections is lost.  Nothing sends a call again.            *)
CallsEnd == \A s \in Sessions : calls[s].fate = "waiting" ~> calls[s].fate # "waiting"

(* What the server filters for a client, once nothing is on the way, is    *)
(* among what the client shows (ss_status): it may show more, since its    *)
(* copies outlive the connection and take refused commands in.             *)
FiltersShown ==
    \A k \in Clients :
        LET o == Acting(peer[k])
        IN Connected(k) /\ status[peer[k]] = "open" /\ o # NoEp /\ Answering(peer[k]) = 0 =>
               \A list \in DOMAIN copies[k] : filters[o][list] \subseteq copies[k][list]

(* A node that serves only clients of the library is one of MessageRouting *)
(* whose clients keep to one id per connection: what is proved of those    *)
(* holds of this system.                                                   *)
TameNode == INSTANCE MessageRouting WITH OneIdPerConnection <- TRUE

ClientsRoute == TameNode!RoutingSpec
=============================================================================
