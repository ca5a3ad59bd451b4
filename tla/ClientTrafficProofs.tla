-------------------------- MODULE ClientTrafficProofs --------------------------
(***************************************************************************)
(* Theorems about the traffic of library clients, for any number of them,  *)
(* of calls and of commands on the way: the whole is a node of             *)
(* MessageRouting, and one whose clients keep to one id per connection.    *)
(***************************************************************************)
EXTENDS ClientTraffic, SwitchClientProofs, MessageRoutingProofs

(* What these clients ask for, MessageRouting's node is asked for.         *)
Covered ==
    /\ {"SVC", "SVC_RSP"} \subseteq Commands
    /\ \A k \in Clients :
         /\ OptionRoles[k] \subseteq AskedRoles
         /\ \A command \in FilterCommands[k] :
              /\ command.cmd \in Commands
              /\ command.lists.fwd_targets \subseteq FwdIds
              /\ command.lists.subs_sources \subseteq SrcIds
              /\ command.lists.rej_sources \subseteq SrcIds

-----------------------------------------------------------------------------
(* What is on the way: the applications leave REG to the library.          *)
FilterNames == {"FWD", "UNFWD", "SUB", "UNSUB", "REJECT", "UNREJECT"}

OwnReg == [cmd : {"REG"}, reg : {r \in Request : r.role \in AskedRoles}]

ConsoleCommand ==
    {x \in [cmd : FilterNames, lists : Filter] :
        /\ x.cmd \in Commands
        /\ Named(x) \subseteq ListsOf(x.cmd)
        /\ x.lists.fwd_targets \subseteq FwdIds
        /\ x.lists.subs_sources \subseteq SrcIds
        /\ x.lists.rej_sources \subseteq SrcIds}

Upward == OwnReg \cup SvcMessage \cup ConsoleCommand

Downward ==
    SvcMessage \cup [cmd : {"REG", "KICKOUT"} \cup FilterNames, ok : BOOLEAN,
                     id : AnyId, role : AskedRoles \cup {"Undefined"}]

QueueInv ==
    /\ TypeOK
    /\ peer \in [Clients -> AnyConn]
    /\ context \in [Clients -> {x \in Context : x.role \in AskedRoles}]
    /\ to_server \in [Conns -> Seq(Upward)]
    /\ to_client \in [Conns -> Seq(Downward)]

LEMMA Answered ==
    ASSUME NEW T, NEW R, to_server \in [Conns -> Seq(T)], to_client \in [Conns -> Seq(R)],
           NEW c \in Conns, to_server[c] # <<>>, NEW result \in R, KickedOut \in R,
           Answer(c, result)
    PROVE  to_server' \in [Conns -> Seq(T)] /\ to_client' \in [Conns -> Seq(R)]
<1>1. Tail(to_server[c]) \in Seq(T)
  BY ElemsTail
<1>2. to_server' \in [Conns -> Seq(T)]
  BY <1>1 DEF Answer
<1>3. ASSUME NEW d \in Conns PROVE to_client'[d] \in Seq(R)
  <2>1. to_client'[d] = to_client[d] \o Sent(c, <<result>>)[d]
    BY DEF Answer
  <2>2. <<result>> \in Seq(R)
    OBVIOUS
  <2>3. to_client[d] \in Seq(R) /\ Sent(c, <<result>>)[d] \in Seq(R)
    BY <2>2, SentType
  <2> QED BY <2>1, <2>3, ElemsConcat
<1>4. to_client' = [d \in Conns |-> to_client'[d]]
  BY DEF Answer
<1> QED BY <1>2, <1>3, <1>4

LEMMA Delivered ==
    ASSUME NEW T, NEW R, to_server \in [Conns -> Seq(T)], to_client \in [Conns -> Seq(R)],
           NEW c \in Conns, to_server[c] # <<>>, NEW to, NEW out \in R, Deliver(c, to, out)
    PROVE  to_server' \in [Conns -> Seq(T)] /\ to_client' \in [Conns -> Seq(R)]
<1>1. Tail(to_server[c]) \in Seq(T)
  BY ElemsTail
<1>2. to_server' \in [Conns -> Seq(T)]
  BY <1>1 DEF Deliver
<1>3. \A d \in Conns : Append(to_client[d], out) \in Seq(R)
  OBVIOUS
<1>4. to_client' \in [Conns -> Seq(R)]
  BY <1>3 DEF Deliver
<1> QED BY <1>2, <1>4

LEMMA Posted ==
    ASSUME NEW T, to_server \in [Conns -> Seq(T)], peer \in [Clients -> AnyConn],
           NEW k \in Clients, NEW command \in T, Post(k, command)
    PROVE  to_server' \in [Conns -> Seq(T)]
<1>1. CASE Connected(k)
  <2>1. peer[k] \in Conns
    BY <1>1 DEF Connected, AnyConn
  <2>2. Append(to_server[peer[k]], command) \in Seq(T)
    BY <2>1
  <2> QED BY <1>1, <2>1, <2>2 DEF Post
<1>2. CASE ~Connected(k)
  BY <1>2 DEF Post
<1> QED BY <1>1, <1>2

-----------------------------------------------------------------------------
(* What each of the server's steps reads and does.                         *)
LEMMA HeadUpward ==
    ASSUME QueueInv, NEW c \in Conns, to_server[c] # <<>>
    PROVE  Head(to_server[c]) \in Upward
BY ElemsTail DEF QueueInv

LEMMA UpwardCases ==
    ASSUME NEW x \in Upward
    PROVE  /\ x.cmd = "REG" => /\ x.reg \in Request /\ x.reg.role \in AskedRoles
                               /\ x = [cmd |-> "REG", reg |-> x.reg]
           /\ x.cmd \in {"SVC", "SVC_RSP"} => x \in SvcMessage
           /\ x.cmd \notin {"REG", "SVC", "SVC_RSP"} => x \in ConsoleCommand
BY DEF Upward, OwnReg, SvcMessage, ConsoleCommand, FilterNames

LEMMA RegisterCasesOfTraffic ==
    ASSUME QueueInv, NEW c \in Conns, ServerRegisters(c)
    PROVE  \E r \in Request :
             /\ r.role \in AskedRoles
             /\ Head(to_server[c]) = [cmd |-> "REG", reg |-> r]
             /\ Registers(c, r) \/ (UNCHANGED vars /\ Answer(c, Error("REG")))
<1> DEFINE x == Head(to_server[c])
<1>1. x \in Upward /\ x.cmd = "REG"
  BY HeadUpward DEF ServerRegisters
<1>2. x.reg \in Request /\ x.reg.role \in AskedRoles /\ x = [cmd |-> "REG", reg |-> x.reg]
  BY <1>1, UpwardCases
<1>3. HandleRegister(c, x.reg)
  BY <1>1 DEF ServerRegisters, HandleCommand
<1> HIDE DEF x
<1>4. Registers(c, x.reg) \/ (UNCHANGED vars /\ Answer(c, Error("REG")))
  BY <1>3 DEF HandleRegister, Registers
<1> QED BY <1>2, <1>4 DEF x

LEMMA FilterCases ==
    ASSUME QueueInv, NEW c \in Conns, ServerFilters(c)
    PROVE  /\ to_server[c] # <<>> /\ Head(to_server[c]) \in ConsoleCommand
           /\ \/ /\ FilterStep(c)
                 /\ Answer(c, [Error(Head(to_server[c]).cmd) EXCEPT !.ok = TRUE])
              \/ /\ UNCHANGED routingVars
                 /\ Answer(c, Error(Head(to_server[c]).cmd))
<1> DEFINE x == Head(to_server[c])
<1>1. to_server[c] # <<>> /\ x \in ConsoleCommand
  BY HeadUpward, UpwardCases DEF ServerFilters
<1>2. ASSUME Filters(c, x) PROVE FilterStep(c)
  <2>1. /\ x.lists.fwd_targets \in SUBSET FwdIds
        /\ x.lists.subs_sources \in SUBSET SrcIds /\ x.lists.rej_sources \in SUBSET SrcIds
        /\ x.lists.subs_messages \in SUBSET MsgTypes
        /\ x.lists.rej_messages \in SUBSET MsgTypes
        /\ x.cmd \in Commands
    BY <1>1 DEF ConsoleCommand, Filter
  <2> HIDE DEF x
  <2> QED BY <1>2, <2>1 DEF Filters, FilterStep
<1>3. \/ Filters(c, x) /\ Answer(c, [Error(x.cmd) EXCEPT !.ok = TRUE])
      \/ UNCHANGED routingVars /\ Answer(c, Error(x.cmd))
  BY DEF ServerFilters, Unrouted, routingVars
<1> QED BY <1>1, <1>2, <1>3

(* The calls of services are steps of the node, or leave it alone.         *)
LEMMA ServeCases ==
    ASSUME Covered, QueueInv, NEW c \in Conns, ServerServes(c)
    PROVE  /\ to_server[c] # <<>> /\ Head(to_server[c]) \in SvcMessage
           /\ SendStep(c) \/ UNCHANGED routingVars
           /\ UNCHANGED vars
           /\ \E to : \E out \in SvcMessage : Deliver(c, to, out)
<1> DEFINE x == Head(to_server[c])
<1>1. to_server[c] # <<>> /\ x \in SvcMessage
  BY HeadUpward, UpwardCases DEF ServerServes
<1>2. x.svc_type \in SvcTypes /\ x.svc_cmd \in MsgTypes /\ Refusal(x) \in SvcMessage
  BY <1>1 DEF SvcMessage, Refusal
<1>3. \/ ServiceRequest(c, x.svc_type, x.svc_cmd) /\ Pass(c, x)
      \/ UNCHANGED routingVars /\ Deliver(c, {c}, Refusal(x))
  BY DEF ServerServes, Unrouted, routingVars
<1> HIDE DEF x
<1>4. SendStep(c) \/ UNCHANGED routingVars
  BY <1>2, <1>3 DEF SendStep, Covered
<1>5. UNCHANGED vars
  BY <1>3 DEF ServiceRequest, Send, routingVars
<1>6. \E to : \E out \in SvcMessage : Deliver(c, to, out)
  BY <1>1, <1>2, <1>3 DEF Pass
<1> QED BY <1>1, <1>4, <1>5, <1>6 DEF x

LEMMA AnswerCases ==
    ASSUME Covered, QueueInv, NEW c \in Conns, ServerAnswers(c)
    PROVE  /\ to_server[c] # <<>> /\ Head(to_server[c]) \in SvcMessage
           /\ SendStep(c) \/ UNCHANGED routingVars
           /\ UNCHANGED vars
           /\ \E to : \E out \in SvcMessage : Deliver(c, to, out)
<1> DEFINE x == Head(to_server[c])
<1>1. to_server[c] # <<>> /\ x \in SvcMessage
  BY HeadUpward, UpwardCases DEF ServerAnswers
<1>2. x.svc_type \in SvcTypes /\ x.svc_cmd \in MsgTypes /\ Refusal(x) \in SvcMessage
  BY <1>1 DEF SvcMessage, Refusal
<1>3. \/ /\ x.source \in Ids
         /\ ServiceResponse(c, x.svc_type, x.svc_cmd, x.source)
         /\ Deliver(c, {ep[o].conn : o \in sent'.to}, x)
      \/ UNCHANGED routingVars /\ Deliver(c, {}, x)
      \/ UNCHANGED routingVars /\ Deliver(c, {c}, Refusal(x))
  BY DEF ServerAnswers, Unrouted, routingVars
<1> HIDE DEF x
<1>4. SendStep(c) \/ UNCHANGED routingVars
  BY <1>2, <1>3 DEF SendStep, Covered
<1>5. UNCHANGED vars
  BY <1>3 DEF ServiceResponse, Send, routingVars
<1>6. \E to : \E out \in SvcMessage : Deliver(c, to, out)
  BY <1>1, <1>2, <1>3
<1> QED BY <1>1, <1>4, <1>5, <1>6 DEF x

-----------------------------------------------------------------------------
(* The steps of the whole are steps of the registry, or leave it alone.    *)
LEMMA RegistryStepOfTraffic ==
    ASSUME Covered, QueueInv, [TrafficNext]_trafficVars PROVE [Next]_vars
<1>1. ASSUME NEW c \in Conns, ServerRegisters(c) PROVE [Next]_vars
  BY <1>1, RegisterCasesOfTraffic DEF Registers, Next
<1>2. ASSUME NEW c \in Conns, ServerFilters(c) PROVE UNCHANGED vars
  BY <1>2, FilterCases, RegistryUntouched DEF routingVars
<1>3. ASSUME NEW c \in Conns, ServerServes(c) \/ ServerAnswers(c) PROVE UNCHANGED vars
  BY <1>3, ServeCases, AnswerCases
<1>4. ASSUME NEW c \in Conns, CloseConnection(c) PROVE [Next]_vars
  BY <1>4 DEF CloseConnection, ServerClosed, Next
<1>5. ASSUME NEW k \in Clients, NEW c \in Conns, ConnectClient(k, c) PROVE [Next]_vars
  BY <1>5, Zenon DEF ConnectClient, Connect, Next
<1>6. ASSUME NEW k \in Clients,
             \/ LoseConnection(k) \/ ConsoleFilter(k) \/ ClientReadsResult(k)
             \/ ClientServes(k) \/ ClientReadsAnswer(k)
             \/ \E s \in Sessions, t \in SvcTypes, svc_cmd \in MsgTypes :
                  RequestService(k, s, t, svc_cmd)
      PROVE  UNCHANGED vars
  BY <1>6 DEF LoseConnection, ConnectionLost, ConsoleFilter, ClientReadsResult,
              HandleCommandResult, ClientServes, ClientReadsAnswer, RequestService
<1>7. CASE UNCHANGED trafficVars
  BY <1>7 DEF trafficVars, systemVars
<1> QED BY <1>1, <1>2, <1>3, <1>4, <1>5, <1>6, <1>7 DEF TrafficNext

LEMMA OwnRegSent ==
    ASSUME QueueInv, NEW k \in Clients PROVE RegisterSelf(k) \in Seq(Upward)
<1> DEFINE r == [id |-> AskedId(k, context[k].endpoint_id), role |-> context[k].role,
                 svc_type |-> context[k].svc_type, token |-> FALSE,
                 code |-> context[k].role \in CodeRoles]
<1>1. r \in Request /\ r.role \in AskedRoles
  BY DEF QueueInv, Context, Request, AskedId
<1>2. [cmd |-> "REG", reg |-> r] \in Upward
  BY <1>1 DEF Upward, OwnReg
<1> HIDE DEF r
<1>3. RegisterSelf(k) = <<[cmd |-> "REG", reg |-> r]>>
  BY DEF RegisterSelf, r
<1> QED BY <1>2, <1>3

LEMMA FilterSent ==
    ASSUME Covered, TrafficAssumption, NEW k \in Clients, NEW command \in FilterCommands[k]
    PROVE  command \in Upward
BY DEF Covered, TrafficAssumption, Upward, ConsoleCommand, FilterNames

(* A client reads what the server sent: a role reported to it is one asked.*)
LEMMA HeadDownward ==
    ASSUME QueueInv, NEW k \in Clients, Connected(k), to_client[peer[k]] # <<>>
    PROVE  /\ peer[k] \in Conns
           /\ Head(to_client[peer[k]]) \in Downward
           /\ Tail(to_client[peer[k]]) \in Seq(Downward)
<1>1. peer[k] \in Conns
  BY DEF QueueInv, Connected, AnyConn
<1> QED BY <1>1, ElemsTail DEF QueueInv

LEMMA ReadsResultType ==
    ASSUME QueueInv, NEW k \in Clients, ClientReadsResult(k)
    PROVE  /\ context' \in [Clients -> {x \in Context : x.role \in AskedRoles}]
           /\ to_client' \in [Conns -> Seq(Downward)]
<1> DEFINE result == Head(to_client[peer[k]])
           new == IF result.cmd # "REG" THEN context[k]
                  ELSE IF result.ok THEN WithResult(context[k], result)
                  ELSE [context[k] EXCEPT !.failed = TRUE]
<1>1. /\ peer[k] \in Conns /\ result \in Downward
      /\ Tail(to_client[peer[k]]) \in Seq(Downward)
  BY HeadDownward DEF ClientReadsResult
<1>2. context[k] \in Context /\ context[k].role \in AskedRoles
  BY DEF QueueInv
<1>3. result.cmd = "REG" =>
         result.id \in AnyId /\ result.role \in AskedRoles \cup {"Undefined"}
  BY <1>1 DEF Downward, SvcMessage
<1>4. result.cmd = "REG" => /\ WithResult(context[k], result) \in Context
                            /\ WithResult(context[k], result).role \in AskedRoles
  BY <1>2, <1>3, RoutingAssumption DEF WithResult, Context, RoutingAssumption
<1>5. [context[k] EXCEPT !.failed = TRUE] \in Context
      /\ [context[k] EXCEPT !.failed = TRUE].role \in AskedRoles
  BY <1>2 DEF Context
<1>6. new \in Context /\ new.role \in AskedRoles
  BY <1>2, <1>4, <1>5
<1>7. context' = [context EXCEPT ![k] = new]
  BY DEF ClientReadsResult, HandleCommandResult
<1> HIDE DEF new
<1>8. to_client' = [to_client EXCEPT ![peer[k]] = Tail(@)]
  BY DEF ClientReadsResult, HandleCommandResult
<1> QED BY <1>1, <1>6, <1>7, <1>8 DEF QueueInv

LEMMA QueueStep ==
    ASSUME Covered, QueueInv, [TrafficNext]_trafficVars PROVE QueueInv'
<1>1. TypeOK'
  BY RegistryStepOfTraffic, TypeStep DEF QueueInv
<1>2. ASSUME NEW k \in Clients, NEW c \in Conns, ConnectClient(k, c) PROVE QueueInv'
  <2>1. <<>> \in Seq(Downward)
    OBVIOUS
  <2> QED BY <1>1, <1>2, <2>1, OwnRegSent DEF ConnectClient, Connect, QueueInv, AnyConn
<1>3. ASSUME NEW k \in Clients, LoseConnection(k) PROVE QueueInv'
  <2>1. <<>> \in Seq(Downward)
    OBVIOUS
  <2> QED BY <1>1, <1>3, <2>1 DEF LoseConnection, ConnectionLost, QueueInv, AnyConn
<1>4. ASSUME NEW k \in Clients, ConsoleFilter(k) PROVE QueueInv'
  <2>1. PICK command \in FilterCommands[k] : Post(k, command)
    BY <1>4 DEF ConsoleFilter
  <2>2. to_server' \in [Conns -> Seq(Upward)]
    BY <2>1, FilterSent, Posted, TrafficAssumption DEF QueueInv
  <2> QED BY <1>1, <1>4, <2>2 DEF ConsoleFilter, QueueInv
<1>5. ASSUME NEW k \in Clients, NEW s \in Sessions, NEW t \in SvcTypes,
             NEW svc_cmd \in MsgTypes, RequestService(k, s, t, svc_cmd)
      PROVE  QueueInv'
  <2> DEFINE message == [cmd |-> "SVC", source |-> SourceOf(k), sess_id |-> s,
                         svc_type |-> t, svc_cmd |-> svc_cmd, ok |-> TRUE]
  <2>1. message \in Upward
    BY DEF Upward, SvcMessage, SourceOf, QueueInv, Context
  <2>2. Post(k, message)
    BY <1>5 DEF RequestService
  <2> HIDE DEF message
  <2>3. to_server' \in [Conns -> Seq(Upward)]
    BY <2>1, <2>2, Posted DEF QueueInv
  <2> QED BY <1>1, <1>5, <2>3 DEF RequestService, QueueInv
<1>6. ASSUME NEW k \in Clients, ClientReadsResult(k) PROVE QueueInv'
  BY <1>1, <1>6, ReadsResultType DEF ClientReadsResult, HandleCommandResult, QueueInv
<1>7. ASSUME NEW k \in Clients, ClientServes(k) PROVE QueueInv'
  <2> DEFINE x == Head(to_client[peer[k]])
  <2>1. /\ peer[k] \in Conns /\ x \in Downward /\ x.cmd = "SVC"
        /\ Tail(to_client[peer[k]]) \in Seq(Downward)
    BY <1>7, HeadDownward DEF ClientServes
  <2>2. x \in SvcMessage
    BY <2>1 DEF Downward, FilterNames
  <2>3. PICK answer \in ServiceAnswer(k, x) :
          to_server' = [to_server EXCEPT ![peer[k]] = Append(@, answer)]
    BY <1>7 DEF ClientServes
  <2>4. answer \in Upward
    BY <2>2, <2>3 DEF ServiceAnswer, SvcMessage, Upward
  <2>5. to_server' \in [Conns -> Seq(Upward)]
    BY <2>1, <2>3, <2>4 DEF QueueInv
  <2>6. to_client' \in [Conns -> Seq(Downward)]
    BY <1>7, <2>1 DEF ClientServes, QueueInv
  <2> QED BY <1>1, <1>7, <2>5, <2>6 DEF ClientServes, QueueInv
<1>8. ASSUME NEW k \in Clients, ClientReadsAnswer(k) PROVE QueueInv'
  <2>1. peer[k] \in Conns /\ Tail(to_client[peer[k]]) \in Seq(Downward)
    BY <1>8, HeadDownward DEF ClientReadsAnswer
  <2>2. to_client' \in [Conns -> Seq(Downward)]
    BY <1>8, <2>1 DEF ClientReadsAnswer, QueueInv
  <2> QED BY <1>1, <1>8, <2>2 DEF ClientReadsAnswer, QueueInv
<1>9. ASSUME NEW c \in Conns, CloseConnection(c) PROVE QueueInv'
  <2>1. <<>> \in Seq(Upward)
    OBVIOUS
  <2> QED BY <1>1, <1>9, <2>1 DEF CloseConnection, ServerClosed, QueueInv
<1>10. KickedOut \in Downward
  BY DEF KickedOut, Error, Downward, AnyId
<1>11. ASSUME NEW c \in Conns, NEW result \in Downward, to_server[c] # <<>>, Answer(c, result)
       PROVE  QueueInv'
  <2>1. to_server' \in [Conns -> Seq(Upward)] /\ to_client' \in [Conns -> Seq(Downward)]
    BY <1>10, <1>11, Answered DEF QueueInv
  <2> QED BY <1>1, <1>11, <2>1 DEF Answer, QueueInv
<1>12. ASSUME NEW c \in Conns, ServerRegisters(c) PROVE QueueInv'
  <2>1. PICK r \in Request :
           /\ r.role \in AskedRoles
           /\ Registers(c, r) \/ Answer(c, Error("REG"))
    BY <1>12, RegisterCasesOfTraffic
  <2>2. Error("REG") \in Downward
    BY DEF Error, Downward, AnyId
  <2>3. [cmd |-> "REG", ok |-> TRUE, id |-> told'[c], role |-> ReportedRole(r, told'[c])]
           \in Downward
    BY <1>1, <2>1 DEF Downward, TypeOK, ReportedRole
  <2> QED BY <1>11, <1>12, <2>1, <2>2, <2>3 DEF Registers, ServerRegisters
<1>13. ASSUME NEW c \in Conns, ServerFilters(c) PROVE QueueInv'
  <2> DEFINE cmd == Head(to_server[c]).cmd
  <2>1. to_server[c] # <<>> /\ cmd \in FilterNames
    BY <1>13, FilterCases DEF ConsoleCommand
  <2> HIDE DEF cmd
  <2>2. [Error(cmd) EXCEPT !.ok = TRUE] \in Downward /\ Error(cmd) \in Downward
    BY <2>1 DEF Error, Downward, AnyId
  <2>3. Answer(c, [Error(cmd) EXCEPT !.ok = TRUE]) \/ Answer(c, Error(cmd))
    BY <1>13, FilterCases DEF cmd
  <2> QED BY <1>11, <2>1, <2>2, <2>3
<1>14. ASSUME NEW c \in Conns, ServerServes(c) \/ ServerAnswers(c) PROVE QueueInv'
  <2>1. to_server[c] # <<>> /\ \E to : \E out \in Downward : Deliver(c, to, out)
    BY <1>14, ServeCases, AnswerCases DEF Downward
  <2>2. to_server' \in [Conns -> Seq(Upward)] /\ to_client' \in [Conns -> Seq(Downward)]
    BY <2>1, Delivered DEF QueueInv
  <2> QED BY <1>1, <2>1, <2>2 DEF Deliver, QueueInv
<1>15. CASE UNCHANGED trafficVars
  BY <1>1, <1>15 DEF trafficVars, systemVars, clientVars, QueueInv
<1> QED BY <1>2, <1>3, <1>4, <1>5, <1>6, <1>7, <1>8, <1>9, <1>12, <1>13, <1>14, <1>15
        DEF TrafficNext

LEMMA QueueInvCorrect == ASSUME Covered PROVE TrafficSpec => []QueueInv
<1>1. TrafficInit => QueueInv
  <2> SUFFICES ASSUME TrafficInit PROVE QueueInv
    OBVIOUS
  <2>1. TypeOK
    BY InitType, RegistryAssumption DEF TrafficInit, ClientInit
  <2>2. peer \in [Clients -> AnyConn]
    BY DEF TrafficInit, ClientInit, AnyConn
  <2>3. context \in [Clients -> {x \in Context : x.role \in AskedRoles}]
    BY RoutingAssumption DEF TrafficInit, ClientInit, Context, AnyId, Covered, RoutingAssumption
  <2>4. to_server \in [Conns -> Seq(Upward)] /\ to_client \in [Conns -> Seq(Downward)]
    BY DEF TrafficInit, ClientInit
  <2> QED BY <2>1, <2>2, <2>3, <2>4 DEF QueueInv
<1>2. QueueInv /\ [TrafficNext]_trafficVars => QueueInv'
  BY QueueStep
<1> QED BY <1>1, <1>2, PTL DEF TrafficSpec

LEMMA TrafficIsRegistry == ASSUME Covered PROVE TrafficSpec => Spec
<1>1. TrafficInit => Init
  BY DEF TrafficInit, ClientInit
<1>2. QueueInv /\ [TrafficNext]_trafficVars => [Next]_vars
  BY RegistryStepOfTraffic
<1> QED BY <1>1, <1>2, QueueInvCorrect, PTL DEF TrafficSpec, Spec

-----------------------------------------------------------------------------
(* A client that only the library registers asks once on each connection,  *)
(* before anything else.                                                   *)
RegFirst ==
    \A c \in Conns : \A n \in DOMAIN to_server[c] :
        to_server[c][n].cmd = "REG" => n = 1 /\ told[c] = NoId

LEMMA FirstTaken ==
    ASSUME QueueInv, RegFirst, NEW c \in Conns, to_server[c] # <<>>,
           to_server' = [to_server EXCEPT ![c] = Tail(@)],
           \A d \in Conns : d # c => told'[d] = told[d]
    PROVE  RegFirst'
<1>1. ASSUME NEW n \in DOMAIN Tail(to_server[c])
      PROVE  Tail(to_server[c])[n].cmd # "REG"
  <2>1. to_server[c] \in Seq(Upward)
    BY DEF QueueInv
  <2>2. n \in Nat /\ n + 1 \in DOMAIN to_server[c] /\ n + 1 # 1
        /\ Tail(to_server[c])[n] = to_server[c][n + 1]
    BY <2>1
  <2> QED BY <2>2 DEF RegFirst
<1>2. /\ to_server'[c] = Tail(to_server[c])
      /\ \A d \in Conns : d # c => to_server'[d] = to_server[d]
  BY DEF QueueInv
<1> SUFFICES ASSUME NEW d \in Conns, NEW n \in DOMAIN to_server'[d],
                    to_server'[d][n].cmd = "REG"
             PROVE  n = 1 /\ told'[d] = NoId
  BY DEF RegFirst
<1>3. CASE d = c
  <2>1. n \in DOMAIN Tail(to_server[c]) /\ Tail(to_server[c])[n].cmd = "REG"
    BY ONLY <1>2, <1>3, n \in DOMAIN to_server'[d], to_server'[d][n].cmd = "REG"
  <2> QED BY ONLY <2>1, <1>1
<1>4. CASE d # c
  <2>1. to_server'[d] = to_server[d] /\ told'[d] = told[d]
    BY <1>2, <1>4
  <2>2. n \in DOMAIN to_server[d] /\ to_server[d][n].cmd = "REG"
    BY ONLY <2>1, n \in DOMAIN to_server'[d], to_server'[d][n].cmd = "REG"
  <2>3. n = 1 /\ told[d] = NoId
    BY <2>2 DEF RegFirst
  <2> QED BY <2>1, <2>3
<1> QED BY <1>3, <1>4

LEMMA FirstAppended ==
    ASSUME QueueInv, RegFirst, NEW c \in Conns, NEW x \in Upward, x.cmd # "REG",
           to_server' = [to_server EXCEPT ![c] = Append(@, x)], told' = told
    PROVE  RegFirst'
<1>1. ASSUME NEW n \in DOMAIN Append(to_server[c], x), Append(to_server[c], x)[n].cmd = "REG"
      PROVE  n = 1 /\ told[c] = NoId
  <2>1. to_server[c] \in Seq(Upward)
    BY DEF QueueInv
  <2>2. Append(to_server[c], x)[Len(to_server[c]) + 1] = x
    BY <2>1
  <2>3. n # Len(to_server[c]) + 1
    BY <1>1, <2>2
  <2>4. n \in DOMAIN to_server[c] /\ Append(to_server[c], x)[n] = to_server[c][n]
    BY <2>1, <2>3
  <2> QED BY <1>1, <2>4 DEF RegFirst
<1>2. /\ to_server'[c] = Append(to_server[c], x)
      /\ \A d \in Conns : d # c => to_server'[d] = to_server[d]
  BY DEF QueueInv
<1> SUFFICES ASSUME NEW d \in Conns, NEW n \in DOMAIN to_server'[d],
                    to_server'[d][n].cmd = "REG"
             PROVE  n = 1 /\ told[d] = NoId
  BY DEF RegFirst
<1>3. CASE d = c
  <2>1. n \in DOMAIN Append(to_server[c], x) /\ Append(to_server[c], x)[n].cmd = "REG"
    BY ONLY <1>2, <1>3, n \in DOMAIN to_server'[d], to_server'[d][n].cmd = "REG"
  <2> QED BY ONLY <2>1, <1>1, <1>3
<1>4. CASE d # c
  <2>1. n \in DOMAIN to_server[d] /\ to_server[d][n].cmd = "REG"
    BY ONLY <1>2, <1>4, d \in Conns, n \in DOMAIN to_server'[d], to_server'[d][n].cmd = "REG"
  <2> QED BY <2>1 DEF RegFirst
<1> QED BY <1>3, <1>4

LEMMA FirstPosted ==
    ASSUME QueueInv, RegFirst, NEW k \in Clients, NEW x \in Upward, x.cmd # "REG",
           Post(k, x), told' = told
    PROVE  RegFirst'
<1>1. CASE Connected(k)
  <2>1. peer[k] \in Conns
    BY <1>1 DEF Connected, QueueInv, AnyConn
  <2> QED BY <1>1, <2>1, FirstAppended DEF Post
<1>2. CASE ~Connected(k)
  BY <1>2 DEF Post, RegFirst
<1> QED BY <1>1, <1>2

LEMMA RegFirstStep ==
    ASSUME Covered, QueueInv, PendingInv, RegFirst, [TrafficNext]_trafficVars
    PROVE  RegFirst'
<1>1. ASSUME NEW k \in Clients, NEW c \in Conns, ConnectClient(k, c) PROVE RegFirst'
  <2>1. told' = told /\ told[c] = NoId
    BY <1>1 DEF ConnectClient, Connect, OnConnectionReady, PendingInv
  <2>2. DOMAIN RegisterSelf(k) = {1}
    BY DEF RegisterSelf
  <2>3. to_server' = [to_server EXCEPT ![c] = RegisterSelf(k)]
    BY <1>1 DEF ConnectClient, Connect
  <2>4. /\ to_server'[c] = RegisterSelf(k)
        /\ \A d \in Conns : d # c => to_server'[d] = to_server[d]
    BY <2>3 DEF QueueInv
  <2> QED BY <2>1, <2>2, <2>4 DEF RegFirst
<1>2. ASSUME UNCHANGED <<to_server, told>> PROVE RegFirst'
  BY <1>2 DEF RegFirst
<1>3. ASSUME NEW k \in Clients,
             LoseConnection(k) \/ ClientReadsResult(k) \/ ClientReadsAnswer(k)
      PROVE  RegFirst'
  <2>1. UNCHANGED to_server /\ UNCHANGED vars
    BY <1>3 DEF LoseConnection, ConnectionLost, ClientReadsResult,
                HandleCommandResult, ClientReadsAnswer
  <2> QED BY <1>2, <2>1, Zenon DEF vars, connVars
<1>4. ASSUME NEW k \in Clients, ConsoleFilter(k) PROVE RegFirst'
  <2>1. PICK command \in FilterCommands[k] : Post(k, command)
    BY <1>4 DEF ConsoleFilter
  <2>2. command \in Upward /\ command.cmd # "REG"
    BY FilterSent, TrafficAssumption DEF TrafficAssumption
  <2>3. told' = told
    BY <1>4 DEF ConsoleFilter, vars, connVars
  <2> QED BY <2>1, <2>2, <2>3, FirstPosted
<1>5. ASSUME NEW k \in Clients, NEW s \in Sessions, NEW t \in SvcTypes,
             NEW svc_cmd \in MsgTypes, RequestService(k, s, t, svc_cmd)
      PROVE  RegFirst'
  <2> DEFINE message == [cmd |-> "SVC", source |-> SourceOf(k), sess_id |-> s,
                         svc_type |-> t, svc_cmd |-> svc_cmd, ok |-> TRUE]
  <2>1. message \in Upward /\ message.cmd # "REG"
    BY DEF Upward, SvcMessage, SourceOf, QueueInv, Context
  <2>2. Post(k, message) /\ told' = told
    BY <1>5 DEF RequestService, vars, connVars
  <2> HIDE DEF message
  <2> QED BY <2>1, <2>2, FirstPosted
<1>6. ASSUME NEW k \in Clients, ClientServes(k) PROVE RegFirst'
  <2> DEFINE x == Head(to_client[peer[k]])
  <2>1. peer[k] \in Conns /\ x \in Downward /\ x.cmd = "SVC"
    BY <1>6, HeadDownward DEF ClientServes
  <2>2. x \in SvcMessage
    BY <2>1 DEF Downward, FilterNames
  <2>3. PICK answer \in ServiceAnswer(k, x) :
          to_server' = [to_server EXCEPT ![peer[k]] = Append(@, answer)]
    BY <1>6 DEF ClientServes
  <2>4. answer \in Upward /\ answer.cmd # "REG"
    BY <2>2, <2>3 DEF ServiceAnswer, SvcMessage, Upward
  <2>5. told' = told
    BY <1>6 DEF ClientServes, vars, connVars
  <2> QED BY <2>1, <2>3, <2>4, <2>5, FirstAppended
<1>7. ASSUME NEW c \in Conns, CloseConnection(c) PROVE RegFirst'
  <2>1. /\ to_server'[c] = <<>>
        /\ \A d \in Conns : d # c => to_server'[d] = to_server[d] /\ told'[d] = told[d]
    BY <1>7 DEF CloseConnection, ServerClosed, OnConnectionClosed, QueueInv, TypeOK
  <2>2. DOMAIN <<>> = {}
    OBVIOUS
  <2> QED BY <2>1, <2>2 DEF RegFirst
<1>8. ASSUME NEW c \in Conns, ServerRegisters(c) PROVE RegFirst'
  <2>1. to_server[c] # <<>> /\ to_server' = [to_server EXCEPT ![c] = Tail(@)]
    BY <1>8, RegisterCasesOfTraffic DEF ServerRegisters, Registers, Answer
  <2>2. PICK r \in Request : Registers(c, r) \/ UNCHANGED vars
    BY <1>8, RegisterCasesOfTraffic
  <2>3. \A d \in Conns : d # c => told'[d] = told[d]
    <3>1. CASE Registers(c, r)
      <4>1. TypeOK /\ Register(c, r)
        BY <3>1 DEF QueueInv, Registers
      <4>2. PICK i \in Ids : told' = [told EXCEPT ![c] = i]
        BY <4>1, RegisterTells
      <4> QED BY <4>1, <4>2 DEF TypeOK
    <3>2. CASE UNCHANGED vars
      BY <3>2 DEF vars, connVars
    <3> QED BY <2>2, <3>1, <3>2
  <2> QED BY <2>1, <2>3, FirstTaken
<1>9. ASSUME NEW c \in Conns, ServerFilters(c) \/ ServerServes(c) \/ ServerAnswers(c)
      PROVE  RegFirst'
  <2>1. to_server[c] # <<>> /\ to_server' = [to_server EXCEPT ![c] = Tail(@)]
    BY <1>9, FilterCases, ServeCases, AnswerCases DEF Answer, Deliver
  <2>2. UNCHANGED vars
    BY <1>9, FilterCases, ServeCases, AnswerCases, RegistryUntouched DEF routingVars
  <2> QED BY <2>1, <2>2, FirstTaken DEF vars, connVars
<1>10. CASE UNCHANGED trafficVars
  BY <1>2, <1>10 DEF trafficVars, systemVars, clientVars, vars, connVars
<1> QED BY <1>1, <1>3, <1>4, <1>5, <1>6, <1>7, <1>8, <1>9, <1>10 DEF TrafficNext

LEMMA RegFirstCorrect == ASSUME Covered PROVE TrafficSpec => []RegFirst
<1>1. TrafficInit => RegFirst
  BY DEF TrafficInit, ClientInit, RegFirst
<1>2. QueueInv /\ PendingInv /\ RegFirst /\ [TrafficNext]_trafficVars => RegFirst'
  BY RegFirstStep
<1> QED BY <1>1, <1>2, QueueInvCorrect, TrafficIsRegistry, PendingInvCorrect, PTL
    DEF TrafficSpec

-----------------------------------------------------------------------------
(* The steps of the node, with clients that ask for no second id.          *)
OneIdRoutingNext ==
    \E c \in Conns :
        \/ /\ \/ OnConnectionReady(c)
              \/ OnConnectionClosed(c)
              \/ \E r \in Asked : OneIdRegister(c, r)
           /\ Forget
           /\ sent' = Quiet
           /\ UNCHANGED message_subscribers
        \/ FilterStep(c)
        \/ SendStep(c)

(* A registration that changes nothing in the registry changes no filter.  *)
LEMMA NothingForgotten ==
    ASSUME RoutingTypeOK, FreshFilters, AfterRegistry, UNCHANGED vars
    PROVE  UNCHANGED routingVars
<1>1. Held' = Held
  BY DEF vars, mapVars, Held
<1>2. \A o \in Eps : filters'[o] = filters[o]
  BY <1>1 DEF AfterRegistry, Forget, FreshFilters
<1>3. filters' = [o \in Eps |-> filters'[o]] /\ filters = [o \in Eps |-> filters[o]]
  BY DEF AfterRegistry, Forget, RoutingTypeOK
<1>4. filters' = filters
  BY <1>2, <1>3
<1> QED BY <1>4 DEF AfterRegistry, routingVars

LEMMA StepOfNode ==
    ASSUME Covered, QueueInv, RegFirst, RoutingTypeOK, FreshFilters,
           [TrafficNext]_trafficVars
    PROVE  [OneIdRoutingNext]_routingVars
<1>1. ASSUME NEW c \in Conns, AfterRegistry, ~UNCHANGED vars,
             \/ OnConnectionReady(c) \/ OnConnectionClosed(c)
             \/ \E r \in Asked : OneIdRegister(c, r)
      PROVE  OneIdRoutingNext
  BY <1>1 DEF AfterRegistry, OneIdRoutingNext
<1>2. ASSUME NEW k \in Clients, NEW c \in Conns, ConnectClient(k, c) PROVE OneIdRoutingNext
  <2>1. OnConnectionReady(c) /\ AfterRegistry
    BY <1>2 DEF ConnectClient, Connect
  <2>2. status'[c] # status[c]
    BY <2>1 DEF OnConnectionReady, QueueInv, TypeOK
  <2>3. ~UNCHANGED vars
    BY <2>2 DEF vars, connVars
  <2> QED BY <1>1, <2>1, <2>3
<1>3. ASSUME NEW c \in Conns, CloseConnection(c) PROVE OneIdRoutingNext
  <2>1. OnConnectionClosed(c) /\ AfterRegistry
    BY <1>3 DEF CloseConnection, ServerClosed
  <2>2. status'[c] # status[c]
    BY <2>1 DEF OnConnectionClosed, Online, QueueInv, TypeOK
  <2>3. ~UNCHANGED vars
    BY <2>2 DEF vars, connVars
  <2> QED BY <1>1, <2>1, <2>3
<1>4. ASSUME NEW c \in Conns, ServerRegisters(c) PROVE [OneIdRoutingNext]_routingVars
  <2>1. PICK r \in Request :
           /\ r.role \in AskedRoles
           /\ Head(to_server[c]) = [cmd |-> "REG", reg |-> r]
           /\ Registers(c, r) \/ UNCHANGED vars
    BY <1>4, RegisterCasesOfTraffic
  <2>2. AfterRegistry
    BY <1>4 DEF ServerRegisters
  <2>3. told[c] = NoId
    <3>1. to_server[c] \in Seq(Upward) /\ to_server[c] # <<>>
      BY <1>4 DEF ServerRegisters, QueueInv
    <3>2. 1 \in DOMAIN to_server[c] /\ to_server[c][1] = Head(to_server[c])
      BY <3>1
    <3>3. to_server[c][1].cmd = "REG"
      BY <2>1, <3>2
    <3> QED BY <3>2, <3>3 DEF RegFirst
  <2>4. CASE UNCHANGED vars
    BY <2>2, <2>4, NothingForgotten
  <2>5. CASE Registers(c, r) /\ ~UNCHANGED vars
    <3>1. Register(c, r) /\ r.code
      BY <2>5 DEF Registers, Register
    <3>2. r \in Asked /\ OneIdRegister(c, r)
      BY <2>1, <2>3, <3>1 DEF Asked, OneIdRegister
    <3> QED BY <1>1, <2>2, <2>5, <3>2
  <2> QED BY <2>1, <2>4, <2>5
<1>5. ASSUME NEW c \in Conns, ServerFilters(c) \/ ServerServes(c) \/ ServerAnswers(c)
      PROVE  [OneIdRoutingNext]_routingVars
  BY <1>5, FilterCases, ServeCases, AnswerCases DEF OneIdRoutingNext
<1>6. ASSUME NEW k \in Clients,
             \/ LoseConnection(k) \/ ConsoleFilter(k) \/ ClientReadsResult(k)
             \/ ClientServes(k) \/ ClientReadsAnswer(k)
             \/ \E s \in Sessions, t \in SvcTypes, svc_cmd \in MsgTypes :
                  RequestService(k, s, t, svc_cmd)
      PROVE  UNCHANGED routingVars
  BY <1>6 DEF LoseConnection, ConnectionLost, ConsoleFilter, ClientReadsResult,
              HandleCommandResult, ClientServes, ClientReadsAnswer, RequestService,
              Unrouted, routingVars
<1>7. CASE UNCHANGED trafficVars
  BY <1>7 DEF trafficVars, systemVars, routingVars
<1> QED BY <1>2, <1>3, <1>4, <1>5, <1>6, <1>7 DEF TrafficNext

LEMMA NodeOfAny ==
    ASSUME [OneIdRoutingNext]_routingVars PROVE [RoutingNext]_routingVars
BY DEF OneIdRoutingNext, RoutingNext, RegistryStep, OneIdRegister

LEMMA NodeInvCorrect ==
    ASSUME Covered PROVE TrafficSpec => [](RoutingTypeOK /\ IndexInv)
<1>1. TrafficInit => RoutingInit
  BY DEF TrafficInit, ClientInit, RoutingInit
<1>2. /\ QueueInv /\ QueueInv' /\ RegFirst /\ OneHolder /\ RoutingTypeOK /\ IndexInv
      /\ [TrafficNext]_trafficVars
      => (RoutingTypeOK /\ IndexInv)'
  <2> SUFFICES ASSUME QueueInv, TypeOK', RegFirst, OneHolder, RoutingTypeOK, IndexInv,
                      [TrafficNext]_trafficVars
               PROVE  (RoutingTypeOK /\ IndexInv)'
    BY DEF QueueInv
  <2>1. [RoutingNext]_routingVars
    BY StepOfNode, NodeOfAny DEF IndexInv
  <2> QED BY <2>1, RoutingTypeStep, IndexStep
<1> QED BY <1>1, <1>2, QueueInvCorrect, RegFirstCorrect, TrafficIsRegistry, ActingCorrect,
           RoutingInitType, IndexInit, PTL DEF TrafficSpec

(* Clients of the library, with the commands and calls they have on the    *)
(* way, and the server are a node of MessageRouting: what is proved of its *)
(* messages for any client holds of theirs.                                *)
THEOREM TrafficIsRouting == ASSUME Covered PROVE TrafficSpec => RoutingSpec
<1>1. TrafficInit => RoutingInit
  BY DEF TrafficInit, ClientInit, RoutingInit
<1>2. QueueInv /\ RegFirst /\ RoutingTypeOK /\ IndexInv /\ [TrafficNext]_trafficVars
        => [RoutingNext]_routingVars
  BY StepOfNode, NodeOfAny DEF IndexInv
<1> QED BY <1>1, <1>2, QueueInvCorrect, RegFirstCorrect, NodeInvCorrect, PTL
    DEF TrafficSpec, RoutingSpec

-----------------------------------------------------------------------------
(* A node whose clients keep to one id has the same steps but for what they*)
(* register.                                                               *)
LEMMA NodeReady ==
    ASSUME NEW c PROVE TameNode!OnConnectionReady(c) <=> OnConnectionReady(c)
BY DEF TameNode!OnConnectionReady, OnConnectionReady, TameNode!mapVars, mapVars

LEMMA NodeClosed ==
    ASSUME NEW c PROVE TameNode!OnConnectionClosed(c) <=> OnConnectionClosed(c)
BY DEF TameNode!OnConnectionClosed, OnConnectionClosed, TameNode!Online, Online,
       TameNode!RemoveEndpoint, RemoveEndpoint, TameNode!RemoveListed, RemoveListed,
       TameNode!EndpointIdOf, EndpointIdOf, TameNode!Dangles, Dangles,
       TameNode!Acting, Acting, TameNode!Lookup, Lookup, TameNode!Collect, Collect,
       TameNode!Held, Held, TameNode!NoEndpoint, NoEndpoint, TameNode!AnyId, AnyId,
       TameNode!mapVars, mapVars

LEMMA NodeNew ==
    ASSUME NEW c, NEW i, NEW r
    PROVE  TameNode!RegisterNew(c, i, r) <=> RegisterNew(c, i, r)
BY DEF TameNode!RegisterNew, RegisterNew, TameNode!RegisterObject, RegisterObject,
       TameNode!NewEndpoint, NewEndpoint, TameNode!SetID, SetID,
       TameNode!Registered, Registered, TameNode!Collect, Collect, TameNode!Held,
       Held, TameNode!NoEndpoint, NoEndpoint

LEMMA NodeExisting ==
    ASSUME NEW c, NEW i, NEW r
    PROVE  TameNode!RegisterExisting(c, i, r) <=> RegisterExisting(c, i, r)
BY DEF TameNode!RegisterExisting, RegisterExisting, TameNode!RegisterAgain,
       RegisterAgain, TameNode!SameFD, SameFD, TameNode!Dangles, Dangles,
       TameNode!Online, Online, TameNode!Entitled, Entitled,
       TameNode!AfterDisconnect, AfterDisconnect, TameNode!MoveIndex, MoveIndex,
       TameNode!MoveService, MoveService, TameNode!LeavesType, LeavesType,
       TameNode!JoinsType, JoinsType, TameNode!UpdatedEndpoint, UpdatedEndpoint,
       TameNode!Registered, Registered, TameNode!Collect, Collect, TameNode!Held,
       Held, TameNode!NoEndpoint, NoEndpoint

LEMMA NodeRegister ==
    ASSUME NEW c, NEW r \in Request, OneIdRegister(c, r) PROVE TameNode!Register(c, r)
BY NodeNew, NodeExisting
DEF OneIdRegister, Register, Disciplined, TameNode!Register, TameNode!Disciplined

LEMMA NodeSets ==
    /\ TameNode!Asked = Asked /\ Asked \subseteq Request
    /\ TameNode!Quiet = Quiet /\ (TameNode!Forget <=> Forget)
    /\ TameNode!vars = vars /\ TameNode!routingVars = routingVars
BY DEF TameNode!Asked, Asked, TameNode!Request, Request, TameNode!AnyId, AnyId,
       TameNode!Roles, Roles, TameNode!Quiet, Quiet, TameNode!Forget, Forget,
       TameNode!Held, Held, TameNode!NoFilter, NoFilter, TameNode!vars, vars,
       TameNode!connVars, connVars, TameNode!mapVars, mapVars, TameNode!routingVars,
       routingVars

LEMMA NodeFilter ==
    ASSUME NEW c PROVE TameNode!FilterStep(c) <=> FilterStep(c)
BY DEF TameNode!FilterStep, FilterStep, TameNode!Forward, Forward,
       TameNode!Unforward, Unforward, TameNode!Subscribe, Subscribe,
       TameNode!Unsubscribe, Unsubscribe, TameNode!Reject, Reject,
       TameNode!Unreject, Unreject, TameNode!Acts, Acts, TameNode!Acting, Acting,
       TameNode!Lookup, Lookup, TameNode!Refilter, Refilter, TameNode!AddSubscriber,
       AddSubscriber, TameNode!DropSubscriber, DropSubscriber, TameNode!Quiet,
       Quiet, TameNode!vars, vars, TameNode!connVars, connVars, TameNode!mapVars,
       mapVars

LEMMA NodeSend ==
    ASSUME NEW c PROVE TameNode!SendStep(c) <=> SendStep(c)
BY DEF TameNode!SendStep, SendStep, TameNode!PublishData, PublishData,
       TameNode!PublishDataToTargets, PublishDataToTargets, TameNode!ServiceRequest,
       ServiceRequest, TameNode!ServiceResponse, ServiceResponse, TameNode!Send,
       Send, TameNode!Acts, Acts, TameNode!Acting, Acting, TameNode!Lookup, Lookup,
       TameNode!Recipients, Recipients, TameNode!Accepts, Accepts, TameNode!Listens,
       Listens, TameNode!DifferentIds, DifferentIds, TameNode!EndpointIdOf,
       EndpointIdOf, TameNode!Dangles, Dangles, TameNode!Online, Online,
       TameNode!AnyId, AnyId, TameNode!Under, Under, TameNode!Audience, Audience,
       TameNode!Servers, Servers, TameNode!vars, vars, TameNode!connVars, connVars,
       TameNode!mapVars, mapVars

LEMMA NodeNext ==
    ASSUME [OneIdRoutingNext]_routingVars
    PROVE  [TameNode!RoutingNext]_(TameNode!routingVars)
<1>1. ASSUME NEW c \in Conns,
             \/ OnConnectionReady(c) \/ OnConnectionClosed(c)
             \/ \E r \in Asked : OneIdRegister(c, r),
             Forget, sent' = Quiet, UNCHANGED message_subscribers
      PROVE  TameNode!RoutingNext
  BY <1>1, NodeReady, NodeClosed, NodeRegister, NodeSets
  DEF TameNode!RoutingNext, TameNode!RegistryStep
<1>2. ASSUME NEW c \in Conns, FilterStep(c) \/ SendStep(c) PROVE TameNode!RoutingNext
  BY <1>2, NodeFilter, NodeSend DEF TameNode!RoutingNext
<1>3. CASE UNCHANGED routingVars
  BY <1>3 DEF routingVars, TameNode!routingVars, vars, TameNode!vars, connVars,
              TameNode!connVars, mapVars, TameNode!mapVars
<1>4. CASE OneIdRoutingNext
  BY <1>1, <1>2, <1>4 DEF OneIdRoutingNext
<1> QED BY <1>3, <1>4

(* The library registers a client once on each connection, under the id it *)
(* has: its clients route as clients with one id each, so that what is     *)
(* proved of those holds too, through lost connections and early returns.  *)
THEOREM ClientsRouteCorrect == ASSUME Covered PROVE TrafficSpec => ClientsRoute
<1>1. TrafficInit => TameNode!RoutingInit
  BY DEF TrafficInit, ClientInit, Init, TameNode!RoutingInit, TameNode!Init,
         NoEndpoint, TameNode!NoEndpoint, NoFilter, TameNode!NoFilter,
         Quiet, TameNode!Quiet
<1>2. QueueInv /\ RegFirst /\ RoutingTypeOK /\ IndexInv /\ [TrafficNext]_trafficVars
        => [TameNode!RoutingNext]_(TameNode!routingVars)
  BY StepOfNode, NodeNext DEF IndexInv
<1> QED BY <1>1, <1>2, QueueInvCorrect, RegFirstCorrect, NodeInvCorrect, PTL
    DEF TrafficSpec, ClientsRoute, TameNode!RoutingSpec

-----------------------------------------------------------------------------
LEMMA BreakType ==
    ASSUME calls \in [Sessions -> Call], NEW c, Break(c)
    PROVE  calls' \in [Sessions -> Call]
<1>1. ASSUME NEW s \in Sessions
      PROVE  /\ [calls[s] EXCEPT !.fate = "caller lost"] \in Call
             /\ [calls[s] EXCEPT !.fate = "service lost"] \in Call
  BY DEF Call
<1> QED BY <1>1 DEF Break

LEMMA CopyType ==
    ASSUME NEW f \in Filter, NEW command \in ConsoleCommand
    PROVE  Copy(f, command) \in Filter
BY DEF Filter, ConsoleCommand, Copy

LEMMA TrafficDataStep ==
    ASSUME Covered, TrafficAssumption, QueueInv, RoutingTypeOK, RoutingTypeOK',
           copies \in [Clients -> Filter], calls \in [Sessions -> Call],
           [TrafficNext]_trafficVars
    PROVE  copies' \in [Clients -> Filter] /\ calls' \in [Sessions -> Call]
<1>1. ASSUME NEW k \in Clients, ConsoleFilter(k)
      PROVE  copies' \in [Clients -> Filter] /\ calls' \in [Sessions -> Call]
  <2>1. PICK command \in FilterCommands[k] : copies' = [copies EXCEPT ![k] = Copy(@, command)]
    BY <1>1 DEF ConsoleFilter
  <2>2. command \in ConsoleCommand
    BY DEF Covered, TrafficAssumption, ConsoleCommand, FilterNames
  <2>3. Copy(copies[k], command) \in Filter
    BY <2>2, CopyType
  <2> QED BY <1>1, <2>1, <2>3 DEF ConsoleFilter
<1>2. ASSUME NEW k \in Clients, NEW s \in Sessions, NEW t \in SvcTypes,
             NEW svc_cmd \in MsgTypes, RequestService(k, s, t, svc_cmd)
      PROVE  copies' \in [Clients -> Filter] /\ calls' \in [Sessions -> Call]
  BY <1>2 DEF RequestService, QueueInv, Call, AnyConn
<1>3. ASSUME NEW c \in Conns, ServerServes(c)
      PROVE  copies' \in [Clients -> Filter] /\ calls' \in [Sessions -> Call]
  <2> DEFINE x == Head(to_server[c])
  <2>1. x \in SvcMessage
    BY <1>3, ServeCases
  <2>2. ASSUME NEW d \in IF sent'.to = {} THEN {NoConn} ELSE {ep[o].conn : o \in sent'.to},
               calls' = [calls EXCEPT ![x.sess_id] = Assigned(@, d)]
        PROVE  calls' \in [Sessions -> Call]
    <3>1. d \in AnyConn
      BY DEF RoutingTypeOK, Forwarded, TypeOK, Endpoint, AnyConn
    <3>2. calls[x.sess_id] \in Call /\ x.sess_id \in Sessions
      BY <2>1 DEF SvcMessage
    <3>3. Assigned(calls[x.sess_id], d) \in Call
      BY <3>1, <3>2 DEF Assigned, Call
    <3> HIDE DEF x
    <3> QED BY <2>2, <3>2, <3>3
  <2>3. calls' \in [Sessions -> Call]
    BY <1>3, <2>2 DEF ServerServes
  <2> QED BY <1>3, <2>3 DEF ServerServes, Pass, Deliver
<1>4. ASSUME NEW k \in Clients, ClientReadsAnswer(k)
      PROVE  copies' \in [Clients -> Filter] /\ calls' \in [Sessions -> Call]
  <2> DEFINE x == Head(to_client[peer[k]])
  <2>1. x \in Downward /\ x.cmd = "SVC_RSP"
    BY <1>4, HeadDownward DEF ClientReadsAnswer
  <2>2. x.sess_id \in Sessions
    BY <2>1, Zenon DEF Downward, FilterNames, SvcMessage
  <2>3. /\ [calls[x.sess_id] EXCEPT !.fate = "answered"] \in Call
        /\ [calls[x.sess_id] EXCEPT !.fate = "refused"] \in Call
    BY <2>2 DEF Call
  <2>4. \/ calls' = calls
        \/ \E fate \in {"answered", "refused"} :
             calls' = [calls EXCEPT ![x.sess_id] = [calls[x.sess_id] EXCEPT !.fate = fate]]
    BY <1>4, <2>2, Zenon DEF ClientReadsAnswer
  <2> HIDE DEF x
  <2> QED BY <1>4, <2>2, <2>3, <2>4, Zenon DEF ClientReadsAnswer
<1>5. ASSUME NEW k \in Clients, LoseConnection(k)
      PROVE  copies' \in [Clients -> Filter] /\ calls' \in [Sessions -> Call]
  BY <1>5, BreakType DEF LoseConnection
<1>6. ASSUME NEW c \in Conns, CloseConnection(c)
      PROVE  copies' \in [Clients -> Filter] /\ calls' \in [Sessions -> Call]
  BY <1>6, BreakType DEF CloseConnection
<1>7. ASSUME NEW c \in Conns, ServerAnswers(c)
      PROVE  UNCHANGED <<copies, calls>>
  BY <1>7 DEF ServerAnswers, Deliver
<1> QED BY <1>1, <1>2, <1>3, <1>4, <1>5, <1>6, <1>7
        DEF TrafficNext, ConnectClient, ClientReadsResult, ClientServes, ServerRegisters,
            ServerFilters, trafficVars

(* Copies, calls and what is on the way keep their types: what a client    *)
(* reads as a service message is one.                                      *)
THEOREM TrafficTypeCorrect == ASSUME Covered PROVE TrafficSpec => []TrafficTypeOK
<1>1. TrafficInit => copies \in [Clients -> Filter] /\ calls \in [Sessions -> Call]
  BY DEF TrafficInit, NoFilter, Filter, NoCall, Call, AnyConn
<1>2. /\ QueueInv /\ RoutingTypeOK /\ RoutingTypeOK'
      /\ (copies \in [Clients -> Filter] /\ calls \in [Sessions -> Call])
      /\ [TrafficNext]_trafficVars
      => (copies \in [Clients -> Filter] /\ calls \in [Sessions -> Call])'
  BY TrafficDataStep, TrafficAssumption
<1>3. QueueInv /\ RoutingTypeOK
        /\ copies \in [Clients -> Filter] /\ calls \in [Sessions -> Call]
      => TrafficTypeOK
  <2> SUFFICES ASSUME QueueInv, NEW c \in Conns, NEW n \in DOMAIN to_client[c],
                      OfService(to_client[c][n])
               PROVE  to_client[c][n] \in SvcMessage
    BY DEF TrafficTypeOK
  <2>1. to_client[c] \in Seq(Downward)
    BY DEF QueueInv
  <2>2. to_client[c][n] \in Downward
    BY <2>1
  <2> QED BY <2>2 DEF Downward, OfService, FilterNames
<1> QED BY <1>1, <1>2, <1>3, QueueInvCorrect, NodeInvCorrect, PTL DEF TrafficSpec

-----------------------------------------------------------------------------
(* The filters of a client and its copies, with the commands on the way    *)
(* between them.  A copy lacks only what the server has never been asked   *)
(* for or what a command on the way takes back.                            *)
ListNames ==
    {"fwd_targets", "subs_sources", "rej_sources", "subs_messages", "rej_messages"}

Adds(command, list, x) ==
    command.cmd \in {"FWD", "SUB", "REJECT"} /\ x \in command.lists[list]

Drops(command, list, x) ==
    command.cmd \in {"UNFWD", "UNSUB", "UNREJECT"} /\ x \in command.lists[list]

DroppedAfter(q, n, list, x) == \E m \in DOMAIN q : m > n /\ Drops(q[m], list, x)

TakenBack(q, list, x) ==
    \A n \in DOMAIN q : Adds(q[n], list, x) => DroppedAfter(q, n, list, x)

InForce(c, list) ==
    IF status[c] = "open" /\ Acting(c) # NoEp THEN filters[Acting(c)][list] ELSE {}

(* The copy f against the connection c.                                    *)
Behind(f, c) ==
    \A list \in ListNames : \A x : x \notin f[list] =>
        /\ TakenBack(to_server[c], list, x)
        /\ x \in InForce(c, list) => DroppedAfter(to_server[c], 0, list, x)

ShownInv ==
    /\ \A j, k \in Clients : Connected(j) /\ peer[j] = peer[k] => j = k
    /\ \A k \in Clients : Connected(k) => Behind(copies[k], peer[k])

LEMMA TailTakesBack ==
    ASSUME NEW T, NEW q \in Seq(T), q # <<>>, NEW list, NEW x, TakenBack(q, list, x)
    PROVE  /\ TakenBack(Tail(q), list, x)
           /\ Adds(Head(q), list, x) => DroppedAfter(Tail(q), 0, list, x)
           /\ DroppedAfter(q, 0, list, x) /\ ~Drops(Head(q), list, x)
                => DroppedAfter(Tail(q), 0, list, x)
<1>1. /\ Len(q) \in Nat /\ Len(q) > 0 /\ DOMAIN q = 1 .. Len(q) /\ Head(q) = q[1]
      /\ DOMAIN Tail(q) = 1 .. Len(q) - 1
      /\ \A n \in DOMAIN Tail(q) : Tail(q)[n] = q[n + 1]
  OBVIOUS
<1>2. ASSUME NEW n \in Nat, NEW m \in DOMAIN q, m > n + 1, Drops(q[m], list, x)
      PROVE  DroppedAfter(Tail(q), n, list, x)
  <2>1. m - 1 \in DOMAIN Tail(q) /\ m - 1 > n /\ (m - 1) + 1 = m
    BY <1>1, <1>2
  <2>2. Drops(Tail(q)[m - 1], list, x)
    BY <1>1, <1>2, <2>1
  <2> QED BY <2>1, <2>2 DEF DroppedAfter
<1>3. ASSUME NEW n \in DOMAIN Tail(q), Adds(Tail(q)[n], list, x)
      PROVE  DroppedAfter(Tail(q), n, list, x)
  <2>1. n \in Nat /\ n + 1 \in DOMAIN q /\ Adds(q[n + 1], list, x)
    BY <1>1, <1>3
  <2>2. PICK m \in DOMAIN q : m > n + 1 /\ Drops(q[m], list, x)
    BY <2>1 DEF TakenBack, DroppedAfter
  <2> QED BY <1>2, <2>1, <2>2
<1>4. ASSUME Adds(Head(q), list, x) PROVE DroppedAfter(Tail(q), 0, list, x)
  <2>1. PICK m \in DOMAIN q : m > 1 /\ Drops(q[m], list, x)
    BY <1>1, <1>4 DEF TakenBack, DroppedAfter
  <2>2. 0 \in Nat /\ m > 0 + 1
    BY <1>1, <2>1
  <2> QED BY <1>2, <2>1, <2>2
<1>5. ASSUME DroppedAfter(q, 0, list, x), ~Drops(Head(q), list, x)
      PROVE  DroppedAfter(Tail(q), 0, list, x)
  <2>1. PICK m \in DOMAIN q : m > 0 /\ Drops(q[m], list, x)
    BY <1>5 DEF DroppedAfter
  <2>2. 0 \in Nat /\ m > 0 + 1
    BY <1>1, <1>5, <2>1
  <2> QED BY <1>2, <2>1, <2>2
<1> QED BY <1>3, <1>4, <1>5 DEF TakenBack

LEMMA AppendTakesBack ==
    ASSUME NEW T, NEW q \in Seq(T), NEW e \in T, NEW list, NEW x, ~Adds(e, list, x)
    PROVE  /\ TakenBack(q, list, x) \/ Drops(e, list, x)
                => TakenBack(Append(q, e), list, x)
           /\ DroppedAfter(q, 0, list, x) \/ Drops(e, list, x)
                => DroppedAfter(Append(q, e), 0, list, x)
<1> DEFINE r == Append(q, e)
<1>1. /\ Len(q) \in Nat /\ DOMAIN q = 1 .. Len(q) /\ DOMAIN r = 1 .. Len(q) + 1
      /\ r[Len(q) + 1] = e /\ \A n \in DOMAIN q : r[n] = q[n]
  OBVIOUS
<1> HIDE DEF r
<1>2. ASSUME NEW n, n \in Nat, n < Len(q) + 1, Drops(e, list, x)
      PROVE  DroppedAfter(r, n, list, x)
  BY <1>1, <1>2 DEF DroppedAfter
<1>3. ASSUME NEW n, DroppedAfter(q, n, list, x) PROVE DroppedAfter(r, n, list, x)
  <2>1. PICK m \in DOMAIN q : m > n /\ Drops(q[m], list, x)
    BY <1>3 DEF DroppedAfter
  <2>2. m \in DOMAIN r /\ r[m] = q[m]
    BY <1>1
  <2> QED BY <2>1, <2>2 DEF DroppedAfter
<1>4. ASSUME NEW n \in DOMAIN r, Adds(r[n], list, x)
      PROVE  n \in DOMAIN q /\ Adds(q[n], list, x) /\ n \in Nat /\ n < Len(q) + 1
  <2>1. n # Len(q) + 1
    BY <1>1, <1>4
  <2>2. n \in DOMAIN q
    BY <1>1, <2>1
  <2> QED BY <1>1, <1>4, <2>2
<1>5. TakenBack(q, list, x) => TakenBack(r, list, x)
  BY <1>3, <1>4 DEF TakenBack
<1>6. Drops(e, list, x) => TakenBack(r, list, x)
  BY <1>2, <1>4 DEF TakenBack
<1>7. Drops(e, list, x) => DroppedAfter(r, 0, list, x)
  BY <1>1, <1>2
<1> QED BY <1>3, <1>5, <1>6, <1>7 DEF r

LEMMA BehindKept ==
    ASSUME NEW k \in Clients, Behind(copies[k], peer[k]),
           copies'[k] = copies[k], peer'[k] = peer[k],
           to_server'[peer[k]] = to_server[peer[k]],
           \A list \in ListNames : InForce(peer[k], list)' \subseteq InForce(peer[k], list)
    PROVE  Behind(copies[k], peer[k])'
BY DEF Behind

(* The registry takes filters away, and gives an endpoint none to start    *)
(* with.                                                                   *)
LEMMA InForceAfterRegistry ==
    ASSUME TypeOK, TypeOK', Next, filters \in [Eps -> Filter], FreshFilters, Forget,
           NEW c \in Conns, connId'[c] = connId[c],
           status'[c] = "open" => status[c] = "open" \/ connId[c] = NoId,
           NEW list \in ListNames
    PROVE  InForce(c, list)' \subseteq InForce(c, list)
<1> SUFFICES ASSUME status'[c] = "open", Acting(c)' # NoEp
             PROVE  InForce(c, list)' \subseteq InForce(c, list)
  BY DEF InForce
<1> DEFINE o == Acting(c)'
<1>1. connId[c] \in Ids /\ connId[c] # NoId /\ o = endpoints'[connId[c]] /\ o \in Eps
  BY RegistryAssumption DEF RegistryAssumption, Acting, Lookup, TypeOK
<1>2. o \in {endpoints[connId[c]]} \cup (Eps \ Held)
  BY <1>1, RegisteredOrNew, RegistryAssumption
<1>3. NoFilter[list] = {}
  BY DEF NoFilter, ListNames
<1>4. filters'[o] \in {filters[o], NoFilter}
  BY <1>1 DEF Forget
<1>5. InForce(c, list)' = filters'[o][list]
  BY DEF InForce
<1>6. CASE o \notin Held
  BY <1>1, <1>3, <1>4, <1>5, <1>6 DEF FreshFilters
<1>7. CASE o = endpoints[connId[c]]
  <2>1. InForce(c, list) = filters[o][list]
    BY <1>1, <1>7 DEF InForce, Acting, Lookup
  <2> QED BY <1>3, <1>4, <1>5, <2>1
<1> QED BY <1>2, <1>6, <1>7

(* A client that was told no id yet gets an id that nobody has: no client  *)
(* of the library presents a token.                                        *)
LEMMA FirstIsNew ==
    ASSUME ~MayTakeOver, TypeOK, OneHolder, OneId, NEW c \in Conns, NEW r \in Request,
           told[c] = NoId, Register(c, r)
    PROVE  \E i \in Ids : endpoints[i] = NoEp /\ RegisterNew(c, i, r)
<1>1. PICK i \in IF r.id = NoId THEN {j \in Ids : endpoints[j] = NoEp} ELSE {r.id} :
         IF endpoints[i] = NoEp THEN RegisterNew(c, i, r) ELSE RegisterExisting(c, i, r)
  BY DEF Register
<1>2. i \in Ids /\ i # NoId /\ ~r.token
  BY <1>1, RegistryAssumption DEF RegistryAssumption, Register, Disciplined, Request, AnyId
<1>3. ASSUME endpoints[i] # NoEp PROVE FALSE
  <2> DEFINE d == ep[endpoints[i]].conn
  <2>1. d \in Conns /\ connId[d] = i /\ connId[c] = NoId
    BY <1>2, <1>3 DEF OneId
  <2>2. d # c /\ Online(d)
    BY <1>2, <2>1 DEF OneHolder
  <2>3. SameFD(c, endpoints[i]) = {FALSE}
    BY <2>1, <2>2 DEF SameFD, Dangles
  <2>4. PICK same \in SameFD(c, endpoints[i]) : Entitled(same, r)
    BY <1>1, <1>3 DEF RegisterExisting, RegisterAgain
  <2> QED BY <1>2, <2>3, <2>4 DEF Entitled
<1> QED BY <1>1, <1>2, <1>3

LEMMA CopyOfList ==
    ASSUME NEW f \in Filter, NEW x, NEW list \in ListNames
    PROVE  Copy(f, x)[list] = IF x.cmd \in {"FWD", "SUB", "REJECT"}
                              THEN f[list] \cup x.lists[list] ELSE f[list] \ x.lists[list]
<1>1. DOMAIN f = ListNames
  BY DEF Filter, ListNames
<1> QED BY <1>1 DEF Copy

(* The server does to the filters what the client does to its copies.      *)
LEMMA FiltersAsCopies ==
    ASSUME RoutingTypeOK, NEW c \in Conns, NEW x \in ConsoleCommand, Filters(c, x)
    PROVE  /\ Acts(c) /\ UNCHANGED vars
           /\ \A o \in Eps : o # Acting(c) => filters'[o] = filters[o]
           /\ \A list \in ListNames :
                filters'[Acting(c)][list] =
                    IF x.cmd \in {"FWD", "SUB", "REJECT"}
                    THEN filters[Acting(c)][list] \cup x.lists[list]
                    ELSE filters[Acting(c)][list] \ x.lists[list]
<1> DEFINE o == Acting(c)
<1>1. Acts(c) /\ UNCHANGED vars
  BY DEF Filters, Forward, Unforward, Subscribe, Unsubscribe, Reject, Unreject, Refilter
<1>2. o \in Eps /\ filters[o] \in Filter /\ filters \in [Eps -> Filter]
  BY <1>1, ActingHeld DEF RoutingTypeOK
<1>3. /\ x.cmd \in FilterNames /\ x.lists \in Filter
      /\ \A list \in ListNames : list \notin ListsOf(x.cmd) => x.lists[list] = {}
  <2>1. DOMAIN x.lists = ListNames
    BY DEF ConsoleCommand, Filter, ListNames
  <2> QED BY <2>1 DEF ConsoleCommand, Named
<1>4. \E filter : filters' = [filters EXCEPT ![o] = filter]
  BY DEF Filters, Forward, Unforward, Subscribe, Unsubscribe, Reject, Unreject, Refilter
<1>5. CASE x.cmd = "FWD"
  <2>1. filters'[o] = [filters[o] EXCEPT !.fwd_targets = @ \cup x.lists.fwd_targets]
    BY <1>2, <1>5 DEF Filters, Forward, Refilter
  <2>2. x.lists.subs_sources = {} /\ x.lists.rej_sources = {}
        /\ x.lists.subs_messages = {} /\ x.lists.rej_messages = {}
    BY <1>3, <1>5 DEF ListsOf, ListNames
  <2> QED BY <1>1, <1>2, <1>4, <1>5, <2>1, <2>2 DEF ListNames, Filter
<1>6. CASE x.cmd = "UNFWD"
  <2>1. filters'[o] = [filters[o] EXCEPT !.fwd_targets = @ \ x.lists.fwd_targets]
    BY <1>2, <1>6 DEF Filters, Unforward, Refilter
  <2>2. x.lists.subs_sources = {} /\ x.lists.rej_sources = {}
        /\ x.lists.subs_messages = {} /\ x.lists.rej_messages = {}
    BY <1>3, <1>6 DEF ListsOf, ListNames
  <2> QED BY <1>1, <1>2, <1>4, <1>6, <2>1, <2>2 DEF ListNames, Filter
<1>7. CASE x.cmd = "SUB"
  <2>1. filters'[o] = [filters[o] EXCEPT !.subs_sources = @ \cup x.lists.subs_sources,
                                         !.subs_messages = @ \cup x.lists.subs_messages]
    BY <1>2, <1>7 DEF Filters, Subscribe, Refilter
  <2>2. x.lists.fwd_targets = {} /\ x.lists.rej_sources = {} /\ x.lists.rej_messages = {}
    BY <1>3, <1>7 DEF ListsOf, ListNames
  <2> QED BY <1>1, <1>2, <1>4, <1>7, <2>1, <2>2 DEF ListNames, Filter
<1>8. CASE x.cmd = "UNSUB"
  <2>1. filters'[o] = [filters[o] EXCEPT !.subs_sources = @ \ x.lists.subs_sources,
                                         !.subs_messages = @ \ x.lists.subs_messages]
    BY <1>2, <1>8 DEF Filters, Unsubscribe, Refilter
  <2>2. x.lists.fwd_targets = {} /\ x.lists.rej_sources = {} /\ x.lists.rej_messages = {}
    BY <1>3, <1>8 DEF ListsOf, ListNames
  <2> QED BY <1>1, <1>2, <1>4, <1>8, <2>1, <2>2 DEF ListNames, Filter
<1>9. CASE x.cmd = "REJECT"
  <2>1. filters'[o] = [filters[o] EXCEPT !.rej_sources = @ \cup x.lists.rej_sources,
                                         !.rej_messages = @ \cup x.lists.rej_messages]
    BY <1>2, <1>9 DEF Filters, Reject, Refilter
  <2>2. x.lists.fwd_targets = {} /\ x.lists.subs_sources = {} /\ x.lists.subs_messages = {}
    BY <1>3, <1>9 DEF ListsOf, ListNames
  <2> QED BY <1>1, <1>2, <1>4, <1>9, <2>1, <2>2 DEF ListNames, Filter
<1>10. CASE x.cmd = "UNREJECT"
  <2>1. filters'[o] = [filters[o] EXCEPT !.rej_sources = @ \ x.lists.rej_sources,
                                         !.rej_messages = @ \ x.lists.rej_messages]
    BY <1>2, <1>10 DEF Filters, Unreject, Refilter
  <2>2. x.lists.fwd_targets = {} /\ x.lists.subs_sources = {} /\ x.lists.subs_messages = {}
    BY <1>3, <1>10 DEF ListsOf, ListNames
  <2> QED BY <1>1, <1>2, <1>4, <1>10, <2>1, <2>2 DEF ListNames, Filter
<1> QED BY <1>3, <1>5, <1>6, <1>7, <1>8, <1>9, <1>10 DEF FilterNames

LEMMA OthersInForce ==
    ASSUME TypeOK, OneHolder, NEW c \in Conns, NEW d \in Conns, d # c, Acts(c),
           UNCHANGED vars, \A o \in Eps : o # Acting(c) => filters'[o] = filters[o],
           NEW list
    PROVE  InForce(d, list)' = InForce(d, list)
<1>1. /\ status' = status /\ Acting(d)' = Acting(d)
  BY DEF vars, connVars, mapVars, Acting, Lookup
<1>2. ASSUME status[d] = "open", Acting(d) # NoEp
      PROVE  Acting(d) # Acting(c) /\ Acting(d) \in Eps
  <2>1. Acts(d)
    BY <1>2 DEF Acts
  <2>2. /\ connId[c] \in Ids /\ Acting(c) = endpoints[connId[c]]
        /\ connId[d] \in Ids /\ Acting(d) = endpoints[connId[d]] /\ Acting(d) \in Eps
    BY <2>1, ActingHeld
  <2>3. connId[d] # connId[c] /\ connId[d] # NoId
    BY <2>2, RegistryAssumption DEF OneHolder, RegistryAssumption
  <2> QED BY <1>2, <2>2, <2>3 DEF OneHolder
<1> QED BY <1>1, <1>2 DEF InForce

LEMMA InForceSame ==
    ASSUME UNCHANGED <<vars, filters>>, NEW c, NEW list
    PROVE  InForce(c, list)' = InForce(c, list)
BY DEF InForce, vars, connVars, mapVars, Acting, Lookup

LEMMA ShownUntouched ==
    ASSUME ShownInv, UNCHANGED <<to_server, copies>>,
           \A k \in Clients : peer'[k] \in {peer[k], NoConn},
           \A c, list : InForce(c, list)' \subseteq InForce(c, list)
    PROVE  ShownInv'
<1>1. ASSUME NEW k \in Clients, Connected(k)' PROVE Connected(k) /\ peer'[k] = peer[k]
  BY <1>1 DEF Connected
<1>2. ASSUME NEW k \in Clients, Connected(k)' PROVE Behind(copies[k], peer[k])'
  BY <1>1, <1>2, BehindKept DEF ShownInv
<1>3. ASSUME NEW j \in Clients, NEW k \in Clients, Connected(j)', peer'[j] = peer'[k]
      PROVE  j = k
  <2>1. Connected(j) /\ peer'[j] = peer[j] /\ Connected(k)'
    BY <1>1, <1>3 DEF Connected
  <2>2. Connected(k) /\ peer'[k] = peer[k]
    BY <1>1, <2>1
  <2> QED BY <1>3, <2>1, <2>2 DEF ShownInv
<1> QED BY <1>2, <1>3 DEF ShownInv

LEMMA ShownPopped ==
    ASSUME QueueInv, ShownInv, NEW c \in Conns, to_server[c] # <<>>,
           to_server' = [to_server EXCEPT ![c] = Tail(@)],
           Head(to_server[c]).cmd \in {"REG", "SVC", "SVC_RSP"},
           UNCHANGED <<peer, copies>>,
           \A d \in Conns : \A list \in ListNames :
               InForce(d, list)' \subseteq InForce(d, list)
    PROVE  ShownInv'
<1>1. ASSUME NEW k \in Clients, Connected(k), Behind(copies[k], peer[k])
      PROVE  Behind(copies[k], peer[k])'
  <2>1. peer[k] \in Conns
    BY <1>1 DEF QueueInv, Connected, AnyConn
  <2>2. CASE peer[k] # c
    <3>1. to_server'[peer[k]] = to_server[peer[k]]
      BY <2>1, <2>2 DEF QueueInv
    <3> QED BY <1>1, <2>1, <3>1, BehindKept
  <2>3. CASE peer[k] = c
    <3>1. to_server[c] \in Seq(Upward) /\ to_server'[c] = Tail(to_server[c])
      BY DEF QueueInv
    <3>2. \A list, x : ~Drops(Head(to_server[c]), list, x)
      BY DEF Drops
    <3>3. ASSUME NEW list \in ListNames, NEW x, x \notin copies[k][list]
          PROVE  /\ TakenBack(Tail(to_server[c]), list, x)
                 /\ x \in InForce(c, list)' => DroppedAfter(Tail(to_server[c]), 0, list, x)
      <4>1. /\ TakenBack(to_server[c], list, x)
            /\ x \in InForce(c, list) => DroppedAfter(to_server[c], 0, list, x)
        BY <1>1, <2>3, <3>3 DEF Behind
      <4> QED BY <3>1, <3>2, <4>1, TailTakesBack
    <3> QED BY <2>3, <3>1, <3>3 DEF Behind
  <2> QED BY <2>2, <2>3
<1> QED BY <1>1 DEF ShownInv, Connected

LEMMA ShownSent ==
    ASSUME QueueInv, ShownInv, NEW k \in Clients, Connected(k), NEW e \in Upward,
           e.cmd \in {"SVC", "SVC_RSP"},
           to_server' = [to_server EXCEPT ![peer[k]] = Append(@, e)],
           UNCHANGED <<vars, filters, peer, copies>>
    PROVE  ShownInv'
<1> DEFINE c == peer[k]
<1>1. c \in Conns /\ to_server[c] \in Seq(Upward)
      /\ to_server'[c] = Append(to_server[c], e)
      /\ \A d \in Conns : d # c => to_server'[d] = to_server[d]
  BY DEF QueueInv, Connected, AnyConn
<1>2. \A d, list : InForce(d, list)' = InForce(d, list)
  BY InForceSame
<1>3. Behind(copies[k], c)'
  <2>1. ASSUME NEW list \in ListNames, NEW x, x \notin copies[k][list]
        PROVE  /\ TakenBack(Append(to_server[c], e), list, x)
               /\ x \in InForce(c, list)
                    => DroppedAfter(Append(to_server[c], e), 0, list, x)
    <3>1. /\ TakenBack(to_server[c], list, x)
          /\ x \in InForce(c, list) => DroppedAfter(to_server[c], 0, list, x)
      BY <2>1 DEF ShownInv, Behind
    <3>2. ~Adds(e, list, x)
      BY DEF Adds
    <3> QED BY <1>1, <3>1, <3>2, AppendTakesBack
  <2> QED BY <1>1, <1>2, <2>1 DEF Behind
<1>4. ASSUME NEW j \in Clients, j # k, Connected(j) PROVE Behind(copies[j], peer[j])'
  <2>1. peer[j] \in Conns /\ peer[j] # c
    BY <1>4 DEF QueueInv, Connected, AnyConn, ShownInv
  <2> QED BY <1>1, <1>2, <1>4, <2>1, BehindKept DEF ShownInv
<1> QED BY <1>3, <1>4 DEF ShownInv, Connected

LEMMA ShownFiltering ==
    ASSUME Covered, TrafficAssumption, QueueInv, ShownInv, copies \in [Clients -> Filter],
           NEW k \in Clients, ConsoleFilter(k)
    PROVE  ShownInv'
<1>1. PICK e \in FilterCommands[k] :
         copies' = [copies EXCEPT ![k] = Copy(@, e)] /\ Post(k, e)
  BY DEF ConsoleFilter
<1>2. /\ e \in Upward /\ e.cmd \in FilterNames /\ copies[k] \in Filter
      /\ copies'[k] = Copy(copies[k], e)
      /\ \A j \in Clients : j # k => copies'[j] = copies[j]
  BY <1>1, FilterSent DEF TrafficAssumption, FilterNames
<1>3. peer' = peer /\ \A d, list : InForce(d, list)' = InForce(d, list)
  BY InForceSame DEF ConsoleFilter, Unrouted
<1>4. \A list \in ListNames :
         Copy(copies[k], e)[list] = IF e.cmd \in {"FWD", "SUB", "REJECT"}
                                    THEN copies[k][list] \cup e.lists[list]
                                    ELSE copies[k][list] \ e.lists[list]
  <2>1. copies[k] \in Filter
    BY <1>2
  <2> QED BY ONLY <2>1, CopyOfList
<1>5. ASSUME Connected(k) PROVE Behind(copies[k], peer[k])'
  <2> DEFINE c == peer[k]
  <2>1. c \in Conns /\ to_server[c] \in Seq(Upward)
        /\ to_server'[c] = Append(to_server[c], e)
    BY <1>1, <1>5 DEF QueueInv, Connected, AnyConn, Post
  <2>2. ASSUME NEW list \in ListNames, NEW x, x \notin Copy(copies[k], e)[list]
        PROVE  /\ TakenBack(Append(to_server[c], e), list, x)
               /\ x \in InForce(c, list)
                    => DroppedAfter(Append(to_server[c], e), 0, list, x)
    <3>1. ~Adds(e, list, x) /\ (x \notin copies[k][list] \/ Drops(e, list, x))
      BY <1>2, <1>4, <2>2 DEF Adds, Drops, FilterNames
    <3>2. x \notin copies[k][list] =>
            /\ TakenBack(to_server[c], list, x)
            /\ x \in InForce(c, list) => DroppedAfter(to_server[c], 0, list, x)
      BY <1>5 DEF ShownInv, Behind
    <3> QED BY <1>2, <2>1, <3>1, <3>2, AppendTakesBack
  <2> QED BY <1>2, <1>3, <2>1, <2>2 DEF Behind
<1>6. ASSUME NEW j \in Clients, j # k, Connected(j) PROVE Behind(copies[j], peer[j])'
  <2>1. peer[j] \in Conns /\ peer[j] # peer[k]
    BY <1>6 DEF QueueInv, Connected, AnyConn, ShownInv
  <2>2. to_server'[peer[j]] = to_server[peer[j]]
    BY <1>1, <2>1 DEF Post, QueueInv
  <2> QED BY <1>2, <1>3, <1>6, <2>1, <2>2, BehindKept DEF ShownInv
<1> QED BY <1>3, <1>5, <1>6 DEF ShownInv, Connected

LEMMA ShownFiltered ==
    ASSUME Covered, QueueInv, RoutingTypeOK, OneHolder, ShownInv, copies \in [Clients -> Filter],
           NEW c \in Conns, ServerFilters(c)
    PROVE  ShownInv'
<1> DEFINE e == Head(to_server[c])
           q == to_server[c]
<1>1. /\ q # <<>> /\ e \in ConsoleCommand /\ e.cmd \in FilterNames /\ q \in Seq(Upward)
      /\ to_server' = [to_server EXCEPT ![c] = Tail(@)]
      /\ UNCHANGED <<peer, copies>>
  BY FilterCases, Zenon DEF ServerFilters, Answer, QueueInv, ConsoleCommand
<1>2. /\ to_server'[c] = Tail(q)
      /\ \A d \in Conns : d # c => to_server'[d] = to_server[d]
  BY <1>1 DEF QueueInv
<1>3. \/ Filters(c, e)
      \/ ~Acts(c) /\ UNCHANGED <<vars, filters>>
  BY DEF ServerFilters, Unrouted
<1>4. TypeOK
  BY DEF QueueInv
<1> HIDE DEF e
<1>5. ASSUME NEW d \in Conns, d # c, NEW list \in ListNames
      PROVE  InForce(d, list)' = InForce(d, list)
  <2>1. CASE Filters(c, e)
    BY <1>1, <1>4, <1>5, <2>1, FiltersAsCopies, OthersInForce
  <2>2. CASE UNCHANGED <<vars, filters>>
    BY <2>2, InForceSame
  <2> QED BY <1>3, <2>1, <2>2
<1>6. ASSUME NEW list \in ListNames, NEW x, x \in InForce(c, list)'
      PROVE  (x \in InForce(c, list) /\ ~Drops(e, list, x)) \/ Adds(e, list, x)
  <2>1. CASE Filters(c, e)
    <3>1. /\ Acts(c) /\ UNCHANGED vars
          /\ filters'[Acting(c)][list] =
               IF e.cmd \in {"FWD", "SUB", "REJECT"}
               THEN filters[Acting(c)][list] \cup e.lists[list]
               ELSE filters[Acting(c)][list] \ e.lists[list]
      BY <1>1, <2>1, FiltersAsCopies
    <3>2. /\ InForce(c, list) = filters[Acting(c)][list]
          /\ InForce(c, list)' = filters'[Acting(c)][list]
      BY <3>1 DEF InForce, Acts, Acting, Lookup, vars, connVars, mapVars
    <3> QED BY <1>1, <1>6, <3>1, <3>2 DEF Adds, Drops, FilterNames
  <2>2. CASE ~Acts(c) /\ UNCHANGED <<vars, filters>>
    BY <1>6, <2>2, InForceSame DEF Acts, InForce
  <2> QED BY <1>3, <2>1, <2>2
<1>7. ASSUME NEW k \in Clients, Connected(k), Behind(copies[k], peer[k])
      PROVE  Behind(copies[k], peer[k])'
  <2>1. peer[k] \in Conns
    BY <1>7 DEF QueueInv, Connected, AnyConn
  <2>2. CASE peer[k] # c
    BY <1>1, <1>2, <1>5, <1>7, <2>1, <2>2, BehindKept
  <2>3. CASE peer[k] = c
    <3>1. ASSUME NEW list \in ListNames, NEW x, x \notin copies[k][list]
          PROVE  /\ TakenBack(Tail(q), list, x)
                 /\ x \in InForce(c, list)' => DroppedAfter(Tail(q), 0, list, x)
      <4>1. /\ TakenBack(q, list, x)
            /\ x \in InForce(c, list) => DroppedAfter(q, 0, list, x)
        BY <1>7, <2>3, <3>1 DEF Behind
      <4>2. x \in InForce(c, list)' =>
              (x \in InForce(c, list) /\ ~Drops(e, list, x)) \/ Adds(e, list, x)
        BY <1>6
      <4> QED BY <1>1, <4>1, <4>2, TailTakesBack DEF e
    <3> QED BY <1>1, <1>2, <2>3, <3>1 DEF Behind
  <2> QED BY <2>2, <2>3
<1> QED BY <1>1, <1>7 DEF ShownInv, Connected

LEMMA ShownRegistered ==
    ASSUME ~MayTakeOver, QueueInv, QueueInv', RegFirst, RoutingTypeOK, FreshFilters,
           OneHolder, OneId, ShownInv, NEW c \in Conns, ServerRegisters(c)
    PROVE  ShownInv'
<1>1. PICK r \in Request :
         /\ Head(to_server[c]) = [cmd |-> "REG", reg |-> r]
         /\ Registers(c, r) \/ (UNCHANGED vars /\ Answer(c, Error("REG")))
  BY RegisterCasesOfTraffic
<1>2. /\ to_server[c] # <<>> /\ Head(to_server[c]).cmd = "REG"
      /\ to_server' = [to_server EXCEPT ![c] = Tail(@)]
      /\ UNCHANGED <<peer, copies>> /\ Forget
  BY <1>1 DEF ServerRegisters, Registers, Answer, AfterRegistry
<1>3. told[c] = NoId
  <2>1. to_server[c] \in Seq(Upward)
    BY DEF QueueInv
  <2>2. 1 \in DOMAIN to_server[c] /\ to_server[c][1] = Head(to_server[c])
    BY <1>2, <2>1
  <2> QED BY <1>2, <2>2 DEF RegFirst
<1>4. TypeOK /\ TypeOK' /\ filters \in [Eps -> Filter]
  BY DEF QueueInv, RoutingTypeOK
<1>5. CASE UNCHANGED vars
  <2>1. filters' = filters
    BY <1>5, NothingForgotten DEF ServerRegisters, routingVars
  <2> QED BY <1>2, <1>5, <2>1, InForceSame, ShownPopped
<1>6. CASE Registers(c, r)
  <2>1. Register(c, r)
    BY <1>6 DEF Registers
  <2>2. PICK i \in Ids : endpoints[i] = NoEp /\ RegisterNew(c, i, r)
    BY <1>3, <1>4, <2>1, FirstIsNew
  <2>3. PICK o \in Eps \ Held : RegisterObject(c, i, r, o)
    BY <2>2 DEF RegisterNew
  <2>4. /\ connId' = [connId EXCEPT ![c] = i] /\ endpoints' = [endpoints EXCEPT ![i] = o]
        /\ status' = status /\ Next
    BY <2>1, <2>3 DEF RegisterObject, SetID, Next
  <2>5. ASSUME NEW list \in ListNames PROVE InForce(c, list)' = {}
    <3>1. Acting(c)' = o /\ filters'[o] = NoFilter
      BY <1>2, <1>4, <2>3, <2>4 DEF Acting, Lookup, TypeOK, FreshFilters, Forget
    <3> QED BY <3>1 DEF InForce, NoFilter, ListNames
  <2>6. ASSUME NEW d \in Conns, d # c, NEW list \in ListNames
        PROVE  InForce(d, list)' \subseteq InForce(d, list)
    <3>1. connId'[d] = connId[d] /\ status'[d] = status[d]
      BY <1>4, <2>4, <2>6 DEF TypeOK
    <3> QED BY <1>2, <1>4, <2>4, <3>1, InForceAfterRegistry
  <2> QED BY <1>2, <2>5, <2>6, ShownPopped
<1> QED BY <1>1, <1>5, <1>6

LEMMA ShownConnected ==
    ASSUME QueueInv, QueueInv', RoutingTypeOK, FreshFilters, OneHolder, ShownInv,
           NEW k \in Clients, NEW c \in Conns, ConnectClient(k, c)
    PROVE  ShownInv'
<1>1. /\ ~Connected(k) /\ \A j \in Clients : peer[j] # c
      /\ OnConnectionReady(c) /\ Forget /\ UNCHANGED copies
      /\ peer' = [peer EXCEPT ![k] = c]
      /\ to_server' = [to_server EXCEPT ![c] = RegisterSelf(k)]
  BY DEF ConnectClient, Connect, AfterRegistry
<1>2. TypeOK /\ TypeOK' /\ filters \in [Eps -> Filter] /\ Next
  BY <1>1 DEF QueueInv, RoutingTypeOK, Next
<1>3. /\ peer'[k] = c /\ \A j \in Clients : j # k => peer'[j] = peer[j]
      /\ to_server'[c] = RegisterSelf(k)
      /\ \A d \in Conns : d # c => to_server'[d] = to_server[d]
  BY <1>1 DEF QueueInv
<1>4. /\ connId' = connId /\ connId[c] = NoId
      /\ \A d \in Conns : d # c => status'[d] = status[d]
  BY <1>1, <1>2 DEF OnConnectionReady, OneHolder, Online, TypeOK
<1>5. ASSUME NEW d \in Conns, NEW list \in ListNames
      PROVE  InForce(d, list)' \subseteq InForce(d, list)
  BY <1>1, <1>2, <1>4, InForceAfterRegistry
<1>6. Behind(copies[k], peer[k])'
  <2>1. ASSUME NEW list \in ListNames PROVE InForce(c, list)' = {}
    BY <1>4, RegistryAssumption DEF InForce, Acting, Lookup, RegistryAssumption
  <2>2. ASSUME NEW n \in DOMAIN RegisterSelf(k), NEW list, NEW x
        PROVE  ~Adds(RegisterSelf(k)[n], list, x)
    BY DEF RegisterSelf, Adds
  <2> QED BY <1>3, <2>1, <2>2 DEF Behind, TakenBack
<1>7. ASSUME NEW j \in Clients, j # k, Connected(j) PROVE Behind(copies[j], peer[j])'
  <2>1. peer[j] \in Conns /\ peer[j] # c
    BY <1>1, <1>7 DEF QueueInv, Connected, AnyConn
  <2> QED BY <1>1, <1>3, <1>5, <1>7, <2>1, BehindKept DEF ShownInv
<1>8. ASSUME NEW i \in Clients, NEW j \in Clients, Connected(i)', peer'[i] = peer'[j]
      PROVE  i = j
  BY <1>1, <1>3, <1>8 DEF ShownInv, Connected
<1> QED BY <1>3, <1>6, <1>7, <1>8 DEF ShownInv, Connected

LEMMA ShownClosed ==
    ASSUME QueueInv, QueueInv', RoutingTypeOK, FreshFilters, OneHolder, ShownInv,
           NEW c \in Conns, CloseConnection(c)
    PROVE  ShownInv'
<1>1. /\ OnConnectionClosed(c) /\ Forget /\ UNCHANGED <<peer, copies>>
      /\ to_server' = [to_server EXCEPT ![c] = <<>>]
  BY DEF CloseConnection, ServerClosed, AfterRegistry
<1>2. TypeOK /\ TypeOK' /\ filters \in [Eps -> Filter] /\ Next
  BY <1>1 DEF QueueInv, RoutingTypeOK, Next
<1>3. /\ to_server'[c] = <<>> /\ status'[c] = "closed"
      /\ \A d \in Conns : d # c => /\ to_server'[d] = to_server[d]
                                   /\ connId'[d] = connId[d] /\ status'[d] = status[d]
  BY <1>1, <1>2 DEF QueueInv, OnConnectionClosed, TypeOK
<1>4. ASSUME NEW k \in Clients, Connected(k) PROVE Behind(copies[k], peer[k])'
  <2>1. peer[k] \in Conns
    BY <1>4 DEF QueueInv, Connected, AnyConn
  <2>2. CASE peer[k] = c
    <3>1. DOMAIN <<>> = {}
      OBVIOUS
    <3>2. \A list \in ListNames : InForce(c, list)' = {}
      BY <1>3 DEF InForce
    <3> QED BY <1>1, <1>3, <2>2, <3>1, <3>2 DEF Behind, TakenBack
  <2>3. CASE peer[k] # c
    <3>1. \A list \in ListNames : InForce(peer[k], list)' \subseteq InForce(peer[k], list)
      BY <1>1, <1>2, <1>3, <2>1, <2>3, InForceAfterRegistry
    <3> QED BY <1>1, <1>3, <1>4, <2>1, <2>3, <3>1, BehindKept DEF ShownInv
  <2> QED BY <2>2, <2>3
<1> QED BY <1>1, <1>4 DEF ShownInv, Connected

LEMMA TrafficOneId ==
    ASSUME Covered, ~MayTakeOver PROVE TrafficSpec => []OneId
<1>1. TrafficInit => OneId
  BY DEF TrafficInit, ClientInit, Init, OneId
<1>2. [OneIdRoutingNext]_routingVars => [OneIdNext]_vars
  <2>1. Asked \subseteq Request
    BY DEF Asked
  <2> QED BY <2>1, RegistryUntouched DEF OneIdRoutingNext, OneIdNext, routingVars
<1>3. /\ QueueInv /\ RegFirst /\ RoutingTypeOK /\ IndexInv /\ OneHolder /\ Serves /\ OneId
      /\ [TrafficNext]_trafficVars
      => OneId'
  <2> SUFFICES ASSUME QueueInv, RegFirst, RoutingTypeOK, IndexInv, OneHolder, Serves, OneId,
                      [TrafficNext]_trafficVars
               PROVE  OneId'
    OBVIOUS
  <2>1. [OneIdNext]_vars /\ TypeOK
    BY <1>2, StepOfNode DEF IndexInv, QueueInv
  <2> QED BY <2>1, OneIdStep, RegistryAssumption
<1> QED BY <1>1, <1>3, QueueInvCorrect, RegFirstCorrect, NodeInvCorrect, TrafficIsRegistry,
           ActingCorrect, ServesCorrect, PTL DEF TrafficSpec

LEMMA ShownStep ==
    ASSUME Covered, ~MayTakeOver, TrafficAssumption, QueueInv, QueueInv', RegFirst,
           RoutingTypeOK, FreshFilters, OneHolder, OneId, copies \in [Clients -> Filter],
           ShownInv, [TrafficNext]_trafficVars
    PROVE  ShownInv'
<1>1. ASSUME NEW k \in Clients,
             LoseConnection(k) \/ ClientReadsResult(k) \/ ClientReadsAnswer(k)
      PROVE  ShownInv'
  <2>1. UNCHANGED <<vars, filters, to_server, copies>>
    BY <1>1 DEF LoseConnection, ConnectionLost, ClientReadsResult, HandleCommandResult,
                ClientReadsAnswer, Unrouted
  <2>2. \A j \in Clients : peer'[j] \in {peer[j], NoConn}
    BY <1>1 DEF QueueInv, LoseConnection, ConnectionLost, ClientReadsResult,
                HandleCommandResult, ClientReadsAnswer
  <2> QED BY <2>1, <2>2, Zenon, InForceSame, ShownUntouched
<1>2. ASSUME NEW k \in Clients, NEW s \in Sessions, NEW t \in SvcTypes,
             NEW svc_cmd \in MsgTypes, RequestService(k, s, t, svc_cmd)
      PROVE  ShownInv'
  <2> DEFINE e == [cmd |-> "SVC", source |-> SourceOf(k), sess_id |-> s,
                   svc_type |-> t, svc_cmd |-> svc_cmd, ok |-> TRUE]
  <2>1. e \in Upward /\ e.cmd = "SVC"
    BY DEF Upward, SvcMessage, SourceOf, QueueInv, Context
  <2>2. /\ Connected(k) /\ UNCHANGED <<vars, filters, peer, copies>>
        /\ to_server' = [to_server EXCEPT ![peer[k]] = Append(@, e)]
    BY <1>2 DEF RequestService, Post, Unrouted
  <2> HIDE DEF e
  <2> QED BY <2>1, <2>2, ShownSent
<1>3. ASSUME NEW k \in Clients, ClientServes(k) PROVE ShownInv'
  <2> DEFINE x == Head(to_client[peer[k]])
  <2>1. peer[k] \in Conns /\ x \in Downward /\ x.cmd = "SVC"
    BY <1>3, HeadDownward DEF ClientServes
  <2>2. x \in SvcMessage
    BY <2>1 DEF Downward, FilterNames
  <2>3. PICK answer \in ServiceAnswer(k, x) :
          to_server' = [to_server EXCEPT ![peer[k]] = Append(@, answer)]
    BY <1>3 DEF ClientServes
  <2>4. answer \in Upward /\ answer.cmd = "SVC_RSP"
    BY <2>2, <2>3 DEF ServiceAnswer, SvcMessage, Upward
  <2>5. Connected(k) /\ UNCHANGED <<vars, filters, peer, copies>>
    BY <1>3 DEF ClientServes, Unrouted
  <2> QED BY <2>3, <2>4, <2>5, ShownSent
<1>4. ASSUME NEW c \in Conns, ServerServes(c) \/ ServerAnswers(c) PROVE ShownInv'
  <2>1. /\ to_server[c] # <<>> /\ to_server' = [to_server EXCEPT ![c] = Tail(@)]
        /\ UNCHANGED <<peer, copies>>
    BY <1>4, ServeCases, AnswerCases DEF Deliver
  <2>2. Head(to_server[c]).cmd \in {"SVC", "SVC_RSP"}
    BY <1>4 DEF ServerServes, ServerAnswers
  <2>3. UNCHANGED <<vars, filters>>
    BY <1>4, ServeCases, AnswerCases, SendType, RegistryAssumption, RoutingAssumption
    DEF routingVars
  <2> QED BY <2>1, <2>2, <2>3, InForceSame, ShownPopped
<1>5. CASE UNCHANGED trafficVars
  <2>1. UNCHANGED <<vars, filters, to_server, copies, peer>>
    BY <1>5 DEF trafficVars, systemVars, clientVars
  <2> QED BY <2>1, InForceSame, ShownUntouched
<1> QED BY <1>1, <1>2, <1>3, <1>4, <1>5, ShownFiltering, ShownFiltered, ShownRegistered,
           ShownConnected, ShownClosed DEF TrafficNext

(* With nothing on the way the server filters for a client no more than the*)
(* client shows, after any number of commands, refusals and reconnections: *)
(* while commands are on the way, whatever the copy lacks is dropped by one*)
(* of them.                                                                *)
THEOREM FiltersShownCorrect ==
    ASSUME Covered, ~MayTakeOver PROVE TrafficSpec => []FiltersShown
<1>1. TrafficInit => ShownInv
  BY DEF TrafficInit, ClientInit, ShownInv, Connected
<1>2. /\ QueueInv /\ QueueInv' /\ RegFirst /\ RoutingTypeOK /\ IndexInv /\ OneHolder
      /\ OneId /\ TrafficTypeOK /\ ShownInv /\ [TrafficNext]_trafficVars
      => ShownInv'
  BY ShownStep, TrafficAssumption DEF IndexInv, TrafficTypeOK
<1>3. QueueInv /\ TrafficTypeOK /\ ShownInv => FiltersShown
  <2> SUFFICES ASSUME QueueInv, TrafficTypeOK, ShownInv, NEW k \in Clients, Connected(k),
                      status[peer[k]] = "open", Acting(peer[k]) # NoEp,
                      Answering(peer[k]) = 0, NEW list \in DOMAIN copies[k],
                      NEW x \in filters[Acting(peer[k])][list]
               PROVE  x \in copies[k][list]
    BY DEF FiltersShown
  <2> DEFINE c == peer[k]
  <2>1. c \in Conns /\ to_server[c] \in Seq(Upward) /\ to_client[c] \in Seq(Downward)
    BY DEF QueueInv, Connected, AnyConn
  <2>2. DOMAIN to_server[c] = {}
    <3> DEFINE q == to_server[c]
               r == to_client[c]
    <3>1. Len(q) + Len(r) = 0 /\ q \in Seq(Upward) /\ r \in Seq(Downward)
      BY <2>1 DEF Answering
    <3> HIDE DEF q, r
    <3>2. Len(q) = 0 /\ DOMAIN q = 1 .. Len(q)
      BY <3>1
    <3> QED BY <3>2 DEF q
  <2>3. list \in ListNames
    BY DEF TrafficTypeOK, Filter, ListNames
  <2>4. x \in InForce(c, list)
    BY DEF InForce
  <2>5. ~DroppedAfter(to_server[c], 0, list, x)
    BY <2>2 DEF DroppedAfter
  <2> QED BY <2>3, <2>4, <2>5 DEF ShownInv, Behind
<1> QED BY <1>1, <1>2, <1>3, QueueInvCorrect, RegFirstCorrect, NodeInvCorrect,
           TrafficIsRegistry, ActingCorrect, TrafficOneId, TrafficTypeCorrect, PTL
    DEF TrafficSpec
=============================================================================
