-------------------------- MODULE SwitchClientProofs --------------------------
(***************************************************************************)
(* Theorems about clients of the library and the registry they talk to,    *)
(* for any set of clients: the whole is a registry; the clients keep the   *)
(* discipline that the theorems of RegistryDirectoryProofs assume; what a  *)
(* context shows of its client is what the server has registered.          *)
(***************************************************************************)
EXTENDS SwitchClient, RegistryDirectoryProofs

(* The commands or results of a queue.                                     *)
Elems(s) == {s[n] : n \in DOMAIN s}

LEMMA ElemsConcat ==
    ASSUME NEW S, NEW s \in Seq(S), NEW t \in Seq(S)
    PROVE  s \o t \in Seq(S) /\ Elems(s \o t) = Elems(s) \cup Elems(t)
<1>1. s \o t \in Seq(S)
  OBVIOUS
<1>2. ASSUME NEW n \in DOMAIN (s \o t)
      PROVE  (s \o t)[n] \in Elems(s) \cup Elems(t)
  <2>1. n \in 1 .. Len(s) + Len(t)
    OBVIOUS
  <2>2. CASE n <= Len(s)
    <3>1. (s \o t)[n] = s[n] /\ n \in DOMAIN s
      BY <2>1, <2>2
    <3> QED BY <3>1 DEF Elems
  <2>3. CASE n > Len(s)
    <3>1. (s \o t)[n] = t[n - Len(s)] /\ n - Len(s) \in DOMAIN t
      BY <2>1, <2>3
    <3> QED BY <3>1 DEF Elems
  <2> QED BY <2>1, <2>2, <2>3
<1>3. ASSUME NEW n \in DOMAIN s PROVE s[n] \in Elems(s \o t)
  <2>1. n \in DOMAIN (s \o t) /\ (s \o t)[n] = s[n]
    OBVIOUS
  <2> QED BY <2>1 DEF Elems
<1>4. ASSUME NEW n \in DOMAIN t PROVE t[n] \in Elems(s \o t)
  <2>1. n + Len(s) \in DOMAIN (s \o t) /\ (s \o t)[n + Len(s)] = t[n]
    OBVIOUS
  <2> QED BY <2>1 DEF Elems
<1>5. Elems(s \o t) \subseteq Elems(s) \cup Elems(t)
  BY <1>2 DEF Elems
<1>6. Elems(s) \cup Elems(t) \subseteq Elems(s \o t)
  BY <1>3, <1>4 DEF Elems
<1> QED BY <1>1, <1>5, <1>6

LEMMA ElemsTail ==
    ASSUME NEW S, NEW s \in Seq(S), s # <<>>
    PROVE  /\ Tail(s) \in Seq(S)
           /\ Elems(s) = Elems(Tail(s)) \cup {Head(s)}
           /\ Head(s) \in S
<1>1. Tail(s) \in Seq(S) /\ Len(s) \in Nat /\ Len(s) > 0 /\ Head(s) \in S
  OBVIOUS
<1>2. ASSUME NEW n \in DOMAIN Tail(s) PROVE Tail(s)[n] \in Elems(s)
  <2>1. Tail(s)[n] = s[n + 1] /\ n + 1 \in DOMAIN s
    BY <1>1
  <2> QED BY <2>1 DEF Elems
<1>3. ASSUME NEW n \in DOMAIN s PROVE s[n] \in Elems(Tail(s)) \cup {Head(s)}
  <2>1. CASE n = 1
    BY <1>1, <2>1
  <2>2. CASE n # 1
    <3>1. n - 1 \in DOMAIN Tail(s) /\ Tail(s)[n - 1] = s[n]
      BY <1>1, <2>2
    <3> QED BY <3>1 DEF Elems
  <2> QED BY <2>1, <2>2
<1>4. Head(s) = s[1] /\ 1 \in DOMAIN s
  BY <1>1
<1>5. Head(s) \in Elems(s)
  BY <1>4 DEF Elems
<1>6. Elems(Tail(s)) \subseteq Elems(s)
  BY <1>2 DEF Elems
<1>7. Elems(s) \subseteq Elems(Tail(s)) \cup {Head(s)}
  BY <1>3 DEF Elems
<1> QED BY <1>1, <1>5, <1>6, <1>7

LEMMA NoElems == Elems(<<>>) = {} /\ Len(<<>>) <= 1
<1>1. Elems(<<>>) = {}
  BY DEF Elems
<1>2. Len(<<>>) = 0
  OBVIOUS
<1> QED BY <1>1, <1>2

LEMMA ElemsFew ==
    ASSUME NEW x PROVE Elems(<<>>) = {} /\ Elems(<<x>>) = {x}
<1>1. Elems(<<>>) = {}
  BY DEF Elems
<1>2. DOMAIN <<x>> = {1} /\ <<x>>[1] = x
  OBVIOUS
<1> QED BY <1>1, <1>2 DEF Elems

-----------------------------------------------------------------------------
(* What a step of the server sends on each connection.                     *)
LEMMA SentType ==
    ASSUME NEW S, NEW c \in Conns, NEW answer \in Seq(S), KickedOut \in S,
           NEW d \in Conns
    PROVE  /\ Sent(c, answer)[d] \in Seq(S)
           /\ Elems(Sent(c, answer)[d]) \subseteq
                {KickedOut} \cup (IF c = d THEN Elems(answer) ELSE {})
           /\ c = d /\ (\E k \in Clients : peer[k] = d) =>
                Elems(answer) \subseteq Elems(Sent(c, answer)[d])
<1> DEFINE news == IF status[d] = "open" /\ status'[d] = "closing" THEN <<KickedOut>> ELSE <<>>
           own == IF c = d THEN answer ELSE <<>>
<1>1. Sent(c, answer)[d] = IF \E k \in Clients : peer[k] = d THEN news \o own ELSE <<>>
  BY DEF Sent
<1>2. news \in Seq(S) /\ own \in Seq(S)
  OBVIOUS
<1>3. Elems(news) \subseteq {KickedOut} /\ Elems(own) = IF c = d THEN Elems(answer) ELSE {}
  BY ElemsFew
<1> HIDE DEF news, own
<1>4. news \o own \in Seq(S) /\ Elems(news \o own) = Elems(news) \cup Elems(own)
  BY <1>2, ElemsConcat
<1>5. Elems(<<>>) = {}
  BY ElemsFew
<1> QED BY <1>1, <1>3, <1>4, <1>5

LEMMA AnswerType ==
    ASSUME ClientTypeOK, NEW c \in Conns, to_server[c] # <<>>,
           NEW result \in Result, Answer(c, result)
    PROVE  /\ to_server' \in [Conns -> Seq(Command)]
           /\ to_client' \in [Conns -> Seq(Result)]
           /\ \A d \in Conns :
                /\ Elems(to_client[d]) \subseteq Elems(to_client'[d])
                /\ Elems(to_client'[d]) \subseteq
                     Elems(to_client[d]) \cup {KickedOut}
                     \cup (IF c = d THEN {result} ELSE {})
                /\ c = d /\ (\E k \in Clients : peer[k] = d) =>
                     result \in Elems(to_client'[d])
<1>1. KickedOut \in Result
  BY DEF KickedOut, Error, Result, AnyId
<1>2. <<result>> \in Seq(Result) /\ Elems(<<result>>) = {result}
  BY ElemsFew
<1>3. Tail(to_server[c]) \in Seq(Command)
  BY ElemsTail DEF ClientTypeOK
<1>4. to_server' \in [Conns -> Seq(Command)]
  BY <1>3 DEF Answer, ClientTypeOK
<1>5. ASSUME NEW d \in Conns
      PROVE  /\ to_client'[d] \in Seq(Result)
             /\ Elems(to_client'[d]) =
                  Elems(to_client[d]) \cup Elems(Sent(c, <<result>>)[d])
  <2>1. to_client'[d] = to_client[d] \o Sent(c, <<result>>)[d]
    BY DEF Answer
  <2>2. to_client[d] \in Seq(Result) /\ Sent(c, <<result>>)[d] \in Seq(Result)
    BY <1>1, <1>2, SentType DEF ClientTypeOK
  <2> QED BY <2>1, <2>2, ElemsConcat
<1>6. to_client' = [d \in Conns |-> to_client'[d]]
  BY DEF Answer
<1>7. to_client' \in [Conns -> Seq(Result)]
  BY <1>5, <1>6
<1>8. ASSUME NEW d \in Conns
      PROVE  /\ Elems(Sent(c, <<result>>)[d]) \subseteq
                  {KickedOut} \cup (IF c = d THEN {result} ELSE {})
             /\ c = d /\ (\E k \in Clients : peer[k] = d) =>
                  result \in Elems(Sent(c, <<result>>)[d])
  BY <1>1, <1>2, SentType
<1> QED BY <1>4, <1>5, <1>7, <1>8

-----------------------------------------------------------------------------
(* What the server does with the command it reads: the step of the registry*)
(* and the answer.                                                         *)
Registers(c, r) ==
    /\ Register(c, r)
    /\ Answer(c, [cmd |-> "REG", ok |-> TRUE, id |-> told'[c],
                  role |-> ReportedRole(r, told'[c])])

LEMMA CommandCases ==
    ASSUME ClientTypeOK, NEW c \in Conns, HandleCommand(c)
    PROVE  /\ to_server[c] # <<>>
           /\ \/ \E r \in Request :
                   Head(to_server[c]) = [cmd |-> "REG", reg |-> r] /\ Registers(c, r)
              \/ \E targets \in SUBSET Ids :
                   /\ Head(to_server[c]).cmd = "KICKOUT"
                   /\ Kickout(c, targets)
                   /\ Answer(c, KickedOut)
              \/ \E cmd \in {"REG", "KICKOUT"} :
                   /\ Head(to_server[c]).cmd = cmd
                   /\ UNCHANGED vars
                   /\ Answer(c, Error(cmd))
<1> DEFINE command == Head(to_server[c])
<1>1. to_server[c] # <<>> /\ command \in Command
  BY ElemsTail DEF HandleCommand, ClientTypeOK
<1>2. CASE command.cmd = "REG" /\ HandleRegister(c, command.reg)
  <2>1. command.reg \in Request /\ command = [cmd |-> "REG", reg |-> command.reg]
    BY <1>1, <1>2 DEF Command
  <2> QED BY <1>1, <1>2, <2>1 DEF HandleRegister, Registers
<1>3. CASE command.cmd = "KICKOUT" /\ HandleKickout(c, command.targets)
  <2>1. command.targets \in SUBSET Ids
    BY <1>1, <1>3 DEF Command
  <2> QED BY <1>1, <1>3, <2>1 DEF HandleKickout
<1> QED BY <1>1, <1>2, <1>3 DEF HandleCommand

(* The steps of the whole are steps of the registry, or leave it alone.    *)
LEMMA RegistryStepOfClients ==
    ASSUME ClientTypeOK, [ClientNext]_systemVars PROVE [Next]_vars
<1>1. ASSUME NEW c \in Conns, HandleCommand(c) PROVE [Next]_vars
  BY <1>1, CommandCases DEF Registers, Next
<1> QED BY <1>1 DEF ClientNext, Connect, ConnectionLost, AppRegister, RegisterAs,
              AppKickout, HandleCommandResult, ServerClosed, Next, systemVars

LEMMA CommandSent ==
    ASSUME ClientTypeOK, NEW c \in Conns, NEW command \in Command
    PROVE  [to_server EXCEPT ![c] = Append(@, command)] \in [Conns -> Seq(Command)]
BY DEF ClientTypeOK

LEMMA PostType ==
    ASSUME ClientTypeOK, NEW k \in Clients, NEW command \in Command, Post(k, command)
    PROVE  to_server' \in [Conns -> Seq(Command)]
<1>1. CASE Connected(k)
  <2>1. peer[k] \in Conns
    BY <1>1 DEF Connected, ClientTypeOK, AnyConn
  <2> QED BY <1>1, <2>1, CommandSent DEF Post
<1>2. CASE ~Connected(k)
  BY <1>2 DEF Post, ClientTypeOK
<1> QED BY <1>1, <1>2

(* The REG that a client sends by itself.                                  *)
LEMMA OwnRequestType ==
    ASSUME ClientTypeOK, NEW k \in Clients
    PROVE  [id |-> AskedId(k, context[k].endpoint_id), role |-> context[k].role,
            svc_type |-> context[k].svc_type, token |-> FALSE,
            code |-> context[k].role \in CodeRoles] \in Request
BY DEF ClientTypeOK, Context, Request, AskedId

LEMMA ContextType ==
    ASSUME ClientTypeOK, NEW k \in Clients, HandleCommandResult(k)
    PROVE  /\ context' \in [Clients -> Context]
           /\ to_client' \in [Conns -> Seq(Result)]
<1>1. peer[k] \in Conns
  BY DEF HandleCommandResult, Connected, ClientTypeOK, AnyConn
<1>2. to_client[peer[k]] \in Seq(Result) /\ to_client[peer[k]] # <<>>
  BY <1>1 DEF ClientTypeOK, HandleCommandResult
<1>3. /\ Head(to_client[peer[k]]) \in Result
      /\ Tail(to_client[peer[k]]) \in Seq(Result)
  BY <1>2, ElemsTail
<1>4. context[k] \in Context
  BY DEF ClientTypeOK
<1>5. /\ WithResult(context[k], Head(to_client[peer[k]])) \in Context
      /\ [context[k] EXCEPT !.failed = TRUE] \in Context
  BY <1>3, <1>4 DEF WithResult, Context, Result
<1> DEFINE result == Head(to_client[peer[k]])
           new == IF result.cmd # "REG" THEN context[k]
                  ELSE IF result.ok THEN WithResult(context[k], result)
                  ELSE [context[k] EXCEPT !.failed = TRUE]
<1>6. new \in Context
  BY <1>4, <1>5
<1>7. context' = [context EXCEPT ![k] = new]
  BY DEF HandleCommandResult
<1> HIDE DEF new
<1>8. context' \in [Clients -> Context]
  BY <1>6, <1>7 DEF ClientTypeOK
<1>9. to_client' \in [Conns -> Seq(Result)]
  BY <1>1, <1>3 DEF HandleCommandResult, ClientTypeOK
<1> QED BY <1>8, <1>9

LEMMA ClientTypeStep ==
    ASSUME ClientTypeOK, [ClientNext]_systemVars PROVE ClientTypeOK'
<1>1. TypeOK'
  BY RegistryStepOfClients, TypeStep DEF ClientTypeOK
<1>2. ASSUME NEW k \in Clients, NEW c \in Conns, Connect(k, c) PROVE ClientTypeOK'
  <2>1. RegisterSelf(k) \in Seq(Command)
    BY OwnRequestType DEF RegisterSelf, Command
  <2> QED BY <1>1, <1>2, <2>1 DEF Connect, ClientTypeOK, AnyConn
<1>3. ASSUME NEW k \in Clients, ConnectionLost(k) PROVE ClientTypeOK'
  <2>1. <<>> \in Seq(Result)
    OBVIOUS
  <2>2. to_client' \in [Conns -> Seq(Result)]
    BY <1>3, <2>1 DEF ConnectionLost, ClientTypeOK
  <2>3. peer' \in [Clients -> AnyConn]
    BY <1>3 DEF ConnectionLost, ClientTypeOK, AnyConn
  <2> QED BY <1>1, <1>3, <2>2, <2>3 DEF ConnectionLost, ClientTypeOK
<1>4. ASSUME NEW k \in Clients, AppRegister(k) PROVE ClientTypeOK'
  <2>1. PICK ep_id \in {NoId} \cup NamedIds[k], role \in ClientRoles[k],
             svc_type \in SvcTypes, token \in BOOLEAN, code \in BOOLEAN :
             RegisterAs(k, ep_id, role, svc_type, token, code)
    BY <1>4 DEF AppRegister
  <2>2. role \in Roles /\ ep_id \in AnyId
    BY ClientAssumption DEF ClientAssumption, AnyId
  <2>3. AskedId(k, ep_id) \in AnyId /\ context[k] \in Context
    BY <2>2 DEF ClientTypeOK, Context, AskedId
  <2>4. [cmd |-> "REG", reg |-> [id |-> AskedId(k, ep_id), role |-> role,
            svc_type |-> svc_type, token |-> token, code |-> code]] \in Command
    BY <2>2, <2>3 DEF Command, Request
  <2>5. to_server' \in [Conns -> Seq(Command)]
    BY <2>1, <2>4, PostType DEF RegisterAs
  <2>6. [context[k] EXCEPT !.role = role, !.svc_type = svc_type] \in Context
    BY <2>2, <2>3 DEF Context
  <2>7. context' = [context EXCEPT ![k] = [context[k] EXCEPT !.role = role, !.svc_type = svc_type]]
    BY <2>1, <2>3 DEF RegisterAs, ClientTypeOK, Context
  <2> QED BY <1>1, <2>1, <2>5, <2>6, <2>7 DEF RegisterAs, ClientTypeOK
<1>5. ASSUME NEW k \in Clients, AppKickout(k) PROVE ClientTypeOK'
  <2>1. PICK targets \in Kickouts[k] :
          /\ Post(k, [cmd |-> "KICKOUT", targets |-> targets])
          /\ UNCHANGED <<vars, peer, context, to_client>>
    BY <1>5 DEF AppKickout
  <2>2. [cmd |-> "KICKOUT", targets |-> targets] \in Command
    BY ClientAssumption DEF ClientAssumption, Command
  <2> QED BY <1>1, <2>1, <2>2, PostType DEF ClientTypeOK
<1>6. ASSUME NEW k \in Clients, HandleCommandResult(k) PROVE ClientTypeOK'
  BY <1>1, <1>6, ContextType DEF HandleCommandResult, ClientTypeOK
<1>7. ASSUME NEW c \in Conns, HandleCommand(c) PROVE ClientTypeOK'
  <2>1. to_server[c] # <<>>
    BY <1>7, CommandCases
  <2>2. \E result \in Result : Answer(c, result)
    <3>1. told'[c] \in AnyId
      BY <1>1 DEF TypeOK
    <3>2. \A r \in Request : ReportedRole(r, told'[c]) \in Roles \cup {"Undefined"}
      BY DEF ReportedRole, Request
    <3>3. KickedOut \in Result /\ \A cmd \in {"REG", "KICKOUT"} : Error(cmd) \in Result
      BY DEF KickedOut, Error, Result, AnyId
    <3>4. \A r \in Request :
            [cmd |-> "REG", ok |-> TRUE, id |-> told'[c],
             role |-> ReportedRole(r, told'[c])] \in Result
      BY <3>1, <3>2 DEF Result
    <3> QED BY <1>7, <3>3, <3>4, CommandCases DEF Registers
  <2>3. PICK result \in Result : Answer(c, result)
    BY <2>2
  <2> QED BY <1>1, <2>1, <2>3, AnswerType DEF Answer, ClientTypeOK
<1>8. ASSUME NEW c \in Conns, ServerClosed(c) PROVE ClientTypeOK'
  BY <1>1, <1>8 DEF ServerClosed, ClientTypeOK
<1>9. CASE UNCHANGED systemVars
  BY <1>1, <1>9 DEF systemVars, clientVars, ClientTypeOK
<1> QED BY <1>2, <1>3, <1>4, <1>5, <1>6, <1>7, <1>8, <1>9 DEF ClientNext

(* The contexts, the queues and the registry keep their types, whatever the*)
(* applications do and however many commands they have on the way.         *)
THEOREM ClientTypeCorrect == ClientSpec => []ClientTypeOK
<1>1. ClientInit => ClientTypeOK
  BY InitType, RegistryAssumption, ClientAssumption
  DEF ClientInit, ClientTypeOK, Context, AnyConn, AnyId, ClientAssumption
<1>2. ClientTypeOK /\ [ClientNext]_systemVars => ClientTypeOK'
  BY ClientTypeStep
<1> QED BY <1>1, <1>2, PTL DEF ClientSpec

(* Clients of the library and the server are a registry with clients of    *)
(* some kind: what is proved of the registry holds of them.                *)
THEOREM ClientsAreRegistry == ClientSpec => Spec
<1>1. ClientInit => Init
  BY DEF ClientInit
<1>2. ClientTypeOK /\ [ClientNext]_systemVars => [Next]_vars
  BY RegistryStepOfClients
<1> QED BY <1>1, <1>2, ClientTypeCorrect, PTL DEF ClientSpec, Spec

-----------------------------------------------------------------------------
(* The discipline is not an invariant by itself: that a client asks for the*)
(* id it was told needs that the context has taken it over, or that a      *)
(* result which tells it is still to come; and then the client waits.      *)
TellsId(x) == x.cmd = "REG" /\ x.ok

OneUnread == \A c \in Conns : Len(to_server[c]) <= 1

AsksOwnId ==
    \A c \in Conns : \A x \in Elems(to_server[c]) :
        x.cmd = "REG" /\ told[c] # NoId => x.reg.id = told[c]

ResultsCurrent ==
    \A c \in Conns : Online(c) =>
        \A x \in Elems(to_client[c]) : TellsId(x) => told[c] # NoId /\ x.id = told[c]

ContextCurrent ==
    \A k \in Clients : Connected(k) /\ told[peer[k]] # NoId =>
        \/ context[k].endpoint_id = told[peer[k]]
        \/ \E x \in Elems(to_client[peer[k]]) : TellsId(x)

OwnConnections == \A j, k \in Clients : Connected(j) /\ peer[j] = peer[k] => j = k

TameInv == OneUnread /\ AsksOwnId /\ ResultsCurrent /\ ContextCurrent /\ OwnConnections

LEMMA RegisterTells ==
    ASSUME TypeOK, NEW c \in Conns, NEW r \in Request, Register(c, r)
    PROVE  /\ \A d \in Conns : Online(d)' <=> Online(d)
           /\ \E i \in Ids : /\ told' = [told EXCEPT ![c] = i]
                             /\ r.id # NoId => i = r.id
<1>1. PICK i \in IF r.id = NoId THEN {j \in Ids : endpoints[j] = NoEp} ELSE {r.id} :
        IF endpoints[i] = NoEp THEN RegisterNew(c, i, r) ELSE RegisterExisting(c, i, r)
  BY DEF Register
<1>2. i \in Ids /\ (r.id # NoId => i = r.id)
  BY <1>1 DEF Request, AnyId
<1>3. told' = [told EXCEPT ![c] = i]
  BY <1>1 DEF RegisterNew, RegisterObject, RegisterExisting, RegisterAgain, Registered
<1>4. \A d \in Conns : Online(d)' <=> Online(d)
  BY <1>1 DEF RegisterNew, RegisterObject, RegisterExisting, RegisterAgain,
              AfterDisconnect, Online
<1> QED BY <1>2, <1>3, <1>4

LEMMA BothEmpty ==
    ASSUME NEW S, NEW s \in Seq(S), NEW T, NEW t \in Seq(T), Len(s) + Len(t) < 1
    PROVE  s = <<>> /\ t = <<>>
<1>1. Len(s) \in Nat /\ Len(t) \in Nat
  OBVIOUS
<1>2. Len(s) = 0 /\ Len(t) = 0
  BY <1>1
<1>3. s = <<>>
  BY <1>2
<1>4. t = <<>>
  BY <1>2
<1> QED BY <1>3, <1>4

(* An application that waits sends into an empty queue.                    *)
LEMMA PostWaits ==
    ASSUME MaxUnanswered = 1, ClientTypeOK, NEW k \in Clients,
           NEW command \in Command, Post(k, command)
    PROVE  \/ ~Connected(k) /\ UNCHANGED to_server
           \/ /\ Connected(k) /\ peer[k] \in Conns
              /\ to_server[peer[k]] = <<>> /\ to_client[peer[k]] = <<>>
              /\ to_server' = [to_server EXCEPT ![peer[k]] = <<command>>]
<1>1. CASE Connected(k)
  <2> DEFINE c == peer[k]
  <2>1. c \in Conns
    BY <1>1 DEF Connected, ClientTypeOK, AnyConn
  <2>2. to_server[c] \in Seq(Command) /\ to_client[c] \in Seq(Result)
    BY <2>1 DEF ClientTypeOK
  <2>3. Len(to_server[c]) + Len(to_client[c]) < 1
    BY <1>1 DEF Post, Answering
  <2>4. to_server[c] = <<>> /\ to_client[c] = <<>>
    BY <2>2, <2>3, BothEmpty
  <2>5. Append(to_server[c], command) = <<command>>
    BY <2>4
  <2> QED BY <1>1, <2>1, <2>4, <2>5 DEF Post
<1>2. CASE ~Connected(k)
  BY <1>2 DEF Post
<1> QED BY <1>1, <1>2

LEMMA ConnectTame ==
    ASSUME ClientTypeOK, PendingInv, TameInv, NEW k \in Clients, NEW c \in Conns,
           Connect(k, c)
    PROVE  TameInv'
<1>1. told[c] = NoId /\ told' = told /\ c # NoConn
  BY RegistryAssumption
  DEF Connect, OnConnectionReady, PendingInv, RegistryAssumption
<1>2. /\ to_server' = [to_server EXCEPT ![c] = RegisterSelf(k)]
      /\ to_client' = [to_client EXCEPT ![c] = <<>>]
      /\ peer' = [peer EXCEPT ![k] = c]
      /\ context' = context
      /\ \A j \in Clients : peer[j] # c
      /\ \A d \in Conns : d # c => (Online(d)' <=> Online(d))
  BY DEF Connect, OnConnectionReady, Online
<1>3. Len(RegisterSelf(k)) = 1 /\ Elems(<<>>) = {}
  <2> DEFINE x == [cmd |-> "REG",
                   reg |-> [id |-> AskedId(k, context[k].endpoint_id),
                            role |-> context[k].role, svc_type |-> context[k].svc_type,
                            token |-> FALSE, code |-> context[k].role \in CodeRoles]]
  <2>1. RegisterSelf(k) = <<x>>
    BY DEF RegisterSelf
  <2> HIDE DEF x
  <2>2. Len(<<x>>) = 1
    OBVIOUS
  <2> QED BY <2>1, <2>2, ElemsFew
<1>4. OneUnread'
  <2>1. ASSUME NEW d \in Conns PROVE Len(to_server'[d]) <= 1
    <3>1. CASE d = c
      <4>1. to_server'[d] = RegisterSelf(k)
        BY <1>2, <3>1 DEF ClientTypeOK
      <4>2. Len(RegisterSelf(k)) <= 1
        BY <1>3
      <4> QED BY <4>1, <4>2
    <3>2. CASE d # c
      <4>1. to_server'[d] = to_server[d]
        BY <1>2, <3>2 DEF ClientTypeOK
      <4> QED BY <4>1 DEF TameInv, OneUnread
    <3> QED BY <3>1, <3>2
  <2> QED BY <2>1 DEF OneUnread
<1>5. AsksOwnId'
  <2>1. ASSUME NEW d \in Conns, d # c PROVE to_server'[d] = to_server[d]
    BY <1>2, <2>1 DEF ClientTypeOK
  <2> QED BY <1>1, <2>1 DEF TameInv, AsksOwnId
<1>6. ResultsCurrent'
  BY <1>1, <1>2, <1>3 DEF TameInv, ResultsCurrent, ClientTypeOK
<1>7. ContextCurrent'
  BY <1>1, <1>2 DEF TameInv, ContextCurrent, ClientTypeOK, Connected, AnyConn
<1>8. OwnConnections'
  BY <1>1, <1>2 DEF TameInv, OwnConnections, Connected, ClientTypeOK
<1> QED BY <1>4, <1>5, <1>6, <1>7, <1>8 DEF TameInv

LEMMA LostTame ==
    ASSUME ClientTypeOK, TameInv, NEW k \in Clients, ConnectionLost(k)
    PROVE  TameInv'
<1> DEFINE c == peer[k]
<1>1. /\ Connected(k) /\ c \in Conns
      /\ told' = told /\ status' = status /\ to_server' = to_server /\ context' = context
      /\ to_client' = [to_client EXCEPT ![c] = <<>>]
      /\ peer' = [peer EXCEPT ![k] = NoConn]
      /\ Elems(<<>>) = {}
  BY ElemsFew DEF ConnectionLost, Connected, ClientTypeOK, AnyConn, vars, connVars
<1>2. \A d \in Conns : Online(d)' <=> Online(d)
  BY <1>1 DEF Online
<1>3. OneUnread' /\ AsksOwnId'
  BY <1>1 DEF TameInv, OneUnread, AsksOwnId
<1>4. ResultsCurrent'
  BY <1>1, <1>2 DEF TameInv, ResultsCurrent, ClientTypeOK
<1>5. ContextCurrent'
  BY <1>1 DEF TameInv, ContextCurrent, OwnConnections, ClientTypeOK, Connected, AnyConn
<1>6. OwnConnections'
  BY <1>1 DEF TameInv, OwnConnections, Connected, ClientTypeOK
<1> QED BY <1>3, <1>4, <1>5, <1>6 DEF TameInv

(* A command is sent: if it is a REG, for the id in the context.           *)
LEMMA PostTame ==
    ASSUME MaxUnanswered = 1, ClientTypeOK, TameInv, NEW k \in Clients,
           NEW command \in Command, Post(k, command), UNCHANGED <<vars, peer, to_client>>,
           \A j \in Clients : context'[j].endpoint_id = context[j].endpoint_id,
           command.cmd = "REG" => command.reg.id = context[k].endpoint_id
    PROVE  TameInv'
<1>1. told' = told /\ status' = status
  BY DEF vars, connVars
<1>2. ResultsCurrent' /\ ContextCurrent' /\ OwnConnections'
  BY <1>1 DEF TameInv, ResultsCurrent, ContextCurrent, OwnConnections, Online, Connected
<1>3. CASE UNCHANGED to_server
  BY <1>1, <1>2, <1>3 DEF TameInv, OneUnread, AsksOwnId
<1>4. CASE ~UNCHANGED to_server
  <2> DEFINE c == peer[k]
  <2>1. /\ Connected(k) /\ c \in Conns /\ to_client[c] = <<>>
        /\ to_server' = [to_server EXCEPT ![c] = <<command>>]
    BY <1>4, PostWaits
  <2>2. Len(<<command>>) <= 1 /\ Elems(<<command>>) = {command} /\ Elems(<<>>) = {}
    BY ElemsFew
  <2>3. to_server'[c] = <<command>> /\ \A d \in Conns : d # c => to_server'[d] = to_server[d]
    BY <2>1 DEF ClientTypeOK
  <2>4. told[c] # NoId => context[k].endpoint_id = told[c]
    BY <2>1, <2>2 DEF TameInv, ContextCurrent
  <2>5. OneUnread'
    BY <2>2, <2>3 DEF TameInv, OneUnread
  <2>6. AsksOwnId'
    BY <1>1, <2>2, <2>3, <2>4 DEF TameInv, AsksOwnId
  <2> QED BY <1>2, <2>5, <2>6 DEF TameInv
<1> QED BY <1>3, <1>4

LEMMA AppRegisterTame ==
    ASSUME MaxUnanswered = 1, NoneNamed, ClientTypeOK, TameInv, NEW k \in Clients,
           AppRegister(k)
    PROVE  TameInv'
<1>1. PICK role \in ClientRoles[k], svc_type \in SvcTypes, token \in BOOLEAN,
           code \in BOOLEAN : RegisterAs(k, NoId, role, svc_type, token, code)
  BY DEF AppRegister, NoneNamed
<1> DEFINE r == [id |-> AskedId(k, NoId), role |-> role, svc_type |-> svc_type,
                 token |-> token, code |-> code]
           command == [cmd |-> "REG", reg |-> r]
<1>2. role \in Roles /\ context[k] \in Context /\ AskedId(k, NoId) = context[k].endpoint_id
  BY ClientAssumption DEF ClientAssumption, ClientTypeOK, AskedId
<1>3. r \in Request /\ r.id = context[k].endpoint_id
  BY <1>2 DEF Request, Context
<1>4. command \in Command /\ command.cmd = "REG" /\ command.reg = r
  BY <1>3 DEF Command
<1>5. Post(k, command) /\ UNCHANGED <<vars, peer, to_client>>
  BY <1>1 DEF RegisterAs
<1>6. \A j \in Clients : context'[j].endpoint_id = context[j].endpoint_id
  BY <1>1, <1>2 DEF RegisterAs, ClientTypeOK, Context
<1> QED BY <1>3, <1>4, <1>5, <1>6, PostTame

LEMMA AppKickoutTame ==
    ASSUME MaxUnanswered = 1, ClientTypeOK, TameInv, NEW k \in Clients, AppKickout(k)
    PROVE  TameInv'
<1>1. PICK targets \in Kickouts[k] :
        /\ Post(k, [cmd |-> "KICKOUT", targets |-> targets])
        /\ UNCHANGED <<vars, peer, context, to_client>>
  BY DEF AppKickout
<1>2. [cmd |-> "KICKOUT", targets |-> targets] \in Command
  BY ClientAssumption DEF ClientAssumption, Command
<1> QED BY <1>1, <1>2, PostTame

(* A result is read: the one that tells the id puts it into the context.   *)
LEMMA ResultTame ==
    ASSUME ClientTypeOK, PendingInv, TameInv, NEW k \in Clients, HandleCommandResult(k)
    PROVE  TameInv'
<1> DEFINE c == peer[k]
           x == Head(to_client[c])
<1>1. /\ Connected(k) /\ c \in Conns /\ to_client[c] # <<>>
      /\ told' = told /\ status' = status /\ UNCHANGED <<peer, to_server>>
      /\ to_client' = [to_client EXCEPT ![c] = Tail(@)]
  BY DEF HandleCommandResult, Connected, ClientTypeOK, AnyConn, vars, connVars
<1>2. /\ Elems(to_client[c]) = Elems(Tail(to_client[c])) \cup {x}
      /\ to_client'[c] = Tail(to_client[c])
      /\ \A d \in Conns : d # c => to_client'[d] = to_client[d]
  BY <1>1, ElemsTail DEF ClientTypeOK
<1>3. /\ context'[k].endpoint_id = IF TellsId(x) THEN x.id ELSE context[k].endpoint_id
      /\ \A j \in Clients : j # k => context'[j] = context[j]
  BY DEF HandleCommandResult, WithResult, TellsId, ClientTypeOK, Context
<1>4. told[c] # NoId => Online(c)
  BY <1>1 DEF PendingInv, Online
<1>5. OneUnread' /\ AsksOwnId' /\ OwnConnections'
  BY <1>1 DEF TameInv, OneUnread, AsksOwnId, OwnConnections, Connected
<1>6. ResultsCurrent'
  BY <1>1, <1>2 DEF TameInv, ResultsCurrent, Online
<1>7. ContextCurrent'
  <2>1. ASSUME told[c] # NoId
        PROVE  \/ context'[k].endpoint_id = told[c]
               \/ \E y \in Elems(to_client'[c]) : TellsId(y)
    <3>1. CASE TellsId(x)
      BY <1>1, <1>2, <1>3, <1>4, <2>1, <3>1 DEF TameInv, ResultsCurrent
    <3>2. CASE ~TellsId(x)
      BY <1>1, <1>2, <1>3, <2>1, <3>2 DEF TameInv, ContextCurrent
    <3> QED BY <3>1, <3>2
  <2>2. ASSUME NEW j \in Clients, j # k, Connected(j), told[peer[j]] # NoId
        PROVE  \/ context'[j].endpoint_id = told[peer[j]]
               \/ \E y \in Elems(to_client'[peer[j]]) : TellsId(y)
    <3>1. peer[j] # c /\ peer[j] \in Conns
      BY <1>1, <2>2 DEF TameInv, OwnConnections, Connected, ClientTypeOK, AnyConn
    <3> QED BY <1>2, <1>3, <2>2, <3>1 DEF TameInv, ContextCurrent
  <2> QED BY <1>1, <2>1, <2>2 DEF ContextCurrent, Connected
<1> QED BY <1>5, <1>6, <1>7 DEF TameInv

(* The server answers a command: `i` is the id it tells, if it tells one.  *)
LEMMA AnswerTame ==
    ASSUME ClientTypeOK, TameInv, NEW c \in Conns, to_server[c] # <<>>,
           NEW result \in Result, Answer(c, result), told' \in [Conns -> AnyId],
           \A d \in Conns : Online(d)' => Online(d),
           \A d \in Conns : d # c => told'[d] = told[d],
           told[c] # NoId => told'[c] = told[c],
           TellsId(result) => told'[c] # NoId /\ result.id = told'[c],
           ~TellsId(result) => told'[c] = told[c]
    PROVE  TameInv'
<1>1. /\ UNCHANGED <<peer, context>>
      /\ to_server' = [to_server EXCEPT ![c] = Tail(@)]
  BY DEF Answer
<1>2. \A d \in Conns :
        /\ Elems(to_client[d]) \subseteq Elems(to_client'[d])
        /\ Elems(to_client'[d]) \subseteq
             Elems(to_client[d]) \cup {KickedOut} \cup (IF c = d THEN {result} ELSE {})
        /\ c = d /\ (\E k \in Clients : peer[k] = d) => result \in Elems(to_client'[d])
  BY AnswerType
<1>3. ~TellsId(KickedOut)
  BY DEF TellsId, KickedOut, Error
<1>4. /\ to_server'[c] = <<>>
      /\ \A d \in Conns : d # c => to_server'[d] = to_server[d]
  <2>1. to_server[c] \in Seq(Command) /\ Len(to_server[c]) <= 1
    BY DEF ClientTypeOK, TameInv, OneUnread
  <2>2. Tail(to_server[c]) = <<>>
    BY <2>1
  <2> QED BY <1>1, <2>2 DEF ClientTypeOK
<1>5. Elems(<<>>) = {} /\ Len(<<>>) <= 1
  BY NoElems
<1>6. OneUnread'
  <2> SUFFICES ASSUME NEW d \in Conns PROVE Len(to_server'[d]) <= 1
    BY DEF OneUnread
  <2>1. CASE d = c
    BY <1>4, <1>5, <2>1
  <2>2. CASE d # c
    BY <1>4, <2>2 DEF TameInv, OneUnread
  <2> QED BY <2>1, <2>2
<1>7. AsksOwnId'
  BY <1>4, <1>5 DEF TameInv, AsksOwnId
<1>8. ResultsCurrent'
  <2> SUFFICES ASSUME NEW d \in Conns, Online(d)', NEW x \in Elems(to_client'[d]), TellsId(x)
               PROVE  told'[d] # NoId /\ x.id = told'[d]
    BY DEF ResultsCurrent, TellsId
  <2>1. CASE x \in Elems(to_client[d])
    BY <2>1 DEF TameInv, ResultsCurrent
  <2>2. CASE c = d /\ x = result
    BY <2>2
  <2> QED BY <1>2, <1>3, <2>1, <2>2
<1>9. ContextCurrent'
  <2> SUFFICES ASSUME NEW k \in Clients, Connected(k), told'[peer[k]] # NoId
               PROVE  \/ context[k].endpoint_id = told'[peer[k]]
                      \/ \E x \in Elems(to_client'[peer[k]]) : TellsId(x)
    BY <1>1 DEF ContextCurrent, TellsId, Connected
  <2>1. peer[k] \in Conns
    BY DEF Connected, ClientTypeOK, AnyConn
  <2>2. CASE peer[k] = c /\ TellsId(result)
    BY <1>2, <2>1, <2>2
  <2>3. CASE ~(peer[k] = c /\ TellsId(result))
    <3>1. told'[peer[k]] = told[peer[k]]
      BY <2>1, <2>3
    <3> QED BY <1>2, <2>1, <3>1 DEF TameInv, ContextCurrent
  <2> QED BY <2>2, <2>3
<1>10. OwnConnections'
  BY <1>1 DEF TameInv, OwnConnections, Connected
<1> QED BY <1>6, <1>7, <1>8, <1>9, <1>10 DEF TameInv

(* The id that a client asks for is the one it was told.                   *)
LEMMA HeadAsksOwnId ==
    ASSUME ClientTypeOK, TameInv, NEW c \in Conns, to_server[c] # <<>>, NEW r,
           Head(to_server[c]) = [cmd |-> "REG", reg |-> r], told[c] # NoId
    PROVE  r.id = told[c]
BY ElemsTail DEF ClientTypeOK, TameInv, AsksOwnId

LEMMA CommandTame ==
    ASSUME ClientTypeOK, TameInv, NEW c \in Conns, HandleCommand(c) PROVE TameInv'
<1>1. to_server[c] # <<>>
  BY CommandCases
<1>2. TypeOK
  BY DEF ClientTypeOK
<1>3. ASSUME NEW r \in Request, Registers(c, r), Head(to_server[c]) = [cmd |-> "REG", reg |-> r]
      PROVE  TameInv'
  <2>1. PICK i \in Ids : told' = [told EXCEPT ![c] = i] /\ (r.id # NoId => i = r.id)
    BY <1>2, <1>3, RegisterTells DEF Registers
  <2>2. \A d \in Conns : Online(d)' <=> Online(d)
    BY <1>2, <1>3, RegisterTells DEF Registers
  <2>3. told \in [Conns -> AnyId] /\ i # NoId
    BY <1>2, RegistryAssumption DEF TypeOK, RegistryAssumption
  <2>4. told'[c] = i /\ told' \in [Conns -> AnyId] /\ \A d \in Conns : d # c => told'[d] = told[d]
    BY <2>1, <2>3 DEF AnyId
  <2>5. told[c] # NoId => told'[c] = told[c]
    BY <1>1, <1>3, <2>1, <2>4, HeadAsksOwnId
  <2> DEFINE result == [cmd |-> "REG", ok |-> TRUE, id |-> told'[c],
                        role |-> ReportedRole(r, told'[c])]
  <2>6. ReportedRole(r, told'[c]) \in Roles \cup {"Undefined"}
    BY DEF ReportedRole, Request
  <2>7. result \in Result /\ TellsId(result) /\ result.id = told'[c]
    BY <2>4, <2>6 DEF Result, TellsId
  <2>8. Answer(c, result)
    BY <1>3 DEF Registers
  <2> HIDE DEF result
  <2> QED BY <1>1, <2>2, <2>3, <2>4, <2>5, <2>7, <2>8, AnswerTame
<1>4. ASSUME NEW targets \in SUBSET Ids, Kickout(c, targets), Answer(c, KickedOut)
      PROVE  TameInv'
  <2>1. told' = told /\ \A d \in Conns : Online(d)' => Online(d)
    BY <1>4 DEF Kickout, AfterDisconnect, Online
  <2>2. KickedOut \in Result /\ ~TellsId(KickedOut)
    BY DEF KickedOut, Error, Result, AnyId, TellsId
  <2> QED BY <1>1, <1>2, <1>4, <2>1, <2>2, AnswerTame DEF TypeOK
<1>5. ASSUME NEW cmd \in {"REG", "KICKOUT"}, UNCHANGED vars, Answer(c, Error(cmd))
      PROVE  TameInv'
  <2>1. told' = told /\ \A d \in Conns : Online(d)' => Online(d)
    BY <1>5 DEF vars, connVars, Online
  <2>2. Error(cmd) \in Result /\ ~TellsId(Error(cmd))
    BY DEF Error, Result, AnyId, TellsId
  <2> QED BY <1>1, <1>2, <1>5, <2>1, <2>2, AnswerTame DEF TypeOK
<1> QED BY <1>3, <1>4, <1>5, CommandCases

LEMMA ClosedTame ==
    ASSUME ClientTypeOK, TameInv, NEW c \in Conns, ServerClosed(c) PROVE TameInv'
<1>1. /\ told' = [told EXCEPT ![c] = NoId] /\ UNCHANGED <<peer, context, to_client>>
      /\ to_server' = [to_server EXCEPT ![c] = <<>>]
      /\ status' = [status EXCEPT ![c] = "closed"]
  BY DEF ServerClosed, OnConnectionClosed
<1>2. ~Online(c)' /\ \A d \in Conns : d # c => told'[d] = told[d] /\ (Online(d)' <=> Online(d))
  BY <1>1 DEF Online, ClientTypeOK, TypeOK
<1>3. Elems(<<>>) = {} /\ Len(<<>>) <= 1
  BY NoElems
<1>4. to_server'[c] = <<>> /\ \A d \in Conns : d # c => to_server'[d] = to_server[d]
  BY <1>1 DEF ClientTypeOK
<1>5. told'[c] = NoId
  BY <1>1 DEF ClientTypeOK, TypeOK
<1>6. OneUnread'
  <2> SUFFICES ASSUME NEW d \in Conns PROVE Len(to_server'[d]) <= 1
    BY DEF OneUnread
  <2>1. CASE d = c
    BY <1>3, <1>4, <2>1
  <2>2. CASE d # c
    BY <1>4, <2>2 DEF TameInv, OneUnread
  <2> QED BY <2>1, <2>2
<1>7. AsksOwnId'
  BY <1>2, <1>3, <1>4 DEF TameInv, AsksOwnId
<1>8. ResultsCurrent'
  BY <1>1, <1>2 DEF TameInv, ResultsCurrent
<1>9. ContextCurrent' /\ OwnConnections'
  BY <1>1, <1>2, <1>5 DEF TameInv, ContextCurrent, OwnConnections, Connected,
                          ClientTypeOK, AnyConn
<1> QED BY <1>6, <1>7, <1>8, <1>9 DEF TameInv

LEMMA TameStep ==
    ASSUME MaxUnanswered = 1, NoneNamed, ClientTypeOK, PendingInv, TameInv,
           [ClientNext]_systemVars
    PROVE  TameInv'
<1>1. CASE UNCHANGED systemVars
  BY <1>1 DEF systemVars, clientVars, vars, connVars, TameInv, OneUnread, AsksOwnId,
              ResultsCurrent, ContextCurrent, OwnConnections, Online, Connected
<1> QED BY <1>1, ConnectTame, LostTame, AppRegisterTame, AppKickoutTame, ResultTame,
           CommandTame, ClosedTame DEF ClientNext

LEMMA TameInvCorrect ==
    ASSUME MaxUnanswered = 1, NoneNamed PROVE ClientSpec => []TameInv
<1>1. ClientInit => TameInv
  BY ElemsFew
  DEF ClientInit, Init, TameInv, OneUnread, AsksOwnId, ResultsCurrent, ContextCurrent,
      OwnConnections, Connected, Online
<1>2. ClientTypeOK /\ PendingInv /\ TameInv /\ [ClientNext]_systemVars => TameInv'
  BY TameStep
<1> QED BY <1>1, <1>2, ClientTypeCorrect, ClientsAreRegistry, PendingInvCorrect, PTL
    DEF ClientSpec

(* No step of the whole asks for a second id.                              *)
LEMMA OneIdStepOfClients ==
    ASSUME ClientTypeOK, TameInv, [ClientNext]_systemVars PROVE [OneIdNext]_vars
<1>1. ASSUME NEW c \in Conns, HandleCommand(c) PROVE [OneIdNext]_vars
  <2>1. ASSUME NEW r \in Request, Registers(c, r),
               Head(to_server[c]) = [cmd |-> "REG", reg |-> r]
        PROVE  [OneIdNext]_vars
    <3>1. told[c] # NoId => r.id = told[c]
      BY <1>1, <2>1, CommandCases, HeadAsksOwnId
    <3> QED BY <2>1, <3>1 DEF Registers, OneIdNext, OneIdRegister
  <2> QED BY <1>1, <2>1, CommandCases DEF OneIdNext
<1> QED BY <1>1 DEF ClientNext, Connect, ConnectionLost, AppRegister, RegisterAs,
              AppKickout, HandleCommandResult, ServerClosed, OneIdNext, systemVars

-----------------------------------------------------------------------------
(* The registry of disciplined clients has the same steps but for what its *)
(* clients ask for.                                                        *)
LEMMA TameReady ==
    ASSUME NEW c PROVE Tame!OnConnectionReady(c) <=> OnConnectionReady(c)
BY DEF Tame!OnConnectionReady, OnConnectionReady, Tame!mapVars, mapVars

LEMMA TameClosed ==
    ASSUME NEW c PROVE Tame!OnConnectionClosed(c) <=> OnConnectionClosed(c)
BY DEF Tame!OnConnectionClosed, OnConnectionClosed, Tame!Online, Online,
       Tame!RemoveEndpoint, RemoveEndpoint, Tame!RemoveListed, RemoveListed,
       Tame!EndpointIdOf, EndpointIdOf, Tame!Dangles, Dangles, Tame!Acting, Acting,
       Tame!Lookup, Lookup, Tame!Collect, Collect, Tame!Held, Held,
       Tame!NoEndpoint, NoEndpoint, Tame!AnyId, AnyId, Tame!mapVars, mapVars

LEMMA TameKickout ==
    ASSUME NEW c, NEW targets PROVE Tame!Kickout(c, targets) <=> Kickout(c, targets)
BY DEF Tame!Kickout, Kickout, Tame!Acting, Acting, Tame!Lookup, Lookup,
       Tame!AfterDisconnect, AfterDisconnect, Tame!mapVars, mapVars

LEMMA TameNew ==
    ASSUME NEW c, NEW i, NEW r PROVE Tame!RegisterNew(c, i, r) <=> RegisterNew(c, i, r)
BY DEF Tame!RegisterNew, RegisterNew, Tame!RegisterObject, RegisterObject,
       Tame!NewEndpoint, NewEndpoint, Tame!SetID, SetID, Tame!Registered, Registered,
       Tame!Collect, Collect, Tame!Held, Held, Tame!NoEndpoint, NoEndpoint

LEMMA TameExisting ==
    ASSUME NEW c, NEW i, NEW r
    PROVE  Tame!RegisterExisting(c, i, r) <=> RegisterExisting(c, i, r)
BY DEF Tame!RegisterExisting, RegisterExisting, Tame!RegisterAgain, RegisterAgain,
       Tame!SameFD, SameFD, Tame!Dangles, Dangles, Tame!Online, Online,
       Tame!Entitled, Entitled, Tame!AfterDisconnect, AfterDisconnect,
       Tame!MoveIndex, MoveIndex, Tame!MoveService, MoveService,
       Tame!LeavesType, LeavesType, Tame!JoinsType, JoinsType,
       Tame!UpdatedEndpoint, UpdatedEndpoint, Tame!Registered, Registered,
       Tame!Collect, Collect, Tame!Held, Held, Tame!NoEndpoint, NoEndpoint
LEMMA TameRegister ==
    ASSUME NEW c, NEW r \in Request, OneIdRegister(c, r) PROVE Tame!Register(c, r)
BY TameNew, TameExisting
DEF OneIdRegister, Register, Disciplined, Tame!Register, Tame!Disciplined

LEMMA TameNext ==
    ASSUME [OneIdNext]_vars PROVE [Tame!Next]_(Tame!vars)
<1>1. Request = Tame!Request
  BY DEF Request, Tame!Request, AnyId, Tame!AnyId, Roles, Tame!Roles
<1>2. UNCHANGED vars => UNCHANGED Tame!vars
  BY DEF vars, connVars, mapVars, Tame!vars, Tame!connVars, Tame!mapVars
<1> QED BY <1>1, <1>2, TameReady, TameClosed, TameKickout, TameRegister
        DEF OneIdNext, Tame!Next

(* Clients of the library whose applications name no id in a REG and wait  *)
(* for an answer before they send the next command never register a second *)
(* id on a connection: not after a lost answer, a refusal, a role switch or*)
(* a reconnection, however many they are.  Both hypotheses are needed: a   *)
(* client that names an id may register a second one, and so may one whose *)
(* second REG leaves before its first is answered.                         *)
THEOREM TameCorrect ==
    ASSUME MaxUnanswered = 1, NoneNamed PROVE ClientSpec => ClientsAreTame
<1>1. ClientInit => Tame!Init
  BY DEF ClientInit, Init, Tame!Init, NoEndpoint, Tame!NoEndpoint
<1>2. ClientTypeOK /\ TameInv /\ [ClientNext]_systemVars => [Tame!Next]_(Tame!vars)
  BY OneIdStepOfClients, TameNext
<1> QED BY <1>1, <1>2, ClientTypeCorrect, TameInvCorrect, PTL
    DEF ClientSpec, ClientsAreTame, Tame!Spec

-----------------------------------------------------------------------------
(* What is proved of one id per connection holds of these clients.         *)
LEMMA ClientsOneId ==
    ASSUME MaxUnanswered = 1, NoneNamed, ~MayTakeOver PROVE ClientSpec => []OneId
<1>1. ClientInit => OneId
  BY DEF ClientInit, Init, OneId
<1>2. ClientTypeOK /\ TameInv /\ OneHolder /\ Serves /\ OneId /\ [ClientNext]_systemVars
        => OneId'
  BY OneIdStepOfClients, OneIdStep, RegistryAssumption DEF ClientTypeOK
<1> QED BY <1>1, <1>2, ClientTypeCorrect, TameInvCorrect, ClientsAreRegistry,
           ActingCorrect, ServesCorrect, PTL DEF ClientSpec

(* Connection d acts for an endpoint of this role and type.                *)
ActsAs(d, role, svc_type) ==
    /\ told[d] # NoId
    /\ Acting(d) # NoEp
    /\ ep[Acting(d)].role = role
    /\ role = "Service" => ep[Acting(d)].svc_type = svc_type

LEMMA RegisterActs ==
    ASSUME ~MayTakeOver, TypeOK, OneHolder, OneId, OneId',
           NEW c \in Conns, NEW r \in Request, OneIdRegister(c, r)
    PROVE  /\ status' = status
           /\ ActsAs(c, r.role, r.svc_type)'
           /\ \A d \in Conns : d # c /\ connId[d] # NoId =>
                /\ connId'[d] = connId[d]
                /\ Acting(d)' = Acting(d)
                /\ ep'[Acting(d)] = ep[Acting(d)]
<1>1. PICK i \in Ids : \/ endpoints[i] = NoEp /\ RegisterNew(c, i, r)
                       \/ endpoints[i] # NoEp /\ RegisterExisting(c, i, r)
  BY RegisterCases DEF OneIdRegister
<1>2. told' = connId' /\ i # NoId /\ told = connId
  BY RegistryAssumption DEF OneId, RegistryAssumption
<1>3. CASE endpoints[i] = NoEp /\ RegisterNew(c, i, r)
  <2>1. PICK o \in Eps \ Held : RegisterObject(c, i, r, o)
    BY <1>3 DEF RegisterNew
  <2>2. /\ endpoints' = [endpoints EXCEPT ![i] = o]
        /\ connId' = [connId EXCEPT ![c] = i]
        /\ ep'[o] = NewEndpoint(c, r)
        /\ \A j \in Ids : endpoints[j] # NoEp => ep'[endpoints[j]] = ep[endpoints[j]]
    BY <1>3, <2>1, NewObject, RegistryAssumption
  <2>3. connId'[c] = i /\ endpoints'[i] = o /\ o # NoEp
    BY <2>2, RegistryAssumption DEF TypeOK, RegistryAssumption
  <2>4. ActsAs(c, r.role, r.svc_type)'
    BY <1>2, <2>2, <2>3 DEF ActsAs, Acting, Lookup, NewEndpoint
  <2>5. ASSUME NEW d \in Conns, d # c, connId[d] # NoId
        PROVE  /\ connId'[d] = connId[d]
               /\ Acting(d)' = Acting(d)
               /\ ep'[Acting(d)] = ep[Acting(d)]
    <3>1. connId[d] \in Ids /\ endpoints[connId[d]] # NoEp
      BY <2>5 DEF OneHolder, Acting, Lookup, TypeOK, AnyId
    <3>2. connId'[d] = connId[d] /\ connId[d] # i
      BY <1>3, <2>2, <2>5, <3>1 DEF TypeOK
    <3>3. endpoints'[connId[d]] = endpoints[connId[d]]
      BY <2>2, <3>1, <3>2 DEF TypeOK
    <3> QED BY <2>2, <3>1, <3>2, <3>3 DEF Acting, Lookup
  <2> QED BY <2>1, <2>4, <2>5 DEF RegisterObject
<1>4. CASE endpoints[i] # NoEp /\ RegisterExisting(c, i, r)
  <2> DEFINE o == endpoints[i]
  <2>1. Disciplined(c, r)
    BY DEF OneIdRegister, Register
  <2>2. /\ RegisterAgain(c, i, r, o, TRUE)
        /\ ~Dangles(o) => ep[o].conn = c
        /\ UNCHANGED <<endpoints, connId, status>>
        /\ \A j \in Ids : endpoints[j] # NoEp /\ endpoints[j] # o =>
              ep'[endpoints[j]] = ep[endpoints[j]]
    BY <1>4, <2>1, AgainWithoutToken
  <2>3. o \in Eps /\ o \in Held'
    BY <1>4, <2>2 DEF TypeOK, Held
  <2>4. ep'[o] = UpdatedEndpoint(c, r, o, TRUE)
    BY <2>2, <2>3 DEF RegisterAgain, Collect, TypeOK
  <2>5. connId'[c] = i
    <3>1. told'[c] = i
      BY <2>2 DEF RegisterAgain, Registered, TypeOK
    <3> QED BY <1>2, <3>1
  <2>6. ActsAs(c, r.role, r.svc_type)'
    BY <1>2, <1>4, <2>2, <2>4, <2>5 DEF ActsAs, Acting, Lookup, UpdatedEndpoint
  <2>7. ASSUME NEW d \in Conns, d # c, connId[d] # NoId
        PROVE  /\ connId'[d] = connId[d]
               /\ Acting(d)' = Acting(d)
               /\ ep'[Acting(d)] = ep[Acting(d)]
    <3>1. connId[d] \in Ids /\ endpoints[connId[d]] # NoEp
      BY <2>7 DEF OneHolder, Acting, Lookup, TypeOK, AnyId
    <3>2. connId[c] = i
      BY <2>2, <2>5
    <3>3. connId[d] # i
      BY <1>2, <2>7, <3>2 DEF OneHolder
    <3>4. endpoints[connId[d]] # o
      BY <1>4, <3>1, <3>3 DEF OneHolder
    <3> QED BY <2>2, <3>1, <3>4 DEF Acting, Lookup
  <2> QED BY <2>2, <2>6, <2>7
<1> QED BY <1>1, <1>3, <1>4

LEMMA ClosedActs ==
    ASSUME TypeOK, OneHolder, NEW c \in Conns, OnConnectionClosed(c),
           NEW d \in Conns, d # c, connId[d] # NoId
    PROVE  /\ connId'[d] = connId[d]
           /\ Acting(d)' = Acting(d)
           /\ ep'[Acting(d)] = ep[Acting(d)]
<1>1. connId[d] \in Ids /\ endpoints[connId[d]] # NoEp /\ connId[d] # connId[c]
  BY DEF OneHolder, Acting, Lookup, TypeOK, AnyId
<1>2. connId'[d] = connId[d]
  BY ClosedEndpoints DEF TypeOK
<1>3. endpoints'[connId[d]] = endpoints[connId[d]]
  BY <1>1, ClosedEndpoints
<1>4. ep'[endpoints[connId[d]]] = ep[endpoints[connId[d]]]
  BY <1>1, <1>3, ClosedEndpoints
<1> QED BY <1>1, <1>2, <1>3, <1>4 DEF Acting, Lookup

-----------------------------------------------------------------------------
(* What holds of a client while a REG or its result is on the way, for what*)
(* its context shows to be right once nothing is.                          *)
AsShown(k) == ActsAs(peer[k], context[k].role, context[k].svc_type)

Reports(x) == x.cmd = "REG"

ViewOf(k) ==
    LET c == peer[k]
        x == context[k]
    IN Connected(k) /\ status[c] = "open" =>
        /\ \A y \in Elems(to_server[c]) :
             Reports(y) => y.reg.role = x.role /\ y.reg.svc_type = x.svc_type
        /\ \A y \in Elems(to_client[c]) : Reports(y) =>
             /\ \A z \in Elems(to_server[c]) : ~Reports(z)
             /\ y.ok => y.role \in {x.role, "Undefined"} /\ AsShown(k)
        /\ (\A y \in Elems(to_server[c]) \cup Elems(to_client[c]) : ~Reports(y))
             /\ x.is_registered /\ ~x.failed => AsShown(k)

ViewInv == \A k \in Clients : ViewOf(k)

(* A step that passes a client by.                                         *)
LEMMA ViewKept ==
    ASSUME NEW k \in Clients, ViewOf(k), peer'[k] = peer[k], context'[k] = context[k],
           Connected(k) => /\ to_server'[peer[k]] = to_server[peer[k]]
                           /\ status'[peer[k]] = "open" => status[peer[k]] = "open"
                           /\ Elems(to_client[peer[k]]) \subseteq Elems(to_client'[peer[k]])
                           /\ Elems(to_client'[peer[k]]) \subseteq
                                Elems(to_client[peer[k]]) \cup {KickedOut}
                           /\ AsShown(k) => AsShown(k)'
    PROVE  ViewOf(k)'
<1>1. ~Reports(KickedOut)
  BY DEF Reports, KickedOut, Error
<1> QED BY <1>1 DEF ViewOf, Connected, Reports

LEMMA SameActs ==
    ASSUME NEW k \in Clients, peer'[k] = peer[k], context'[k] = context[k],
           UNCHANGED <<told, connId, ep, endpoints>>, AsShown(k)
    PROVE  AsShown(k)'
BY DEF AsShown, ActsAs, Acting, Lookup

LEMMA ConnectView ==
    ASSUME ClientTypeOK, ViewInv, NEW j \in Clients, NEW c \in Conns, Connect(j, c),
           NEW k \in Clients
    PROVE  ViewOf(k)'
<1>1. /\ UNCHANGED <<told, connId, ep, endpoints, context>>
      /\ to_server' = [to_server EXCEPT ![c] = RegisterSelf(j)]
      /\ to_client' = [to_client EXCEPT ![c] = <<>>]
      /\ peer' = [peer EXCEPT ![j] = c]
      /\ status' = [status EXCEPT ![c] = "open"]
      /\ peer[k] # c
  BY DEF Connect, OnConnectionReady, mapVars
<1>2. CASE k # j
  <2>1. peer'[k] = peer[k] /\ context'[k] = context[k]
    BY <1>1, <1>2 DEF ClientTypeOK
  <2>2. ASSUME Connected(k)
        PROVE  /\ to_server'[peer[k]] = to_server[peer[k]]
               /\ to_client'[peer[k]] = to_client[peer[k]]
               /\ status'[peer[k]] = status[peer[k]]
    BY <1>1, <2>2 DEF Connected, ClientTypeOK, TypeOK, AnyConn
  <2>3. AsShown(k) => AsShown(k)'
    BY <1>1, <2>1, SameActs
  <2> QED BY <2>1, <2>2, <2>3, ViewKept DEF ViewInv
<1>3. CASE k = j
  <2> DEFINE r == [id |-> AskedId(k, context[k].endpoint_id), role |-> context[k].role,
                   svc_type |-> context[k].svc_type, token |-> FALSE,
                   code |-> context[k].role \in CodeRoles]
             command == [cmd |-> "REG", reg |-> r]
  <2>1. RegisterSelf(k) = <<command>>
    BY DEF RegisterSelf
  <2>2. Reports(command) /\ command.reg.role = context[k].role
        /\ command.reg.svc_type = context[k].svc_type
    BY DEF Reports
  <2> HIDE DEF command
  <2>3. Elems(<<command>>) = {command} /\ Elems(<<>>) = {}
    BY ElemsFew
  <2>4. peer'[k] = c /\ to_server'[c] = <<command>> /\ to_client'[c] = <<>>
        /\ context'[k] = context[k]
    BY <1>1, <1>3, <2>1 DEF ClientTypeOK
  <2> QED BY <2>2, <2>3, <2>4 DEF ViewOf, Reports
<1> QED BY <1>2, <1>3

LEMMA LostView ==
    ASSUME ClientTypeOK, OwnConnections, ViewInv, NEW j \in Clients, ConnectionLost(j),
           NEW k \in Clients
    PROVE  ViewOf(k)'
<1>1. /\ UNCHANGED <<told, connId, ep, endpoints, context, status, to_server>>
      /\ Connected(j)
      /\ to_client' = [to_client EXCEPT ![peer[j]] = <<>>]
      /\ peer' = [peer EXCEPT ![j] = NoConn]
  BY DEF ConnectionLost, vars, connVars, mapVars
<1>2. CASE k # j
  <2>1. peer'[k] = peer[k] /\ context'[k] = context[k]
    BY <1>1, <1>2 DEF ClientTypeOK
  <2>2. ASSUME Connected(k) PROVE to_client'[peer[k]] = to_client[peer[k]]
    <3>1. peer[k] # peer[j] /\ peer[k] \in Conns
      BY <1>2, <2>2 DEF OwnConnections, Connected, ClientTypeOK, AnyConn
    <3> QED BY <1>1, <3>1 DEF ClientTypeOK
  <2>3. AsShown(k) => AsShown(k)'
    BY <1>1, <2>1, SameActs
  <2> QED BY <1>1, <2>1, <2>2, <2>3, ViewKept DEF ViewInv
<1>3. CASE k = j
  BY <1>1, <1>3 DEF ViewOf, Connected, ClientTypeOK
<1> QED BY <1>2, <1>3

(* A command is sent: if it is a REG, for the role and type in the context.*)
LEMMA PostView ==
    ASSUME MaxUnanswered = 1, ClientTypeOK, OwnConnections, ViewInv, NEW j \in Clients,
           NEW command \in Command, Post(j, command), UNCHANGED <<vars, peer, to_client>>,
           \A k \in Clients : k # j \/ ~Reports(command) => context'[k] = context[k],
           Reports(command) => /\ command.reg.role = context'[j].role
                               /\ command.reg.svc_type = context'[j].svc_type,
           NEW k \in Clients
    PROVE  ViewOf(k)'
<1>1. UNCHANGED <<told, connId, ep, endpoints, status, peer, to_client>>
  BY DEF vars, connVars, mapVars
<1>2. CASE k # j
  <2>1. context'[k] = context[k] /\ (AsShown(k) => AsShown(k)')
    BY <1>1, <1>2, SameActs
  <2>2. ASSUME Connected(k) PROVE to_server'[peer[k]] = to_server[peer[k]]
    <3>1. peer[k] # peer[j] /\ peer[k] \in Conns
      BY <1>2, <2>2 DEF OwnConnections, Connected, ClientTypeOK, AnyConn
    <3> QED BY <3>1, PostWaits DEF ClientTypeOK
  <2> QED BY <1>1, <2>1, <2>2, ViewKept DEF ViewInv
<1>3. CASE k = j /\ ~Connected(k)
  BY <1>1, <1>3 DEF ViewOf, Connected
<1>4. CASE k = j /\ Connected(k)
  <2> DEFINE c == peer[k]
  <2>1. /\ c \in Conns /\ to_server[c] = <<>> /\ to_client[c] = <<>>
        /\ to_server' = [to_server EXCEPT ![c] = <<command>>]
    BY <1>4, PostWaits
  <2>2. to_server'[c] = <<command>>
    BY <2>1 DEF ClientTypeOK
  <2>3. Elems(<<command>>) = {command} /\ Elems(<<>>) = {}
    BY ElemsFew
  <2>4. CASE Reports(command)
    BY <1>1, <1>4, <2>1, <2>2, <2>3, <2>4 DEF ViewOf, Reports
  <2>5. CASE ~Reports(command)
    <3>1. context'[k] = context[k] /\ (AsShown(k) => AsShown(k)')
      BY <1>1, <1>4, <2>5, SameActs
    <3> QED BY <1>1, <1>4, <2>1, <2>2, <2>3, <2>5, <3>1 DEF ViewOf, ViewInv, Reports, Connected
  <2> QED BY <2>4, <2>5
<1> QED BY <1>2, <1>3, <1>4

LEMMA AppRegisterView ==
    ASSUME MaxUnanswered = 1, ClientTypeOK, OwnConnections, ViewInv, NEW j \in Clients,
           AppRegister(j), NEW k \in Clients
    PROVE  ViewOf(k)'
<1>1. PICK ep_id \in {NoId} \cup NamedIds[j], role \in ClientRoles[j],
           svc_type \in SvcTypes, token \in BOOLEAN, code \in BOOLEAN :
           RegisterAs(j, ep_id, role, svc_type, token, code)
  BY DEF AppRegister
<1> DEFINE r == [id |-> AskedId(j, ep_id), role |-> role, svc_type |-> svc_type,
                 token |-> token, code |-> code]
           command == [cmd |-> "REG", reg |-> r]
<1>2. role \in Roles /\ context[j] \in Context /\ AskedId(j, ep_id) \in AnyId
  BY ClientAssumption DEF ClientAssumption, ClientTypeOK, Context, AskedId, AnyId
<1>3. r \in Request /\ r.role = role /\ r.svc_type = svc_type
  BY <1>2 DEF Request
<1>4. command \in Command /\ command.reg = r /\ Reports(command)
  BY <1>3 DEF Command, Reports
<1>5. Post(j, command) /\ UNCHANGED <<vars, peer, to_client>>
  BY <1>1 DEF RegisterAs
<1>6. context'[j].role = role /\ context'[j].svc_type = svc_type
  BY <1>1, <1>2 DEF RegisterAs, ClientTypeOK, Context
<1>7. \A i \in Clients : i # j => context'[i] = context[i]
  BY <1>1 DEF RegisterAs, ClientTypeOK
<1> HIDE DEF command, r
<1> QED BY <1>3, <1>4, <1>5, <1>6, <1>7, PostView

LEMMA AppKickoutView ==
    ASSUME MaxUnanswered = 1, ClientTypeOK, OwnConnections, ViewInv, NEW j \in Clients,
           AppKickout(j), NEW k \in Clients
    PROVE  ViewOf(k)'
<1>1. PICK targets \in Kickouts[j] :
        /\ Post(j, [cmd |-> "KICKOUT", targets |-> targets])
        /\ UNCHANGED <<vars, peer, context, to_client>>
  BY DEF AppKickout
<1> DEFINE command == [cmd |-> "KICKOUT", targets |-> targets]
<1>2. command \in Command /\ ~Reports(command)
  BY ClientAssumption DEF ClientAssumption, Command, Reports
<1> HIDE DEF command
<1>3. Post(j, command)
  BY <1>1 DEF command
<1> QED BY <1>1, <1>2, <1>3, PostView

(* A result is read: a role that it reports is the context's already.      *)
LEMMA ResultView ==
    ASSUME ClientTypeOK, OwnConnections, ViewInv, NEW j \in Clients,
           HandleCommandResult(j), NEW k \in Clients
    PROVE  ViewOf(k)'
<1> DEFINE c == peer[j]
           x == Head(to_client[c])
<1>1. /\ UNCHANGED <<told, connId, ep, endpoints, status, peer, to_server>>
      /\ Connected(j) /\ c \in Conns /\ to_client[c] # <<>>
      /\ to_client' = [to_client EXCEPT ![c] = Tail(@)]
  BY DEF HandleCommandResult, Connected, ClientTypeOK, AnyConn, vars, connVars, mapVars
<1>2. /\ Elems(to_client[c]) = Elems(Tail(to_client[c])) \cup {x}
      /\ to_client'[c] = Tail(to_client[c])
      /\ \A d \in Conns : d # c => to_client'[d] = to_client[d]
  BY <1>1, ElemsTail DEF ClientTypeOK
<1>3. CASE k # j
  <2>1. context'[k] = context[k]
    BY <1>3 DEF HandleCommandResult, ClientTypeOK
  <2>2. ASSUME Connected(k) PROVE to_client'[peer[k]] = to_client[peer[k]]
    <3>1. peer[k] # peer[j] /\ peer[k] \in Conns
      BY <1>3, <2>2 DEF OwnConnections, Connected, ClientTypeOK, AnyConn
    <3> QED BY <1>2, <3>1
  <2>3. AsShown(k) => AsShown(k)'
    BY <1>1, <2>1, SameActs
  <2> QED BY <1>1, <2>1, <2>2, <2>3, ViewKept DEF ViewInv
<1>4. CASE k = j
  <2> SUFFICES ASSUME status[c] = "open" PROVE ViewOf(k)'
    BY <1>1, <1>4 DEF ViewOf
  <2>1. ViewOf(k) /\ context[k] \in Context
    BY DEF ViewInv, ClientTypeOK
  <2>2. /\ context'[k].svc_type = context[k].svc_type
        /\ ~Reports(x) => context'[k] = context[k]
        /\ Reports(x) /\ ~x.ok => context'[k].failed /\ context'[k].role = context[k].role
        /\ Reports(x) /\ x.ok /\ x.role \in {context[k].role, "Undefined"} =>
              context'[k].role = context[k].role
    BY <1>4, <2>1 DEF HandleCommandResult, WithResult, Reports, ClientTypeOK, Context
  <2>3. Reports(x) /\ x.ok => x.role \in {context[k].role, "Undefined"} /\ AsShown(k)
    BY <1>1, <1>2, <1>4, <2>1 DEF ViewOf
  <2>4. context'[k].role = context[k].role
    BY <2>2, <2>3
  <2>5. AsShown(k) => AsShown(k)'
    BY <1>1, <2>2, <2>4 DEF AsShown, ActsAs, Acting, Lookup
  <2>6. Elems(to_client'[c]) \subseteq Elems(to_client[c])
    BY <1>2
  <2>7. \A y \in Elems(to_server[c]) :
          Reports(y) => y.reg.role = context'[k].role /\ y.reg.svc_type = context'[k].svc_type
    BY <1>1, <1>4, <2>1, <2>2, <2>4 DEF ViewOf
  <2>8. \A y \in Elems(to_client'[c]) : Reports(y) =>
          /\ \A z \in Elems(to_server[c]) : ~Reports(z)
          /\ y.ok => y.role \in {context'[k].role, "Undefined"} /\ AsShown(k)'
    BY <1>1, <1>4, <2>1, <2>4, <2>5, <2>6 DEF ViewOf
  <2>9. ASSUME \A y \in Elems(to_server[c]) \cup Elems(to_client'[c]) : ~Reports(y),
               context'[k].is_registered, ~context'[k].failed
        PROVE  AsShown(k)'
    <3>1. CASE Reports(x)
      BY <2>2, <2>3, <2>5, <2>9, <3>1
    <3>2. CASE ~Reports(x)
      BY <1>1, <1>2, <1>4, <2>1, <2>2, <2>5, <2>9, <3>2 DEF ViewOf
    <3> QED BY <3>1, <3>2
  <2> HIDE DEF x
  <2> QED BY <1>1, <1>4, <2>7, <2>8, <2>9 DEF ViewOf, Reports
<1> QED BY <1>3, <1>4

(* The server answers a REG with the result of a REG, for the role and type*)
(* that its connection then acts in, and a KICKOUT with something else.    *)
LEMMA AnswerView ==
    ASSUME ClientTypeOK, OneUnread, ViewInv, NEW c \in Conns, to_server[c] # <<>>,
           status[c] = "open", NEW result \in Result, Answer(c, result),
           \A d \in Conns : status'[d] = "open" => status[d] = "open",
           Reports(Head(to_server[c])) <=> Reports(result),
           NEW k \in Clients,
           Connected(k) /\ (peer[k] # c \/ ~Reports(result)) /\ AsShown(k) => AsShown(k)',
           peer[k] = c /\ Reports(result) /\ result.ok =>
              result.role \in {context[k].role, "Undefined"} /\ AsShown(k)'
    PROVE  ViewOf(k)'
<1>1. /\ UNCHANGED <<peer, context>>
      /\ to_server' = [to_server EXCEPT ![c] = Tail(@)]
  BY DEF Answer
<1>2. \A d \in Conns :
        /\ Elems(to_client[d]) \subseteq Elems(to_client'[d])
        /\ Elems(to_client'[d]) \subseteq
             Elems(to_client[d]) \cup {KickedOut} \cup (IF c = d THEN {result} ELSE {})
        /\ c = d /\ (\E i \in Clients : peer[i] = d) => result \in Elems(to_client'[d])
  BY AnswerType
<1>3. ViewOf(k)
  BY DEF ViewInv
<1>4. CASE peer[k] # c
  <2>1. ASSUME Connected(k)
        PROVE  /\ to_server'[peer[k]] = to_server[peer[k]]
               /\ status'[peer[k]] = "open" => status[peer[k]] = "open"
               /\ Elems(to_client[peer[k]]) \subseteq Elems(to_client'[peer[k]])
               /\ Elems(to_client'[peer[k]]) \subseteq
                     Elems(to_client[peer[k]]) \cup {KickedOut}
    <3>1. peer[k] \in Conns
      BY <2>1 DEF Connected, ClientTypeOK, AnyConn
    <3>2. to_server'[peer[k]] = to_server[peer[k]]
      BY <1>1, <1>4, <3>1 DEF ClientTypeOK
    <3> QED BY <1>2, <1>4, <3>1, <3>2
  <2> QED BY <1>1, <1>3, <1>4, <2>1, ViewKept
<1>5. CASE peer[k] = c
  <2>1. to_server'[c] = <<>> /\ Elems(to_server[c]) = {Head(to_server[c])}
    <3>1. to_server[c] \in Seq(Command) /\ Len(to_server[c]) <= 1
      BY DEF ClientTypeOK, OneUnread
    <3>2. Tail(to_server[c]) = <<>>
      BY <3>1
    <3>3. Elems(to_server[c]) = Elems(<<>>) \cup {Head(to_server[c])}
      BY <3>1, <3>2, ElemsTail
    <3> QED BY <1>1, <3>2, <3>3, NoElems DEF ClientTypeOK
  <2>2. Elems(<<>>) = {} /\ ~Reports(KickedOut)
    BY NoElems DEF Reports, KickedOut, Error
  <2>3. Connected(k) /\ Connected(k)'
    BY <1>1, <1>5, RegistryAssumption DEF Connected, RegistryAssumption
  <2>4. CASE Reports(result)
    <3>1. \A y \in Elems(to_client[c]) : ~Reports(y)
      BY <1>3, <1>5, <2>1, <2>3, <2>4 DEF ViewOf
    <3>2. \A y \in Elems(to_client'[c]) : Reports(y) => y = result
      BY <1>2, <2>2, <3>1
    <3>3. result \in Elems(to_client'[c])
      BY <1>2, <1>5
    <3> QED BY <1>1, <1>5, <2>1, <2>2, <2>4, <3>2, <3>3 DEF ViewOf, Reports
  <2>5. CASE ~Reports(result)
    <3>1. \A y \in Elems(to_client'[c]) : Reports(y) => y \in Elems(to_client[c])
      BY <1>2, <2>2, <2>5
    <3>2. AsShown(k) => AsShown(k)'
      BY <2>3, <2>5
    <3>3. \A y \in Elems(to_server[c]) : ~Reports(y)
      BY <2>1, <2>5
    <3>4. \A y \in Elems(to_client'[c]) :
            Reports(y) /\ y.ok => y.role \in {context[k].role, "Undefined"} /\ AsShown(k)'
      BY <1>3, <1>5, <2>3, <3>1, <3>2 DEF ViewOf
    <3>5. ASSUME \A y \in Elems(to_client'[c]) : ~Reports(y),
                 context[k].is_registered, ~context[k].failed
          PROVE  AsShown(k)'
      BY <1>2, <1>3, <1>5, <2>3, <3>2, <3>3, <3>5 DEF ViewOf
    <3> QED BY <1>1, <1>5, <2>1, <2>2, <3>4, <3>5 DEF ViewOf, Reports
  <2> QED BY <2>4, <2>5
<1> QED BY <1>4, <1>5
LEMMA CommandView ==
    ASSUME ~MayTakeOver, ClientTypeOK, TameInv, OneHolder, OneId, OneId', ViewInv,
           NEW c \in Conns, HandleCommand(c), NEW k \in Clients
    PROVE  ViewOf(k)'
<1> DEFINE head == Head(to_server[c])
<1>1. to_server[c] # <<>> /\ status[c] = "open" /\ OneUnread /\ TypeOK
  BY DEF HandleCommand, TameInv, ClientTypeOK
<1>2. head \in Elems(to_server[c])
  BY <1>1, ElemsTail DEF ClientTypeOK
<1>3. Connected(k) => peer[k] \in Conns
  BY DEF Connected, ClientTypeOK, AnyConn
<1>4. peer'[k] = peer[k] /\ context'[k] = context[k]
  BY CommandCases DEF Registers, Answer
<1>5. ASSUME NEW r \in Request, head = [cmd |-> "REG", reg |-> r], Registers(c, r)
      PROVE  ViewOf(k)'
  <2>1. OneIdRegister(c, r)
    BY <1>1, <1>5, HeadAsksOwnId DEF OneIdRegister, Registers
  <2>2. /\ status' = status
        /\ ActsAs(c, r.role, r.svc_type)'
        /\ \A d \in Conns : d # c /\ connId[d] # NoId =>
             /\ connId'[d] = connId[d]
             /\ Acting(d)' = Acting(d)
             /\ ep'[Acting(d)] = ep[Acting(d)]
    BY <1>1, <2>1, RegisterActs
  <2> DEFINE result == [cmd |-> "REG", ok |-> TRUE, id |-> told'[c],
                        role |-> ReportedRole(r, told'[c])]
  <2>3. ReportedRole(r, told'[c]) \in {r.role, "Undefined"} /\ r.role \in Roles
    BY DEF ReportedRole, Request
  <2>4. told'[c] \in AnyId
    BY <1>5, CommandCases, RegistryStepOfClients, TypeStep DEF ClientNext, ClientTypeOK, TypeOK
  <2>5. /\ result \in Result /\ Reports(result)
        /\ result.role \in {r.role, "Undefined"} /\ Answer(c, result)
    BY <1>5, <2>3, <2>4 DEF Result, Reports, Registers
  <2>6. Reports(head) /\ head.reg = r
    BY <1>5 DEF Reports
  <2>7. ASSUME Connected(k), peer[k] # c, AsShown(k) PROVE AsShown(k)'
    <3>1. told[peer[k]] = connId[peer[k]] /\ told'[peer[k]] = connId'[peer[k]]
      BY DEF OneId
    <3>2. connId[peer[k]] # NoId
      BY <2>7, <3>1 DEF AsShown, ActsAs
    <3> QED BY <1>3, <1>4, <2>2, <2>7, <3>1, <3>2 DEF AsShown, ActsAs
  <2>8. ASSUME peer[k] = c PROVE context[k].role = r.role /\ AsShown(k)'
    <3>1. Connected(k)
      BY <2>8, RegistryAssumption DEF Connected, RegistryAssumption
    <3>2. context[k].role = r.role /\ context[k].svc_type = r.svc_type
      BY <1>1, <1>2, <2>6, <2>8, <3>1 DEF ViewInv, ViewOf
    <3> QED BY <1>4, <2>2, <2>8, <3>2 DEF AsShown
  <2> HIDE DEF result, head
  <2>9. Reports(Head(to_server[c])) <=> Reports(result)
    BY <2>5, <2>6 DEF head
  <2> QED BY <1>1, <2>2, <2>5, <2>7, <2>8, <2>9, AnswerView
<1>6. ASSUME NEW result \in Result, UNCHANGED <<told, connId, ep, endpoints>>,
             \A d \in Conns : status'[d] = "open" => status[d] = "open",
             Answer(c, result), ~result.ok \/ ~Reports(result), head.cmd = result.cmd
      PROVE  ViewOf(k)'
  <2>1. Reports(Head(to_server[c])) <=> Reports(result)
    BY <1>6 DEF Reports
  <2>2. AsShown(k) => AsShown(k)'
    BY <1>4, <1>6, SameActs
  <2> QED BY <1>1, <1>6, <2>1, <2>2, AnswerView
<1>7. ASSUME NEW targets \in SUBSET Ids, Kickout(c, targets), Answer(c, KickedOut),
             head.cmd = "KICKOUT"
      PROVE  ViewOf(k)'
  <2>1. /\ UNCHANGED <<told, connId, ep, endpoints>>
        /\ \A d \in Conns : status'[d] = "open" => status[d] = "open"
    BY <1>7 DEF Kickout, AfterDisconnect, mapVars
  <2>2. KickedOut \in Result /\ KickedOut.cmd = "KICKOUT"
    BY DEF KickedOut, Error, Result, AnyId
  <2> QED BY <1>6, <1>7, <2>1, <2>2 DEF Reports
<1>8. ASSUME NEW cmd \in {"REG", "KICKOUT"}, head.cmd = cmd, UNCHANGED vars,
             Answer(c, Error(cmd))
      PROVE  ViewOf(k)'
  <2>1. UNCHANGED <<told, connId, ep, endpoints, status>>
    BY <1>8 DEF vars, connVars, mapVars
  <2>2. Error(cmd) \in Result /\ Error(cmd).cmd = cmd /\ ~Error(cmd).ok
    BY DEF Error, Result, AnyId
  <2> QED BY <1>6, <1>8, <2>1, <2>2
<1> QED BY <1>5, <1>7, <1>8, CommandCases

LEMMA ClosedView ==
    ASSUME ClientTypeOK, OneHolder, OneId, ViewInv, NEW c \in Conns, ServerClosed(c),
           NEW k \in Clients
    PROVE  ViewOf(k)'
<1>1. /\ UNCHANGED <<peer, context, to_client>>
      /\ to_server' = [to_server EXCEPT ![c] = <<>>]
      /\ status' = [status EXCEPT ![c] = "closed"]
      /\ told' = [told EXCEPT ![c] = NoId]
      /\ OnConnectionClosed(c)
  BY DEF ServerClosed, OnConnectionClosed
<1>2. CASE peer[k] = c
  <2>1. status'[c] = "closed"
    BY <1>1 DEF ClientTypeOK, TypeOK
  <2> QED BY <1>1, <1>2, <2>1 DEF ViewOf
<1>3. CASE peer[k] # c
  <2>1. ASSUME Connected(k)
        PROVE  /\ to_server'[peer[k]] = to_server[peer[k]]
               /\ status'[peer[k]] = status[peer[k]]
               /\ AsShown(k) => AsShown(k)'
    <3>1. peer[k] \in Conns
      BY <2>1 DEF Connected, ClientTypeOK, AnyConn
    <3>2. /\ to_server'[peer[k]] = to_server[peer[k]]
          /\ status'[peer[k]] = status[peer[k]]
          /\ told'[peer[k]] = told[peer[k]]
      BY <1>1, <1>3, <3>1 DEF ClientTypeOK, TypeOK
    <3>3. ASSUME AsShown(k) PROVE AsShown(k)'
      <4>1. connId[peer[k]] # NoId
        BY <3>3 DEF AsShown, ActsAs, OneId
      <4>2. /\ Acting(peer[k])' = Acting(peer[k])
            /\ ep'[Acting(peer[k])] = ep[Acting(peer[k])]
        BY <1>1, <1>3, <3>1, <4>1, ClosedActs DEF ClientTypeOK
      <4> QED BY <1>1, <3>2, <3>3, <4>2 DEF AsShown, ActsAs
    <3> QED BY <3>2, <3>3
  <2> QED BY <1>1, <2>1, ViewKept DEF ViewInv
<1> QED BY <1>2, <1>3

LEMMA ViewStep ==
    ASSUME MaxUnanswered = 1, ~MayTakeOver, ClientTypeOK, TameInv, OneHolder,
           OneId, OneId', ViewInv, [ClientNext]_systemVars
    PROVE  ViewInv'
<1> SUFFICES ASSUME NEW k \in Clients PROVE ViewOf(k)'
  BY DEF ViewInv
<1>1. OwnConnections
  BY DEF TameInv
<1>2. CASE UNCHANGED systemVars
  <2>1. peer'[k] = peer[k] /\ context'[k] = context[k]
        /\ UNCHANGED <<told, connId, ep, endpoints, status, to_server, to_client>>
    BY <1>2 DEF systemVars, clientVars, vars, connVars, mapVars
  <2>2. AsShown(k) => AsShown(k)'
    BY <2>1, SameActs
  <2> QED BY <2>1, <2>2, ViewKept DEF ViewInv
<1> QED BY <1>1, <1>2, ConnectView, LostView, AppRegisterView, AppKickoutView, ResultView,
           CommandView, ClosedView DEF ClientNext

LEMMA ViewInvCorrect ==
    ASSUME MaxUnanswered = 1, NoneNamed, ~MayTakeOver PROVE ClientSpec => []ViewInv
<1>1. ClientInit => ViewInv
  BY DEF ClientInit, ViewInv, ViewOf, Connected
<1>2. /\ ClientTypeOK /\ TameInv /\ OneHolder /\ OneId /\ OneId' /\ ViewInv
      /\ [ClientNext]_systemVars
      => ViewInv'
  BY ViewStep
<1> QED BY <1>1, <1>2, ClientTypeCorrect, TameInvCorrect, ClientsAreRegistry,
           ActingCorrect, ClientsOneId, PTL DEF ClientSpec

(* What the context of a client shows when nothing is on the way is what   *)
(* the server has registered, for any number of clients that name no id,   *)
(* present no token and wait for their answers, whatever was lost or       *)
(* refused before.                                                         *)
THEOREM ClientViewCorrect ==
    ASSUME MaxUnanswered = 1, NoneNamed, ~MayTakeOver
    PROVE  ClientSpec => []ClientViewRight
<1>1. ClientTypeOK /\ TameInv /\ OneId /\ ViewInv => ClientViewRight
  <2> SUFFICES ASSUME ClientTypeOK, TameInv, OneId, ViewInv, NEW k \in Clients,
                      Connected(k), status[peer[k]] = "open", Answering(peer[k]) = 0,
                      context[k].is_registered, ~context[k].failed
               PROVE  /\ connId[peer[k]] = context[k].endpoint_id
                      /\ ActsAs(peer[k], context[k].role, context[k].svc_type)
    BY DEF ClientViewRight, Settled, ActsAs
  <2> DEFINE c == peer[k]
  <2>1. c \in Conns
    BY DEF Connected, ClientTypeOK, AnyConn
  <2>2. to_server[c] = <<>> /\ to_client[c] = <<>>
    BY <2>1, BothEmpty DEF ClientTypeOK, Answering
  <2>3. Elems(to_server[c]) = {} /\ Elems(to_client[c]) = {}
    BY <2>2, NoElems
  <2>4. ActsAs(c, context[k].role, context[k].svc_type)
    BY <2>3 DEF ViewInv, ViewOf, AsShown
  <2>5. told[c] = context[k].endpoint_id
    BY <2>3, <2>4 DEF TameInv, ContextCurrent, ActsAs
  <2> QED BY <2>4, <2>5 DEF OneId
<1> QED BY <1>1, ClientTypeCorrect, TameInvCorrect, ClientsOneId, ViewInvCorrect, PTL
=============================================================================
