---------------------------- MODULE MessageFraming ----------------------------
(***************************************************************************)
(* Messages as bytes on the connections between clients and the switch:    *)
(* the 16-bit length that CommandMessage (common/switch_message.cpp) writes*)
(* into its header and reads back, in place, and where each handler takes  *)
(* payload and result to begin.  A message is a record of the sizes of its *)
(* parts.  Whom a message is for is MessageRouting's subject: here the     *)
(* server relays to any of the registered clients.                         *)
(*                                                                         *)
(* A stream has no other boundary between messages than the length: a      *)
(* reader that takes too few or too many bytes for a message takes bytes of*)
(* a body for the next header.  Nothing more is said of what it reads then:*)
(* what comes on a stream that is out of step is dropped here.             *)
(***************************************************************************)
EXTENDS Integers, Sequences, FiniteSets

CONSTANTS
    Clients,       \* processes connected to the switch, all through the run
    Registered,    \* those that are registered as an endpoint
    DataSizes,     \* sizes of what applications send and services answer
    TargetCounts,  \* numbers of targets that a PUBLISH_2 names
    MaxInFlight    \* messages on the way when a client sends no more

ASSUME FramingAssumption ==
    /\ Registered \subseteq Clients
    /\ DataSizes \subseteq Nat
    /\ TargetCounts \subseteq Nat
    /\ MaxInFlight \in Nat

VARIABLES
    up,        \* what each client has sent and the server has not read
    down,      \* what the server has sent to each client, not read yet
    lost,      \* the streams <<direction, client>> that are out of step
    overlong   \* the streams that a message too long for its length was put on

framingVars == <<up, down, lost, overlong>>

-----------------------------------------------------------------------------
(* payload_size_t, its bytes, and the sizes of the packed structures.      *)
Short == {n \in Nat : n < 65536}
Byte == {n \in Nat : n < 256}
High(n) == n \div 256
Low(n) == n % 256
Join(high, low) == high * 256 + low
Narrow(n) == n % 65536
LenBytes == 2
ServiceSize == 11
PublishingSize == 8
TargetSize == 4
ResultSize == 1

(* Texts of a fixed size: "the client maybe not be registered", "Can not   *)
(* find service or request is not allowed", {"total": 1}.                  *)
UnknownSize == 34
RefusalSize == 46
TotalSize == 12

(* htons and ntohs on a little-endian machine.                             *)
Swap(n) == Join(Low(n), High(n))

(* A message: its command, whether it is a response, the length as its two *)
(* bytes stand on the wire, and what its body consists of, in this order:  *)
(* the ServiceMessage or PublishingMessage, the ids of targets, the result *)
(* code and the data.                                                      *)
Cmds == {"ECHO", "PUBLISH", "PUBLISH_2", "SVC"}
Frame == [cmd : Cmds, rsp : BOOLEAN, wire : Short,
          ext : {0, ServiceSize, PublishingSize}, targets : Nat,
          result : {0, ResultSize}, data : Nat]

Body(f) == f.ext + TargetSize * f.targets + f.result + f.data

\* Fault: the length on the wire does not count its own bytes.
ToWireOfBody(len) == Swap(Narrow(len))

(* ConvertToNetworkMessage: the length on the wire counts its own bytes,   *)
(* unless there is no payload.  FromNetworkMessage takes them off again.   *)
ToWire(len) == Swap(Narrow(IF len > 0 THEN len + LenBytes ELSE len))

FromWire(wire) ==
    LET n == Swap(wire) IN IF n >= LenBytes THEN n - LenBytes ELSE n

(* A message with its length filled in; SetPayloadLen narrows what it gets.*)
Written(f) == [f EXCEPT !.wire = ToWire(Narrow(Body(f)))]

Message(cmd, ext, targets, data) ==
    Written([cmd |-> cmd, rsp |-> FALSE, wire |-> 0, ext |-> ext,
             targets |-> targets, result |-> 0, data |-> data])

Overlong(f) == Body(f) + LenBytes \notin Short

(* The reader takes as many bytes for f as f has.                          *)
InStep(f) == FromWire(f.wire) = Body(f)

Understood(dir, k, f) == <<dir, k>> \notin lost /\ InStep(f)

-----------------------------------------------------------------------------
\* Fault: the ServiceMessage is skipped in requests only.
SkippedInRequests(f) ==
    IF ~f.rsp /\ f.cmd = "PUBLISH_2" THEN PublishingSize
    ELSE IF ~f.rsp /\ f.cmd = "SVC" THEN ServiceSize ELSE 0

(* CommandMessage::Payload: what comes before the payload.  The ids of the *)
(* targets count for 0 bytes each, the size of targets[0], so that they are*)
(* left at the beginning of the payload.                                   *)
Skipped(f) ==
    IF f.cmd = "PUBLISH_2" /\ ~f.rsp THEN PublishingSize
    ELSE IF f.cmd = "SVC" THEN ServiceSize ELSE 0

\* Fault: the payload of a response ends before its result code.
PayloadLenOfResult(f) == FromWire(f.wire) - Skipped(f) - ResultSize

PayloadLen(f) == Narrow(FromWire(f.wire) - Skipped(f))

(* GetResultMessage: the result code is the first byte of the payload.     *)
ContentSize(f) == PayloadLen(f) - ResultSize

-----------------------------------------------------------------------------
FramingInit ==
    /\ up = [k \in Clients |-> <<>>]
    /\ down = [k \in Clients |-> <<>>]
    /\ lost = {}
    /\ overlong = {}

Spoils(dir, out) ==
    {<<dir, k>> : k \in {d \in Clients : \E n \in DOMAIN out[d] : Overlong(out[d][n])}}

Put(queues, out) == [k \in Clients |-> queues[k] \o out[k]]

Only(k, f) == [d \in Clients |-> IF d = k THEN <<f>> ELSE <<>>]

InFlight ==
    Cardinality({m \in Clients \X (1 .. MaxInFlight) : m[2] <= Len(up[m[1]])})
    + Cardinality({m \in Clients \X (1 .. MaxInFlight) : m[2] <= Len(down[m[1]])})

(* SCCommandHandler::SendCommandMessage.                                   *)
SendCommandMessage(k, f) ==
    /\ InFlight < MaxInFlight
    /\ up' = Put(up, Only(k, f))
    /\ overlong' = overlong \cup Spoils("up", Only(k, f))
    /\ UNCHANGED <<down, lost>>

Echo(k, data) == SendCommandMessage(k, Message("ECHO", 0, 0, data))

(* A PUBLISH_2 is what names targets or a message type.                    *)
Publish(k, data, targets, typed) ==
    SendCommandMessage(k, IF targets > 0 \/ typed
                          THEN Message("PUBLISH_2", PublishingSize, targets, data)
                          ELSE Message("PUBLISH", 0, 0, data))

RequestService(k, data) ==
    SendCommandMessage(k, Message("SVC", ServiceSize, 0, data))

-----------------------------------------------------------------------------
(* CommandHandler::sendResultMessage.                                      *)
ResultMessage(cmd, data) ==
    Written([cmd |-> cmd, rsp |-> TRUE, wire |-> 0, ext |-> 0,
             targets |-> 0, result |-> ResultSize, data |-> data])

(* The answer to a request in the message of the request, with its         *)
(* ServiceMessage: by a service, or by the server that found none.         *)
ServiceResult(f, data) ==
    Written([f EXCEPT !.rsp = TRUE, !.result = ResultSize, !.data = data])

\* Fault: the message is relayed with its length in the order of the host.
RelayOfHost(f) == [f EXCEPT !.wire = FromWire(f.wire)]

(* A message is relayed in the buffer it was read into, in which its length*)
(* had been converted on arrival.                                          *)
Relay(f) == [f EXCEPT !.wire = ToWire(FromWire(f.wire))]

(* What the server sends: a relayed message to some, an answer to one.     *)
Sending(to, f, k, answers) ==
    [d \in Clients |-> (IF d \in to THEN <<Relay(f)>> ELSE <<>>)
                       \o (IF d = k THEN answers ELSE <<>>)]

ServerSends(out) ==
    /\ down' = Put(down, out)
    /\ overlong' = overlong \cup Spoils("down", out)

(* CommandHandler::handleCommand of the message f of client k.             *)
HandleMessage(k, f) ==
    \/ /\ f.cmd = "ECHO"
       /\ ServerSends(Only(k, ResultMessage("ECHO", PayloadLen(f))))
    \/ /\ f.cmd # "ECHO"
       /\ k \notin Registered
       /\ ServerSends(Only(k, ResultMessage(f.cmd, UnknownSize)))
    \/ /\ f.cmd \in {"PUBLISH", "PUBLISH_2"}
       /\ k \in Registered
       /\ \E to \in SUBSET (Registered \ {k}) :
            ServerSends(Sending(to, f, k, <<ResultMessage(f.cmd, TotalSize)>>))
    \/ /\ f.cmd = "SVC" /\ ~f.rsp
       /\ k \in Registered
       /\ \/ \E d \in Registered \ {k} : ServerSends(Sending({d}, f, k, <<>>))
          \/ ServerSends(Only(k, ServiceResult(f, RefusalSize)))
    \/ /\ f.cmd = "SVC" /\ f.rsp
       /\ k \in Registered
       /\ \/ \E d \in Registered : ServerSends(Sending({d}, f, k, <<>>))
          \/ UNCHANGED <<down, overlong>>

ServerReads(k) ==
    /\ up[k] # <<>>
    /\ IF Understood("up", k, Head(up[k]))
       THEN /\ HandleMessage(k, Head(up[k]))
            /\ up' = [up EXCEPT ![k] = Tail(@)]
            /\ UNCHANGED lost
       ELSE /\ lost' = lost \cup {<<"up", k>>}
            /\ up' = [up EXCEPT ![k] = <<>>]
            /\ UNCHANGED <<down, overlong>>

(* SCCommandHandler::HandleServiceRequest answers in the same callback;    *)
(* published data and results are passed to the application.               *)
ClientHandles(k, f) ==
    IF f.cmd = "SVC" /\ ~f.rsp
    THEN \E data \in DataSizes :
           /\ up' = Put(up, Only(k, ServiceResult(f, data)))
           /\ overlong' = overlong \cup Spoils("up", Only(k, ServiceResult(f, data)))
    ELSE UNCHANGED <<up, overlong>>

ClientReads(k) ==
    /\ down[k] # <<>>
    /\ IF Understood("down", k, Head(down[k]))
       THEN /\ ClientHandles(k, Head(down[k]))
            /\ down' = [down EXCEPT ![k] = Tail(@)]
            /\ UNCHANGED lost
       ELSE /\ lost' = lost \cup {<<"down", k>>}
            /\ down' = [down EXCEPT ![k] = <<>>]
            /\ UNCHANGED <<up, overlong>>

FramingNext ==
    \E k \in Clients :
        \/ \E data \in DataSizes :
             \/ Echo(k, data)
             \/ RequestService(k, data)
             \/ \E targets \in TargetCounts, typed \in BOOLEAN :
                  Publish(k, data, targets, typed)
        \/ ServerReads(k)
        \/ ClientReads(k)

FramingSpec == FramingInit /\ [][FramingNext]_framingVars

-----------------------------------------------------------------------------
OnWire(dir, k) ==
    LET queue == IF dir = "up" THEN up[k] ELSE down[k]
    IN {queue[n] : n \in DOMAIN queue}

Streams == {"up", "down"} \X Clients

(* The variables have their types.                                         *)
FramingTypeOK ==
    /\ up \in [Clients -> Seq(Frame)]
    /\ down \in [Clients -> Seq(Frame)]
    /\ lost \subseteq Streams
    /\ overlong \subseteq Streams

(* A reader falls out of step only on a stream on which a message was sent *)
(* whose payload, with the two bytes of its length, exceeds 16 bits: not   *)
(* by an empty payload, not by a message that the server answers, relays   *)
(* or refuses in the buffer it came in, and not by a relayed answer.       *)
LostOnlyOverlong == lost \subseteq overlong

(* Where the data of a message begins: behind its header and its targets.  *)
DataOffset(f) == f.ext + TargetSize * f.targets

(* Who reads a request that names no targets is given the data of the      *)
(* sender, all of it and nothing else, in 16-bit arithmetic.  The payload  *)
(* of any request ends where the message ends; that of a PUBLISH_2 with    *)
(* targets begins too early, which PublishedDataRight is about.            *)
RequestPayloadRight ==
    \A dir \in {"up", "down"}, k \in Clients : <<dir, k>> \notin overlong =>
        \A f \in OnWire(dir, k) : ~f.rsp =>
            /\ f.targets = 0 => Skipped(f) = DataOffset(f) /\ PayloadLen(f) = f.data
            /\ Skipped(f) + PayloadLen(f) = Body(f)

(* A client is given what another published, and its size (data and        *)
(* data_len of OnPublishingData), whether or not targets were named.       *)
PublishedDataRight ==
    \A k \in Clients : <<"down", k>> \notin overlong =>
        \A f \in OnWire("down", k) : ~f.rsp /\ f.cmd \in {"PUBLISH", "PUBLISH_2"} =>
            Skipped(f) = DataOffset(f) /\ PayloadLen(f) = f.data

(* The server's refusal of a service request, in handleCommand, of a client*)
(* that is not registered: it has no ServiceMessage.                       *)
RefusedUnknown(k, f) == f.cmd = "SVC" /\ k \notin Registered

CodeFound(f) == Skipped(f) = f.ext /\ ContentSize(f) = f.data

(* Who reads a response finds the result code in the byte that was written *)
(* as one, and the size of the data behind it, whether a service answered  *)
(* or the server: in every response but RefusedUnknown.  That one is misread*)
(* and only this is right of it: what is read is inside the message.       *)
ResultRead ==
    \A dir \in {"up", "down"}, k \in Clients : <<dir, k>> \notin overlong =>
        \A f \in OnWire(dir, k) : f.rsp =>
            /\ ~RefusedUnknown(k, f) => CodeFound(f)
            /\ Skipped(f) + ResultSize + ContentSize(f) = Body(f)
=============================================================================
