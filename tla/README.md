# Message Switch: TLA+ models, model checking and proofs

Message Switch is a message switch server in C++ on top of the Eventloop
library, with a client library. Clients connect over TCP, register as an
*endpoint* under an id, and exchange messages through the node: broadcasts,
messages to named endpoints, messages by subscription, and service requests.

The modules here model the server's registry, its routing, its serving setup,
the framing of messages and the client library with what clients do through it.
The TLC runs check them on small instances, and the proofs establish the main
properties for every value of the constants.

## 1. Inventory

| part | state | operations | who calls it |
|---|---|---|---|
| **Registry**: `SwitchContext`, `SwitchService::register_endpoint`, `kickout_endpoint`, `SwitchServer::OnConnectionReady/Closed` (`src/src/server`) | `pending_clients`, `endpoints`, `normal_endpoints`, `admin_endpoints`, `service_endpoints`, the fields of each `Endpoint`, the id on each `TcpConnection` | connection ready and closed, REG (new, again, takeover by token, role switch, service type switch), KICKOUT | callbacks of the event loop |
| **Routing**: `CommandHandler`, filters of `Endpoint`, `SwitchService::subscribe ...` | five filter sets per `Endpoint`, `message_subscribers` | FWD, UNFWD, SUB, UNSUB, REJECT, UNREJECT, PUBLISH, PUBLISH_2, SVC request and response, INFO, EP_INFO, ECHO | `OnMessageRecvd`, after looking the sender up in the registry |
| **Wire messages**: `CommandMessage`, `ServiceMessage`, `PublishingMessage` (`src/src/common`) | none but the buffer: a message is a view of what was received, converted in place | length conversion, payload of PUBLISH_2 and SVC, result messages | both ends |
| **Serving setup**: options of the server, `SwitchContext`'s constructor, SETUP | access codes, serving mode | options merged with the configuration file, SETUP by an admin, the code check of REG | `main`, `CommandHandler` |
| **Client library**: `SwitchClient`, `SCPeer`, `SCContext`, `SCCommandHandler` (`src/src/libswitch_client`) | id, token, role, registered flag, copies of its filters | connect, reconnect, register on connect, send commands, handle results, serve requests | the application, the event loop |
| **Client console** (`sc_console.cpp`) | the filters in `SCContext`, which it writes itself | `ss_fwd` ... `ss_unreject`, `ss_svc`, `ss_register`, printing | a user |
| Command bodies (JSON/PB), server console, `main`, utilities | none that outlives a call | conversion, printing | the above |
| Event loop and TCP | external library | callbacks, `Send`, `Disconnect`, `SetID` | everything |

**Interaction.** A client's bytes reach `SwitchServer::OnMessageRecvd`, which
calls `CommandHandler::handleCommand`. REG goes to `SwitchService`, which
writes all maps of `SwitchContext` and the id on the connection. Every other
command first finds its sender in `endpoints` under `conn->ID()`, and then reads
or writes the filters of that `Endpoint`, or picks recipients from the maps and
writes to their connections. An `Endpoint` holds a plain pointer to its
`TcpConnection`, and *its id is the id of that connection*
(`Endpoint::Id()`), not a field of its own. `OnConnectionClosed` removes the
endpoint of `conn->ID()`.

**What is hard.** The server is one thread, so a callback is atomic; the
trouble is in the order of callbacks and in state that is kept twice:

* the id is on the connection *and* is the key of three maps; the two part
  company after a takeover or a second registration;
* the connection pointer in an `Endpoint` outlives the connection unless the
  close callback finds the endpoint;
* `Disconnect` only asks; the close callback runs later, with everything else
  possible in between;
* the maps by role, by service type and by subscribed message are redundant
  indexes kept by hand through role switches, type switches and removals;
* `message_subscribers` and empty sets of `service_endpoints` outlive their
  endpoints;
* the meaning of a PUBLISH_2 without targets depends on whether *anybody*
  subscribes to *anything*;
* the length of a message is converted in place, once per read and once per
  relay, in 16 bits, and nothing else separates one message from the next;
* a response is built in the buffer of its request by one path and from nothing
  by another, and the reader has one rule for where its payload begins;
* codes change while clients register with them; SETUP stores in two stages;
* a call passes two connections twice, and is found again by an id that may be
  held by another connection by then; nothing is sent again, nothing times out;
* the client keeps copies of what the server knows of it (id, role, filters),
  written before it is sent and never reset by the end of a connection.

What makes each part correct: for the registry, that a command is handled for
the client that sent it, that an id has one holder, that the indexes agree with
`endpoints`, that a close takes its own endpoint away and no other, and that
nothing is written through a dead connection. For routing, that a message
reaches everybody it should and nobody it should not. For the wire, that reader
and writer agree where a message ends and where its payload begins. For the
setup, that a role is held only by who has shown its code, and that an answer
says what was done. For the client, that it ends up registered, that what it
shows of itself is so, and that its calls come back to it, once.

## 2. Plan

In the order of importance:

1. `EndpointRegistry` and the abstract `Directory` it implements - **done**,
   with proofs in `EndpointRegistryProofs` and `RegistryDirectoryProofs`.
2. `MessageRouting`, which extends the registry - **done**, with proofs in
   `MessageRoutingProofs`.
3. `SwitchClient`: connection and registration state of the library, composed
   with the registry through two queues - **done**, with
   proofs in `SwitchClientProofs`.
4. `MessageFraming`: lengths, payloads and results as both ends compute them,
   on streams through the server - **done**, with proofs in
   `MessageFramingProofs`.
5. `ServingSetup`: options, SETUP and the codes of REG - **done**, with proofs in
   `ServingSetupProofs`.
6. `ClientTraffic`: service calls and filter commands of the library, composing
   `SwitchClient` and `MessageRouting` - **done**, with proofs in
   `ClientTrafficProofs` and `ClientCallsProofs`.

Left beyond the proofs named: PUBLISH of the library composed with routing (its
sizes are in `MessageFraming`, its recipients in `MessageRouting`), and an
application that does not wait for answers to its own REG, of which section 3
says what happens.

Abstract specifications: `Directory`, which the registry implements; the
registry and the routing of clients that keep one id each, which the client
library implements (`ClientsAreTame`, `ClientsRoute`). A mailing specification
of routing (who must and who must not get a message) has `BroadcastExact`,
`SubscriptionReaches`, `WhiteListRespected` and `TypedServerFound` as its parts.

## 3. Modules

| module | what it is |
|---|---|
| `EndpointRegistry` | the registry, one action per callback or command |
| `Directory` | what the registry promises: an id belongs to the connection that claimed it until that connection leaves |
| `MCEndpointRegistry` | symmetry for TLC |
| `MessageRouting` | extends `EndpointRegistry` with filters, subscriptions and message forwarding |
| `MCMessageRouting` | symmetry for TLC |
| `SwitchClient` | clients of the library composed with `EndpointRegistry`, commands and results in flight |
| `RegistrationHistory` | `SwitchClient` with a history variable: on which connections a REG is unanswered |
| `MCSwitchClient` | what the application of each client does in the runs |
| `ClientTraffic` | composes `SwitchClient` and `MessageRouting`: calls to services and filter commands of library clients |
| `MCClientTraffic` | who calls, who serves and who filters what in the runs |
| `MessageFraming` | messages as sizes and 16-bit lengths on streams |
| `MCMessageFraming` | symmetry for TLC |
| `ServingSetup` | extends the registry with access codes, the serving mode and SETUP |
| `MCServingSetup` | the default codes and the modes that are named in the run |
| `EndpointRegistryProofs` | type correctness, acting, pending list and service index, for all clients |
| `RegistryDirectoryProofs` | the results without takeover, and the refinement of `Directory` |
| `MessageRoutingProofs` | `RoutingSpec` implements the registry; whom messages reach |
| `MessageFramingProofs` | streams stay in step; which payloads and results are read where they were put |
| `SwitchClientProofs` | clients of the library are a registry; with one id each, and a right context, if applications name no ids |
| `ClientTrafficProofs` | calls and filter commands are steps of `MessageRouting`, of one id each; what the server filters is shown |
| `ClientCallsProofs` | a call is one message at a time, and its answer goes to the connection it was made on |
| `ServingSetupProofs` | `SetupSpec` implements the registry; roles are earned, answers tell |

### EndpointRegistry

Variables and code: `endpoints`, `normal_endpoints`, `admin_endpoints`,
`pending_clients` are the maps of `SwitchContext`. `service_endpoints` is split
in two: the set under a type and `service_keys`, the types that have an entry,
because an entry with an empty set differs from no entry. `ep` holds the fields
of each `Endpoint` object by address; an object lives while a map refers to it
(`shared_ptr`), which is `Held` and `Collect`. `status` and `connId` are the
state and the id of each `TcpConnection`; `told` remembers the id in the last
successful answer to REG, which is what the client believes it is.

Actions: `OnConnectionReady`, `OnConnectionClosed` (with `RemoveEndpoint`),
`Register` (`RegisterNew` and `RegisterExisting`, with `MoveIndex` and
`MoveService` for the switches), `Kickout`. A handler that only answers with an
error changes no state: it is the negation of a guard. An access code and a
token are booleans: whether the code is that of the role, and whether the token
is the current one of the endpoint (the code makes a new one on each takeover,
so knowing an old one is `FALSE`). The id 0 of a REG becomes any id not in use.

*Dead connections.* `Endpoint::Connection()` may point to a connection that has
been deleted. What the code then reads (its fd, its id) is undefined; `SameFD`
and `EndpointIdOf` return every value in that case. The address of a closed
connection may be reused by a new one, and then an old pointer points to the
new connection: `OnConnectionReady` allows it for any closed connection.

*Disconnect.* The Eventloop library is not in the repository. `Disconnect` is
taken to stop reading and to run the close callback from the loop, later: the
code relies on it (`register_endpoint` and `kickout_endpoint` go on using the
endpoint after the call, and the comment at `switch_service.cpp:512` leaves the
clearing to `OnConnectionClosed`). `status = "closing"` is that interval.

*Clients.* The server accepts any order of commands. Three disciplines are
distinguished by two constants, because the code keeps different promises to
each:

| `OneIdPerConnection` | `MayTakeOver` | clients |
|---|---|---|
| FALSE | TRUE | anything |
| FALSE | FALSE | may register several ids on a connection, never present a token from another connection |
| TRUE | FALSE | what the client library does by itself: `RegisterSelf`, and `Register` for which no id is given, ask for the id they were told, without token |

### MessageRouting

`filters` are the five sets of an `Endpoint`, `message_subscribers` the map of
`SwitchContext` (it has a key exactly for non-empty sets: SUB makes the key, the
last UNSUB erases it), `sent` the last message forwarded and the set of
`Endpoint`s it was written to. `RegistryStep` is any step of the registry, which
loses the filters of objects that die with it; nothing removes an id from
`message_subscribers`. The filter commands are one action each; `PublishData`,
`PublishDataToTargets`, `ServiceRequest`, `ServiceResponse` choose recipients as
the handlers do. A service request takes *any* service that accepts it: the code
takes the first in the order of addresses. A message that reaches nobody, or is
answered with an error, is a step with `to = {}`. Ids named twice in a PUBLISH_2
are sent to twice by the code; the set of recipients does not tell.

`Commands`, `AskedRoles`, `FwdIds`, `SrcIds`, `MsgTypes` bound what clients send
in a run; they bound nothing in the server.

### SwitchClient

`peer` is the connection an `SCPeer` has, `context` the registration part of
each `SCContext`, `to_server` and `to_client` what is in flight on a connection.
A step is one callback or call, of one side:

* `Connect`: `Reconnect` and the `RegisterSelf` of its callback, which asks for the
  id, role and service type in the context;
* `ConnectionLost` and `ServerClosed`: either side sees the connection end, on
  its own and in any order. What the client had sent may still be read, what
  was sent to it is lost; the server drops what it has not read;
* `RegisterAs`, `AppKickout`: calls of the application. The context takes over
  the role and the type at once, as the code does, connected or not;
* `HandleCommand`: the server reads a command. Its effect is the registry's own
  action (`Register`, `Kickout`), and the errors, which are no steps of the
  registry, are answers here (`Refused`). A connection that is kicked out is
  told so first;
* `HandleCommandResult`: the client takes the result over.

`AppRegister` names an id, one of `NamedIds`, or none: `ss_register --id` may
name any, and defaults to the `endpoint_id` of the options, which `RegisterSelf`
does not send (nothing else reads that option). An id that is named and differs
from the one told makes a second id on the connection. What is said of clients
that keep one id is therefore said under `NoneNamed`, the assumption that
applications name none; it is a hypothesis of `TameCorrect` and
`ClientViewCorrect`, and the run `client_system` satisfies it. The run
`client_names` is about applications that do name ids.

In all runs the application waits for an answer before it sends the next command
(`MaxUnanswered = 1`), which the code does not enforce: with a second REG sent
before the first is answered both ask for a new id, and a connection with two
ids is the result, as above. `is_registered` and `register_errmsg` stay as an
earlier connection left them; the status that a client prints while it is not
connected may be wrong for that reason, and `ClientViewRight` does not speak of it.

`RegistrationHistory` adds `unanswered`: a REG was sent on the connection that the
client has now and its answer has not been read. Since the context keeps no
trace of that, `RegistrationSettles` is stated of this variable.

### ClientTraffic

Adds to `SwitchClient` and `MessageRouting` the five sets of each `SCContext`
(`copies`) and, for the properties only, what has become of each call (`calls`).
The server's half of a step is the action of `MessageRouting` itself
(`ServiceRequest`, `ServiceResponse`, `Subscribe`, ...), guarded by the head of a
queue; the queues after it follow from `sent'`.

* `RequestService`, `ServerServes`, `ClientServes`, `ServerAnswers`,
  `ClientReadsAnswer`: the five stages of a call. A request names its caller by
  the id in its context, 0 before it has one (`anonymous`: such a call can be
  refused, but its answer is dropped). A service answers in the message it got,
  with any result code; a failing one never reaches `HandleServiceResult`, the
  client prints the error, which is `refused` here;
* `ConsoleFilter`, `ServerFilters`: the console writes its copy and posts the
  command, connected or not; the server takes it in or refuses it. The console
  turns away a command that names nothing (`TrafficAssumption`);
* the steps of `SwitchClient`, with what they do to filters and calls: `Break`
  marks a call that has lost the connection of its caller or of its service.

REG of the application and KICKOUT stay with `SwitchClient`'s own run; the
runs here leave them out, so that connections end by being lost on either side.

### MessageFraming

A message is a record of the sizes of its parts and its length as two bytes on
the wire; `up` and `down` are the messages on each stream. `ToWire`, `FromWire`,
`Skipped`, `PayloadLen`, `ContentSize` are `ConvertToNetworkMessage`,
`FromNetworkMessage`, `Payload`, `PayloadLen`, `GetResultMessage`, in 16 bits.
A reader takes as many bytes as the length says: `Understood` compares that with
the bytes that are there. If they differ the stream is `lost`, and what comes on
it is dropped, because nothing can be said of what is read then; `overlong`
remembers the streams on which a message was put that is too long for 16 bits.
Results, relays and refusals are built as each handler builds them: a relayed
message in the buffer it came in (`Relay`), a refusal or service answer likewise
(`ServiceResult`), all other results from nothing (`ResultMessage`).

`Payload()` of a PUBLISH_2 is written to skip the ids of the targets, but
multiplies their number by `sizeof` of `targets`, an array declared with no
elements, which is 0 (and reads that number through a pointer it has already
advanced). So the ids stay in front of the payload (`Skipped`), though no
handler looks for them there: both read them from the header's `targets`. See
the findings in section 4.

### ServingSetup

`codes` and `serving_mode` are fields of `SwitchContext`; `earned` (the roles
that the code last shown for an id was for) and `answer` (to the last SETUP) are
for the properties. `SetupInit` merges command line and file as `Options` does
and leaves an ungiven mode to chance, since the constructor does not initialise
it. `RegisterWith` is the registry's `Register` with the code compared to the one
in force. `Setup` has the code's order: authorise, store codes, look at the mode.
There the registry's `code` is an input; here it is computed.

## 4. Runs

| run | instance | checks |
|---|---|---|
| `registry_general` | 2 connections, 2 ids, 3 objects, 2 service types, any client | `TypeOK`, `OwnLookup`, `OneHolder`, `ServiceIndexExact`, `PendingExact` |
| `routing_general` | 2 connections, 2 ids, 3 objects, 2 message types, any client | `SubscribersComplete`, `SubscriptionReaches`, `WhiteListRespected` |
| `routing_broadcast` | 2 connections, 2 ids, roles Normal and Admin, all filters by source | `RoutingTypeOK`, `BroadcastExact` |
| `routing_services` | 3 connections, 3 ids, 2 service types, rejected service commands | `TypedServerFound`, `RecipientsAlive`, `CountsAddUp` |
| `client_system` | 2 clients, 2 connections, 2 ids, 2 objects, roles Normal and Admin, with fairness | of the registry: `NoDangling`, `ToldIsActing`, `IdsCarried`, `ImplementsDirectory`, `KickedOutIsForgotten`; of the clients: `ClientTypeOK`, `ClientViewRight`, `ClientsAreTame`, `RegistrationSettles`, `FormerForgotten` |
| `client_names` | the same with an application that names any id, without fairness | `RoleIndexExact`, `CloseRemovesOwn`, `ShownIsRegistered` |
| `client_calls` | 2 clients, one of them a service, 2 connections, 2 ids, 1 call, with fairness | `TrafficTypeOK`, `OneMessagePerCall`, `AnswersReachCaller`, `CallsEnd`, `ClientsRoute` |
| `client_filters` | 1 client, 2 connections, all six filter commands | `FiltersShown` |
| `framing_sizes` | 3 clients, one of them not registered, sizes 0, 65521, 65522, 65533, 0 or 1 targets, 2 messages on the way | `FramingTypeOK`, `LostOnlyOverlong`, `RequestPayloadRight`, `ResultRead` |
| `serving_setup` | 3 connections, 1 id, 1 object, 2 codes, 2 right modes and a wrong one, with takeovers | `SetupTypeOK`, `RoleEarned`, `SetupOutcome` |
| `takeover_unacted` | 2 connections, 2 ids, 2 objects, with takeovers | `ToldIsActing` is violated |
| `published_ids` | the instance of `framing_sizes` | `PublishedDataRight` is violated |

*Bounds.* Two connections are enough for a takeover and for reuse of a
connection object; a third, in `routing_services` and `serving_setup`, lets an
outsider interfere. The properties of the registry in `client_system` and
`client_names` have also been run on the registry alone with 3 connections and
the disciplines of section 3 as assumptions. Two ids are enough for a connection
to hold a second one and for two holders to be confused. Three objects in the
general run leave one for an object that only a stale role map still holds. In
`client_system` two connections let a client come back while the server still
holds the one it lost, and two clients let one kick the other out; one of them
registers and kicks out by its own application, the other only by
`RegisterSelf`, and the configured access code is not that of an admin, so that
a reconnection may be refused. Two service types (one of them 0) are enough for
a type switch and for the fallback. Nothing in these modules counts, so no
counter is bounded.

In `framing_sizes` the sizes are those at which a header, an id, a result code or
the two bytes of the length itself cross 65536: 65533 fits by itself and not in
an answer, 65522 fits in a service request and not in its answer, 65521 and a
PUBLISH_2 of one target likewise. `MaxInFlight` is what applications may have on
the way; two suffice for one message to follow another. In `serving_setup` one
id is enough because a code is compared per REG and a role earned per id; three
connections let an admin change codes between a registration and a takeover of
it. The instance with 2 connections, 2 ids and 2 objects has also been run (1.1
million states). In `client_calls` one session is enough since calls do not meet
(their ids differ); two connections let a party come back while the server still
has the one it lost, and a caller be answered on a later connection. An instance
with 3 connections has also been run, for its invariants. `client_filters` needs
one client, since a copy is compared with its own filters only.

In `client_names` one client names ids: its REGs may go to a second id and back, on
one connection or over two, and the other client may be refused for it.

Symmetry is used in safety runs, of ids only where the constants name all or none;
the runs with liveness have none.

*Fairness.* No client is assumed to send anything, ever. `ClientFairness` says that
a connection that was disconnected gets its close callback, since the event
loop runs until it has no such work left (`KickedOutIsForgotten` rests on this
part only); that both loops read what has arrived; and that TCP tells an end in
time that the other has gone (an orderly close; after a crash of the machine the
code has heartbeats, which only the console enables and the Eventloop library
runs). Nobody is assumed to reconnect: the library never does so by itself
(`SetAutoReconnect(false)`).
`TrafficFairness` is the same for `ClientTraffic`: what has arrived is read, and
a service answers in the callback that read the request. Nobody is assumed to
call or to filter.

*What `client_system` shows.* Its applications name no ids (`NoneNamed`), wait for
answers and present no tokens. `ClientsAreTame` refines the registry with
`OneIdPerConnection`: such an application keeps the discipline that the theorems of
`RegistryDirectoryProofs` assume, through lost answers, refusals, role switches
and reconnections. It is the fallback to the id in the context that does it
(`AskedId`). The properties of the registry in this run (`NoDangling` to
`KickedOutIsForgotten`) are those of such clients, so that the run shows them
where the library itself produces the discipline, commands on the way included,
and not where it is assumed. `ClientViewRight` is
about what `ss_status` prints once no answer is outstanding and the last one was a
success. `FormerForgotten` and `RegistrationSettles` are all that can be promised
after a reconnection: every REG, also that of a client which has been registered
before and comes back, ends in an answer that the client reads, or with its
connection; the REG of a client that comes back too early is refused, the id is
freed later, and nothing in the library asks again.

*What `client_names` shows.* With named ids, a connection may have registered two,
and may carry another than the one its client shows. What holds even then, if no
token is presented: the role maps are exact (`RoleIndexExact`), a close removes no
endpoint of another connection (`CloseRemovesOwn`; it may leave one of its own
behind), and the id shown is the one answered last on this connection and is in
use, and its endpoint has the role and type that are shown (`ShownIsRegistered`).
"Unless its `Endpoint` sends elsewhere" in the last covers an id left behind by a
connection that ended with two: its pointer may be taken for the connection that
asks now, or another.

*What `framing_sizes` shows.* `LostOnlyOverlong` has no exceptions. Of the payloads,
`RequestPayloadRight` says that a request without targets is given to its reader as
the sender's data, and that the payload of any request ends where the message
ends; of the results, `ResultRead` says that every response but one is read where
it was written (`CodeFound`), and that of the other one (`RefusedUnknown`) nothing
outside the message is read. Both exceptions are misread by the code: the first is
what `published_ids` is about, the second is in the list below.

*What the client runs on traffic show.* `OneMessagePerCall` follows a call as
one message through both connections: it is neither doubled nor, while both
last, dropped. `AnswersReachCaller` says that the id in a request is as good as
the connection it came on, which is not obvious: the id is the one told on an
earlier connection, and the server looks it up when the *answer* comes. It holds
because a connection has one id. `CallsEnd` is the weak promise the code makes: a
caller whose service has gone is not told. `FiltersShown` is an inclusion, and
the converse fails: the copies outlive the connection while the server's filters
die with the endpoint, and nothing sends them again.

*Findings.* Two runs show the code to do what a comment, an error text or the code's
own intent excludes; `PROJECT.json` quotes the lines.

* `takeover_unacted`: a takeover by token moves the endpoint but not the id. The new
  connection is answered success and then not recognised
  (`switch_service.cpp:90`).
* `published_ids`: the data of a PUBLISH_2 with targets is given to applications with
  the ids in front (`switch_message.cpp:82`).

More disagreements have come up while modelling. They have no run of their own,
and the properties that are checked stop short of them, by a constant
(`~MayTakeOver`, `OneIdPerConnection`, `NoNames`) or by their statement:

* when the older connection of a takeover closes, it still carries the id, and
  the close callback removes the endpoint, which is the newer connection's by
  then (`switch_server.cpp:90`; `CloseRemovesOwn` is checked with `~MayTakeOver`);
* if the newer connection of a takeover had registered an id of its own, the close
  of the older one reads the id through the endpoint (`Endpoint::Id()`) and takes
  the wrong key out of the map of admins (`switch_context.cpp:51`; hence
  `~MayTakeOver` for `RoleIndexExact`, and `SetupOutcome` speaks of `earned`);
* a second id on one connection overwrites the first, whose endpoint stays behind
  with a dangling pointer when the connection closes (`switch_service.cpp:81`;
  `NoDangling` is about clients of one id);
* a client that registers a second id and then the first again is answered the
  first and handled as the second: what `ss_info --endpoint` takes for "self"
  (`sc_console.cpp:363`) is then not who the server takes the client for (hence
  `NoneNamed` for `ClientViewRight`);
* the entry of a service type stays, empty, after its last service has left, and
  hides the services that serve all types (`switch_command_handler.cpp:391`,
  `:401`, `switch_context.cpp:57`; `TypedServerFound` is about services "of its type");
* the refusal of a SVC of a client that is not registered has no `ServiceMessage`,
  but the client skips one, and reads code and text from within the text
  (`switch_command_handler.cpp:68`; `~RefusedUnknown` in `ResultRead`);
* the fallback of an untargeted PUBLISH_2 to a broadcast does not look at the
  list of rejected message types (`switch_command_handler.cpp:362`; hence
  `WhiteListRespected` is about the other list).

What is tolerated, because the code means it or nothing in it says otherwise:
`SetupOutcome` has the partial effect of a SETUP whose mode is invalid (codes
stored, error answered) as one of its outcomes; `RoleEarned` lets a role be held on
after its code was replaced.

## 5. Proofs

All theorems are for arbitrary sets of connections, ids, objects and types,
under `RegistryAssumption` (the markers for "none" differ from real values).

* `TypeCorrect`: `TypeOK` is inductive. Its last conjunct (an object in a map
  has its role and connection set) is what makes `ep[o].conn` meaningful later.
* `OwnLookupCorrect` and `OneHolderCorrect`, for any client, together (lemma
  `ActingCorrect`). `OwnLookup` alone
  is not inductive: a close of a connection that shares an id would take the
  endpoint away, so the proof carries that an id has one holder and an object
  one key.
* `PendingCorrect`: `PendingExact`, from `PendingInv`, for any client: an
  address that is used again must start as a connection that was answered
  nothing, so the proof carries that a closed one has been told no id.
* `ServiceIndexCorrect`: `ServiceIndexExact` for any client. It needs
  `OneHolder`, because removal takes the *object* out of a set and `endpoints`
  loses the *key*.
* With `~MayTakeOver`, `ServesCorrect`: the endpoint of the id a connection
  carries sends to that connection, also while it is closing. From it follow
  `CloseRemovesOwnCorrect` (a close removes only its own endpoint) and
  `RoleIndexCorrect` (the id read through the connection is the key).
* With `OneIdPerConnection` as well, `OneIdCorrect` adds that the connection of
  a registered endpoint carries its id, and that what the client was told is
  that id: `NoDanglingCorrect`, `ToldIsActingCorrect`, `IdsCarriedCorrect` and
  `DirectoryImplemented` (initial states and each action against the
  `Directory` with the mapping `Roster`) follow.

`MessageRoutingProofs` carries these over to the traffic:

* `RoutingIsRegistry`: a filter command or a message changes no map of the
  registry, so `RoutingSpec => Spec` and every theorem above holds of the whole
  node. `RoutingTypeCorrect` adds the types of the filters and messages.
* `SubscribersCorrect`, for any client. `SubscribersComplete` is not inductive:
  a new `Endpoint` must start without subscriptions, so the proof carries
  `FreshFilters` (an object no map refers to has empty filters), and it uses
  `OneHolder`, because SUB and UNSUB write the index under the id of the
  connection and the filters into the object found under it.
* `WhiteListCorrect`, for any client: of the untargeted messages with a type none
  goes to an endpoint whose white list leaves the type out, by a stale entry of
  the index or by the fallback; for the fallback it needs `SubscribersComplete`
  (with no subscriber in the index nobody registered has a white list).
* `SubscriptionReachesCorrect`, for any client, from the index: `LiveDiffers` shows
  that comparing the ids of two live connections is comparing the connections.
* For clients with one id each and no takeovers, `RecipientsAliveCorrect` (every
  recipient a handler picks is registered, so its connection exists),
  `TypedServerCorrect` (from the exact service index) and
  `BroadcastExactCorrect` (from the exact role index). `OrderlyInv` collects what
  they need of the registry.
* For those clients `CountsCorrect`, for any finite number of ids: the ids of the
  services, which INFO reads through their connections, are the ids they are
  registered under, each once, and no other role has them.

`MessageFramingProofs`, for all clients and sizes, with one invariant: every
message on a stream that is in step and was not spoiled is well formed (its
length is the one `Written` gives, its parts are those of its command). Under
it, `FramingTypeCorrect`, `LostOnlyOverlongCorrect`, `RequestPayloadCorrect` and
`ResultReadCorrect` are arithmetic: that `FromWire(ToWire(n)) = n` for all `n`
below 65534 is a lemma, and the rest is that each handler preserves the form. The
last two have the exceptions that their properties state (section 4).

`ServingSetupProofs`: `SetupIsRegistry` (so that what is proved for any client of
the registry holds here), `SetupTypeCorrect`, `RoleEarnedCorrect`, which needs
`OneHolder` because a role is in the object and the earning is under the key, and
`SetupOutcomeCorrect`, for any client: codes change only while somebody is
registered who has shown the admin code. It follows from `RoleEarned` and not
from the map of admins, which may lack an admin who acts (section 4).

`SwitchClientProofs`, for any number of clients:

* `ClientTypeCorrect` and `ClientsAreRegistry`: a command in a queue is a
  request the registry may get, and every step of client, server or connection is
  a step of the registry or leaves it alone. So what is proved of the registry for
  any client holds here, however many commands are on the way.
* `TameCorrect`, with `MaxUnanswered = 1` and `NoneNamed`: `ClientsAreTame`.
  That a client asks for the id it was told on its connection is not inductive.
  `TameInv` adds that a connection whose client was told an id has the success
  on the way that tells it (`ResultsCurrent`) or a context that has it
  (`ContextCurrent`), and while a result is on the way an application that waits
  sends nothing, so that the next REG is made from the context, and from nothing
  else as no id is named.
* `ClientViewCorrect`, with `~MayTakeOver` as well: `ClientViewRight`. The context
  takes over role and type when it *asks*, the endpoint has them when the server
  has *handled* the REG, so `ViewInv` follows a REG on its way: a REG on the way
  asks for what the context shows, a success on the way confirms it (and reports
  the role of the context or none), and with neither on the way the context is
  that of the endpoint, unless the last REG failed. Steps of others leave the
  endpoint alone because an id has one holder and connections carry the ids they
  were told (`OneId`, which follows for these clients from `TameInv` as it does
  for the registry of one id, by `OneIdStep`).

`ClientTrafficProofs`, for any number of clients, calls and commands on the way,
under `Covered`: what the clients ask for is among what the node of
`MessageRouting` is asked for.

* `TrafficIsRouting`: `QueueInv` types what is on the way (a REG is one of the
  library's, other commands are the console's or service messages), so that the
  head of a queue is an input that the node may get, and `TrafficSpec =>
  RoutingSpec`. Every theorem on the node for any client holds here. A REG that
  changes nothing forgets no filters because `FreshFilters` holds.
* `ClientsRouteCorrect`: `ClientsRoute`. `RegFirst` says that a REG on the way is
  the first command of its connection and that the connection has been told no
  id yet, so no client asks for a second one.
* `TrafficTypeCorrect`: `TrafficTypeOK`.
* `FiltersShownCorrect`, with `~MayTakeOver`: `FiltersShown`. It is not inductive,
  since commands are under way between the copy and the filters. `ShownInv` says
  what a copy may lack: something that a command on the way takes back, with no
  later command on the way that adds it again. It uses that a command names
  things only in the lists it is about (`TrafficAssumption`: the client's copy and
  the server would part otherwise), that an endpoint is a new one when a client
  registers first (`FirstIsNew`, from `OneId`), and that two connections act for
  different endpoints.

`ClientCallsProofs`, under `Covered` and `~MayTakeOver` (a client of the library
presents no token, so the second costs no behaviour here):

* `OneMessagePerCallCorrect` and `AnswersReachCallerCorrect`, from `CallInv`, which
  says for each call where its one message is. `OnePlace`: over all queues there
  is at most one message of a call.
  `Routed`: a request is on the connection of the caller or of the service and
  an answer the other way about, and one that the server has passed on names the
  id that the caller's connection was told, while the service's connection has
  been told its own. `Waits`: the message of a call that waits names its caller,
  and neither end has been left. `Nowhere`: a call that was not made yet, or
  was answered or refused, has no message on the way.
* Both need `IdInv`: an id in a request, a result or a context is the one its
  connection was told, or will be told by the REG that is first in its queue
  (`RegFirst`). So a client that comes back does not answer or ask under an id
  that another connection carries. With `OneId` and `OneHolder` the server then
  finds under the id in an answer the connection the request came from, and
  with `ServiceIndexExact` it passes a request to a connection that exists.

Only model-checked: liveness (`KickedOutIsForgotten`, `RegistrationSettles`,
`FormerForgotten`, `CallsEnd`), which is out of reach of the prover, and
`ShownIsRegistered`, which is about clients that break the discipline the proofs on
clients rest on.

## 6. Not modelled

* The conversion of command bodies (JSON), formatting, logging, statistics in
  bytes, uptime: no property is about them. The protobuf functions are stubs.
* ECHO and EP_INFO only report; PROXY and RELOAD do nothing in the code.
* The server console, `main`, and of the client console everything that only
  parses and prints. Two things in it are worth knowing: it reads the option
  `--acccess_code` of `ss_setup` under another name than it is declared under
  (`sc_console.cpp:728`), so that a new admin code cannot be set from it; and the
  callback of `ss_publish --file` captures variables of the caller by reference
  and runs after the caller has returned (`sc_console.cpp:609`).
* The exhaustion of the 65535 ids that `allocate_endpoint_id` draws from.
  `IdsCarried` says that no id is kept in use by nobody, for clients with one.
* The code of services cannot be changed at run time: SETUP has no field for it.
* Heartbeats: the Eventloop library sends and answers them.
* Utilities (md5, random, crypto, time): no state. Tokens and session ids are
  taken to be fresh.
