--------------------------- MODULE ClientCallsProofs ---------------------------
(***************************************************************************)
(* Theorems about the calls of library clients, for any number of clients, *)
(* of services and of calls under way: a call is one message at a time,    *)
(* and its answer goes to the connection it was made on.                   *)
(***************************************************************************)
EXTENDS ClientTrafficProofs

(* The messages of session s in a queue, and that there is one at most.    *)
OfSession(x, s) == OfService(x) /\ x.sess_id = s

Of(q, s) == {x \in Elems(q) : OfSession(x, s)}

Once(q, s) ==
    \A m, n \in DOMAIN q : OfSession(q[m], s) /\ OfSession(q[n], s) => m = n

LEMMA OfEmpty == ASSUME NEW s PROVE Of(<<>>, s) = {} /\ Once(<<>>, s)
BY NoElems DEF Of, Once

LEMMA OfTail ==
    ASSUME NEW T, NEW q \in Seq(T), q # <<>>, NEW s
    PROVE  /\ ~OfSession(Head(q), s) => Of(Tail(q), s) = Of(q, s)
           /\ OfSession(Head(q), s) => Head(q) \in Of(q, s)
           /\ Once(q, s) => Once(Tail(q), s)
           /\ Once(q, s) /\ OfSession(Head(q), s) => Of(Tail(q), s) = {}
<1> DEFINE r == Tail(q)
<1>1. /\ DOMAIN r \subseteq Nat \ {0} /\ 1 \in DOMAIN q /\ Head(q) = q[1]
      /\ \A n \in DOMAIN r : n + 1 \in DOMAIN q /\ r[n] = q[n + 1]
  OBVIOUS
<1>2. Elems(q) = Elems(r) \cup {Head(q)}
  BY ElemsTail
<1>3. ASSUME Once(q, s) PROVE Once(r, s)
  <2>1. ASSUME NEW m \in DOMAIN r, NEW n \in DOMAIN r, OfSession(r[m], s), OfSession(r[n], s)
        PROVE  m = n
    <3>1. m + 1 = n + 1
      BY <1>1, <1>3, <2>1 DEF Once
    <3> QED BY <1>1, <3>1
  <2> QED BY <2>1 DEF Once
<1>4. ASSUME Once(q, s), OfSession(Head(q), s), NEW n \in DOMAIN r PROVE ~OfSession(r[n], s)
  <2>1. n + 1 \in DOMAIN q /\ r[n] = q[n + 1] /\ n + 1 # 1
    BY <1>1
  <2> QED BY <1>1, <1>4, <2>1 DEF Once
<1>5. Once(q, s) /\ OfSession(Head(q), s) => Of(r, s) = {}
  BY <1>4 DEF Of, Elems
<1>6. ~OfSession(Head(q), s) => Of(r, s) = Of(q, s)
  BY <1>2 DEF Of
<1>7. OfSession(Head(q), s) => Head(q) \in Of(q, s)
  BY <1>2 DEF Of
<1> QED BY <1>3, <1>5, <1>6, <1>7

LEMMA OfConcat ==
    ASSUME NEW T, NEW q \in Seq(T), NEW r \in Seq(T), NEW s,
           \A x \in Elems(r) : ~OfSession(x, s)
    PROVE  Of(q \o r, s) = Of(q, s) /\ (Once(q, s) => Once(q \o r, s))
<1>1. Elems(q \o r) = Elems(q) \cup Elems(r)
  BY ElemsConcat
<1>2. ASSUME NEW n \in DOMAIN (q \o r), OfSession((q \o r)[n], s)
      PROVE  n \in DOMAIN q /\ (q \o r)[n] = q[n]
  <2>1. n \in 1 .. Len(q) + Len(r)
    OBVIOUS
  <2>2. CASE n > Len(q)
    <3>1. (q \o r)[n] = r[n - Len(q)] /\ n - Len(q) \in DOMAIN r
      BY <2>1, <2>2
    <3> QED BY <1>2, <3>1 DEF Elems
  <2>3. CASE n <= Len(q)
    BY <2>1, <2>3
  <2> QED BY <2>1, <2>2, <2>3
<1>3. Of(q \o r, s) = Of(q, s)
  BY <1>1 DEF Of
<1> QED BY <1>2, <1>3 DEF Once

LEMMA ElemsAppend ==
    ASSUME NEW T, NEW q \in Seq(T), NEW e \in T
    PROVE  Elems(Append(q, e)) = Elems(q) \cup {e}
<1> DEFINE r == Append(q, e)
<1>1. /\ Len(q) \in Nat /\ DOMAIN q = 1 .. Len(q) /\ DOMAIN r = 1 .. Len(q) + 1
      /\ r[Len(q) + 1] = e /\ \A n \in DOMAIN q : r[n] = q[n]
  OBVIOUS
<1> HIDE DEF r
<1>2. \A n \in DOMAIN r : r[n] \in Elems(q) \cup {e}
  <2> SUFFICES ASSUME NEW n \in DOMAIN r PROVE r[n] \in Elems(q) \cup {e}
    OBVIOUS
  <2>1. n = Len(q) + 1 \/ n \in DOMAIN q
    BY <1>1
  <2> QED BY <1>1, <2>1 DEF Elems
<1>3. Len(q) + 1 \in DOMAIN r /\ \A n \in DOMAIN q : n \in DOMAIN r
  BY <1>1
<1>4. e \in Elems(r) /\ Elems(q) \subseteq Elems(r)
  BY <1>1, <1>3 DEF Elems
<1>5. Elems(r) \subseteq Elems(q) \cup {e}
  BY <1>2 DEF Elems
<1>6. Elems(r) = Elems(q) \cup {e}
  BY <1>4, <1>5
<1> QED BY <1>6 DEF r

LEMMA OfAppend ==
    ASSUME NEW T, NEW q \in Seq(T), NEW e \in T, NEW s
    PROVE  /\ ~OfSession(e, s) => Of(Append(q, e), s) = Of(q, s)
                                  /\ (Once(q, s) => Once(Append(q, e), s))
           /\ OfSession(e, s) /\ Of(q, s) = {} =>
                Of(Append(q, e), s) = {e} /\ Once(Append(q, e), s)
<1> DEFINE r == Append(q, e)
<1>1. /\ Len(q) \in Nat /\ DOMAIN q = 1 .. Len(q) /\ DOMAIN r = 1 .. Len(q) + 1
      /\ r[Len(q) + 1] = e /\ \A n \in DOMAIN q : r[n] = q[n]
  OBVIOUS
<1> HIDE DEF r
<1>2. Elems(r) = Elems(q) \cup {e}
  BY ElemsAppend DEF r
<1>3. ASSUME ~OfSession(e, s), Once(q, s) PROVE Once(r, s)
  <2>1. ASSUME NEW n \in DOMAIN r, OfSession(r[n], s) PROVE n \in DOMAIN q /\ r[n] = q[n]
    <3>1. n # Len(q) + 1
      BY <1>1, <1>3, <2>1
    <3> QED BY <1>1, <3>1
  <2> QED BY <1>3, <2>1 DEF Once
<1>4. ASSUME Of(q, s) = {} PROVE Once(r, s)
  <2>1. ASSUME NEW n \in DOMAIN r, OfSession(r[n], s) PROVE n = Len(q) + 1
    <3>1. ASSUME n \in DOMAIN q PROVE FALSE
      <4>1. q[n] \in Of(q, s)
        BY <1>1, <2>1, <3>1 DEF Of, Elems
      <4> QED BY <1>4, <4>1
    <3> QED BY <1>1, <3>1
  <2> QED BY <2>1 DEF Once
<1>5. ~OfSession(e, s) => Of(r, s) = Of(q, s)
  BY <1>2 DEF Of
<1>6. OfSession(e, s) /\ Of(q, s) = {} => Of(r, s) = {e}
  BY <1>2 DEF Of
<1> QED BY <1>3, <1>4, <1>5, <1>6 DEF r

-----------------------------------------------------------------------------
(* A session has one message in one place.  The place of a request is the  *)
(* connection of the caller, then that of the service; an answer takes the *)
(* same way back.  What the server has passed on to a service names the id *)
(* that the caller's connection was told, and the service has been told its*)
(* own.                                                                    *)
Nowhere(s) == \A c \in Conns : Of(to_server[c], s) = {} /\ Of(to_client[c], s) = {}

OnePlace(s) ==
    /\ \A c \in Conns : Once(to_server[c], s) /\ Once(to_client[c], s)
    /\ \A c, d \in Conns :
         /\ Of(to_server[c], s) # {} /\ Of(to_server[d], s) # {} => c = d
         /\ Of(to_client[c], s) # {} /\ Of(to_client[d], s) # {} => c = d
         /\ Of(to_server[c], s) = {} \/ Of(to_client[d], s) = {}

Passed(s, c, x) ==
    /\ c = calls[s].via /\ calls[s].from \in Conns
    /\ Online(c) => told[c] # NoId
    /\ x.source # NoId => told[calls[s].from] = x.source

Routed(s) ==
    \A c \in Conns :
        /\ \A x \in Of(to_server[c], s) :
             IF x.cmd = "SVC" THEN c = calls[s].from ELSE Passed(s, c, x)
        /\ \A x \in Of(to_client[c], s) :
             IF x.cmd = "SVC" THEN Passed(s, c, x) ELSE c = calls[s].from

(* The message of a call that waits names its caller, and neither end has  *)
(* been left by its client.                                                *)
Waits(s) ==
    /\ \E c \in Conns : Of(to_server[c], s) # {} \/ Of(to_client[c], s) # {}
    /\ \A c \in Conns : \A x \in Of(to_server[c], s) \cup Of(to_client[c], s) : x.source # NoId
    /\ ~Orphan(calls[s].from)
    /\ calls[s].via # NoConn => ~Orphan(calls[s].via)

CallRight(s) ==
    /\ OnePlace(s)
    /\ calls[s].fate # "caller lost" => Routed(s)
    /\ calls[s].fate = "waiting" => Waits(s)
    /\ calls[s].fate \in {"none", "answered", "refused"} => Nowhere(s)

CallInv == \A s \in Sessions : CallRight(s)

(* The messages of a session after a step: no more than before, in the same*)
(* queues.                                                                 *)
Fewer(s) ==
    \A c \in Conns :
        /\ Of(to_server[c], s)' \subseteq Of(to_server[c], s)
        /\ Of(to_client[c], s)' \subseteq Of(to_client[c], s)
        /\ Once(to_server[c], s) => Once(to_server[c], s)'
        /\ Once(to_client[c], s) => Once(to_client[c], s)'

Same(s) ==
    \A c \in Conns : /\ Of(to_server[c], s)' = Of(to_server[c], s)
                     /\ Of(to_client[c], s)' = Of(to_client[c], s)

LEMMA OnePlaceKept ==
    ASSUME NEW s, OnePlace(s), Fewer(s) PROVE OnePlace(s)'
<1>1. \A c \in Conns : Once(to_server[c], s)' /\ Once(to_client[c], s)'
  BY DEF OnePlace, Fewer
<1>2. ASSUME NEW c \in Conns
      PROVE  /\ Of(to_server[c], s)' # {} => Of(to_server[c], s) # {}
             /\ Of(to_client[c], s)' # {} => Of(to_client[c], s) # {}
  BY DEF Fewer
<1>3. \A c, d \in Conns :
         /\ Of(to_server[c], s)' # {} /\ Of(to_server[d], s)' # {} => c = d
         /\ Of(to_client[c], s)' # {} /\ Of(to_client[d], s)' # {} => c = d
         /\ Of(to_server[c], s)' = {} \/ Of(to_client[d], s)' = {}
  BY <1>2 DEF OnePlace
<1> QED BY <1>1, <1>3 DEF OnePlace

(* A step that leaves the messages of a session where they are, and its    *)
(* call as it is, with no connection told another id or left by its client.*)
LEMMA RoutedKept ==
    ASSUME NEW s, Routed(s), Fewer(s),
           calls'[s].from = calls[s].from, calls'[s].via = calls[s].via,
           \A c \in Conns : Of(to_server[c], s)' \cup Of(to_client[c], s)' # {} =>
              (Online(c)' /\ told'[c] = NoId => Online(c) /\ told[c] = NoId),
           calls[s].from \in Conns /\ told[calls[s].from] # NoId =>
              told'[calls[s].from] = told[calls[s].from]
    PROVE  Routed(s)'
<1>1. ASSUME NEW c \in Conns, NEW x, Passed(s, c, x),
             Of(to_server[c], s)' \cup Of(to_client[c], s)' # {}
      PROVE  Passed(s, c, x)'
  BY <1>1 DEF Passed
<1>2. ASSUME NEW c \in Conns, NEW x, x \in Of(to_server[c], s)'
      PROVE  IF x.cmd = "SVC" THEN c = calls'[s].from ELSE Passed(s, c, x)'
  <2>1. x \in Of(to_server[c], s) /\ Of(to_server[c], s)' \cup Of(to_client[c], s)' # {}
    BY <1>2 DEF Fewer
  <2> QED BY <1>1, <2>1 DEF Routed
<1>3. ASSUME NEW c \in Conns, NEW x, x \in Of(to_client[c], s)'
      PROVE  IF x.cmd = "SVC" THEN Passed(s, c, x)' ELSE c = calls'[s].from
  <2>1. x \in Of(to_client[c], s) /\ Of(to_server[c], s)' \cup Of(to_client[c], s)' # {}
    BY <1>3 DEF Fewer
  <2> QED BY <1>1, <2>1 DEF Routed
<1> QED BY <1>2, <1>3 DEF Routed

LEMMA WaitsKept ==
    ASSUME NEW s, Waits(s), Same(s),
           calls'[s].from = calls[s].from, calls'[s].via = calls[s].via,
           ~Orphan(calls[s].from) => ~Orphan(calls[s].from)',
           calls[s].via # NoConn /\ ~Orphan(calls[s].via) => ~Orphan(calls[s].via)'
    PROVE  Waits(s)'
<1>1. \E c \in Conns : Of(to_server[c], s)' # {} \/ Of(to_client[c], s)' # {}
  BY DEF Waits, Same
<1>2. \A c \in Conns : \A x \in Of(to_server[c], s)' \cup Of(to_client[c], s)' : x.source # NoId
  BY DEF Waits, Same
<1>3. ~Orphan(calls[s].from)' /\ (calls'[s].via # NoConn => ~Orphan(calls[s].via)')
  BY DEF Waits
<1> QED BY <1>1, <1>2, <1>3 DEF Waits

(* The server registers more, and no client leaves.                        *)
Onward ==
    /\ \A c \in Conns : Online(c)' /\ told'[c] = NoId => Online(c) /\ told[c] = NoId
    /\ \A c \in Conns : told[c] # NoId => told'[c] = told[c]
    /\ peer' = peer

LEMMA CallKept ==
    ASSUME NEW s, CallRight(s), Fewer(s), Same(s), Onward, calls'[s] = calls[s]
    PROVE  CallRight(s)'
<1>1. OnePlace(s)'
  BY OnePlaceKept DEF CallRight
<1>2. ASSUME Routed(s) PROVE Routed(s)'
  BY <1>2, RoutedKept DEF Onward
<1>3. \A c : Orphan(c)' <=> Orphan(c)
  BY DEF Onward, Orphan
<1>4. ASSUME Waits(s) PROVE Waits(s)'
  BY <1>3, <1>4, WaitsKept
<1>5. Nowhere(s) => Nowhere(s)'
  BY DEF Nowhere, Same
<1> QED BY <1>1, <1>2, <1>4, <1>5 DEF CallRight

-----------------------------------------------------------------------------
(* What reading and writing queues do to the messages of a session.        *)
Kept(q, r, s) == Of(r, s) = Of(q, s) /\ (Once(q, s) => Once(r, s))

LEMMA TailKept ==
    ASSUME NEW T, NEW old \in [Conns -> Seq(T)], NEW c \in Conns, old[c] # <<>>, NEW s,
           NEW d \in Conns
    PROVE  /\ ~OfSession(Head(old[c]), s) => Kept(old[d], [old EXCEPT ![c] = Tail(@)][d], s)
           /\ Once(old[d], s) => Once([old EXCEPT ![c] = Tail(@)][d], s)
           /\ /\ Once(old[d], s) /\ OfSession(Head(old[c]), s)
              /\ d # c => Of(old[d], s) = {}
              => Of([old EXCEPT ![c] = Tail(@)][d], s) = {}
<1>1. CASE d = c
  <2>1. [old EXCEPT ![c] = Tail(@)][d] = Tail(old[c])
    BY <1>1
  <2> QED BY <1>1, <2>1, OfTail DEF Kept
<1>2. CASE d # c
  <2>1. [old EXCEPT ![c] = Tail(@)][d] = old[d]
    BY <1>2
  <2> QED BY <1>2, <2>1 DEF Kept
<1> QED BY <1>1, <1>2

LEMMA AppendKept ==
    ASSUME NEW T, NEW old \in [Conns -> Seq(T)], NEW c \in Conns, NEW e \in T, NEW s,
           NEW d \in Conns
    PROVE  /\ ~OfSession(e, s) => Kept(old[d], [old EXCEPT ![c] = Append(@, e)][d], s)
           /\ OfSession(e, s) /\ Of(old[d], s) = {} /\ Once(old[d], s) =>
                /\ Of([old EXCEPT ![c] = Append(@, e)][d], s) = IF d = c THEN {e} ELSE {}
                /\ Once([old EXCEPT ![c] = Append(@, e)][d], s)
<1>1. CASE d = c
  <2>1. [old EXCEPT ![c] = Append(@, e)][d] = Append(old[c], e)
    BY <1>1
  <2> QED BY <1>1, <2>1, OfAppend DEF Kept
<1>2. CASE d # c
  <2>1. [old EXCEPT ![c] = Append(@, e)][d] = old[d]
    BY <1>2
  <2> QED BY <1>2, <2>1 DEF Kept
<1> QED BY <1>1, <1>2

LEMMA KeptAll ==
    ASSUME NEW s, \A c \in Conns : /\ Kept(to_server[c], to_server'[c], s)
                                   /\ Kept(to_client[c], to_client'[c], s)
    PROVE  Same(s) /\ Fewer(s)
BY DEF Kept, Same, Fewer

(* Where the message of a session is known, there is no other.             *)
LEMMA HeadAlone ==
    ASSUME NEW s, OnePlace(s), NEW c \in Conns
    PROVE  /\ Of(to_server[c], s) # {} =>
                \A d \in Conns : /\ d # c => Of(to_server[d], s) = {}
                                 /\ Of(to_client[d], s) = {}
           /\ Of(to_client[c], s) # {} =>
                \A d \in Conns : /\ d # c => Of(to_client[d], s) = {}
                                 /\ Of(to_server[d], s) = {}
BY DEF OnePlace

LEMMA OnePlaceAlone ==
    ASSUME NEW s, NEW d,
           \A c \in Conns : Once(to_server[c], s)' /\ Once(to_client[c], s)',
           \/ \A c \in Conns : /\ Of(to_server[c], s)' = {}
                               /\ Of(to_client[c], s)' # {} => c = d
           \/ \A c \in Conns : /\ Of(to_client[c], s)' = {}
                               /\ Of(to_server[c], s)' # {} => c = d
    PROVE  OnePlace(s)'
BY DEF OnePlace

(* The server answers a command that is not about a service.               *)
LEMMA AnswerKept ==
    ASSUME QueueInv, NEW c \in Conns, to_server[c] # <<>>, NEW s,
           ~OfSession(Head(to_server[c]), s), NEW result \in Downward, ~OfService(result),
           Answer(c, result)
    PROVE  Same(s) /\ Fewer(s)
<1>1. ASSUME NEW d \in Conns PROVE Kept(to_server[d], to_server'[d], s)
  <2>1. to_server' = [to_server EXCEPT ![c] = Tail(@)]
    BY DEF Answer
  <2>2. to_server \in [Conns -> Seq(Upward)]
    BY DEF QueueInv
  <2> QED BY <2>1, <2>2, TailKept
<1>2. ASSUME NEW d \in Conns PROVE Kept(to_client[d], to_client'[d], s)
  <2>1. to_client'[d] = to_client[d] \o Sent(c, <<result>>)[d]
    BY DEF Answer
  <2>2. KickedOut \in Downward /\ ~OfService(KickedOut)
    BY DEF KickedOut, Error, Downward, AnyId, OfService
  <2>3. <<result>> \in Seq(Downward) /\ Elems(<<result>>) = {result}
    BY ElemsFew
  <2>4. /\ Sent(c, <<result>>)[d] \in Seq(Downward)
        /\ Elems(Sent(c, <<result>>)[d]) \subseteq {KickedOut, result}
    <3>1. /\ Sent(c, <<result>>)[d] \in Seq(Downward)
          /\ Elems(Sent(c, <<result>>)[d]) \subseteq
               {KickedOut} \cup (IF c = d THEN Elems(<<result>>) ELSE {})
      BY <2>2, <2>3, SentType
    <3> QED BY <2>3, <3>1
  <2>5. \A x \in Elems(Sent(c, <<result>>)[d]) : ~OfSession(x, s)
    BY <2>2, <2>4 DEF OfSession
  <2>6. to_client[d] \in Seq(Downward)
    BY DEF QueueInv
  <2> QED BY <2>1, <2>4, <2>5, <2>6, OfConcat DEF Kept
<1> QED BY <1>1, <1>2, KeptAll

(* The server delivers a message of another session.                       *)
LEMMA DeliverKept ==
    ASSUME QueueInv, NEW c \in Conns, to_server[c] # <<>>, NEW s,
           ~OfSession(Head(to_server[c]), s), NEW to, NEW out \in SvcMessage,
           ~OfSession(out, s), Deliver(c, to, out)
    PROVE  Same(s) /\ Fewer(s)
<1>1. ASSUME NEW d \in Conns PROVE Kept(to_server[d], to_server'[d], s)
  <2>1. to_server' = [to_server EXCEPT ![c] = Tail(@)]
    BY DEF Deliver
  <2>2. to_server \in [Conns -> Seq(Upward)]
    BY DEF QueueInv
  <2> QED BY <2>1, <2>2, TailKept
<1>2. ASSUME NEW d \in Conns PROVE Kept(to_client[d], to_client'[d], s)
  <2>1. to_client'[d] \in {to_client[d], Append(to_client[d], out)}
    BY DEF Deliver
  <2>2. to_client[d] \in Seq(Downward) /\ out \in Downward
    BY DEF QueueInv, Downward
  <2>3. Kept(to_client[d], to_client[d], s)
    BY DEF Kept
  <2>4. Kept(to_client[d], Append(to_client[d], out), s)
    BY <2>2, OfAppend DEF Kept
  <2> QED BY <2>1, <2>3, <2>4
<1> QED BY <1>1, <1>2, KeptAll

(* The server delivers the message it has read: the session is nowhere     *)
(* else.                                                                   *)
Moved(s, to, out) ==
    \A d \in Conns :
        /\ Of(to_server'[d], s) = {} /\ Once(to_server'[d], s)
        /\ Of(to_client'[d], s) = IF d \in to /\ ~Orphan(d) THEN {out} ELSE {}
        /\ Once(to_client'[d], s)

LEMMA DeliverMoves ==
    ASSUME QueueInv, NEW c \in Conns, to_server[c] # <<>>, NEW s, OnePlace(s),
           OfSession(Head(to_server[c]), s), NEW to, NEW out \in SvcMessage,
           OfSession(out, s), Deliver(c, to, out)
    PROVE  Moved(s, to, out) /\ Head(to_server[c]) \in Of(to_server[c], s)
<1>1. to_server \in [Conns -> Seq(Upward)] /\ to_server' = [to_server EXCEPT ![c] = Tail(@)]
  BY DEF QueueInv, Deliver
<1>2. Head(to_server[c]) \in Of(to_server[c], s)
  BY <1>1, OfTail
<1>3. \A d \in Conns : /\ d # c => Of(to_server[d], s) = {}
                       /\ Of(to_client[d], s) = {}
                       /\ Once(to_server[d], s) /\ Once(to_client[d], s)
  BY <1>2, HeadAlone DEF OnePlace
<1>4. ASSUME NEW d \in Conns PROVE Of(to_server'[d], s) = {} /\ Once(to_server'[d], s)
  BY <1>1, <1>3, TailKept
<1>5. ASSUME NEW d \in Conns
      PROVE  /\ Of(to_client'[d], s) = IF d \in to /\ ~Orphan(d) THEN {out} ELSE {}
             /\ Once(to_client'[d], s)
  <2>1. to_client[d] \in Seq(Downward) /\ out \in Downward
    BY DEF QueueInv, Downward
  <2>2. CASE d \in to /\ ~Orphan(d)
    <3>1. to_client'[d] = Append(to_client[d], out)
      BY <2>2 DEF Deliver
    <3>2. Of(to_client[d], s) = {} /\ OfSession(out, s)
      BY <1>3
    <3>3. Of(Append(to_client[d], out), s) = {out} /\ Once(Append(to_client[d], out), s)
      BY ONLY <2>1, <3>2, OfAppend
    <3> QED BY <2>2, <3>1, <3>3
  <2>3. CASE ~(d \in to /\ ~Orphan(d))
    <3>1. to_client'[d] = to_client[d]
      BY <2>3 DEF Deliver
    <3> QED BY <1>3, <2>3, <3>1
  <2> QED BY <2>2, <2>3
<1> QED BY <1>2, <1>4, <1>5 DEF Moved

(* The message has moved on, or has been dropped: no more than one is there.*)
LEMMA MovedAlone ==
    ASSUME NEW s, NEW e, NEW to, to \subseteq {e}, NEW out, Moved(s, to, out)
    PROVE  OnePlace(s)'
<1>1. \A d \in Conns : Once(to_server[d], s)' /\ Once(to_client[d], s)'
  BY DEF Moved
<1>2. \A d \in Conns : /\ Of(to_server[d], s)' = {}
                       /\ Of(to_client[d], s)' # {} => d = e
  BY DEF Moved
<1> QED BY <1>1, <1>2, OnePlaceAlone

LEMMA MovedOnly ==
    ASSUME NEW s, NEW to, NEW out, Moved(s, to, out), NEW d \in Conns,
           NEW y \in Of(to_server'[d], s) \cup Of(to_client'[d], s)
    PROVE  y = out
BY DEF Moved

-----------------------------------------------------------------------------
(* The ids that requests, results and contexts name: the one that the      *)
(* connection has been told, or will be told by the REG that is first in   *)
(* its queue.                                                              *)
SourcesTold ==
    \A c \in Conns : \A x \in Elems(to_server[c]) : x.cmd = "SVC" /\ x.source # NoId =>
        /\ told[c] # NoId => told[c] = x.source
        /\ \A y \in Elems(to_server[c]) : y.cmd = "REG" => y.reg.id = x.source

ResultsTold ==
    \A c \in Conns : \A x \in Elems(to_client[c]) : TellsId(x) =>
        /\ told[c] # NoId => told[c] = x.id
        /\ \A y \in Elems(to_server[c]) : y.cmd # "REG"

ContextsTold ==
    \A k \in Clients : Connected(k) =>
        /\ context[k].endpoint_id # NoId /\ told[peer[k]] # NoId =>
             told[peer[k]] = context[k].endpoint_id
        /\ \A y \in Elems(to_server[peer[k]]) :
             y.cmd = "REG" => y.reg.id = context[k].endpoint_id

IdInv == SourcesTold /\ ResultsTold /\ ContextsTold /\ OwnConnections

(* Reading, losing and closing: nothing is sent that names an id, and a    *)
(* client takes over an id from a result that it has read.                 *)
LEMMA IdFewer ==
    ASSUME QueueInv, IdInv,
           \A c \in Conns :
             /\ Elems(to_server'[c]) \subseteq Elems(to_server[c])
             /\ \A x \in Elems(to_client'[c]) : TellsId(x) => x \in Elems(to_client[c])
             /\ told'[c] \in {told[c], NoId},
           \A j \in Clients :
             /\ peer'[j] \in {peer[j], NoConn}
             /\ \/ context'[j].endpoint_id = context[j].endpoint_id
                \/ \E x \in Elems(to_client[peer[j]]) :
                     TellsId(x) /\ context'[j].endpoint_id = x.id
    PROVE  IdInv'
<1>1. SourcesTold'
  BY DEF IdInv, SourcesTold
<1>2. ResultsTold'
  BY DEF IdInv, ResultsTold
<1>3. ContextsTold'
  <2> SUFFICES ASSUME NEW k \in Clients, Connected(k)'
               PROVE  /\ context'[k].endpoint_id # NoId /\ told'[peer'[k]] # NoId =>
                           told'[peer'[k]] = context'[k].endpoint_id
                      /\ \A y \in Elems(to_server'[peer'[k]]) :
                           y.cmd = "REG" => y.reg.id = context'[k].endpoint_id
    BY DEF ContextsTold
  <2>1. peer'[k] = peer[k] /\ Connected(k)
    BY DEF Connected
  <2>2. peer[k] \in Conns
    BY <2>1 DEF Connected, QueueInv, AnyConn
  <2>3. /\ Elems(to_server'[peer[k]]) \subseteq Elems(to_server[peer[k]])
        /\ told'[peer[k]] \in {told[peer[k]], NoId}
    BY <2>2
  <2>4. CASE context'[k].endpoint_id = context[k].endpoint_id
    BY <2>1, <2>3, <2>4 DEF IdInv, ContextsTold
  <2>5. ASSUME NEW x \in Elems(to_client[peer[k]]), TellsId(x),
               context'[k].endpoint_id = x.id
        PROVE  /\ told'[peer[k]] # NoId => told'[peer[k]] = context'[k].endpoint_id
               /\ \A y \in Elems(to_server'[peer[k]]) : y.cmd # "REG"
    BY <2>2, <2>3, <2>5 DEF IdInv, ResultsTold
  <2> QED BY <2>1, <2>4, <2>5
<1>4. OwnConnections'
  BY DEF IdInv, OwnConnections, Connected
<1> QED BY <1>1, <1>2, <1>3, <1>4 DEF IdInv

(* A connected client sends something other than REG.                      *)
LEMMA IdPosted ==
    ASSUME QueueInv, IdInv, NEW k \in Clients, Connected(k), NEW x \in Upward, x.cmd # "REG",
           x.cmd = "SVC" => x.source = context[k].endpoint_id,
           to_server' = [to_server EXCEPT ![peer[k]] = Append(@, x)],
           \A c \in Conns : Elems(to_client'[c]) \subseteq Elems(to_client[c]),
           told' = told, peer' = peer, context' = context
    PROVE  IdInv'
<1> DEFINE c == peer[k]
<1>1. c \in Conns
  BY DEF Connected, QueueInv, AnyConn
<1>2. /\ Elems(to_server'[c]) = Elems(to_server[c]) \cup {x}
      /\ \A d \in Conns : d # c => to_server'[d] = to_server[d]
  <2>1. to_server'[c] = Append(to_server[c], x) /\ to_server[c] \in Seq(Upward)
    BY <1>1 DEF QueueInv
  <2>2. \A d \in Conns : d # c => to_server'[d] = to_server[d]
    BY <1>1 DEF QueueInv
  <2> QED BY <2>1, <2>2, ElemsAppend
<1>3. \A d \in Conns : \A y \in Elems(to_server'[d]) :
         y.cmd = "REG" => y \in Elems(to_server[d])
  BY <1>2
<1>4. SourcesTold'
  <2> SUFFICES ASSUME NEW d \in Conns, NEW z \in Elems(to_server'[d]),
                      z.cmd = "SVC", z.source # NoId
               PROVE  /\ told[d] # NoId => told[d] = z.source
                      /\ \A y \in Elems(to_server'[d]) : y.cmd = "REG" => y.reg.id = z.source
    BY DEF SourcesTold
  <2>1. CASE z \in Elems(to_server[d])
    BY <1>3, <2>1 DEF IdInv, SourcesTold
  <2>2. CASE z \notin Elems(to_server[d])
    <3>1. d = c /\ z = x
      BY <1>2, <2>2
    <3>2. z.source = context[k].endpoint_id
      BY <3>1
    <3> QED BY <1>3, <3>1, <3>2 DEF IdInv, ContextsTold
  <2> QED BY <2>1, <2>2
<1>5. ResultsTold'
  BY <1>3 DEF IdInv, ResultsTold
<1>6. ContextsTold'
  <2> SUFFICES ASSUME NEW j \in Clients, Connected(j)
               PROVE  \A y \in Elems(to_server'[peer[j]]) :
                           y.cmd = "REG" => y.reg.id = context[j].endpoint_id
    BY DEF IdInv, ContextsTold, Connected
  <2>1. peer[j] \in Conns
    BY DEF Connected, QueueInv, AnyConn
  <2> QED BY <1>3, <2>1 DEF IdInv, ContextsTold
<1>7. OwnConnections'
  BY DEF IdInv, OwnConnections, Connected
<1> QED BY <1>4, <1>5, <1>6, <1>7 DEF IdInv

(* A client connects: what it asks for is the id of its context.           *)
LEMMA IdConnected ==
    ASSUME QueueInv, PendingInv, IdInv, NEW k \in Clients, NEW c \in Conns, ConnectClient(k, c)
    PROVE  IdInv'
<1>1. /\ told' = told /\ told[c] = NoId /\ context' = context
      /\ \A j \in Clients : peer[j] # c
      /\ peer' = [peer EXCEPT ![k] = c]
      /\ to_server' = [to_server EXCEPT ![c] = RegisterSelf(k)]
      /\ to_client' = [to_client EXCEPT ![c] = <<>>]
  BY DEF ConnectClient, Connect, OnConnectionReady, PendingInv
<1>2. /\ Elems(to_client'[c]) = {}
      /\ \A d \in Conns : d # c => /\ to_client'[d] = to_client[d]
                                   /\ to_server'[d] = to_server[d]
  <2>1. to_client'[c] = <<>> /\ \A d \in Conns : d # c => to_client'[d] = to_client[d]
    BY <1>1 DEF QueueInv
  <2>2. \A d \in Conns : d # c => to_server'[d] = to_server[d]
    BY <1>1 DEF QueueInv
  <2> QED BY <2>1, <2>2, NoElems
<1>3. \A y \in Elems(to_server'[c]) : y.cmd = "REG" /\ y.reg.id = context[k].endpoint_id
  <2> DEFINE r == [id |-> AskedId(k, context[k].endpoint_id), role |-> context[k].role,
                   svc_type |-> context[k].svc_type, token |-> FALSE,
                   code |-> context[k].role \in CodeRoles]
             y == [cmd |-> "REG", reg |-> r]
  <2>1. to_server'[c] = RegisterSelf(k)
    BY <1>1 DEF QueueInv
  <2>2. RegisterSelf(k) = <<y>>
    BY DEF RegisterSelf
  <2>3. y.cmd = "REG" /\ y.reg.id = context[k].endpoint_id
    BY DEF AskedId
  <2> HIDE DEF y
  <2>4. Elems(RegisterSelf(k)) = {y}
    BY <2>2, ElemsFew
  <2> QED BY <2>1, <2>3, <2>4
<1>4. SourcesTold'
  <2> SUFFICES ASSUME NEW d \in Conns, NEW z \in Elems(to_server'[d]), z.cmd = "SVC",
                      z.source # NoId
               PROVE  /\ told[d] # NoId => told[d] = z.source
                      /\ \A y \in Elems(to_server'[d]) : y.cmd = "REG" => y.reg.id = z.source
    BY <1>1 DEF SourcesTold
  <2>1. d # c
    BY <1>3
  <2> QED BY <1>2, <2>1 DEF IdInv, SourcesTold
<1>5. ResultsTold'
  BY <1>1, <1>2 DEF IdInv, ResultsTold
<1>6. ContextsTold'
  <2> SUFFICES ASSUME NEW j \in Clients, Connected(j)'
               PROVE  /\ context[j].endpoint_id # NoId /\ told[peer'[j]] # NoId =>
                           told[peer'[j]] = context[j].endpoint_id
                      /\ \A y \in Elems(to_server'[peer'[j]]) :
                           y.cmd = "REG" => y.reg.id = context[j].endpoint_id
    BY <1>1 DEF ContextsTold
  <2>1. CASE j = k
    <3>1. peer'[j] = c
      BY <1>1, <2>1 DEF QueueInv
    <3> QED BY <1>1, <1>3, <2>1, <3>1
  <2>2. CASE j # k
    <3>1. peer'[j] = peer[j] /\ Connected(j)
      BY <1>1, <2>2 DEF QueueInv, Connected
    <3>2. peer[j] \in Conns /\ peer[j] # c
      BY <1>1, <3>1 DEF Connected, QueueInv, AnyConn
    <3> QED BY <1>2, <3>1, <3>2 DEF IdInv, ContextsTold
  <2> QED BY <2>1, <2>2
<1>7. OwnConnections'
  <2> SUFFICES ASSUME NEW i \in Clients, NEW j \in Clients, Connected(i)', peer'[i] = peer'[j]
               PROVE  i = j
    BY DEF OwnConnections
  <2>1. peer'[i] = (IF i = k THEN c ELSE peer[i]) /\ peer'[j] = (IF j = k THEN c ELSE peer[j])
    BY <1>1 DEF QueueInv
  <2>2. CASE i = k \/ j = k
    BY <1>1, <2>1, <2>2
  <2>3. CASE i # k /\ j # k
    <3>1. Connected(i) /\ peer[i] = peer[j]
      BY <2>1, <2>3 DEF Connected
    <3> QED BY <3>1 DEF IdInv, OwnConnections
  <2> QED BY <2>2, <2>3
<1> QED BY <1>4, <1>5, <1>6, <1>7 DEF IdInv

(* What the server's answers and deliveries add to the queues.             *)
LEMMA TailElems ==
    ASSUME QueueInv, NEW c \in Conns, to_server[c] # <<>>,
           to_server' = [to_server EXCEPT ![c] = Tail(@)], NEW d \in Conns
    PROVE  /\ Elems(to_server'[d]) \subseteq Elems(to_server[d])
           /\ d # c => to_server'[d] = to_server[d]
<1>1. to_server[c] \in Seq(Upward)
  BY DEF QueueInv
<1>2. Elems(Tail(to_server[c])) \subseteq Elems(to_server[c])
  BY <1>1, ElemsTail
<1>3. to_server'[d] = IF d = c THEN Tail(to_server[c]) ELSE to_server[d]
  BY DEF QueueInv
<1> QED BY <1>2, <1>3

LEMMA AnswerElems ==
    ASSUME QueueInv, NEW c \in Conns, NEW result \in Downward, Answer(c, result),
           NEW d \in Conns
    PROVE  Elems(to_client'[d]) \subseteq
             Elems(to_client[d]) \cup {KickedOut} \cup (IF c = d THEN {result} ELSE {})
<1>1. to_client'[d] = to_client[d] \o Sent(c, <<result>>)[d]
  BY DEF Answer
<1>2. KickedOut \in Downward
  BY DEF KickedOut, Error, Downward, AnyId
<1>3. <<result>> \in Seq(Downward) /\ Elems(<<result>>) = {result}
  BY ElemsFew
<1>4. /\ Sent(c, <<result>>)[d] \in Seq(Downward)
      /\ Elems(Sent(c, <<result>>)[d]) \subseteq
           {KickedOut} \cup (IF c = d THEN Elems(<<result>>) ELSE {})
  BY <1>2, <1>3, SentType
<1>5. to_client[d] \in Seq(Downward)
  BY DEF QueueInv
<1>6. Elems(to_client'[d]) = Elems(to_client[d]) \cup Elems(Sent(c, <<result>>)[d])
  BY <1>1, <1>4, <1>5, ElemsConcat
<1> QED BY <1>3, <1>4, <1>6

LEMMA DeliverElems ==
    ASSUME QueueInv, NEW c \in Conns, NEW to, NEW out \in SvcMessage, Deliver(c, to, out),
           NEW d \in Conns
    PROVE  Elems(to_client'[d]) \subseteq Elems(to_client[d]) \cup {out}
<1>1. to_client'[d] \in {to_client[d], Append(to_client[d], out)}
  BY DEF Deliver
<1>2. to_client[d] \in Seq(Downward) /\ out \in Downward
  BY DEF QueueInv, Downward
<1>3. Elems(Append(to_client[d], out)) = Elems(to_client[d]) \cup {out}
  BY <1>2, ElemsAppend
<1> QED BY <1>1, <1>3

(* The server reads the REG that is first: what it tells the connection is *)
(* what the REG asked for, or an id where it asked for none.               *)
LEMMA IdRegistered ==
    ASSUME QueueInv, RegFirst, IdInv, NEW c \in Conns, ServerRegisters(c)
    PROVE  IdInv'
<1>1. PICK r \in Request :
         /\ r.role \in AskedRoles
         /\ Head(to_server[c]) = [cmd |-> "REG", reg |-> r]
         /\ Registers(c, r) \/ (UNCHANGED vars /\ Answer(c, Error("REG")))
  BY RegisterCasesOfTraffic
<1>2. /\ to_server[c] # <<>> /\ to_server' = [to_server EXCEPT ![c] = Tail(@)]
      /\ peer' = peer /\ context' = context
  BY <1>1 DEF ServerRegisters, Registers, Answer
<1>3. \A d \in Conns : /\ Elems(to_server'[d]) \subseteq Elems(to_server[d])
                       /\ d # c => to_server'[d] = to_server[d]
  BY <1>2, TailElems
<1>4. ~TellsId(KickedOut) /\ ~TellsId(Error("REG"))
  BY DEF TellsId, KickedOut, Error
<1>5. CASE UNCHANGED vars /\ Answer(c, Error("REG"))
  <2>1. Error("REG") \in Downward
    BY DEF Error, Downward, AnyId
  <2>2. \A d \in Conns : \A x \in Elems(to_client'[d]) : TellsId(x) => x \in Elems(to_client[d])
    BY <1>4, <1>5, <2>1, AnswerElems
  <2>3. told' = told
    BY <1>5 DEF vars, connVars
  <2> QED BY <1>2, <1>3, <2>2, <2>3, IdFewer
<1>6. CASE Registers(c, r)
  <2> DEFINE result == [cmd |-> "REG", ok |-> TRUE, id |-> told'[c],
                        role |-> ReportedRole(r, told'[c])]
             y == Head(to_server[c])
  <2>1. TypeOK /\ Register(c, r)
    BY <1>6 DEF QueueInv, Registers
  <2>2. PICK i \in Ids : told' = [told EXCEPT ![c] = i] /\ (r.id # NoId => i = r.id)
    BY <2>1, RegisterTells
  <2>3. told'[c] = i /\ \A d \in Conns : d # c => told'[d] = told[d]
    BY <2>1, <2>2 DEF TypeOK
  <2>4. result \in Downward
    BY <1>1, <2>3 DEF Downward, ReportedRole, AnyId
  <2>5. Answer(c, result) /\ result.id = i
    BY <1>6, <2>3 DEF Registers
  <2> HIDE DEF result
  <2>6. \A d \in Conns : \A x \in Elems(to_client'[d]) : TellsId(x) =>
          x \in Elems(to_client[d]) \/ (d = c /\ x = result)
    BY <1>4, <2>4, <2>5, AnswerElems
  <2>7. y \in Elems(to_server[c]) /\ y.cmd = "REG" /\ y.reg.id = r.id /\ told[c] = NoId
        /\ \A x \in Elems(to_server'[c]) : x.cmd # "REG"
    <3>1. to_server[c] \in Seq(Upward) /\ to_server'[c] = Tail(to_server[c])
      BY <1>2 DEF QueueInv
    <3>2. y \in Elems(to_server[c]) /\ 1 \in DOMAIN to_server[c] /\ to_server[c][1] = y
      BY <1>2, <3>1, ElemsTail
    <3>3. ASSUME NEW n \in DOMAIN Tail(to_server[c]) PROVE Tail(to_server[c])[n].cmd # "REG"
      <4>1. n + 1 \in DOMAIN to_server[c] /\ n + 1 # 1
            /\ Tail(to_server[c])[n] = to_server[c][n + 1]
        BY <1>2, <3>1
      <4> QED BY <4>1 DEF RegFirst
    <3>4. \A x \in Elems(to_server'[c]) : x.cmd # "REG"
      BY <3>1, <3>3 DEF Elems
    <3>5. y.cmd = "REG" /\ y.reg.id = r.id
      BY <1>1
    <3> QED BY <3>2, <3>4, <3>5 DEF RegFirst
  <2> HIDE DEF y
  <2>8. SourcesTold'
    <3> SUFFICES ASSUME NEW d \in Conns, NEW x \in Elems(to_server'[d]), x.cmd = "SVC",
                        x.source # NoId
                 PROVE  /\ told'[d] # NoId => told'[d] = x.source
                        /\ \A z \in Elems(to_server'[d]) : z.cmd = "REG" => z.reg.id = x.source
      BY DEF SourcesTold
    <3>1. CASE d = c
      <4>1. y.reg.id = x.source
        BY <1>3, <2>7, <3>1 DEF IdInv, SourcesTold
      <4> QED BY <2>2, <2>3, <2>7, <3>1, <4>1
    <3>2. CASE d # c
      BY <1>3, <2>3, <3>2 DEF IdInv, SourcesTold
    <3> QED BY <3>1, <3>2
  <2>9. ResultsTold'
    <3> SUFFICES ASSUME NEW d \in Conns, NEW x \in Elems(to_client'[d]), TellsId(x)
                 PROVE  /\ told'[d] # NoId => told'[d] = x.id
                        /\ \A z \in Elems(to_server'[d]) : z.cmd # "REG"
      BY DEF ResultsTold
    <3>1. CASE x \in Elems(to_client[d])
      <4>1. d # c
        BY <2>7, <3>1 DEF IdInv, ResultsTold
      <4> QED BY <1>3, <2>3, <3>1, <4>1 DEF IdInv, ResultsTold
    <3>2. CASE d = c /\ x = result
      BY <2>3, <2>5, <2>7, <3>2
    <3> QED BY <2>6, <3>1, <3>2
  <2>10. ContextsTold'
    <3> SUFFICES ASSUME NEW k \in Clients, Connected(k)
                 PROVE  /\ context[k].endpoint_id # NoId /\ told'[peer[k]] # NoId =>
                             told'[peer[k]] = context[k].endpoint_id
                        /\ \A z \in Elems(to_server'[peer[k]]) :
                             z.cmd = "REG" => z.reg.id = context[k].endpoint_id
      BY <1>2 DEF ContextsTold, Connected
    <3>1. peer[k] \in Conns
      BY DEF Connected, QueueInv, AnyConn
    <3>2. CASE peer[k] = c
      <4>1. y.reg.id = context[k].endpoint_id
        BY <2>7, <3>2 DEF IdInv, ContextsTold
      <4> QED BY <2>2, <2>3, <2>7, <3>2, <4>1
    <3>3. CASE peer[k] # c
      BY <1>3, <2>3, <3>1, <3>3 DEF IdInv, ContextsTold
    <3> QED BY <3>2, <3>3
  <2>11. OwnConnections'
    BY <1>2 DEF IdInv, OwnConnections, Connected
  <2> QED BY <2>8, <2>9, <2>10, <2>11 DEF IdInv
<1> QED BY <1>1, <1>5, <1>6

(* What is left of a queue that is read.                                   *)
LEMMA ReadElems ==
    ASSUME QueueInv, NEW k \in Clients, Connected(k), to_client[peer[k]] # <<>>,
           to_client' = [to_client EXCEPT ![peer[k]] = Tail(@)]
    PROVE  /\ \A c \in Conns : Elems(to_client'[c]) \subseteq Elems(to_client[c])
           /\ Head(to_client[peer[k]]) \in Elems(to_client[peer[k]])
<1>1. peer[k] \in Conns /\ to_client \in [Conns -> Seq(Downward)]
  BY DEF Connected, QueueInv, AnyConn
<1>2. Elems(to_client[peer[k]]) =
        Elems(Tail(to_client[peer[k]])) \cup {Head(to_client[peer[k]])}
  BY <1>1, ElemsTail
<1>3. \A c \in Conns :
        to_client'[c] = IF c = peer[k] THEN Tail(to_client[peer[k]]) ELSE to_client[c]
  BY <1>1
<1> QED BY <1>2, <1>3

LEMMA IdRead ==
    ASSUME QueueInv, IdInv, NEW k \in Clients, ClientReadsResult(k) \/ ClientReadsAnswer(k)
    PROVE  IdInv'
<1>1. /\ Connected(k) /\ to_client[peer[k]] # <<>>
      /\ to_client' = [to_client EXCEPT ![peer[k]] = Tail(@)]
      /\ to_server' = to_server /\ peer' = peer /\ told' = told
  BY DEF ClientReadsResult, HandleCommandResult, ClientReadsAnswer, vars, connVars
<1>2. /\ \A c \in Conns : Elems(to_client'[c]) \subseteq Elems(to_client[c])
      /\ Head(to_client[peer[k]]) \in Elems(to_client[peer[k]])
  BY <1>1, ReadElems
<1>3. ASSUME NEW j \in Clients
      PROVE  \/ context'[j].endpoint_id = context[j].endpoint_id
             \/ \E x \in Elems(to_client[peer[j]]) :
                  TellsId(x) /\ context'[j].endpoint_id = x.id
  <2>1. CASE context' = context
    BY <2>1
  <2>2. CASE ClientReadsResult(k)
    <3> DEFINE x == Head(to_client[peer[k]])
    <3>1. context' = [context EXCEPT ![k] =
              IF x.cmd # "REG" THEN @
              ELSE IF x.ok THEN WithResult(@, x)
              ELSE [@ EXCEPT !.failed = TRUE]]
      BY <2>2 DEF ClientReadsResult, HandleCommandResult
    <3>2. x \in Elems(to_client[peer[k]])
      BY <1>2
    <3>3. context[k] \in Context
      BY DEF QueueInv
    <3> HIDE DEF x
    <3>4. WithResult(context[k], x).endpoint_id = x.id
          /\ [context[k] EXCEPT !.failed = TRUE].endpoint_id = context[k].endpoint_id
      BY <3>3 DEF WithResult, Context
    <3>5. context'[j] = IF j # k THEN context[j]
                        ELSE IF x.cmd # "REG" THEN context[k]
                        ELSE IF x.ok THEN WithResult(context[k], x)
                        ELSE [context[k] EXCEPT !.failed = TRUE]
      BY <3>1 DEF QueueInv
    <3> QED BY <3>2, <3>4, <3>5 DEF TellsId
  <2> QED BY <2>1, <2>2 DEF ClientReadsAnswer
<1> QED BY <1>1, <1>2, <1>3, IdFewer

LEMMA IdStep ==
    ASSUME Covered, TrafficAssumption, QueueInv, PendingInv, RegFirst, IdInv,
           [TrafficNext]_trafficVars
    PROVE  IdInv'
<1>1. ASSUME NEW k \in Clients, LoseConnection(k) PROVE IdInv'
  <2>1. /\ UNCHANGED <<context, to_server>> /\ told' = told
        /\ peer' = [peer EXCEPT ![k] = NoConn]
        /\ to_client' = [to_client EXCEPT ![peer[k]] = <<>>]
    BY <1>1 DEF LoseConnection, ConnectionLost, vars, connVars
  <2>2. \A c \in Conns : Elems(to_client'[c]) \subseteq Elems(to_client[c])
    BY <2>1, NoElems DEF QueueInv
  <2>3. \A j \in Clients : peer'[j] \in {peer[j], NoConn}
    BY <2>1 DEF QueueInv
  <2> QED BY <2>1, <2>2, <2>3, IdFewer
<1>2. ASSUME NEW k \in Clients, ConsoleFilter(k) PROVE IdInv'
  <2>1. PICK command \in FilterCommands[k] : Post(k, command)
    BY <1>2 DEF ConsoleFilter
  <2>2. command \in Upward /\ command.cmd \notin {"REG", "SVC"}
    BY FilterSent, TrafficAssumption DEF TrafficAssumption
  <2>3. /\ told' = told /\ peer' = peer /\ context' = context /\ to_client' = to_client
    BY <1>2 DEF ConsoleFilter, vars, connVars
  <2>4. CASE Connected(k)
    BY <2>1, <2>2, <2>3, <2>4, IdPosted DEF Post
  <2>5. CASE ~Connected(k)
    BY <2>1, <2>3, <2>5, IdFewer DEF Post
  <2> QED BY <2>4, <2>5
<1>3. ASSUME NEW k \in Clients, NEW s \in Sessions, NEW t \in SvcTypes,
             NEW svc_cmd \in MsgTypes, RequestService(k, s, t, svc_cmd)
      PROVE  IdInv'
  <2> DEFINE x == [cmd |-> "SVC", source |-> SourceOf(k), sess_id |-> s,
                   svc_type |-> t, svc_cmd |-> svc_cmd, ok |-> TRUE]
  <2>1. x \in Upward /\ x.cmd # "REG" /\ x.source = context[k].endpoint_id
    BY DEF Upward, SvcMessage, SourceOf, QueueInv, Context
  <2>2. /\ Connected(k) /\ to_server' = [to_server EXCEPT ![peer[k]] = Append(@, x)]
        /\ told' = told /\ peer' = peer /\ context' = context /\ to_client' = to_client
    BY <1>3 DEF RequestService, Post, vars, connVars
  <2> HIDE DEF x
  <2> QED BY <2>1, <2>2, IdPosted
<1>4. ASSUME NEW k \in Clients, ClientServes(k) PROVE IdInv'
  <2> DEFINE x == Head(to_client[peer[k]])
  <2>1. peer[k] \in Conns /\ x \in Downward /\ x.cmd = "SVC"
    BY <1>4, HeadDownward DEF ClientServes
  <2>2. x \in SvcMessage
    BY <2>1 DEF Downward, FilterNames
  <2>3. PICK answer \in ServiceAnswer(k, x) :
          to_server' = [to_server EXCEPT ![peer[k]] = Append(@, answer)]
    BY <1>4 DEF ClientServes
  <2>4. answer \in Upward /\ answer.cmd = "SVC_RSP"
    <3>1. PICK ok \in BOOLEAN : answer = [x EXCEPT !.cmd = "SVC_RSP", !.ok = ok]
      BY <2>3 DEF ServiceAnswer
    <3>2. answer \in SvcMessage /\ answer.cmd = "SVC_RSP"
      BY <2>2, <3>1 DEF SvcMessage
    <3> QED BY <3>2 DEF Upward
  <2>5. /\ Connected(k) /\ to_client[peer[k]] # <<>>
        /\ to_client' = [to_client EXCEPT ![peer[k]] = Tail(@)]
        /\ told' = told /\ peer' = peer /\ context' = context
    BY <1>4 DEF ClientServes, vars, connVars
  <2>6. \A c \in Conns : Elems(to_client'[c]) \subseteq Elems(to_client[c])
    BY <2>5, ReadElems
  <2> QED BY <2>3, <2>4, <2>5, <2>6, IdPosted
<1>5. ASSUME NEW c \in Conns, CloseConnection(c) PROVE IdInv'
  <2>1. /\ UNCHANGED <<peer, context, to_client>>
        /\ told' = [told EXCEPT ![c] = NoId]
        /\ to_server' = [to_server EXCEPT ![c] = <<>>]
    BY <1>5 DEF CloseConnection, ServerClosed, OnConnectionClosed
  <2>2. \A d \in Conns : Elems(to_server'[d]) \subseteq Elems(to_server[d])
    BY <2>1, NoElems DEF QueueInv
  <2>3. \A d \in Conns : told'[d] \in {told[d], NoId}
    BY <2>1 DEF QueueInv, TypeOK
  <2> QED BY <2>1, <2>2, <2>3, IdFewer
<1>6. ASSUME NEW c \in Conns, ServerFilters(c) PROVE IdInv'
  <2> DEFINE cmd == Head(to_server[c]).cmd
  <2>1. to_server[c] # <<>> /\ cmd \in FilterNames
    BY <1>6, FilterCases DEF ConsoleCommand
  <2> HIDE DEF cmd
  <2>2. [Error(cmd) EXCEPT !.ok = TRUE] \in Downward /\ Error(cmd) \in Downward
    BY <2>1 DEF Error, Downward, AnyId
  <2>3. [Error(cmd) EXCEPT !.ok = TRUE].cmd # "REG" /\ Error(cmd).cmd # "REG"
    BY <2>1 DEF Error, FilterNames
  <2>4. PICK result \in Downward : Answer(c, result) /\ ~TellsId(result)
    BY <1>6, <2>2, <2>3, FilterCases DEF cmd, TellsId
  <2>5. ~TellsId(KickedOut)
    BY DEF TellsId, KickedOut, Error
  <2>6. /\ to_server' = [to_server EXCEPT ![c] = Tail(@)]
        /\ peer' = peer /\ context' = context
    BY <2>4 DEF Answer
  <2>7. told' = told
    BY <1>6, FilterCases, RegistryUntouched DEF routingVars, vars, connVars
  <2>8. \A d \in Conns : \A x \in Elems(to_client'[d]) : TellsId(x) => x \in Elems(to_client[d])
    BY <2>4, <2>5, AnswerElems
  <2>9. \A d \in Conns : Elems(to_server'[d]) \subseteq Elems(to_server[d])
    BY <2>1, <2>6, TailElems
  <2> QED BY <2>6, <2>7, <2>8, <2>9, IdFewer
<1>7. ASSUME NEW c \in Conns, ServerServes(c) \/ ServerAnswers(c) PROVE IdInv'
  <2>1. /\ to_server[c] # <<>> /\ UNCHANGED vars
        /\ \E to : \E out \in SvcMessage : Deliver(c, to, out)
    BY <1>7, ServeCases, AnswerCases
  <2>2. PICK to : \E out \in SvcMessage : Deliver(c, to, out)
    BY <2>1
  <2>3. PICK out \in SvcMessage : Deliver(c, to, out)
    BY <2>2
  <2>4. ~TellsId(out)
    BY DEF TellsId, SvcMessage
  <2>5. \A d \in Conns : \A x \in Elems(to_client'[d]) : TellsId(x) => x \in Elems(to_client[d])
    BY <2>3, <2>4, DeliverElems
  <2>6. /\ to_server' = [to_server EXCEPT ![c] = Tail(@)]
        /\ peer' = peer /\ context' = context
    BY <2>3 DEF Deliver
  <2>7. \A d \in Conns : Elems(to_server'[d]) \subseteq Elems(to_server[d])
    BY <2>1, <2>6, TailElems
  <2>8. told' = told
    BY <2>1 DEF vars, connVars
  <2> QED BY <2>5, <2>6, <2>7, <2>8, IdFewer
<1>8. CASE UNCHANGED trafficVars
  BY <1>8, IdFewer DEF trafficVars, systemVars, clientVars, vars, connVars
<1> QED BY <1>1, <1>2, <1>3, <1>4, <1>5, <1>6, <1>7, <1>8, IdRead, IdConnected, IdRegistered
        DEF TrafficNext

LEMMA IdInvCorrect == ASSUME Covered PROVE TrafficSpec => []IdInv
<1>1. TrafficInit => IdInv
  <2> SUFFICES ASSUME TrafficInit PROVE IdInv
    OBVIOUS
  <2>1. \A c \in Conns : Elems(to_server[c]) = {} /\ Elems(to_client[c]) = {}
    BY NoElems DEF TrafficInit, ClientInit
  <2>2. \A k \in Clients : ~Connected(k)
    BY DEF TrafficInit, ClientInit, Connected
  <2> QED BY <2>1, <2>2 DEF IdInv, SourcesTold, ResultsTold, ContextsTold, OwnConnections
<1>2. QueueInv /\ PendingInv /\ RegFirst /\ IdInv /\ [TrafficNext]_trafficVars => IdInv'
  BY IdStep, TrafficAssumption
<1> QED BY <1>1, <1>2, QueueInvCorrect, TrafficIsRegistry, PendingInvCorrect,
           RegFirstCorrect, PTL DEF TrafficSpec

-----------------------------------------------------------------------------
(* What the steps of the whole keep of one call.                           *)
CallBase ==
    /\ QueueInv /\ RegFirst /\ IdInv
    /\ RoutingTypeOK /\ OneHolder /\ OneId /\ ServiceIndexExact
    /\ calls \in [Sessions -> Call]

(* The message of a call that waits is on the connection of its caller or  *)
(* of its service.                                                         *)
LEMMA WaitingAt ==
    ASSUME NEW s, Routed(s), Waits(s)
    PROVE  /\ calls[s].from \in Conns
           /\ \A c \in Conns : Of(to_server[c], s) \cup Of(to_client[c], s) # {} =>
                c \in {calls[s].from, calls[s].via}
<1>1. ASSUME NEW c \in Conns, NEW x \in Of(to_server[c], s) \cup Of(to_client[c], s)
      PROVE  c \in {calls[s].from, calls[s].via} /\ calls[s].from \in Conns
  BY <1>1 DEF Routed, Passed
<1> QED BY <1>1 DEF Waits

LEMMA CallConnected ==
    ASSUME CallBase, PendingInv, NEW k \in Clients, NEW c \in Conns, ConnectClient(k, c),
           NEW s \in Sessions, CallRight(s)
    PROVE  CallRight(s)'
<1>1. /\ told' = told /\ calls' = calls /\ ~Connected(k)
      /\ Orphan(c) /\ peer' = [peer EXCEPT ![k] = c]
      /\ status' = [status EXCEPT ![c] = "open"]
      /\ to_server' = [to_server EXCEPT ![c] = RegisterSelf(k)]
      /\ to_client' = [to_client EXCEPT ![c] = <<>>]
  BY DEF ConnectClient, Connect, OnConnectionReady, Orphan
<1>2. /\ Of(to_server'[c], s) = {} /\ Once(to_server'[c], s)
      /\ Of(to_client'[c], s) = {} /\ Once(to_client'[c], s)
  <2> DEFINE y == [cmd |-> "REG",
                   reg |-> [id |-> AskedId(k, context[k].endpoint_id),
                            role |-> context[k].role, svc_type |-> context[k].svc_type,
                            token |-> FALSE, code |-> context[k].role \in CodeRoles]]
  <2>1. to_server'[c] = <<y>> /\ ~OfSession(y, s)
    BY <1>1 DEF CallBase, QueueInv, RegisterSelf, OfSession, OfService
  <2> HIDE DEF y
  <2>2. Elems(<<y>>) = {y} /\ DOMAIN <<y>> = {1}
    BY ElemsFew
  <2>3. to_client'[c] = <<>>
    BY <1>1 DEF CallBase, QueueInv
  <2>4. Of(<<y>>, s) = {} /\ Once(<<y>>, s)
    BY <2>1, <2>2 DEF Of, Once
  <2> QED BY <2>1, <2>3, <2>4, OfEmpty
<1>3. \A d \in Conns : d # c => to_server'[d] = to_server[d] /\ to_client'[d] = to_client[d]
  <2>1. \A d \in Conns : d # c => to_server'[d] = to_server[d]
    BY <1>1 DEF CallBase, QueueInv
  <2>2. \A d \in Conns : d # c => to_client'[d] = to_client[d]
    BY <1>1 DEF CallBase, QueueInv
  <2> QED BY <2>1, <2>2
<1>4. Fewer(s)
  BY <1>2, <1>3 DEF Fewer
<1>5. OnePlace(s)'
  BY <1>4, OnePlaceKept DEF CallRight
<1>6. Nowhere(s) => Nowhere(s)'
  BY <1>4 DEF Nowhere, Fewer
<1>7. ASSUME Routed(s) PROVE Routed(s)'
  <2>1. \A d \in Conns : Of(to_server[d], s)' \cup Of(to_client[d], s)' # {} =>
           (Online(d)' /\ told'[d] = NoId => Online(d) /\ told[d] = NoId)
    BY <1>1, <1>2 DEF Online, CallBase, QueueInv, TypeOK
  <2> QED BY <1>1, <1>4, <1>7, <2>1, RoutedKept
<1>8. ASSUME Routed(s), Waits(s) PROVE Waits(s)'
  <2>1. /\ calls[s].from \in Conns
        /\ \A d \in Conns : Of(to_server[d], s) \cup Of(to_client[d], s) # {} =>
             d \in {calls[s].from, calls[s].via}
    BY <1>8, WaitingAt
  <2>2. calls[s].from # c /\ calls[s].via # c
    BY <1>1, <1>8, RegistryAssumption DEF Waits, RegistryAssumption
  <2>3. Same(s)
    BY <1>2, <1>3, <2>1, <2>2 DEF Same
  <2>4. ASSUME NEW e, e # NoConn, ~Orphan(e) PROVE ~Orphan(e)'
    <3>1. PICK j \in Clients : peer[j] = e
      BY <2>4 DEF Orphan
    <3>2. j # k
      BY <1>1, <2>4, <3>1 DEF Connected
    <3>3. peer'[j] = e
      BY <1>1, <3>1, <3>2 DEF CallBase, QueueInv
    <3> QED BY <3>3 DEF Orphan
  <2>5. calls[s].from # NoConn
    BY <2>1, RegistryAssumption DEF RegistryAssumption
  <2> QED BY <1>1, <1>8, <2>3, <2>4, <2>5, WaitsKept
<1> QED BY <1>1, <1>5, <1>6, <1>7, <1>8 DEF CallRight

(* A connection ends at one side: the calls made on it, and those passed to*)
(* it, are given up.                                                       *)
LEMMA CallBroken ==
    ASSUME CallBase, NEW e \in Conns, Break(e), NEW s \in Sessions, CallRight(s), Fewer(s),
           \A d \in Conns : d # e =>
              /\ Of(to_server[d], s)' = Of(to_server[d], s)
              /\ Of(to_client[d], s)' = Of(to_client[d], s)
              /\ told'[d] = told[d] /\ (Online(d)' <=> Online(d))
              /\ ~Orphan(d) => ~Orphan(d)',
           Online(e)' /\ told'[e] = NoId => Online(e) /\ told[e] = NoId
    PROVE  CallRight(s)'
<1>1. /\ calls[s] \in Call
      /\ calls'[s] = IF calls[s].fate \in {"waiting", "anonymous", "service lost"}
                        /\ calls[s].from = e
                     THEN [calls[s] EXCEPT !.fate = "caller lost"]
                     ELSE IF calls[s].fate = "waiting" /\ calls[s].via = e
                     THEN [calls[s] EXCEPT !.fate = "service lost"]
                     ELSE calls[s]
  BY DEF Break, CallBase
<1>2. OnePlace(s)'
  BY OnePlaceKept DEF CallRight
<1>3. Nowhere(s) => Nowhere(s)'
  BY DEF Nowhere, Fewer
<1>4. ASSUME Routed(s), calls[s].from # e PROVE Routed(s)'
  <2>1. calls'[s].from = calls[s].from /\ calls'[s].via = calls[s].via
    BY <1>1 DEF Call
  <2>2. \A c \in Conns : Of(to_server[c], s)' \cup Of(to_client[c], s)' # {} =>
           (Online(c)' /\ told'[c] = NoId => Online(c) /\ told[c] = NoId)
    OBVIOUS
  <2>3. calls[s].from \in Conns /\ told[calls[s].from] # NoId =>
           told'[calls[s].from] = told[calls[s].from]
    BY <1>4
  <2> QED BY <1>4, <2>1, <2>2, <2>3, RoutedKept
<1>5. CASE calls[s].fate \in {"waiting", "anonymous", "service lost"} /\ calls[s].from = e
  <2>1. calls'[s].fate = "caller lost"
    BY <1>1, <1>5 DEF Call
  <2> QED BY <1>2, <2>1 DEF CallRight
<1>6. CASE calls[s].fate = "waiting" /\ calls[s].from # e /\ calls[s].via = e
  <2>1. calls'[s].fate = "service lost"
    BY <1>1, <1>6 DEF Call
  <2> QED BY <1>2, <1>4, <1>6, <2>1 DEF CallRight
<1>7. CASE calls[s].fate \in {"none", "answered", "refused", "caller lost"}
  <2>1. calls'[s] = calls[s]
    BY <1>1, <1>7
  <2>2. Nowhere(s)' => Routed(s)'
    BY DEF Nowhere, Routed
  <2> QED BY <1>2, <1>3, <1>7, <2>1, <2>2 DEF CallRight
<1>8. CASE calls[s].fate = "waiting" /\ calls[s].from # e /\ calls[s].via # e
  <2>1. calls'[s] = calls[s] /\ Routed(s) /\ Waits(s)
    BY <1>1, <1>8 DEF CallRight
  <2>2. /\ calls[s].from \in Conns
        /\ \A c \in Conns : Of(to_server[c], s) \cup Of(to_client[c], s) # {} =>
             c \in {calls[s].from, calls[s].via}
    BY <2>1, WaitingAt
  <2>3. Of(to_server[e], s) = {} /\ Of(to_client[e], s) = {}
    BY <1>8, <2>2
  <2>4. Same(s)
    BY <2>3 DEF Same, Fewer
  <2>5. calls[s].via # NoConn => calls[s].via \in Conns
    BY <1>1 DEF Call, AnyConn
  <2>6. Waits(s)'
    BY <1>8, <2>1, <2>2, <2>4, <2>5, WaitsKept
  <2> QED BY <1>2, <1>4, <1>8, <2>1, <2>6 DEF CallRight
<1>9. CASE calls[s].fate \in {"anonymous", "service lost"} /\ calls[s].from # e
  <2>1. calls'[s] = calls[s]
    BY <1>1, <1>9
  <2> QED BY <1>2, <1>4, <1>9, <2>1 DEF CallRight
<1>10. calls[s].fate \in {"none", "waiting", "anonymous", "answered", "refused",
                          "service lost", "caller lost"}
  BY <1>1 DEF Call
<1> QED BY <1>5, <1>6, <1>7, <1>8, <1>9, <1>10

LEMMA CallLost ==
    ASSUME CallBase, NEW k \in Clients, LoseConnection(k), NEW s \in Sessions, CallRight(s)
    PROVE  CallRight(s)'
<1> DEFINE e == peer[k]
<1>1. /\ Connected(k) /\ Break(e) /\ told' = told /\ status' = status
      /\ to_server' = to_server
      /\ peer' = [peer EXCEPT ![k] = NoConn]
      /\ to_client' = [to_client EXCEPT ![e] = <<>>]
  BY DEF LoseConnection, ConnectionLost, vars, connVars
<1>2. e \in Conns
  BY <1>1 DEF Connected, CallBase, QueueInv, AnyConn
<1> HIDE DEF e
<1>3. to_client'[e] = <<>> /\ \A d \in Conns : d # e => to_client'[d] = to_client[d]
  BY <1>1, <1>2 DEF CallBase, QueueInv
<1>4. Of(to_client'[e], s) = {} /\ Once(to_client'[e], s)
  BY <1>3, OfEmpty
<1>5. Fewer(s)
  BY <1>1, <1>3, <1>4 DEF Fewer
<1>6. ASSUME NEW d \in Conns, d # e, ~Orphan(d) PROVE ~Orphan(d)'
  <2>1. PICK j \in Clients : peer[j] = d
    BY <1>6 DEF Orphan
  <2>2. peer'[j] = d
    BY <1>1, <1>6, <2>1 DEF e, CallBase, QueueInv
  <2> QED BY <2>2 DEF Orphan
<1>7. \A d \in Conns : Online(d)' <=> Online(d)
  BY <1>1 DEF Online
<1> QED BY <1>1, <1>2, <1>3, <1>5, <1>6, <1>7, CallBroken

LEMMA CallClosed ==
    ASSUME CallBase, NEW c \in Conns, CloseConnection(c), NEW s \in Sessions, CallRight(s)
    PROVE  CallRight(s)'
<1>1. /\ Break(c) /\ peer' = peer /\ to_client' = to_client
      /\ told' = [told EXCEPT ![c] = NoId]
      /\ status' = [status EXCEPT ![c] = "closed"]
      /\ to_server' = [to_server EXCEPT ![c] = <<>>]
  BY DEF CloseConnection, ServerClosed, OnConnectionClosed
<1>2. to_server'[c] = <<>> /\ \A d \in Conns : d # c => to_server'[d] = to_server[d]
  BY <1>1 DEF CallBase, QueueInv
<1>3. Of(to_server'[c], s) = {} /\ Once(to_server'[c], s)
  BY <1>2, OfEmpty
<1>4. Fewer(s)
  BY <1>1, <1>2, <1>3 DEF Fewer
<1>5. /\ ~Online(c)'
      /\ \A d \in Conns : d # c => told'[d] = told[d] /\ (Online(d)' <=> Online(d))
  BY <1>1 DEF CallBase, QueueInv, TypeOK, Online
<1>6. \A d \in Conns : ~Orphan(d) => ~Orphan(d)'
  BY <1>1 DEF Orphan
<1> QED BY <1>1, <1>2, <1>4, <1>5, <1>6, CallBroken

-----------------------------------------------------------------------------
(* The steps that touch no call.                                           *)
LEMMA OnwardSame ==
    ASSUME UNCHANGED vars, peer' = peer PROVE Onward
<1>1. told' = told /\ status' = status
  BY DEF vars, connVars
<1> QED BY <1>1 DEF Onward, Online

LEMMA CallRegistered ==
    ASSUME CallBase, NEW c \in Conns, ServerRegisters(c), NEW s \in Sessions, CallRight(s)
    PROVE  CallRight(s)'
<1>1. PICK r \in Request :
         /\ r.role \in AskedRoles
         /\ Head(to_server[c]) = [cmd |-> "REG", reg |-> r]
         /\ Registers(c, r) \/ (UNCHANGED vars /\ Answer(c, Error("REG")))
  BY RegisterCasesOfTraffic DEF CallBase
<1>2. /\ to_server[c] # <<>> /\ calls' = calls
      /\ peer' = peer
      /\ ~OfSession(Head(to_server[c]), s)
  BY <1>1 DEF ServerRegisters, Registers, Answer, OfSession, OfService
<1>3. ASSUME NEW result \in Downward, ~OfService(result), Answer(c, result), Onward
      PROVE  CallRight(s)'
  <2>1. Same(s) /\ Fewer(s)
    BY <1>2, <1>3, AnswerKept DEF CallBase
  <2> QED BY <1>2, <1>3, <2>1, CallKept
<1>4. CASE UNCHANGED vars /\ Answer(c, Error("REG"))
  <2>1. Error("REG") \in Downward /\ ~OfService(Error("REG"))
    BY DEF Error, Downward, AnyId, OfService
  <2> QED BY <1>2, <1>3, <1>4, <2>1, OnwardSame
<1>5. CASE Registers(c, r)
  <2> DEFINE result == [cmd |-> "REG", ok |-> TRUE, id |-> told'[c],
                        role |-> ReportedRole(r, told'[c])]
  <2>1. TypeOK /\ Register(c, r)
    BY <1>5 DEF CallBase, QueueInv, Registers
  <2>2. PICK i \in Ids : told' = [told EXCEPT ![c] = i] /\ (r.id # NoId => i = r.id)
    BY <2>1, RegisterTells
  <2>3. told'[c] = i /\ \A d \in Conns : d # c => told'[d] = told[d]
    BY <2>1, <2>2 DEF TypeOK
  <2>4. result \in Downward /\ ~OfService(result)
    BY <1>1, <2>3 DEF Downward, ReportedRole, AnyId, OfService
  <2>5. Answer(c, result)
    BY <1>5 DEF Registers
  <2> HIDE DEF result
  <2>6. told[c] = NoId
    <3>1. to_server[c] \in Seq(Upward)
      BY DEF CallBase, QueueInv
    <3>2. 1 \in DOMAIN to_server[c] /\ to_server[c][1].cmd = "REG"
      BY <1>1, <1>2, <3>1
    <3> QED BY <3>2 DEF CallBase, RegFirst
  <2>7. \A d \in Conns : Online(d)' <=> Online(d)
    BY <2>1, RegisterTells
  <2>8. Onward
    BY <1>2, <2>2, <2>3, <2>6, <2>7, RegistryAssumption DEF Onward, RegistryAssumption
  <2> QED BY <1>3, <2>4, <2>5, <2>8
<1> QED BY <1>1, <1>4, <1>5

LEMMA CallFiltering ==
    ASSUME CallBase, NEW c \in Conns, ServerFilters(c), NEW s \in Sessions, CallRight(s)
    PROVE  CallRight(s)'
<1> DEFINE cmd == Head(to_server[c]).cmd
<1>1. to_server[c] # <<>> /\ cmd \in FilterNames
  BY FilterCases DEF ConsoleCommand, CallBase
<1> HIDE DEF cmd
<1>2. [Error(cmd) EXCEPT !.ok = TRUE] \in Downward /\ Error(cmd) \in Downward
  BY <1>1 DEF Error, Downward, AnyId
<1>3. [Error(cmd) EXCEPT !.ok = TRUE].cmd = cmd /\ Error(cmd).cmd = cmd
  BY DEF Error
<1>4. PICK result \in Downward : Answer(c, result) /\ result.cmd = cmd
  BY <1>2, <1>3, FilterCases DEF cmd, CallBase
<1>5. ~OfService(result) /\ ~OfSession(Head(to_server[c]), s)
  BY <1>1, <1>4 DEF OfService, OfSession, cmd, FilterNames
<1>6. UNCHANGED vars
  BY FilterCases, RegistryUntouched DEF routingVars, CallBase
<1>7. peer' = peer /\ calls' = calls
  BY <1>4 DEF Answer, ServerFilters
<1>8. Same(s) /\ Fewer(s)
  BY <1>1, <1>4, <1>5, AnswerKept DEF CallBase
<1> QED BY <1>6, <1>7, <1>8, OnwardSame, CallKept

(* What a client sends and reads that is not of the session.               *)
LEMMA CallBeside ==
    ASSUME CallBase, NEW k \in Clients, Connected(k), NEW s \in Sessions, CallRight(s),
           UNCHANGED vars, peer' = peer, calls'[s] = calls[s],
           \/ to_server' = to_server
           \/ \E x \in Upward :
                /\ ~OfSession(x, s)
                /\ to_server' = [to_server EXCEPT ![peer[k]] = Append(@, x)],
           \/ to_client' = to_client
           \/ /\ to_client[peer[k]] # <<>>
              /\ ~OfSession(Head(to_client[peer[k]]), s)
              /\ to_client' = [to_client EXCEPT ![peer[k]] = Tail(@)]
    PROVE  CallRight(s)'
<1>1. peer[k] \in Conns
  BY DEF Connected, CallBase, QueueInv, AnyConn
<1>2. to_server \in [Conns -> Seq(Upward)] /\ to_client \in [Conns -> Seq(Downward)]
  BY DEF CallBase, QueueInv
<1>3. ASSUME NEW d \in Conns PROVE Kept(to_server[d], to_server'[d], s)
  <2>1. CASE to_server' = to_server
    BY <2>1 DEF Kept
  <2>2. ASSUME NEW x \in Upward, ~OfSession(x, s),
               to_server' = [to_server EXCEPT ![peer[k]] = Append(@, x)]
        PROVE  Kept(to_server[d], to_server'[d], s)
    BY <1>1, <1>2, <2>2, AppendKept
  <2> QED BY <2>1, <2>2
<1>4. ASSUME NEW d \in Conns PROVE Kept(to_client[d], to_client'[d], s)
  <2>1. CASE to_client' = to_client
    BY <2>1 DEF Kept
  <2>2. CASE /\ to_client[peer[k]] # <<>>
             /\ ~OfSession(Head(to_client[peer[k]]), s)
             /\ to_client' = [to_client EXCEPT ![peer[k]] = Tail(@)]
    BY <1>1, <1>2, <2>2, TailKept
  <2> QED BY <2>1, <2>2
<1>5. Same(s) /\ Fewer(s)
  BY <1>3, <1>4, KeptAll
<1> QED BY <1>5, OnwardSame, CallKept

LEMMA CallUntouched ==
    ASSUME NEW s, CallRight(s), UNCHANGED vars,
           peer' = peer, to_server' = to_server, to_client' = to_client, calls' = calls
    PROVE  CallRight(s)'
<1>1. Same(s) /\ Fewer(s)
  BY KeptAll DEF Kept
<1> QED BY <1>1, OnwardSame, CallKept

LEMMA CallConsole ==
    ASSUME Covered, TrafficAssumption, CallBase, NEW k \in Clients, ConsoleFilter(k),
           NEW s \in Sessions, CallRight(s)
    PROVE  CallRight(s)'
<1>1. PICK command \in FilterCommands[k] : Post(k, command)
  BY DEF ConsoleFilter
<1>2. command \in Upward /\ ~OfSession(command, s)
  BY FilterSent, TrafficAssumption DEF TrafficAssumption, OfSession, OfService
<1>3. UNCHANGED vars /\ peer' = peer /\ to_client' = to_client /\ calls' = calls
  BY DEF ConsoleFilter
<1>4. CASE Connected(k)
  BY <1>1, <1>2, <1>3, <1>4, CallBeside DEF Post
<1>5. CASE ~Connected(k)
  BY <1>1, <1>3, <1>5, CallUntouched DEF Post
<1> QED BY <1>4, <1>5

LEMMA CallReadsResult ==
    ASSUME CallBase, NEW k \in Clients, ClientReadsResult(k), NEW s \in Sessions, CallRight(s)
    PROVE  CallRight(s)'
<1>1. /\ Connected(k) /\ to_client[peer[k]] # <<>>
      /\ ~OfSession(Head(to_client[peer[k]]), s)
      /\ to_client' = [to_client EXCEPT ![peer[k]] = Tail(@)]
      /\ UNCHANGED vars /\ peer' = peer /\ to_server' = to_server /\ calls' = calls
  BY DEF ClientReadsResult, HandleCommandResult, OfSession
<1> QED BY <1>1, CallBeside

-----------------------------------------------------------------------------
(* A call is made: its session was in no queue.                            *)
LEMMA CallRequested ==
    ASSUME CallBase, NEW k \in Clients, NEW s \in Sessions, NEW t \in SvcTypes,
           NEW svc_cmd \in MsgTypes, RequestService(k, s, t, svc_cmd),
           NEW u \in Sessions, CallRight(u)
    PROVE  CallRight(u)'
<1> DEFINE x == [cmd |-> "SVC", source |-> SourceOf(k), sess_id |-> s,
                 svc_type |-> t, svc_cmd |-> svc_cmd, ok |-> TRUE]
           call == [by |-> k, from |-> peer[k], via |-> NoConn,
                    fate |-> IF context[k].endpoint_id = NoId THEN "anonymous" ELSE "waiting"]
<1>1. /\ x \in Upward /\ OfSession(x, s) /\ x.cmd = "SVC"
      /\ x.source = context[k].endpoint_id
      /\ \A v : OfSession(x, v) => v = s
  BY DEF Upward, SvcMessage, SourceOf, CallBase, QueueInv, Context, OfSession, OfService
<1>2. /\ Connected(k) /\ to_server' = [to_server EXCEPT ![peer[k]] = Append(@, x)]
      /\ UNCHANGED vars /\ peer' = peer /\ to_client' = to_client
      /\ calls' = [calls EXCEPT ![s] = call] /\ calls[s].fate = "none"
  BY DEF RequestService, Post
<1>3. /\ call.from = peer[k] /\ call.via = NoConn
      /\ call.fate \in {"anonymous", "waiting"}
      /\ call.fate = "waiting" => context[k].endpoint_id # NoId
  OBVIOUS
<1> HIDE DEF x, call
<1>4. CASE u # s
  <2>1. ~OfSession(x, u) /\ calls'[u] = calls[u]
    BY <1>1, <1>2, <1>4 DEF CallBase
  <2> QED BY <1>1, <1>2, <2>1, CallBeside
<1>5. CASE u = s
  <2>1. Nowhere(s) /\ OnePlace(s)
    BY <1>2, <1>5 DEF CallRight
  <2>2. peer[k] \in Conns /\ to_server \in [Conns -> Seq(Upward)]
    BY <1>2 DEF Connected, CallBase, QueueInv, AnyConn
  <2>3. ASSUME NEW d \in Conns
        PROVE  /\ Of(to_server'[d], s) = IF d = peer[k] THEN {x} ELSE {}
               /\ Once(to_server'[d], s)
               /\ Of(to_client'[d], s) = {} /\ Once(to_client'[d], s)
    <3>1. /\ Of(to_server[d], s) = {} /\ Once(to_server[d], s)
          /\ Of(to_client[d], s) = {} /\ Once(to_client[d], s)
      BY <2>1 DEF Nowhere, OnePlace
    <3>2. /\ Of(to_server'[d], s) = IF d = peer[k] THEN {x} ELSE {}
          /\ Once(to_server'[d], s)
      BY <1>1, <1>2, <2>2, <3>1, AppendKept
    <3> QED BY <1>2, <3>1, <3>2
  <2>4. OnePlace(s)'
    BY <2>3, OnePlaceAlone
  <2>5. calls'[s] = call
    BY <1>2 DEF CallBase
  <2>6. Routed(s)'
    BY <1>1, <1>3, <2>3, <2>5 DEF Routed
  <2>7. ASSUME call.fate = "waiting" PROVE Waits(s)'
    <3>1. x.source # NoId
      BY <1>1, <1>3, <2>7
    <3>2. ~Orphan(calls[s].from)'
      BY <1>2, <1>3, <2>5 DEF Orphan
    <3>3. \A c \in Conns : \A y \in Of(to_server'[c], s) \cup Of(to_client'[c], s) :
             y.source # NoId
      BY <2>3, <3>1
    <3>4. \E c \in Conns : Of(to_server'[c], s) # {} \/ Of(to_client'[c], s) # {}
      BY <2>2, <2>3
    <3>5. calls'[s].via = NoConn
      BY <1>3, <2>5
    <3> QED BY <3>2, <3>3, <3>4, <3>5 DEF Waits
  <2> QED BY <1>3, <1>5, <2>4, <2>5, <2>6, <2>7 DEF CallRight
<1> QED BY <1>4, <1>5

(* The service answers in the message it has read.                         *)
LEMMA CallServed ==
    ASSUME CallBase, NEW k \in Clients, ClientServes(k), NEW u \in Sessions, CallRight(u)
    PROVE  CallRight(u)'
<1>1. PICK c \in Conns : c = peer[k]
  BY HeadDownward DEF ClientServes, CallBase
<1>2. PICK x \in SvcMessage : x = Head(to_client[c]) /\ x.cmd = "SVC"
  <2>1. Head(to_client[c]) \in Downward /\ Head(to_client[c]).cmd = "SVC"
    BY <1>1, HeadDownward DEF ClientServes, CallBase
  <2>2. Head(to_client[c]) \in SvcMessage
    BY <2>1 DEF Downward, FilterNames
  <2> QED BY <2>1, <2>2
<1>3. PICK answer \in ServiceAnswer(k, x) :
        to_server' = [to_server EXCEPT ![c] = Append(@, answer)]
  BY <1>1, <1>2 DEF ClientServes
<1>4. /\ answer \in Upward /\ answer.cmd = "SVC_RSP" /\ answer.sess_id = x.sess_id
      /\ answer.source = x.source
  <2>1. PICK ok \in BOOLEAN : answer = [x EXCEPT !.cmd = "SVC_RSP", !.ok = ok]
    BY <1>3 DEF ServiceAnswer
  <2>2. /\ answer \in SvcMessage /\ answer.cmd = "SVC_RSP" /\ answer.sess_id = x.sess_id
        /\ answer.source = x.source
    BY <2>1 DEF SvcMessage
  <2> QED BY <2>2 DEF Upward
<1>5. /\ Connected(k) /\ to_client[c] # <<>>
      /\ to_client' = [to_client EXCEPT ![c] = Tail(@)]
      /\ UNCHANGED vars /\ peer' = peer /\ calls' = calls
  BY <1>1 DEF ClientServes
<1>6. \A v : (OfSession(x, v) <=> v = x.sess_id) /\ (OfSession(answer, v) <=> v = x.sess_id)
  BY <1>2, <1>4 DEF OfSession, OfService
<1>7. CASE u # x.sess_id
  <2>1. ~OfSession(x, u) /\ ~OfSession(answer, u)
    BY <1>6, <1>7
  <2> QED BY <1>1, <1>2, <1>3, <1>4, <1>5, <2>1, CallBeside
<1>8. CASE u = x.sess_id
  <2>1. to_server \in [Conns -> Seq(Upward)] /\ to_client \in [Conns -> Seq(Downward)]
    BY DEF CallBase, QueueInv
  <2>2. x \in Of(to_client[c], u)
    BY <1>2, <1>5, <1>6, <1>8, <2>1, OfTail
  <2>3. OnePlace(u) /\ calls[u].fate \notin {"none", "answered", "refused"}
    BY <2>2 DEF CallRight, Nowhere
  <2>4. ASSUME NEW d \in Conns
        PROVE  /\ d # c => Of(to_client[d], u) = {}
               /\ Of(to_server[d], u) = {}
               /\ Once(to_server[d], u) /\ Once(to_client[d], u)
    BY <2>2, <2>3, HeadAlone DEF OnePlace
  <2>5. ASSUME NEW d \in Conns
        PROVE  /\ Of(to_server'[d], u) = IF d = c THEN {answer} ELSE {}
               /\ Once(to_server'[d], u)
    BY <1>3, <1>4, <1>6, <1>8, <2>1, <2>4, AppendKept
  <2>6. ASSUME NEW d \in Conns
        PROVE  Of(to_client'[d], u) = {} /\ Once(to_client'[d], u)
    BY <1>2, <1>5, <1>6, <1>8, <2>1, <2>4, TailKept
  <2>7. OnePlace(u)'
    BY <2>5, <2>6, OnePlaceAlone
  <2>8. told' = told /\ status' = status /\ \A d : Orphan(d)' <=> Orphan(d)
    BY <1>5 DEF vars, connVars, Orphan
  <2>9. ASSUME Routed(u) PROVE Routed(u)'
    <3>1. Passed(u, c, x)
      BY <1>2, <2>2, <2>9 DEF Routed
    <3>2. Passed(u, c, answer)'
      BY <1>4, <1>5, <2>8, <3>1 DEF Passed, Online
    <3> QED BY <1>4, <2>5, <2>6, <3>2 DEF Routed
  <2>10. ASSUME Waits(u) PROVE Waits(u)'
    <3>1. x.source # NoId /\ ~Orphan(calls[u].from)
          /\ (calls[u].via # NoConn => ~Orphan(calls[u].via))
      BY <2>2, <2>10 DEF Waits
    <3>2. \A d \in Conns : \A y \in Of(to_server'[d], u) \cup Of(to_client'[d], u) :
             y.source # NoId
      BY <1>4, <2>5, <2>6, <3>1
    <3>3. \E d \in Conns : Of(to_server'[d], u) # {} \/ Of(to_client'[d], u) # {}
      BY <2>5
    <3> QED BY <1>5, <2>8, <3>1, <3>2, <3>3 DEF Waits
  <2> QED BY <1>5, <2>3, <2>7, <2>9, <2>10 DEF CallRight
<1> QED BY <1>7, <1>8

(* The caller reads the answer, and the session is over.                   *)
LEMMA CallAnswered ==
    ASSUME CallBase, NEW k \in Clients, ClientReadsAnswer(k), NEW u \in Sessions, CallRight(u)
    PROVE  CallRight(u)'
<1>1. PICK c \in Conns : c = peer[k]
  BY HeadDownward DEF ClientReadsAnswer, CallBase
<1>2. PICK x \in SvcMessage : x = Head(to_client[c]) /\ x.cmd = "SVC_RSP"
  <2>1. Head(to_client[c]) \in Downward /\ Head(to_client[c]).cmd = "SVC_RSP"
    BY <1>1, HeadDownward DEF ClientReadsAnswer, CallBase
  <2>2. Head(to_client[c]) \in SvcMessage
    BY <2>1, Zenon DEF Downward, FilterNames
  <2> QED BY <2>1, <2>2
<1>3. /\ Connected(k) /\ to_client[c] # <<>>
      /\ to_client' = [to_client EXCEPT ![c] = Tail(@)]
      /\ UNCHANGED vars /\ peer' = peer /\ to_server' = to_server
  BY <1>1 DEF ClientReadsAnswer
<1>4. LET s == x.sess_id
      IN calls' = IF calls[s].from # c \/ calls[s].fate = "caller lost" THEN calls
                  ELSE [calls EXCEPT ![s].fate = IF x.ok THEN "answered" ELSE "refused"]
  BY <1>1, <1>2 DEF ClientReadsAnswer
<1>5. \A v : OfSession(x, v) <=> v = x.sess_id
  BY <1>2 DEF OfSession, OfService
<1>6. CASE u # x.sess_id
  <2>1. ~OfSession(x, u) /\ calls'[u] = calls[u]
    BY <1>4, <1>5, <1>6 DEF CallBase
  <2> QED BY <1>1, <1>2, <1>3, <2>1, CallBeside
<1>7. CASE u = x.sess_id
  <2>1. to_client \in [Conns -> Seq(Downward)]
    BY DEF CallBase, QueueInv
  <2>2. x \in Of(to_client[c], u)
    BY <1>2, <1>3, <1>5, <1>7, <2>1, OfTail
  <2>3. OnePlace(u)
    BY DEF CallRight
  <2>4. ASSUME NEW d \in Conns
        PROVE  /\ Of(to_server'[d], u) = {} /\ Once(to_server'[d], u)
               /\ Of(to_client'[d], u) = {} /\ Once(to_client'[d], u)
    <3>1. /\ d # c => Of(to_client[d], u) = {}
          /\ Of(to_server[d], u) = {}
          /\ Once(to_server[d], u) /\ Once(to_client[d], u)
      BY <2>2, <2>3, HeadAlone DEF OnePlace
    <3>2. Of(to_client'[d], u) = {} /\ Once(to_client'[d], u)
      BY <1>2, <1>3, <1>5, <1>7, <2>1, <3>1, TailKept
    <3> QED BY <1>3, <3>1, <3>2
  <2>5. OnePlace(u)' /\ Nowhere(u)' /\ Routed(u)'
    BY <2>4 DEF OnePlace, Nowhere, Routed
  <2>6. CASE calls[u].fate = "caller lost"
    BY <1>4, <1>7, <2>5, <2>6 DEF CallRight
  <2>7. CASE calls[u].fate # "caller lost"
    <3>1. calls[u].from = c
      BY <1>2, <2>2, <2>7 DEF CallRight, Routed
    <3>2. calls' = [calls EXCEPT ![u].fate = IF x.ok THEN "answered" ELSE "refused"]
      BY <1>4, <1>7, <2>7, <3>1
    <3>3. calls'[u].fate \in {"answered", "refused"}
      BY <3>2 DEF CallBase, Call
    <3> QED BY <2>5, <3>3 DEF CallRight
  <2> QED BY <2>6, <2>7
<1> QED BY <1>6, <1>7

-----------------------------------------------------------------------------
(* What the server does with a request and with an answer.                 *)
LEMMA ServeChoices ==
    ASSUME NEW c \in Conns, ServerServes(c), NEW x, x = Head(to_server[c])
    PROVE  /\ UNCHANGED vars /\ x.cmd = "SVC"
           /\ \/ /\ \E call \in {calls[x.sess_id], Assigned(calls[x.sess_id], NoConn)} :
                      calls' = [calls EXCEPT ![x.sess_id] = call]
                 /\ Deliver(c, {c}, Refusal(x))
              \/ calls' = calls /\ Deliver(c, {c}, Refusal(x))
              \/ \E o \in Servers(x.svc_type) :
                   /\ Acts(c)
                   /\ calls' = [calls EXCEPT ![x.sess_id] = Assigned(@, ep[o].conn)]
                   /\ Deliver(c, {ep[o].conn}, x)
<1>1. x.cmd = "SVC"
  BY DEF ServerServes
<1>2. CASE ~Acts(c) /\ UNCHANGED <<vars, calls>> /\ Deliver(c, {c}, Refusal(x))
  BY <1>1, <1>2
<1>3. CASE /\ ServiceRequest(c, x.svc_type, x.svc_cmd)
           /\ Pass(c, x)
           /\ \E d \in IF sent'.to = {} THEN {NoConn} ELSE {ep[o].conn : o \in sent'.to} :
                  calls' = [calls EXCEPT ![x.sess_id] = Assigned(@, d)]
  <2>1. PICK able \in Recipients(c, Servers(x.svc_type), x.svc_cmd) :
        \E to \in IF able = {} THEN {{}} ELSE {{o} : o \in able} :
          Send("SVC", c, x.svc_type, x.svc_cmd, {}, to)
    BY <1>3 DEF ServiceRequest
  <2>2. able \subseteq Servers(x.svc_type) /\ Acts(c)
    BY <1>3 DEF Recipients, ServiceRequest
  <2>3. UNCHANGED vars /\ (sent'.to = {} \/ \E o \in able : sent'.to = {o})
    BY <2>1 DEF Send
  <2>4. CASE sent'.to = {}
    BY <1>1, <1>3, <2>3, <2>4 DEF Pass
  <2>5. ASSUME NEW o \in able, sent'.to = {o}
        PROVE  /\ calls' = [calls EXCEPT ![x.sess_id] = Assigned(@, ep[o].conn)]
               /\ Deliver(c, {ep[o].conn}, x)
    <3>1. {ep[p].conn : p \in sent'.to} = {ep[o].conn} /\ sent'.to # {}
      BY <2>5
    <3> QED BY <1>3, <3>1 DEF Pass
  <2> QED BY <1>1, <2>2, <2>3, <2>4, <2>5
<1> QED BY <1>2, <1>3 DEF ServerServes

LEMMA AnswerChoices ==
    ASSUME NEW c \in Conns, ServerAnswers(c), NEW x, x = Head(to_server[c])
    PROVE  /\ UNCHANGED vars /\ x.cmd = "SVC_RSP" /\ calls' = calls
           /\ \/ /\ x.source \in Ids
                 /\ Deliver(c, {ep[o].conn : o \in Under(endpoints, {x.source})}, x)
              \/ x.source = NoId /\ Deliver(c, {}, x)
              \/ ~Acts(c) /\ Deliver(c, {c}, Refusal(x))
<1>1. x.cmd = "SVC_RSP" /\ calls' = calls
  BY DEF ServerAnswers
<1>2. CASE /\ x.source \in Ids
           /\ ServiceResponse(c, x.svc_type, x.svc_cmd, x.source)
           /\ Deliver(c, {ep[o].conn : o \in sent'.to}, x)
  <2>1. UNCHANGED vars /\ sent'.to = Under(endpoints, {x.source})
    BY <1>2 DEF ServiceResponse, Send
  <2> QED BY <1>1, <1>2, <2>1
<1>3. CASE \/ x.source = NoId /\ UNCHANGED vars /\ Deliver(c, {}, x)
           \/ ~Acts(c) /\ UNCHANGED vars /\ Deliver(c, {c}, Refusal(x))
  BY <1>1, <1>3
<1> QED BY <1>2, <1>3 DEF ServerAnswers

(* The message of another session stays where it is.                       *)
LEMMA CallBesideServer ==
    ASSUME CallBase, NEW c \in Conns, to_server[c] # <<>>, NEW x \in SvcMessage,
           x = Head(to_server[c]), NEW out \in {x, Refusal(x)}, NEW to, Deliver(c, to, out),
           UNCHANGED vars, NEW u \in Sessions, u # x.sess_id, calls'[u] = calls[u],
           CallRight(u)
    PROVE  CallRight(u)'
<1>1. out \in SvcMessage /\ ~OfSession(x, u) /\ ~OfSession(out, u)
  BY DEF SvcMessage, Refusal, OfSession
<1>2. Same(u) /\ Fewer(u)
  BY <1>1, DeliverKept DEF CallBase
<1>3. peer' = peer
  BY DEF Deliver
<1> QED BY <1>2, <1>3, OnwardSame, CallKept

(* The services that a request is offered to are registered.               *)
LEMMA ServersConnected ==
    ASSUME CallBase, NEW t \in SvcTypes, NEW o \in Servers(t)
    PROVE  ep[o].conn \in Conns /\ told[ep[o].conn] # NoId
<1>1. \A v \in SvcTypes : \A p \in service_endpoints[v] : \E i \in Ids : endpoints[i] = p
  BY DEF CallBase, ServiceIndexExact
<1>2. PICK i \in Ids : endpoints[i] = o
  BY <1>1, RegistryAssumption DEF Servers, RegistryAssumption
<1>3. o # NoEp
  BY RegistryAssumption DEF CallBase, ServiceIndexExact, Servers, RegistryAssumption
<1>4. ep[o].conn \in Conns /\ told[ep[o].conn] = i
  BY <1>2, <1>3 DEF CallBase, OneId
<1> QED BY <1>4, RegistryAssumption DEF RegistryAssumption

LEMMA AssignedFields ==
    ASSUME NEW call \in Call, NEW d
    PROVE  /\ Assigned(call, d).via = d /\ Assigned(call, d).from = call.from
           /\ call.fate = "waiting" /\ d # NoConn /\ Orphan(d) =>
                Assigned(call, d).fate = "service lost"
           /\ ~(call.fate = "waiting" /\ d # NoConn /\ Orphan(d)) =>
                Assigned(call, d).fate = call.fate
<1> DEFINE fate == IF call.fate = "waiting" /\ d # NoConn /\ Orphan(d)
                   THEN "service lost" ELSE call.fate
<1>1. Assigned(call, d) = [call EXCEPT !.via = d, !.fate = fate]
  BY DEF Assigned
<1> HIDE DEF fate
<1>2. [call EXCEPT !.via = d, !.fate = fate].via = d
  BY DEF Call
<1>3. [call EXCEPT !.via = d, !.fate = fate].from = call.from
  BY DEF Call
<1>4. [call EXCEPT !.via = d, !.fate = fate].fate = fate
  BY DEF Call
<1> QED BY <1>1, <1>2, <1>3, <1>4 DEF fate

(* A request is refused: back to the connection it came from.              *)
LEMMA CallRefused ==
    ASSUME CallBase, NEW c \in Conns, to_server[c] # <<>>, NEW x \in SvcMessage,
           x = Head(to_server[c]), x.cmd = "SVC", Deliver(c, {c}, Refusal(x)), UNCHANGED vars,
           NEW s, s = x.sess_id, CallRight(s),
           calls'[s].from = calls[s].from,
           calls'[s].via \in {NoConn, calls[s].via},
           calls'[s].fate = calls[s].fate
    PROVE  CallRight(s)'
<1> DEFINE out == Refusal(x)
<1>1. /\ out \in SvcMessage /\ out.cmd = "SVC_RSP"
      /\ out.source = x.source /\ OfSession(x, s) /\ OfSession(out, s)
  BY DEF SvcMessage, Refusal, OfSession, OfService
<1> HIDE DEF out
<1>2. Moved(s, {c}, out) /\ x \in Of(to_server[c], s)
  <2>1. OnePlace(s) /\ Deliver(c, {c}, out)
    BY DEF CallRight, out
  <2>2. QueueInv /\ OfSession(Head(to_server[c]), s)
    BY <1>1 DEF CallBase
  <2> QED BY <1>1, <2>1, <2>2, DeliverMoves
<1>3. calls[s].fate \notin {"none", "answered", "refused"}
  BY <1>2 DEF CallRight, Nowhere
<1>4. OnePlace(s)'
  BY <1>2, MovedAlone
<1>5. \A d : Orphan(d)' <=> Orphan(d)
  BY DEF Deliver, Orphan
<1>6. ASSUME Routed(s) PROVE calls[s].from = c
  BY <1>2, <1>6 DEF Routed
<1>7. ASSUME Routed(s) PROVE Routed(s)'
  <2>1. calls'[s].from = c
    BY <1>6, <1>7
  <2>2. \A d \in Conns : /\ Of(to_server'[d], s) = {}
                         /\ \A y \in Of(to_client'[d], s) : d = c /\ y = out
    BY <1>2 DEF Moved
  <2> QED BY <1>1, <2>1, <2>2 DEF Routed
<1>8. ASSUME Routed(s), Waits(s) PROVE Waits(s)'
  <2>1. x.source # NoId /\ ~Orphan(c)
    BY <1>2, <1>6, <1>8 DEF Waits
  <2>2. \A d \in Conns : \A y \in Of(to_server'[d], s) \cup Of(to_client'[d], s) :
           y.source # NoId
    <3>1. \A d \in Conns : \A y \in Of(to_server'[d], s) \cup Of(to_client'[d], s) : y = out
      BY <1>2, MovedOnly
    <3> QED BY <1>1, <2>1, <3>1
  <2>3. \E d \in Conns : Of(to_server'[d], s) # {} \/ Of(to_client'[d], s) # {}
    BY <1>2, <2>1 DEF Moved
  <2>4. ~Orphan(calls[s].from)'
    BY <1>5, <1>6, <1>8, <2>1
  <2>5. calls'[s].via # NoConn => ~Orphan(calls[s].via)'
    BY <1>5, <1>8 DEF Waits
  <2> QED BY <2>2, <2>3, <2>4, <2>5 DEF Waits
<1> QED BY <1>3, <1>4, <1>7, <1>8 DEF CallRight

(* A request is passed on to the connection d of a service.                *)
LEMMA CallPassed ==
    ASSUME CallBase, NEW c \in Conns, to_server[c] # <<>>, NEW x \in SvcMessage,
           x = Head(to_server[c]), x.cmd = "SVC", Acts(c), UNCHANGED vars,
           NEW d \in Conns, told[d] # NoId, Deliver(c, {d}, x),
           NEW s, s = x.sess_id, calls' = [calls EXCEPT ![s] = Assigned(@, d)],
           CallRight(s)
    PROVE  CallRight(s)'
<1>1. s \in Sessions /\ OfSession(x, s)
  BY DEF SvcMessage, OfSession, OfService
<1>2. calls[s] \in Call /\ calls'[s] = Assigned(calls[s], d) /\ d # NoConn
  BY <1>1, RegistryAssumption DEF CallBase, RegistryAssumption
<1>3. /\ calls'[s].via = d /\ calls'[s].from = calls[s].from
      /\ calls[s].fate = "waiting" /\ Orphan(d) => calls'[s].fate = "service lost"
      /\ ~(calls[s].fate = "waiting" /\ Orphan(d)) => calls'[s].fate = calls[s].fate
  <2>1. PICK call \in Call : call = calls[s] /\ calls'[s] = Assigned(call, d)
    BY <1>2
  <2>2. /\ Assigned(call, d).via = d /\ Assigned(call, d).from = call.from
        /\ call.fate = "waiting" /\ d # NoConn /\ Orphan(d) =>
             Assigned(call, d).fate = "service lost"
        /\ ~(call.fate = "waiting" /\ d # NoConn /\ Orphan(d)) =>
             Assigned(call, d).fate = call.fate
    BY AssignedFields
  <2> QED BY <1>2, <2>1, <2>2
<1>4. Moved(s, {d}, x) /\ x \in Of(to_server[c], s)
  <2>1. OnePlace(s)
    BY DEF CallRight
  <2> QED BY <1>1, <2>1, DeliverMoves DEF CallBase
<1>5. calls[s].fate \notin {"none", "answered", "refused"}
  BY <1>4 DEF CallRight, Nowhere
<1>6. OnePlace(s)'
  BY <1>4, MovedAlone
<1>7. told' = told /\ \A e : Orphan(e)' <=> Orphan(e)
  BY DEF vars, connVars, Deliver, Orphan
<1>8. x.source # NoId => told[c] = x.source
  <2>1. told[c] # NoId
    BY RegistryAssumption DEF CallBase, OneId, Acts, Acting, Lookup, RegistryAssumption
  <2>2. x \in Elems(to_server[c])
    BY <1>4 DEF Of
  <2> QED BY <2>1, <2>2 DEF CallBase, IdInv, SourcesTold
<1>9. ASSUME Routed(s) PROVE Routed(s)'
  <2>1. calls[s].from = c
    BY <1>4, <1>9 DEF Routed
  <2>2. Passed(s, d, x)'
    BY <1>3, <1>7, <1>8, <2>1 DEF Passed
  <2>3. \A e \in Conns : /\ Of(to_server'[e], s) = {}
                         /\ \A y \in Of(to_client'[e], s) : e = d /\ y = x
    BY <1>4 DEF Moved
  <2> QED BY <2>2, <2>3 DEF Routed
<1>10. ASSUME Waits(s), ~Orphan(d) PROVE Waits(s)'
  <2>1. x.source # NoId /\ ~Orphan(calls[s].from)
    BY <1>4, <1>10 DEF Waits
  <2>2. \A e \in Conns : \A y \in Of(to_server'[e], s) \cup Of(to_client'[e], s) :
           y.source # NoId
    BY <1>4, <2>1, MovedOnly
  <2>3. \E e \in Conns : Of(to_server'[e], s) # {} \/ Of(to_client'[e], s) # {}
    BY <1>4, <1>10 DEF Moved
  <2>4. ~Orphan(calls[s].from)' /\ ~Orphan(calls[s].via)'
    BY <1>3, <1>7, <1>10, <2>1
  <2> QED BY <2>2, <2>3, <2>4 DEF Waits
<1>11. CASE calls[s].fate = "waiting" /\ Orphan(d)
  <2>1. calls'[s].fate = "service lost"
    BY <1>3, <1>11
  <2>2. Routed(s)'
    BY <1>9, <1>11 DEF CallRight
  <2> QED BY <1>6, <2>1, <2>2 DEF CallRight
<1>12. CASE ~(calls[s].fate = "waiting" /\ Orphan(d))
  BY <1>3, <1>5, <1>6, <1>9, <1>10, <1>12 DEF CallRight
<1> QED BY <1>11, <1>12

LEMMA CallServing ==
    ASSUME CallBase, NEW c \in Conns, ServerServes(c), NEW u \in Sessions, CallRight(u)
    PROVE  CallRight(u)'
<1>1. to_server[c] # <<>>
  BY DEF ServerServes
<1>2. PICK x \in SvcMessage : x = Head(to_server[c])
  BY HeadUpward, UpwardCases DEF ServerServes, CallBase
<1>3. UNCHANGED vars /\ x.cmd = "SVC" /\ x.sess_id \in Sessions /\ x.svc_type \in SvcTypes
  BY <1>2, ServeChoices DEF SvcMessage
<1>4. ASSUME NEW call, calls' = [calls EXCEPT ![x.sess_id] = call]
      PROVE  u # x.sess_id => calls'[u] = calls[u]
  BY <1>4 DEF CallBase
<1>5. CASE calls' = calls /\ Deliver(c, {c}, Refusal(x))
  <2>1. CASE u = x.sess_id
    BY <1>1, <1>2, <1>3, <1>5, <2>1, CallRefused
  <2>2. CASE u # x.sess_id
    BY <1>1, <1>2, <1>3, <1>5, <2>2, CallBesideServer
  <2> QED BY <2>1, <2>2
<1>6. CASE /\ \E call \in {calls[x.sess_id], Assigned(calls[x.sess_id], NoConn)} :
                calls' = [calls EXCEPT ![x.sess_id] = call]
           /\ Deliver(c, {c}, Refusal(x))
  <2>1. PICK call \in {calls[x.sess_id], Assigned(calls[x.sess_id], NoConn)} :
            calls' = [calls EXCEPT ![x.sess_id] = call]
    BY <1>6
  <2>2. /\ calls'[x.sess_id].from = calls[x.sess_id].from
        /\ calls'[x.sess_id].via \in {NoConn, calls[x.sess_id].via}
        /\ calls'[x.sess_id].fate = calls[x.sess_id].fate
    <3>1. PICK old \in Call : old = calls[x.sess_id] /\ calls'[x.sess_id] = call
      BY <1>3, <2>1 DEF CallBase
    <3>2. CASE call = old
      BY <3>1, <3>2
    <3>3. CASE call = Assigned(old, NoConn)
      <4>1. call.via = NoConn /\ call.from = old.from /\ call.fate = old.fate
        BY ONLY <3>3, old \in Call, AssignedFields
      <4> QED BY <3>1, <4>1
    <3> QED BY <2>1, <3>1, <3>2, <3>3
  <2>3. CASE u = x.sess_id
    BY <1>1, <1>2, <1>3, <1>6, <2>2, <2>3, CallRefused
  <2>4. CASE u # x.sess_id
    BY <1>1, <1>2, <1>3, <1>4, <1>6, <2>1, <2>4, CallBesideServer
  <2> QED BY <2>3, <2>4
<1>7. ASSUME NEW o \in Servers(x.svc_type), Acts(c),
             calls' = [calls EXCEPT ![x.sess_id] = Assigned(@, ep[o].conn)],
             Deliver(c, {ep[o].conn}, x)
      PROVE  CallRight(u)'
  <2>1. PICK d \in Conns : d = ep[o].conn /\ told[d] # NoId
    BY <1>3, ServersConnected
  <2>2. CASE u = x.sess_id
    BY <1>1, <1>2, <1>3, <1>7, <2>1, <2>2, CallPassed
  <2>3. CASE u # x.sess_id
    BY <1>1, <1>2, <1>3, <1>4, <1>7, <2>3, CallBesideServer
  <2> QED BY <2>2, <2>3
<1> QED BY <1>2, <1>5, <1>6, <1>7, ServeChoices

(* Where an answer goes: to the connection that was told the id it names.  *)
LEMMA HolderTold ==
    ASSUME CallBase, NEW i \in Ids, NEW d \in Conns, told[d] = i
    PROVE  {ep[o].conn : o \in Under(endpoints, {i})} = {d}
<1>1. connId[d] = i /\ i # NoId
  BY RegistryAssumption DEF CallBase, OneId, RegistryAssumption
<1>2. endpoints[i] # NoEp
  BY <1>1 DEF CallBase, OneHolder, Acting, Lookup
<1>3. ep[endpoints[i]].conn = d
  BY <1>1, <1>2 DEF CallBase, OneId, OneHolder
<1>4. Under(endpoints, {i}) = {endpoints[i]}
  BY <1>2 DEF Under
<1> QED BY <1>3, <1>4

(* The answer goes to the caller, wherever the server found its id.        *)
LEMMA CallReturned ==
    ASSUME CallBase, NEW c \in Conns, ServerAnswers(c), NEW u \in Sessions, CallRight(u)
    PROVE  CallRight(u)'
<1>1. to_server[c] # <<>> /\ status[c] = "open"
  BY DEF ServerAnswers
<1>2. PICK x \in SvcMessage : x = Head(to_server[c])
  BY HeadUpward, UpwardCases DEF ServerAnswers, CallBase
<1>3. UNCHANGED vars /\ x.cmd = "SVC_RSP" /\ calls' = calls
  BY <1>2, AnswerChoices
<1>4. PICK to, out :
        /\ Deliver(c, to, out)
        /\ \/ /\ x.source \in Ids /\ out = x
              /\ to = {ep[o].conn : o \in Under(endpoints, {x.source})}
           \/ x.source = NoId /\ out = x /\ to = {}
           \/ ~Acts(c) /\ to = {c} /\ out = Refusal(x)
  <2> DEFINE found == {ep[o].conn : o \in Under(endpoints, {x.source})}
  <2>1. \/ x.source \in Ids /\ Deliver(c, found, x)
        \/ x.source = NoId /\ Deliver(c, {}, x)
        \/ ~Acts(c) /\ Deliver(c, {c}, Refusal(x))
    BY <1>2, AnswerChoices
  <2> HIDE DEF found
  <2>2. \E to, out :
          /\ Deliver(c, to, out)
          /\ \/ x.source \in Ids /\ out = x /\ to = found
             \/ x.source = NoId /\ out = x /\ to = {}
             \/ ~Acts(c) /\ to = {c} /\ out = Refusal(x)
    BY ONLY <2>1
  <2> QED BY <2>2 DEF found
<1>5. CASE u # x.sess_id
  <2>1. out \in {x, Refusal(x)}
    BY <1>4
  <2> QED BY <1>1, <1>2, <1>3, <1>4, <1>5, <2>1, CallBesideServer
<1>6. CASE u = x.sess_id
  <2>1. /\ out \in SvcMessage /\ out.cmd = "SVC_RSP" /\ out.source = x.source
        /\ OfSession(x, u) /\ OfSession(out, u)
    BY <1>3, <1>4, <1>6 DEF SvcMessage, Refusal, OfSession, OfService
  <2>2. OnePlace(u)
    BY DEF CallRight
  <2>3. Moved(u, to, out) /\ x \in Of(to_server[c], u)
    BY <1>1, <1>2, <1>4, <2>1, <2>2, DeliverMoves DEF CallBase
  <2>4. \E e : to \subseteq {e}
    <3>1. CASE x.source \in Ids /\ to = {ep[o].conn : o \in Under(endpoints, {x.source})}
      <4>1. to \subseteq {ep[endpoints[x.source]].conn}
        BY <3>1 DEF Under
      <4> QED BY <4>1
    <3> QED BY <1>4, <3>1
  <2>5. OnePlace(u)'
    BY <2>3, <2>4, MovedAlone
  <2>6. calls[u].fate \notin {"none", "answered", "refused"}
    BY <2>3 DEF CallRight, Nowhere
  <2>7. \A d : Orphan(d)' <=> Orphan(d)
    BY <1>4 DEF Deliver, Orphan
  <2>8. ASSUME Routed(u)
        PROVE  \/ x.source = NoId /\ to = {}
               \/ x.source \in Ids /\ to = {calls[u].from}
    <3>1. Passed(u, c, x)
      BY <1>3, <2>3, <2>8 DEF Routed
    <3>2. told[c] # NoId
      BY <1>1, <3>1 DEF Passed, Online
    <3>3. Acting(c) # NoEp
      BY <3>2 DEF CallBase, OneId, OneHolder
    <3>4. Acts(c)
      BY <1>1, <3>3 DEF Acts
    <3>5. CASE x.source \in Ids /\ to = {ep[o].conn : o \in Under(endpoints, {x.source})}
      <4>1. calls[u].from \in Conns /\ told[calls[u].from] = x.source
        BY <3>1, <3>5, RegistryAssumption DEF Passed, RegistryAssumption
      <4>2. PICK i \in Ids, d \in Conns :
              i = x.source /\ d = calls[u].from /\ told[d] = i
        BY <3>5, <4>1
      <4>3. {ep[o].conn : o \in Under(endpoints, {i})} = {d}
        BY <4>2, HolderTold
      <4> QED BY <3>5, <4>2, <4>3
    <3> QED BY <1>4, <3>4, <3>5
  <2>9. ASSUME Routed(u) PROVE Routed(u)'
    <3>1. \A d \in Conns : Of(to_server'[d], u) = {}
      BY <2>3 DEF Moved
    <3>2. \A d \in Conns : \A y \in Of(to_client'[d], u) : d = calls'[u].from /\ y = out
      BY <1>3, <2>3, <2>8, <2>9 DEF Moved
    <3> QED BY <2>1, <3>1, <3>2 DEF Routed
  <2>10. ASSUME Routed(u), Waits(u) PROVE Waits(u)'
    <3>1. x.source # NoId /\ ~Orphan(calls[u].from)
      BY <2>3, <2>10 DEF Waits
    <3>2. calls[u].from \in Conns
      BY <2>10, WaitingAt
    <3>3. to = {calls[u].from}
      BY <2>8, <2>10, <3>1
    <3>4. \E d \in Conns : Of(to_server'[d], u) # {} \/ Of(to_client'[d], u) # {}
      BY <2>3, <3>1, <3>2, <3>3 DEF Moved
    <3>5. \A d \in Conns : \A y \in Of(to_server'[d], u) \cup Of(to_client'[d], u) :
             y.source # NoId
      BY <2>1, <2>3, <3>1, MovedOnly
    <3>6. ~Orphan(calls[u].from)' /\ (calls'[u].via # NoConn => ~Orphan(calls[u].via)')
      BY <1>3, <2>7, <2>10 DEF Waits
    <3> QED BY <3>4, <3>5, <3>6 DEF Waits
  <2> QED BY <1>3, <2>5, <2>6, <2>9, <2>10 DEF CallRight
<1> QED BY <1>5, <1>6

-----------------------------------------------------------------------------
LEMMA CallStep ==
    ASSUME Covered, TrafficAssumption, CallBase, PendingInv, CallInv,
           [TrafficNext]_trafficVars
    PROVE  CallInv'
<1> SUFFICES ASSUME NEW s \in Sessions PROVE CallRight(s)'
  BY DEF CallInv
<1>1. CallRight(s)
  BY DEF CallInv
<1>2. ASSUME NEW k \in Clients, NEW c \in Conns, ConnectClient(k, c) PROVE CallRight(s)'
  BY <1>1, <1>2, CallConnected
<1>3. ASSUME NEW k \in Clients, LoseConnection(k) PROVE CallRight(s)'
  BY <1>1, <1>3, CallLost
<1>4. ASSUME NEW k \in Clients, ConsoleFilter(k) PROVE CallRight(s)'
  BY <1>1, <1>4, CallConsole
<1>5. ASSUME NEW k \in Clients, NEW u \in Sessions, NEW t \in SvcTypes,
             NEW svc_cmd \in MsgTypes, RequestService(k, u, t, svc_cmd)
      PROVE  CallRight(s)'
  BY <1>1, <1>5, CallRequested
<1>6. ASSUME NEW k \in Clients, ClientReadsResult(k) PROVE CallRight(s)'
  BY <1>1, <1>6, CallReadsResult
<1>7. ASSUME NEW k \in Clients, ClientServes(k) PROVE CallRight(s)'
  BY <1>1, <1>7, CallServed
<1>8. ASSUME NEW k \in Clients, ClientReadsAnswer(k) PROVE CallRight(s)'
  BY <1>1, <1>8, CallAnswered
<1>9. ASSUME NEW c \in Conns, CloseConnection(c) PROVE CallRight(s)'
  BY <1>1, <1>9, CallClosed
<1>10. ASSUME NEW c \in Conns, ServerRegisters(c) PROVE CallRight(s)'
  BY <1>1, <1>10, CallRegistered
<1>11. ASSUME NEW c \in Conns, ServerFilters(c) PROVE CallRight(s)'
  BY <1>1, <1>11, CallFiltering
<1>12. ASSUME NEW c \in Conns, ServerServes(c) PROVE CallRight(s)'
  BY <1>1, <1>12, CallServing
<1>13. ASSUME NEW c \in Conns, ServerAnswers(c) PROVE CallRight(s)'
  BY <1>1, <1>13, CallReturned
<1>14. CASE UNCHANGED trafficVars
  BY <1>1, <1>14, CallUntouched DEF trafficVars, systemVars, clientVars
<1> QED BY <1>2, <1>3, <1>4, <1>5, <1>6, <1>7, <1>8, <1>9, <1>10, <1>11, <1>12, <1>13, <1>14
        DEF TrafficNext

(* Requests and answers keep to the connections of the caller and of the   *)
(* service, one at a time, whoever connects, registers, leaves or closes in*)
(* between.                                                                *)
LEMMA CallInvCorrect ==
    ASSUME Covered, ~MayTakeOver PROVE TrafficSpec => []CallInv
<1>1. TrafficInit => CallInv
  <2> SUFFICES ASSUME TrafficInit, NEW s \in Sessions PROVE CallRight(s)
    BY DEF CallInv
  <2>1. \A c \in Conns : to_server[c] = <<>> /\ to_client[c] = <<>>
    BY DEF TrafficInit, ClientInit
  <2>2. \A c \in Conns : /\ Of(to_server[c], s) = {} /\ Once(to_server[c], s)
                         /\ Of(to_client[c], s) = {} /\ Once(to_client[c], s)
    BY <2>1, OfEmpty
  <2>3. calls[s].fate = "none"
    BY DEF TrafficInit, NoCall
  <2> QED BY <2>2, <2>3 DEF CallRight, OnePlace, Routed, Nowhere
<1>2. /\ QueueInv /\ RegFirst /\ IdInv /\ RoutingTypeOK /\ OneHolder /\ OneId
      /\ ServiceIndexExact /\ TrafficTypeOK /\ PendingInv /\ CallInv
      /\ [TrafficNext]_trafficVars
      => CallInv'
  BY CallStep, TrafficAssumption DEF CallBase, TrafficTypeOK
<1> QED BY <1>1, <1>2, QueueInvCorrect, RegFirstCorrect, IdInvCorrect, NodeInvCorrect,
           TrafficIsRegistry, ActingCorrect, TrafficOneId, ServiceIndexCorrect,
           TrafficTypeCorrect, PendingInvCorrect, PTL DEF TrafficSpec

-----------------------------------------------------------------------------
(* What is on the way, as the runs count it.                               *)
LEMMA OnTheWayOf ==
    ASSUME NEW s, NEW queues, \A c \in Conns : Once(queues[c], s)
    PROVE  /\ \A m \in OnTheWay(s, queues) :
                /\ m[1] \in Conns /\ m = <<m[1], m[2]>> /\ m[2] \in DOMAIN queues[m[1]]
                /\ queues[m[1]][m[2]] \in Of(queues[m[1]], s)
           /\ \A c \in Conns : Of(queues[c], s) # {} =>
                \E n : <<c, n>> \in OnTheWay(s, queues)
           /\ \A m1, m2 \in OnTheWay(s, queues) : m1[1] = m2[1] => m1 = m2
<1>1. ASSUME NEW m \in OnTheWay(s, queues)
      PROVE  /\ m[1] \in Conns /\ m = <<m[1], m[2]>> /\ m[2] \in DOMAIN queues[m[1]]
             /\ OfSession(queues[m[1]][m[2]], s)
  <2>1. PICK c \in Conns : \E n \in DOMAIN queues[c] :
           m = <<c, n>> /\ OfService(queues[c][n]) /\ queues[c][n].sess_id = s
    BY DEF OnTheWay
  <2>2. PICK n \in DOMAIN queues[c] :
           m = <<c, n>> /\ OfService(queues[c][n]) /\ queues[c][n].sess_id = s
    BY <2>1
  <2> QED BY <2>2 DEF OfSession
<1>2. ASSUME NEW c \in Conns, Of(queues[c], s) # {}
      PROVE  \E n : <<c, n>> \in OnTheWay(s, queues)
  <2>1. PICK n \in DOMAIN queues[c] : OfSession(queues[c][n], s)
    BY <1>2 DEF Of, Elems
  <2> QED BY <2>1 DEF OnTheWay, OfSession
<1>3. ASSUME NEW m1 \in OnTheWay(s, queues), NEW m2 \in OnTheWay(s, queues), m1[1] = m2[1]
      PROVE  m1 = m2
  BY <1>1, <1>3 DEF Once
<1> QED BY <1>1, <1>2, <1>3 DEF Of, Elems

LEMMA OneOnTheWay ==
    ASSUME NEW s, CallRight(s)
    PROVE  LET server == OnTheWay(s, to_server)
               client == OnTheWay(s, to_client)
           IN \/ server = {} /\ client = {} /\ calls[s].fate # "waiting"
              \/ /\ calls[s].fate \notin {"none", "answered", "refused"}
                 /\ \E m : \/ server = {m} /\ client = {}
                           \/ server = {} /\ client = {m}
<1> DEFINE server == OnTheWay(s, to_server)
           client == OnTheWay(s, to_client)
<1>1. OnePlace(s) /\ \A c \in Conns : Once(to_server[c], s) /\ Once(to_client[c], s)
  BY DEF CallRight, OnePlace
<1>2. /\ \A m \in server : m[1] \in Conns /\ Of(to_server[m[1]], s) # {}
      /\ \A c \in Conns : Of(to_server[c], s) # {} => \E n : <<c, n>> \in server
      /\ \A m1, m2 \in server : m1[1] = m2[1] => m1 = m2
  BY <1>1, OnTheWayOf
<1>3. /\ \A m \in client : m[1] \in Conns /\ Of(to_client[m[1]], s) # {}
      /\ \A c \in Conns : Of(to_client[c], s) # {} => \E n : <<c, n>> \in client
      /\ \A m1, m2 \in client : m1[1] = m2[1] => m1 = m2
  BY <1>1, OnTheWayOf
<1> HIDE DEF server, client
<1>4. calls[s].fate = "waiting" => server # {} \/ client # {}
  BY <1>2, <1>3 DEF CallRight, Waits
<1>5. ASSUME NEW m \in server
      PROVE  /\ server = {m} /\ client = {}
             /\ calls[s].fate \notin {"none", "answered", "refused"}
  <2>1. m[1] \in Conns /\ Of(to_server[m[1]], s) # {}
    BY <1>2
  <2>2. \A o \in server : o = m
    BY <1>1, <1>2, <2>1 DEF OnePlace
  <2>3. \A o \in client : FALSE
    BY <1>1, <1>3, <2>1 DEF OnePlace
  <2> QED BY <2>1, <2>2, <2>3 DEF CallRight, Nowhere
<1>6. ASSUME NEW m \in client
      PROVE  /\ client = {m} /\ server = {}
             /\ calls[s].fate \notin {"none", "answered", "refused"}
  <2>1. m[1] \in Conns /\ Of(to_client[m[1]], s) # {}
    BY <1>3
  <2>2. \A o \in client : o = m
    BY <1>1, <1>3, <2>1 DEF OnePlace
  <2>3. \A o \in server : FALSE
    BY <1>5, <1>6
  <2> QED BY <2>1, <2>2, <2>3 DEF CallRight, Nowhere
<1>7. \/ server = {} /\ client = {} /\ calls[s].fate # "waiting"
      \/ /\ calls[s].fate \notin {"none", "answered", "refused"}
         /\ \E m : \/ server = {m} /\ client = {}
                   \/ server = {} /\ client = {m}
  BY <1>4, <1>5, <1>6
<1> QED BY <1>7 DEF server, client

(* However many calls are under way, whoever connects again, registers late*)
(* or leaves: a call has at most one message on the way, while it waits    *)
(* exactly one, and when it has been answered or refused none.             *)
THEOREM OneMessagePerCallCorrect ==
    ASSUME Covered, ~MayTakeOver PROVE TrafficSpec => []OneMessagePerCall
<1>1. CallInv => OneMessagePerCall
  <2> SUFFICES ASSUME CallInv, NEW s \in Sessions
               PROVE  LET n == Cardinality(OnTheWay(s, to_server))
                               + Cardinality(OnTheWay(s, to_client))
                      IN /\ n <= 1
                         /\ calls[s].fate = "waiting" => n = 1
                         /\ calls[s].fate \in {"answered", "refused"} => n = 0
    BY DEF OneMessagePerCall
  <2> DEFINE server == OnTheWay(s, to_server)
             client == OnTheWay(s, to_client)
  <2>1. \/ server = {} /\ client = {} /\ calls[s].fate # "waiting"
        \/ /\ calls[s].fate \notin {"none", "answered", "refused"}
           /\ \E m : \/ server = {m} /\ client = {}
                     \/ server = {} /\ client = {m}
    BY OneOnTheWay DEF CallInv
  <2> HIDE DEF server, client
  <2>2. Cardinality({}) = 0 /\ \A m : Cardinality({m}) = 1
    BY FS_EmptySet, FS_Singleton
  <2>3. CASE server = {} /\ client = {} /\ calls[s].fate # "waiting"
    BY <2>2, <2>3 DEF server, client
  <2>4. ASSUME calls[s].fate \notin {"none", "answered", "refused"}, NEW m,
               \/ server = {m} /\ client = {}
               \/ server = {} /\ client = {m}
        PROVE  Cardinality(server) + Cardinality(client) = 1
    <3>1. Cardinality({}) = 0 /\ Cardinality({m}) = 1
      BY <2>2
    <3>2. CASE server = {m} /\ client = {}
      BY <3>1, <3>2
    <3>3. CASE server = {} /\ client = {m}
      BY <3>1, <3>3
    <3> QED BY <2>4, <3>2, <3>3
  <2> QED BY <2>1, <2>3, <2>4 DEF server, client
<1> QED BY <1>1, CallInvCorrect, PTL

(* While the connection that a call was made on lasts, no other client is  *)
(* sent its answer.                                                        *)
THEOREM AnswersReachCallerCorrect ==
    ASSUME Covered, ~MayTakeOver PROVE TrafficSpec => []AnswersReachCaller
<1>1. CallInv => AnswersReachCaller
  <2> SUFFICES ASSUME CallInv, NEW s \in Sessions, calls[s].fate # "caller lost",
                      NEW m \in OnTheWay(s, to_client),
                      to_client[m[1]][m[2]].cmd = "SVC_RSP"
               PROVE  m[1] = calls[s].from
    BY DEF AnswersReachCaller
  <2>1. Routed(s) /\ \A c \in Conns : Once(to_client[c], s)
    BY DEF CallInv, CallRight, OnePlace
  <2>2. m[1] \in Conns /\ to_client[m[1]][m[2]] \in Of(to_client[m[1]], s)
    BY <2>1, OnTheWayOf
  <2> QED BY <2>1, <2>2 DEF Routed
<1> QED BY <1>1, CallInvCorrect, PTL
=============================================================================
