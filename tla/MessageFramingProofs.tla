------------------------- MODULE MessageFramingProofs -------------------------
(***************************************************************************)
(* Proofs about MessageFraming, for any clients, any sizes of data and any *)
(* number of targets: the length of a message survives every conversion as *)
(* long as it fits, and a reader that skips the header that was written    *)
(* then has the data and the result.                                       *)
(***************************************************************************)
EXTENDS MessageFraming, TLAPS

(* The bytes of a short make it up, and a short has the bytes it is made of*)
LEMMA HighLow ==
    ASSUME NEW n \in Short
    PROVE  /\ High(n) \in Byte
           /\ Low(n) \in Byte
           /\ Join(High(n), Low(n)) = n
  BY SMTT(20) DEF High, Low, Join, Byte, Short

LEMMA JoinParts ==
    ASSUME NEW h \in Byte, NEW l \in Byte
    PROVE  /\ High(Join(h, l)) = h
           /\ Low(Join(h, l)) = l
           /\ Join(h, l) \in Short
  BY SMTT(20) DEF High, Low, Join, Byte, Short

(* htons and ntohs undo each other.                                        *)
LEMMA SwapTwice ==
    ASSUME NEW n \in Short
    PROVE  Swap(n) \in Short /\ Swap(Swap(n)) = n
<1>1. High(n) \in Byte /\ Low(n) \in Byte /\ Join(High(n), Low(n)) = n
  BY HighLow
<1>2. High(Swap(n)) = Low(n) /\ Low(Swap(n)) = High(n) /\ Swap(n) \in Short
  BY <1>1, JoinParts DEF Swap
<1> QED
  BY <1>1, <1>2, Zenon DEF Swap

(* payload_size_t holds what it is given modulo its range.                 *)
LEMMA NarrowType ==
    ASSUME NEW n \in Nat
    PROVE  Narrow(n) \in Short /\ (n \in Short => Narrow(n) = n)
  BY SMT DEF Narrow, Short

(* A length on the wire is 16 bits.                                        *)
LEMMA ToWireType ==
    ASSUME NEW n \in Nat
    PROVE  ToWire(n) \in Short
<1>1. (IF n > 0 THEN n + LenBytes ELSE n) \in Nat
  BY SMT DEF LenBytes
<1>2. Narrow(IF n > 0 THEN n + LenBytes ELSE n) \in Short
  BY <1>1, NarrowType
<1> QED
  BY <1>2, SwapTwice DEF ToWire

(* What a reader makes of a length is a length that fits with the two bytes*)
(* that count it.                                                          *)
Fits == {n \in Nat : n + LenBytes < 65536}

LEMMA FromWireType ==
    ASSUME NEW w \in Short
    PROVE  FromWire(w) \in Fits
<1>1. Swap(w) \in Short
  BY SwapTwice
<1> QED
  BY <1>1, SMTT(20) DEF FromWire, LenBytes, Short, Fits

(* A length that fits is read as it was written.                           *)
LEMMA RoundTrip ==
    ASSUME NEW n \in Fits
    PROVE  FromWire(ToWire(n)) = n
<1> DEFINE m == IF n > 0 THEN n + LenBytes ELSE n
<1>1. m \in Short /\ m \in Nat
  BY SMT DEF LenBytes, Short, Fits
<1>2. Narrow(m) = m
  BY <1>1, NarrowType
<1>3. ToWire(n) = Swap(m)
  BY <1>2 DEF ToWire
<1>4. Swap(ToWire(n)) = m
  BY <1>1, <1>3, SwapTwice
<1> QED
  BY <1>4, SMT DEF FromWire, LenBytes, Fits

-----------------------------------------------------------------------------
(* A message whose length is true if it fits at all.                       *)
Honest(f) == ~Overlong(f) => InStep(f)

LEMMA BodyType ==
    ASSUME NEW f \in Frame
    PROVE  Body(f) \in Nat /\ (~Overlong(f) => Body(f) \in Fits)
<1>1. Body(f) \in Nat
  BY DEF Frame, Body, TargetSize, ServiceSize, PublishingSize, ResultSize
<1> QED
  BY <1>1, SMTT(20) DEF Overlong, Short, Fits, LenBytes

(* SetPayloadLen and ConvertToNetworkMessage make a message honest.        *)
LEMMA WrittenHonest ==
    ASSUME NEW f \in Frame
    PROVE  /\ Written(f) \in Frame
           /\ Body(Written(f)) = Body(f)
           /\ Honest(Written(f))
<1>1. Body(f) \in Nat /\ Narrow(Body(f)) \in Nat
  <2>1. Narrow(Body(f)) \in Short
    BY BodyType, NarrowType
  <2> QED
    BY <2>1, BodyType, SMT DEF Short
<1>2. Written(f) \in Frame /\ Written(f).wire = ToWire(Narrow(Body(f)))
  BY <1>1, ToWireType DEF Written, Frame
<1>3. Body(Written(f)) = Body(f)
  BY DEF Written, Body, Frame
<1>4. ASSUME ~Overlong(Written(f)) PROVE InStep(Written(f))
  <2>1. Body(f) \in Fits
    BY <1>2, <1>3, <1>4, BodyType
  <2>2. Body(f) \in Short
    BY <2>1, SMT DEF Fits, LenBytes, Short
  <2>3. Narrow(Body(f)) = Body(f)
    BY <1>1, <2>2, NarrowType
  <2> QED
    BY <2>1, <2>3, <1>2, <1>3, RoundTrip DEF InStep
<1> QED
  BY <1>2, <1>3, <1>4 DEF Honest

(* A message that was read in step is relayed in step.                     *)
LEMMA RelayHonest ==
    ASSUME NEW f \in Frame, InStep(f)
    PROVE  /\ Relay(f) \in Frame
           /\ Honest(Relay(f))
           /\ ~Overlong(Relay(f))
<1>1. f.wire \in Short
  BY DEF Frame
<1>2. FromWire(f.wire) \in Fits /\ FromWire(f.wire) \in Nat
  <2>1. FromWire(f.wire) \in Fits
    BY <1>1, FromWireType
  <2> QED
    BY <2>1, SMT DEF Fits, LenBytes
<1>3. Relay(f) \in Frame /\ Relay(f).wire = ToWire(FromWire(f.wire))
  BY <1>2, ToWireType DEF Relay, Frame
<1>4. Body(Relay(f)) = Body(f)
  BY DEF Relay, Body, Frame
<1>5. Body(Relay(f)) \in Fits
  BY <1>2, <1>4 DEF InStep
<1>6. ~Overlong(Relay(f))
  BY <1>5, SMTT(20) DEF Overlong, Fits, LenBytes, Short
<1> QED
  BY <1>2, <1>3, <1>4, <1>6, RoundTrip DEF Honest, InStep

-----------------------------------------------------------------------------
(* What a message of a stream looks like: its header has the size that the *)
(* readers skip, except where the server refuses a client it does not know.*)
Shape(dir, k, f) ==
    /\ f.cmd = "SVC" => f.targets = 0
    /\ ~f.rsp => /\ f.ext = Skipped(f)
                 /\ f.result = 0
                 /\ dir = "down" => k \in Registered
    /\ f.rsp => /\ f.targets = 0
                /\ f.result = ResultSize
                /\ dir = "up" => f.cmd = "SVC" /\ k \in Registered
                /\ k \in Registered \/ f.cmd # "SVC" => f.ext = Skipped(f)
                /\ k \notin Registered /\ f.cmd = "SVC" =>
                     f.ext = 0 /\ f.data = UnknownSize

(* Shape and body do not depend on the length.                             *)
LEMMA WireIsApart ==
    ASSUME NEW f \in Frame, NEW w \in Short, NEW dir, NEW k, Shape(dir, k, f)
    PROVE  /\ [f EXCEPT !.wire = w] \in Frame
           /\ Shape(dir, k, [f EXCEPT !.wire = w])
<1> DEFINE g == [f EXCEPT !.wire = w]
<1>1. g \in Frame
  BY DEF Frame
<1>2. /\ g.cmd = f.cmd /\ g.rsp = f.rsp /\ g.ext = f.ext
      /\ g.targets = f.targets /\ g.result = f.result /\ g.data = f.data
  BY DEF Frame
<1>3. Skipped(g) = Skipped(f)
  BY <1>2 DEF Skipped
<1> HIDE DEF g
<1>4. Shape(dir, k, g)
  BY <1>2, <1>3 DEF Shape
<1> QED
  BY <1>1, <1>4 DEF g

(* What may be put on a stream.                                            *)
Sendable(dir, k) == {f \in Frame : Honest(f) /\ Shape(dir, k, f)}

LEMMA WrittenSendable ==
    ASSUME NEW f \in Frame, NEW dir, NEW k, Shape(dir, k, f)
    PROVE  Written(f) \in Sendable(dir, k)
<1>1. Written(f).wire \in Short
  BY WrittenHonest DEF Frame
<1>2. Written(f) = [f EXCEPT !.wire = Written(f).wire]
  BY DEF Written, Frame
<1>3. Shape(dir, k, Written(f))
  BY <1>1, <1>2, WireIsApart
<1> QED
  BY <1>3, WrittenHonest DEF Sendable

LEMMA RelaySendable ==
    ASSUME NEW f \in Frame, InStep(f), NEW dir, NEW k, Shape(dir, k, f)
    PROVE  Relay(f) \in Sendable(dir, k)
<1>1. Relay(f).wire \in Short
  BY RelayHonest DEF Frame
<1>2. Relay(f) = [f EXCEPT !.wire = Relay(f).wire]
  BY DEF Relay, Frame
<1>3. Shape(dir, k, Relay(f))
  BY <1>1, <1>2, WireIsApart
<1> QED
  BY <1>3, RelayHonest DEF Sendable

-----------------------------------------------------------------------------
(* The messages of a queue.                                                *)
Elems(s) == {s[n] : n \in DOMAIN s}

LEMMA ElemsConcat ==
    ASSUME NEW s \in Seq(Frame), NEW t \in Seq(Frame)
    PROVE  s \o t \in Seq(Frame) /\ Elems(s \o t) \subseteq Elems(s) \cup Elems(t)
<1>1. s \o t \in Seq(Frame)
  OBVIOUS
<1>2. ASSUME NEW n \in DOMAIN (s \o t)
      PROVE  (s \o t)[n] \in Elems(s) \cup Elems(t)
  <2>1. n \in 1 .. Len(s) + Len(t)
    OBVIOUS
  <2>2. CASE n <= Len(s)
    <3>1. (s \o t)[n] = s[n] /\ n \in DOMAIN s
      BY <2>1, <2>2
    <3> QED
      BY <3>1 DEF Elems
  <2>3. CASE n > Len(s)
    <3>1. (s \o t)[n] = t[n - Len(s)] /\ n - Len(s) \in DOMAIN t
      BY <2>1, <2>3
    <3> QED
      BY <3>1 DEF Elems
  <2> QED
    BY <2>1, <2>2, <2>3
<1> QED
  BY <1>1, <1>2 DEF Elems

LEMMA ElemsTail ==
    ASSUME NEW s \in Seq(Frame), s # <<>>
    PROVE  /\ Tail(s) \in Seq(Frame)
           /\ Elems(Tail(s)) \subseteq Elems(s)
           /\ Head(s) \in Elems(s)
<1>1. Tail(s) \in Seq(Frame) /\ Len(s) \in Nat /\ Len(s) > 0
  OBVIOUS
<1>2. ASSUME NEW n \in DOMAIN Tail(s)
      PROVE  Tail(s)[n] \in Elems(s)
  <2>1. Tail(s)[n] = s[n + 1] /\ n + 1 \in DOMAIN s
    BY <1>1
  <2> QED
    BY <2>1 DEF Elems
<1>3. Head(s) = s[1] /\ 1 \in DOMAIN s
  BY <1>1
<1> QED
  BY <1>1, <1>2, <1>3 DEF Elems

LEMMA ElemsFew ==
    /\ <<>> \in Seq(Frame) /\ Elems(<<>>) = {}
    /\ \A f \in Frame : <<f>> \in Seq(Frame) /\ Elems(<<f>>) = {f}
<1>1. <<>> \in Seq(Frame) /\ Elems(<<>>) = {}
  BY DEF Elems
<1>2. ASSUME NEW f \in Frame
      PROVE  <<f>> \in Seq(Frame) /\ Elems(<<f>>) = {f}
  <2>1. <<f>> \in Seq(Frame)
    OBVIOUS
  <2>2. DOMAIN <<f>> = {1} /\ <<f>>[1] = f
    OBVIOUS
  <2> QED
    BY <2>1, <2>2 DEF Elems
<1> QED
  BY <1>1, <1>2

-----------------------------------------------------------------------------
(* The messages in the queues of one direction: each may be there, and one *)
(* that is too long has left its mark on the stream.                       *)
QueuesOK(dir, queues, over) ==
    /\ queues \in [Clients -> Seq(Frame)]
    /\ \A k \in Clients : \A f \in Elems(queues[k]) :
          f \in Sendable(dir, k) /\ (Overlong(f) => <<dir, k>> \in over)

(* The inductive invariant.                                                *)
FInv ==
    /\ QueuesOK("up", up, overlong)
    /\ QueuesOK("down", down, overlong)
    /\ overlong \subseteq Streams
    /\ lost \subseteq overlong

Outgoing(dir) ==
    {out \in [Clients -> Seq(Frame)] :
        \A k \in Clients : Elems(out[k]) \subseteq Sendable(dir, k)}

LEMMA PutKeeps ==
    ASSUME NEW dir \in {"up", "down"}, NEW queues, NEW over,
           NEW out \in Outgoing(dir), QueuesOK(dir, queues, over)
    PROVE  /\ QueuesOK(dir, Put(queues, out), over \cup Spoils(dir, out))
           /\ Spoils(dir, out) \subseteq Streams
<1>1. /\ queues \in [Clients -> Seq(Frame)]
      /\ out \in [Clients -> Seq(Frame)]
      /\ \A k \in Clients : Elems(out[k]) \subseteq Sendable(dir, k)
  BY DEF QueuesOK, Outgoing
<1>2. Put(queues, out) \in [Clients -> Seq(Frame)]
  BY <1>1, ElemsConcat DEF Put
<1>3. ASSUME NEW k \in Clients, NEW f \in Elems(Put(queues, out)[k])
      PROVE  /\ f \in Sendable(dir, k)
             /\ Overlong(f) => <<dir, k>> \in over \cup Spoils(dir, out)
  <2>1. Put(queues, out)[k] = queues[k] \o out[k]
    BY DEF Put
  <2>2. f \in Elems(queues[k]) \/ f \in Elems(out[k])
    BY <1>1, <1>3, <2>1, ElemsConcat
  <2>3. CASE f \in Elems(queues[k])
    BY <2>3 DEF QueuesOK
  <2>4. CASE f \in Elems(out[k])
    <3>1. PICK n \in DOMAIN out[k] : f = out[k][n]
      BY <2>4 DEF Elems
    <3>2. Overlong(f) => <<dir, k>> \in Spoils(dir, out)
      BY <3>1 DEF Spoils
    <3> QED
      BY <1>1, <2>4, <3>2
  <2> QED
    BY <2>2, <2>3, <2>4
<1>4. Spoils(dir, out) \subseteq Streams
  BY DEF Spoils, Streams
<1> QED
  BY <1>2, <1>3, <1>4 DEF QueuesOK

LEMMA TakeKeeps ==
    ASSUME NEW dir, NEW queues, NEW over, QueuesOK(dir, queues, over),
           NEW k \in Clients, queues[k] # <<>>
    PROVE  /\ QueuesOK(dir, [queues EXCEPT ![k] = Tail(@)], over)
           /\ QueuesOK(dir, [queues EXCEPT ![k] = <<>>], over)
           /\ Head(queues[k]) \in Sendable(dir, k)
           /\ Overlong(Head(queues[k])) => <<dir, k>> \in over
<1>1. queues \in [Clients -> Seq(Frame)] /\ queues[k] \in Seq(Frame)
  BY DEF QueuesOK
<1>2. QueuesOK(dir, [queues EXCEPT ![k] = Tail(@)], over)
  <2> DEFINE rest == [queues EXCEPT ![k] = Tail(@)]
  <2>1. rest \in [Clients -> Seq(Frame)]
    BY <1>1, ElemsTail
  <2>2. \A j \in Clients : Elems(rest[j]) \subseteq Elems(queues[j])
    <3>1. ASSUME NEW j \in Clients PROVE Elems(rest[j]) \subseteq Elems(queues[j])
      <4>1. CASE j = k
        <5>1. rest[k] = Tail(queues[k])
          BY <1>1
        <5> QED
          BY <1>1, <4>1, <5>1, ElemsTail
      <4>2. CASE j # k
        BY <1>1, <4>2
      <4> QED
        BY <4>1, <4>2
    <3> QED
      BY <3>1
  <2> HIDE DEF rest
  <2> QED
    BY <2>1, <2>2 DEF QueuesOK, rest
<1>3. QueuesOK(dir, [queues EXCEPT ![k] = <<>>], over)
  <2> DEFINE rest == [queues EXCEPT ![k] = <<>>]
  <2>1. rest \in [Clients -> Seq(Frame)]
    BY <1>1, ElemsFew
  <2>2. \A j \in Clients : Elems(rest[j]) \subseteq Elems(queues[j])
    <3>1. ASSUME NEW j \in Clients PROVE Elems(rest[j]) \subseteq Elems(queues[j])
      <4>1. CASE j = k
        <5>1. rest[k] = <<>>
          BY <1>1
        <5> QED
          BY <4>1, <5>1, ElemsFew
      <4>2. CASE j # k
        BY <1>1, <4>2
      <4> QED
        BY <4>1, <4>2
    <3> QED
      BY <3>1
  <2> HIDE DEF rest
  <2> QED
    BY <2>1, <2>2 DEF QueuesOK, rest
<1>4. Head(queues[k]) \in Elems(queues[k])
  BY <1>1, ElemsTail
<1> QED
  BY <1>2, <1>3, <1>4 DEF QueuesOK

LEMMA MoreSpoiltKeeps ==
    ASSUME NEW dir, NEW queues, NEW over, QueuesOK(dir, queues, over),
           NEW more, over \subseteq more
    PROVE  QueuesOK(dir, queues, more)
  BY DEF QueuesOK

-----------------------------------------------------------------------------
(* What is handed to Put.                                                  *)
LEMMA OnlyOutgoing ==
    ASSUME NEW dir, NEW k \in Clients, NEW f \in Sendable(dir, k)
    PROVE  Only(k, f) \in Outgoing(dir)
<1>1. f \in Frame
  BY DEF Sendable
<1>2. Only(k, f) \in [Clients -> Seq(Frame)]
  BY <1>1, ElemsFew DEF Only
<1>3. ASSUME NEW d \in Clients PROVE Elems(Only(k, f)[d]) \subseteq Sendable(dir, d)
  BY <1>1, ElemsFew DEF Only
<1> QED
  BY <1>2, <1>3 DEF Outgoing

LEMMA SendingOutgoing ==
    ASSUME NEW k \in Clients, NEW to \in SUBSET Clients, NEW f,
           \A d \in to : Relay(f) \in Sendable("down", d),
           NEW answers \in Seq(Frame), Elems(answers) \subseteq Sendable("down", k)
    PROVE  Sending(to, f, k, answers) \in Outgoing("down")
<1>1. ASSUME NEW d \in Clients
      PROVE  /\ Sending(to, f, k, answers)[d] \in Seq(Frame)
             /\ Elems(Sending(to, f, k, answers)[d]) \subseteq Sendable("down", d)
  <2> DEFINE relayed == IF d \in to THEN <<Relay(f)>> ELSE <<>>
             answered == IF d = k THEN answers ELSE <<>>
  <2>1. relayed \in Seq(Frame) /\ Elems(relayed) \subseteq Sendable("down", d)
    BY ElemsFew DEF Sendable
  <2>2. answered \in Seq(Frame) /\ Elems(answered) \subseteq Sendable("down", d)
    BY ElemsFew
  <2>3. Sending(to, f, k, answers)[d] = relayed \o answered
    BY DEF Sending
  <2> HIDE DEF relayed, answered
  <2> QED
    BY <2>1, <2>2, <2>3, ElemsConcat
<1>2. Sending(to, f, k, answers) \in [Clients -> Seq(Frame)]
  <2>1. Sending(to, f, k, answers) = [d \in Clients |-> Sending(to, f, k, answers)[d]]
    BY DEF Sending
  <2> QED
    BY <1>1, <2>1
<1> QED
  BY <1>1, <1>2 DEF Outgoing

(* What clients and the server write themselves.                           *)
LEMMA MessageSendable ==
    ASSUME NEW k, NEW cmd \in Cmds, NEW targets \in Nat, NEW data \in Nat,
           NEW ext \in {0, ServiceSize, PublishingSize},
           cmd = "SVC" => ext = ServiceSize /\ targets = 0,
           cmd = "PUBLISH_2" => ext = PublishingSize,
           cmd \notin {"SVC", "PUBLISH_2"} => ext = 0
    PROVE  Message(cmd, ext, targets, data) \in Sendable("up", k)
<1> DEFINE f == [cmd |-> cmd, rsp |-> FALSE, wire |-> 0, ext |-> ext,
                 targets |-> targets, result |-> 0, data |-> data]
<1>1. f \in Frame
  BY DEF Frame, Short
<1>2. Shape("up", k, f)
  BY DEF Shape, Skipped
<1> HIDE DEF f
<1>3. Written(f) \in Sendable("up", k)
  BY <1>1, <1>2, WrittenSendable
<1> QED
  BY <1>3 DEF f, Message

LEMMA ResultSendable ==
    ASSUME NEW k, NEW cmd \in Cmds, NEW data \in Nat,
           cmd = "SVC" => k \notin Registered /\ data = UnknownSize
    PROVE  ResultMessage(cmd, data) \in Sendable("down", k)
<1> DEFINE f == [cmd |-> cmd, rsp |-> TRUE, wire |-> 0, ext |-> 0,
                 targets |-> 0, result |-> ResultSize, data |-> data]
<1>1. f \in Frame
  BY DEF Frame, Short
<1>2. Shape("down", k, f)
  BY DEF Shape, Skipped
<1> HIDE DEF f
<1>3. Written(f) \in Sendable("down", k)
  BY <1>1, <1>2, WrittenSendable
<1> QED
  BY <1>3 DEF f, ResultMessage

(* The answer to a service request takes its place, on the way to the      *)
(* server or back to who sent it.                                          *)
LEMMA ServiceResultSendable ==
    ASSUME NEW k \in Registered, NEW from, NEW dir, NEW f \in Sendable(from, k),
           f.cmd = "SVC", ~f.rsp, NEW data \in Nat
    PROVE  ServiceResult(f, data) \in Sendable(dir, k)
<1> DEFINE g == [f EXCEPT !.rsp = TRUE, !.result = ResultSize, !.data = data]
<1>1. f \in Frame /\ Shape(from, k, f)
  BY DEF Sendable
<1>2. g \in Frame
  BY <1>1 DEF Frame
<1>3. /\ g.cmd = "SVC" /\ g.rsp = TRUE /\ g.result = ResultSize
      /\ g.targets = f.targets /\ g.ext = f.ext
  BY <1>1 DEF Frame
<1> HIDE DEF g
<1>4. f.ext = ServiceSize /\ f.targets = 0
  BY <1>1 DEF Shape, Skipped
<1>5. Shape(dir, k, g)
  BY <1>3, <1>4 DEF Shape, Skipped
<1>6. Written(g) \in Sendable(dir, k)
  BY <1>2, <1>5, WrittenSendable
<1> QED
  BY <1>6 DEF g, ServiceResult

-----------------------------------------------------------------------------
LEMMA FInvInit == FramingInit => FInv
  BY ElemsFew DEF FramingInit, FInv, QueuesOK, Streams

(* A client that sends.                                                    *)
LEMMA SendKeeps ==
    ASSUME FInv, NEW k \in Clients, NEW f \in Sendable("up", k),
           SendCommandMessage(k, f)
    PROVE  FInv'
<1>1. Only(k, f) \in Outgoing("up")
  BY OnlyOutgoing
<1>2. /\ QueuesOK("up", Put(up, Only(k, f)), overlong \cup Spoils("up", Only(k, f)))
      /\ Spoils("up", Only(k, f)) \subseteq Streams
  BY <1>1, PutKeeps DEF FInv
<1>3. QueuesOK("down", down, overlong \cup Spoils("up", Only(k, f)))
  BY MoreSpoiltKeeps DEF FInv
<1>4. /\ up' = Put(up, Only(k, f)) /\ down' = down /\ lost' = lost
      /\ overlong' = overlong \cup Spoils("up", Only(k, f))
  BY DEF SendCommandMessage
<1>5. QueuesOK("up", up', overlong') /\ QueuesOK("down", down', overlong')
  BY <1>2, <1>3, <1>4
<1>6. overlong' \subseteq Streams /\ lost' \subseteq overlong'
  BY <1>2, <1>4 DEF FInv
<1> QED
  BY <1>5, <1>6 DEF FInv, QueuesOK, Sendable, Honest, Shape

(* A server step that sends something that may be sent.                    *)
LEMMA ServerSendsKeeps ==
    ASSUME FInv, NEW out \in Outgoing("down"), ServerSends(out)
    PROVE  /\ QueuesOK("down", down', overlong')
           /\ overlong' \subseteq Streams
           /\ overlong \subseteq overlong'
<1>1. /\ down' = Put(down, out)
      /\ overlong' = overlong \cup Spoils("down", out)
  BY DEF ServerSends
<1>2. /\ QueuesOK("down", Put(down, out), overlong \cup Spoils("down", out))
      /\ Spoils("down", out) \subseteq Streams
  BY PutKeeps DEF FInv
<1> QED
  BY <1>1, <1>2 DEF FInv

(* The handlers of the server, each on a message that it understood.       *)
LEMMA HandleKeeps ==
    ASSUME FInv, NEW k \in Clients, NEW f \in Sendable("up", k), InStep(f),
           HandleMessage(k, f)
    PROVE  /\ QueuesOK("down", down', overlong')
           /\ overlong' \subseteq Streams
           /\ overlong \subseteq overlong'
<1>1. f \in Frame /\ Shape("up", k, f) /\ f.cmd \in Cmds
  BY DEF Sendable, Frame
<1>2. UnknownSize \in Nat /\ RefusalSize \in Nat /\ TotalSize \in Nat
  BY DEF UnknownSize, RefusalSize, TotalSize
<1>3. f.cmd # "SVC" => ~f.rsp
  BY <1>1 DEF Shape
<1>4. Registered \subseteq Clients
  BY FramingAssumption
<1>5. CASE f.cmd = "ECHO" /\ ServerSends(Only(k, ResultMessage("ECHO", PayloadLen(f))))
  <2>1. PayloadLen(f) \in Nat
    <3>1. Skipped(f) = 0
      BY <1>5 DEF Skipped
    <3>2. FromWire(f.wire) \in Nat
      BY <1>1, FromWireType DEF Frame, Fits
    <3> QED
      BY <3>1, <3>2, NarrowType DEF PayloadLen, Short
  <2>2. ResultMessage("ECHO", PayloadLen(f)) \in Sendable("down", k)
    BY <2>1, ResultSendable DEF Cmds
  <2> QED
    BY <1>5, <2>2, OnlyOutgoing, ServerSendsKeeps
<1>6. CASE /\ f.cmd # "ECHO" /\ k \notin Registered
           /\ ServerSends(Only(k, ResultMessage(f.cmd, UnknownSize)))
  <2>1. ResultMessage(f.cmd, UnknownSize) \in Sendable("down", k)
    BY <1>1, <1>2, <1>6, ResultSendable
  <2> QED
    BY <1>6, <2>1, OnlyOutgoing, ServerSendsKeeps
<1>7. CASE /\ f.cmd \in {"PUBLISH", "PUBLISH_2"} /\ k \in Registered
           /\ \E to \in SUBSET (Registered \ {k}) :
                 ServerSends(Sending(to, f, k, <<ResultMessage(f.cmd, TotalSize)>>))
  <2>1. PICK to \in SUBSET (Registered \ {k}) :
               ServerSends(Sending(to, f, k, <<ResultMessage(f.cmd, TotalSize)>>))
    BY <1>7
  <2>2. ASSUME NEW d \in to PROVE Relay(f) \in Sendable("down", d)
    <3>1. Shape("down", d, f)
      BY <1>1, <1>3, <1>7 DEF Shape
    <3> QED
      BY <1>1, <3>1, RelaySendable
  <2>3. ResultMessage(f.cmd, TotalSize) \in Sendable("down", k)
    BY <1>1, <1>2, <1>7, ResultSendable
  <2>4. /\ <<ResultMessage(f.cmd, TotalSize)>> \in Seq(Frame)
        /\ Elems(<<ResultMessage(f.cmd, TotalSize)>>) \subseteq Sendable("down", k)
    BY <2>3, ElemsFew DEF Sendable
  <2>5. Sending(to, f, k, <<ResultMessage(f.cmd, TotalSize)>>) \in Outgoing("down")
    BY <1>4, <2>2, <2>4, SendingOutgoing
  <2> QED
    BY <2>1, <2>5, ServerSendsKeeps
<1>8. ASSUME f.cmd = "SVC", k \in Registered, NEW d \in Registered,
             ServerSends(Sending({d}, f, k, <<>>))
      PROVE  /\ QueuesOK("down", down', overlong')
             /\ overlong' \subseteq Streams
             /\ overlong \subseteq overlong'
  <2>1. Shape("down", d, f)
    BY <1>1, <1>8 DEF Shape
  <2>2. Relay(f) \in Sendable("down", d)
    BY <1>1, <2>1, RelaySendable
  <2>3. Sending({d}, f, k, <<>>) \in Outgoing("down")
    BY <1>4, <2>2, ElemsFew, SendingOutgoing
  <2> QED
    BY <1>8, <2>3, ServerSendsKeeps
<1>9. CASE /\ f.cmd = "SVC" /\ ~f.rsp /\ k \in Registered
           /\ ServerSends(Only(k, ServiceResult(f, RefusalSize)))
  <2>1. ServiceResult(f, RefusalSize) \in Sendable("down", k)
    BY <1>2, <1>9, ServiceResultSendable
  <2> QED
    BY <1>9, <2>1, OnlyOutgoing, ServerSendsKeeps
<1>10. CASE UNCHANGED <<down, overlong>>
  BY <1>10 DEF FInv
<1> QED
  BY <1>5, <1>6, <1>7, <1>8, <1>9, <1>10 DEF HandleMessage

(* The same invariant, said of the next state.                             *)
LEMMA FInvNext ==
    ASSUME QueuesOK("up", up', overlong'), QueuesOK("down", down', overlong'),
           overlong' \subseteq Streams, lost' \subseteq overlong'
    PROVE  FInv'
  BY DEF FInv, QueuesOK, Sendable, Honest, Shape

LEMMA ServerReadsKeeps ==
    ASSUME FInv, NEW k \in Clients, ServerReads(k)
    PROVE  FInv'
<1> DEFINE f == Head(up[k])
<1>1. /\ QueuesOK("up", [up EXCEPT ![k] = Tail(@)], overlong)
      /\ QueuesOK("up", [up EXCEPT ![k] = <<>>], overlong)
      /\ f \in Sendable("up", k)
      /\ Overlong(f) => <<"up", k>> \in overlong
  BY TakeKeeps DEF FInv, ServerReads
<1>2. CASE Understood("up", k, f)
  <2>1. /\ HandleMessage(k, f) /\ InStep(f)
        /\ up' = [up EXCEPT ![k] = Tail(@)] /\ lost' = lost
    BY <1>2 DEF ServerReads, Understood
  <2>2. /\ QueuesOK("down", down', overlong')
        /\ overlong' \subseteq Streams
        /\ overlong \subseteq overlong'
    BY <1>1, <2>1, HandleKeeps
  <2>3. QueuesOK("up", up', overlong')
    <3>1. QueuesOK("up", [up EXCEPT ![k] = Tail(@)], overlong')
      BY <1>1, <2>2, MoreSpoiltKeeps
    <3> QED
      BY <2>1, <3>1
  <2> QED
    BY <2>1, <2>2, <2>3, FInvNext DEF FInv
<1>3. CASE ~Understood("up", k, f)
  <2>1. /\ lost' = lost \cup {<<"up", k>>}
        /\ up' = [up EXCEPT ![k] = <<>>]
        /\ down' = down /\ overlong' = overlong
    BY <1>3 DEF ServerReads
  <2>2. <<"up", k>> \in overlong
    BY <1>1, <1>3 DEF Understood, Sendable, Honest, FInv
  <2> QED
    BY <1>1, <2>1, <2>2, FInvNext DEF FInv
<1> QED
  BY <1>2, <1>3

LEMMA ClientReadsKeeps ==
    ASSUME FInv, NEW k \in Clients, ClientReads(k)
    PROVE  FInv'
<1> DEFINE f == Head(down[k])
<1>1. /\ QueuesOK("down", [down EXCEPT ![k] = Tail(@)], overlong)
      /\ QueuesOK("down", [down EXCEPT ![k] = <<>>], overlong)
      /\ f \in Sendable("down", k)
      /\ Overlong(f) => <<"down", k>> \in overlong
  BY TakeKeeps DEF FInv, ClientReads
<1>2. CASE Understood("down", k, f)
  <2>1. /\ ClientHandles(k, f)
        /\ down' = [down EXCEPT ![k] = Tail(@)] /\ lost' = lost
    BY <1>2 DEF ClientReads, Understood
  <2>2. CASE f.cmd = "SVC" /\ ~f.rsp
    <3>1. PICK data \in DataSizes :
            /\ up' = Put(up, Only(k, ServiceResult(f, data)))
            /\ overlong' = overlong \cup Spoils("up", Only(k, ServiceResult(f, data)))
      BY <2>1, <2>2 DEF ClientHandles
    <3>2. k \in Registered /\ data \in Nat
      BY <1>1, <2>2, FramingAssumption DEF Sendable, Shape
    <3>3. ServiceResult(f, data) \in Sendable("up", k)
      BY <1>1, <2>2, <3>2, ServiceResultSendable
    <3>4. Only(k, ServiceResult(f, data)) \in Outgoing("up")
      BY <3>3, OnlyOutgoing
    <3>5. /\ QueuesOK("up", up', overlong')
          /\ Spoils("up", Only(k, ServiceResult(f, data))) \subseteq Streams
      BY <3>1, <3>4, PutKeeps DEF FInv
    <3>6. QueuesOK("down", down', overlong')
      <4>1. overlong \subseteq overlong'
        BY <3>1
      <4>2. QueuesOK("down", [down EXCEPT ![k] = Tail(@)], overlong')
        BY <1>1, <4>1, MoreSpoiltKeeps
      <4> QED
        BY <2>1, <4>2
    <3>7. overlong' \subseteq Streams /\ lost' \subseteq overlong'
      BY <2>1, <3>1, <3>5 DEF FInv
    <3> QED
      BY <3>5, <3>6, <3>7, FInvNext
  <2>3. CASE ~(f.cmd = "SVC" /\ ~f.rsp)
    <3>1. up' = up /\ overlong' = overlong
      BY <2>1, <2>3 DEF ClientHandles
    <3> QED
      BY <1>1, <2>1, <3>1, FInvNext DEF FInv
  <2> QED
    BY <2>2, <2>3
<1>3. CASE ~Understood("down", k, f)
  <2>1. /\ lost' = lost \cup {<<"down", k>>}
        /\ down' = [down EXCEPT ![k] = <<>>]
        /\ up' = up /\ overlong' = overlong
    BY <1>3 DEF ClientReads
  <2>2. <<"down", k>> \in overlong
    BY <1>1, <1>3 DEF Understood, Sendable, Honest, FInv
  <2> QED
    BY <1>1, <2>1, <2>2, FInvNext DEF FInv
<1> QED
  BY <1>2, <1>3

LEMMA FInvStep == FInv /\ [FramingNext]_framingVars => FInv'
<1> SUFFICES ASSUME FInv, [FramingNext]_framingVars PROVE FInv'
  OBVIOUS
<1>1. ASSUME NEW k \in Clients, NEW data \in DataSizes, Echo(k, data) PROVE FInv'
  <2>1. Message("ECHO", 0, 0, data) \in Sendable("up", k)
    BY FramingAssumption, MessageSendable DEF Cmds
  <2> QED
    BY <1>1, <2>1, SendKeeps DEF Echo
<1>2. ASSUME NEW k \in Clients, NEW data \in DataSizes, RequestService(k, data)
      PROVE FInv'
  <2>1. Message("SVC", ServiceSize, 0, data) \in Sendable("up", k)
    BY FramingAssumption, MessageSendable DEF Cmds
  <2> QED
    BY <1>2, <2>1, SendKeeps DEF RequestService
<1>3. ASSUME NEW k \in Clients, NEW data \in DataSizes, NEW targets \in TargetCounts,
             NEW typed \in BOOLEAN, Publish(k, data, targets, typed)
      PROVE FInv'
  <2>1. /\ Message("PUBLISH_2", PublishingSize, targets, data) \in Sendable("up", k)
        /\ Message("PUBLISH", 0, 0, data) \in Sendable("up", k)
    BY FramingAssumption, MessageSendable DEF Cmds
  <2> QED
    BY <1>3, <2>1, SendKeeps DEF Publish
<1>4. CASE UNCHANGED framingVars
  BY <1>4, FInvNext DEF framingVars, FInv
<1> QED
  BY <1>1, <1>2, <1>3, <1>4, ServerReadsKeeps, ClientReadsKeeps DEF FramingNext

LEMMA FInvCorrect == FramingSpec => []FInv
  BY FInvInit, FInvStep, PTL DEF FramingSpec

-----------------------------------------------------------------------------
(* The variables keep their types, for any clients and sizes.              *)
THEOREM FramingTypeCorrect == FramingSpec => []FramingTypeOK
<1>1. FInv => FramingTypeOK
  BY DEF FInv, QueuesOK, FramingTypeOK
<1> QED
  BY <1>1, FInvCorrect, PTL

(* Nobody falls out of step where every message sent fits its length:      *)
(* conversion in place, relays, answers and refusals keep the length true. *)
THEOREM LostOnlyOverlongCorrect == FramingSpec => []LostOnlyOverlong
<1>1. FInv => LostOnlyOverlong
  BY DEF FInv, LostOnlyOverlong
<1> QED
  BY <1>1, FInvCorrect, PTL

(* What the invariant says of a message on a stream that is in step.       *)
LEMMA OnWireGood ==
    ASSUME FInv, NEW dir \in {"up", "down"}, NEW k \in Clients,
           <<dir, k>> \notin overlong, NEW f \in OnWire(dir, k)
    PROVE  f \in Frame /\ Shape(dir, k, f) /\ InStep(f) /\ Body(f) \in Fits
<1>1. f \in Elems(IF dir = "up" THEN up[k] ELSE down[k])
  BY DEF OnWire, Elems
<1>2. f \in Sendable(dir, k) /\ ~Overlong(f)
  BY <1>1 DEF FInv, QueuesOK
<1> QED
  BY <1>2, BodyType DEF Sendable, Honest

(* What a reader computes where the header has the size that it skips.     *)
LEMMA PayloadLenRight ==
    ASSUME NEW f \in Frame, Body(f) \in Fits, InStep(f), Skipped(f) = f.ext
    PROVE  PayloadLen(f) = TargetSize * f.targets + f.result + f.data
<1>1. /\ f.ext \in Nat /\ f.targets \in Nat /\ f.result \in Nat /\ f.data \in Nat
  BY DEF Frame, ServiceSize, PublishingSize, ResultSize
<1>2. /\ Body(f) - f.ext = TargetSize * f.targets + f.result + f.data
      /\ Body(f) - f.ext \in Nat /\ Body(f) - f.ext \in Short
  BY <1>1, SMT DEF Body, Fits, LenBytes, TargetSize, Short
<1>3. Narrow(Body(f) - f.ext) = Body(f) - f.ext
  BY <1>2, NarrowType
<1> QED
  BY <1>2, <1>3 DEF PayloadLen, InStep

(* The payload of a request that names no targets is the data of its       *)
(* sender; the payload of any request ends where the message ends.  That of*)
(* a PUBLISH_2 with targets begins before the data, with the ids.          *)
THEOREM RequestPayloadCorrect == FramingSpec => []RequestPayloadRight
<1>1. ASSUME FInv, NEW dir \in {"up", "down"}, NEW k \in Clients,
             <<dir, k>> \notin overlong, NEW f \in OnWire(dir, k), ~f.rsp
      PROVE  /\ f.targets = 0 => Skipped(f) = DataOffset(f) /\ PayloadLen(f) = f.data
             /\ Skipped(f) + PayloadLen(f) = Body(f)
  <2>1. f \in Frame /\ Shape(dir, k, f) /\ InStep(f) /\ Body(f) \in Fits
    BY <1>1, OnWireGood
  <2>2. Skipped(f) = f.ext /\ f.result = 0
    BY <1>1, <2>1 DEF Shape
  <2>3. PayloadLen(f) = TargetSize * f.targets + f.result + f.data
    BY <2>1, <2>2, PayloadLenRight
  <2>4. f.ext \in Nat /\ f.targets \in Nat /\ f.data \in Nat
    BY <2>1 DEF Frame, ServiceSize, PublishingSize
  <2>5. Skipped(f) + PayloadLen(f) = Body(f)
    BY <2>2, <2>3, <2>4, SMT DEF Body, TargetSize
  <2>6. ASSUME f.targets = 0
        PROVE  DataOffset(f) = f.ext /\ PayloadLen(f) = f.data
    BY <2>2, <2>3, <2>4, <2>6, SMT DEF DataOffset, TargetSize
  <2> QED
    BY <2>2, <2>5, <2>6
<1>2. FInv => RequestPayloadRight
  BY <1>1 DEF RequestPayloadRight
<1> QED
  BY <1>2, FInvCorrect, PTL

(* In every response but the refusal of the service request of a client    *)
(* that is not registered, the result code and the data behind it are read *)
(* from where they were written; in that refusal, what is read is at least *)
(* inside the message.                                                     *)
THEOREM ResultReadCorrect == FramingSpec => []ResultRead
<1>1. ASSUME FInv, NEW dir \in {"up", "down"}, NEW k \in Clients,
             <<dir, k>> \notin overlong, NEW f \in OnWire(dir, k), f.rsp,
             ~RefusedUnknown(k, f)
      PROVE  CodeFound(f) /\ Skipped(f) + ResultSize + ContentSize(f) = Body(f)
  <2>1. f \in Frame /\ Shape(dir, k, f) /\ InStep(f) /\ Body(f) \in Fits
    BY <1>1, OnWireGood
  <2>2. Skipped(f) = f.ext /\ f.targets = 0 /\ f.result = ResultSize
    BY <1>1, <2>1 DEF Shape, RefusedUnknown
  <2>3. PayloadLen(f) = TargetSize * f.targets + f.result + f.data
    BY <2>1, <2>2, PayloadLenRight
  <2>4. f.ext \in Nat /\ f.data \in Nat
    BY <2>1 DEF Frame, ServiceSize, PublishingSize
  <2> QED
    BY <2>2, <2>3, <2>4, SMT DEF CodeFound, Body, TargetSize, ResultSize, ContentSize
<1>2. ASSUME FInv, NEW dir \in {"up", "down"}, NEW k \in Clients,
             <<dir, k>> \notin overlong, NEW f \in OnWire(dir, k), f.rsp,
             RefusedUnknown(k, f)
      PROVE  Skipped(f) + ResultSize + ContentSize(f) = Body(f)
  <2>1. f \in Frame /\ Shape(dir, k, f) /\ InStep(f)
    BY <1>2, OnWireGood
  <2>2. /\ f.ext = 0 /\ f.targets = 0 /\ f.result = 1 /\ f.data = 34
        /\ Skipped(f) = 11
    BY <1>2, <2>1 DEF Shape, RefusedUnknown, Skipped, ResultSize, UnknownSize, ServiceSize
  <2>3. Body(f) = 35
    BY <2>2, SMT DEF Body, TargetSize
  <2>4. PayloadLen(f) = Narrow(24)
    BY <2>1, <2>2, <2>3, SMT DEF PayloadLen, InStep
  <2>5. Narrow(24) = 24
    BY NarrowType, SMT DEF Short
  <2> QED
    BY <2>2, <2>3, <2>4, <2>5, SMT DEF ContentSize, ResultSize
<1>3. FInv => ResultRead
  BY <1>1, <1>2 DEF ResultRead
<1> QED
  BY <1>3, FInvCorrect, PTL
=============================================================================
