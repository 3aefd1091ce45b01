-------------------------- MODULE TcpClientProofs --------------------------
(***************************************************************************)
(* A TcpClient whose connect() is called once has one attempt or one       *)
(* connection at a time, and nothing that was destroyed is called, for all *)
(* delays and any number of stops and of connections.                      *)
(*                                                                         *)
(* The inductive invariant says what excludes what: a thread that is about *)
(* to start, startInLoop in the queue, an attempt, a retry timer, a        *)
(* restart and an open connection.  It rests on the order of the functors: *)
(* resetChannel of an attempt runs before forceCloseInLoop of the          *)
(* connection it made.                                                     *)
(***************************************************************************)
EXTENDS TcpClient, FiniteSetTheorems, TLAPS

\* Leaves go to Zenon unless they name another prover.
USE ZenonT(60)

FnCalls == {"startInLoop", "stopInLoop", "resetChannel", "forceCloseInLoop", "connectDestroyed"}
Fn == [call : FnCalls, conn : Nat]
ConnStates == {"kConnected", "kDisconnecting", "kDisconnected"}
Conn == [state : ConnStates, cb : {"client", "detail"}, destroyed : {0, 1}]
Client == [alive : BOOLEAN, connect : BOOLEAN, retry : BOOLEAN, connection : Nat,
           keeps : BOOLEAN]
Delays == kInitRetryDelayMs .. kMaxRetryDelayMs
Object == [connect : BOOLEAN, state : States, channel : Channels, delay : Delays,
           timers : Nat, gaveUp : BOOLEAN]

ForceCall(i) == [call |-> "forceCloseInLoop", conn |-> i]
DestroyCall(i) == [call |-> "connectDestroyed", conn |-> i]

-----------------------------------------------------------------------------
(* The functors, in the order in which they run.                           *)

(* f may be queued before g when the connections C are closed: no functor  *)
(* but stopInLoop and forceCloseInLoop is queued twice, and resetChannel   *)
(* does not come after forceCloseInLoop of an open connection.             *)
Before(C, f, g) ==
    /\ f.call \in {"startInLoop", "resetChannel", "connectDestroyed"} => f # g
    /\ f.call = "forceCloseInLoop" /\ g.call = "resetChannel" => f.conn \in C
Fine(C, q) == \A i, j \in 1 .. Len(q) : i < j => Before(C, q[i], q[j])
Ordered(b, p, C) ==
    /\ b \in Seq(Fn) /\ p \in Seq(Fn) /\ Fine(C, b) /\ Fine(C, p)
    /\ \A f \in Range(b), g \in Range(p) : Before(C, f, g)

(* A functor is about a connection that exists, or about the connector.    *)
Bound(f) ==
    IF f.call \in {"forceCloseInLoop", "connectDestroyed"} THEN f.conn \in DOMAIN conns
    ELSE f = Call(f.call)

Closed == {i \in DOMAIN conns : conns[i].state = "kDisconnected"}
HasStart == Call("startInLoop") \in Queued
HasStop == Call("stopInLoop") \in Queued
HasReset == Call("resetChannel") \in Queued
HasDestroy(i) == DestroyCall(i) \in Queued

Functors == Ordered(batch, pending, Closed) /\ \A f \in Queued : Bound(f)

-----------------------------------------------------------------------------
(* The inductive invariant.                                                *)

AnyOpen == \E i \in DOMAIN conns : Open(i)
NoneOrphan == \A i \in DOMAIN conns : conns[i].cb = "client"
Starting == at["loop"] = "start" \/ at["user"] = "start" \/ HasStart

ConnsTyped ==
    /\ conns \in Seq(Conn) /\ Len(conns) <= MaxConns
    /\ client.connection \in 0 .. Len(conns)
PartsTyped ==
    /\ connector \in Object /\ connector.timers \in {0, 1} /\ client \in Client
    /\ at \in [Threads -> Places] /\ at["user"] # "restart"
    /\ stopped \in Threads \cup {"nobody"}
    /\ calls \in [connect : {0, 1}, stop : Nat]

(* The one call of connect() starts an attempt when there was nothing.     *)
Fresh ==
    /\ calls.connect = 0 => ~Starting /\ ~connector.connect
    /\ calls.connect = 0 \/ Starting =>
           /\ connector.timers = 0 /\ connector.state = "kDisconnected"
           /\ connector.channel = "none" /\ at["loop"] # "restart" /\ conns = <<>>
    /\ ~(at["loop"] = "start" /\ at["user"] = "start")
    /\ HasStart => at["loop"] # "start" /\ at["user"] # "start"

(* The channel goes with the state, and with the functor that frees it.    *)
ChannelKept ==
    /\ connector.state = "kConnecting" <=> connector.channel = "added"
    /\ connector.channel = "removed" <=> HasReset

(* A restart, an attempt, a timer and an open connection exclude another.  *)
OneThing ==
    /\ at["loop"] = "restart" =>
           connector.channel = "none" /\ connector.timers = 0 /\ ~AnyOpen
    /\ connector.channel = "added" => connector.timers = 0 /\ ~AnyOpen
    /\ connector.timers = 1 => connector.state = "kDisconnected" /\ ~AnyOpen

(* What is left when the client is destroyed.                              *)
Destroyed ==
    ~client.alive =>
        /\ at["loop"] = "idle" /\ at["user"] = "idle" /\ client.connection = 0
        /\ connector.connect =>
               connector.channel # "added" /\ connector.timers = 0 /\ ~HasStart
        /\ NoneOrphan =>
               /\ ~connector.connect
               /\ connector.channel = "added" => client.keeps /\ HasStop
               /\ ~client.keeps => ~HasStart /\ ~HasStop /\ ~HasReset

(* What a stop() in the loop has done, and what its functor will do.       *)
StopCounts ==
    stopped = "loop" =>
        /\ ~client.connect /\ ~connector.connect /\ at["loop"] # "restart"
        /\ connector.channel = "added" => at["loop"] = "stop" \/ HasStop

(* connection_ is the one open connection that has the client's callback.  *)
Connections ==
    /\ \A i, j \in DOMAIN conns : Open(i) /\ Open(j) => i = j
    /\ client.connection # 0 =>
           Open(client.connection) /\ conns[client.connection].cb = "client"
    /\ \A i \in DOMAIN conns : Open(i) /\ conns[i].cb = "client" =>
                                   client.alive /\ client.connection = i
    /\ ~NoneOrphan => ~client.alive
    /\ client.keeps => ~client.alive
    /\ \A i \in DOMAIN conns :
           /\ Open(i) => conns[i].destroyed = 0
           /\ Open(i) \/ conns[i].destroyed = 1 => ~HasDestroy(i)

Core == Fresh /\ ChannelKept /\ OneThing /\ Destroyed /\ StopCounts

CInv == PartsTyped /\ ConnsTyped /\ Functors /\ Core /\ Connections

-----------------------------------------------------------------------------
(* Queues.                                                                 *)

(* What Append does to a queue.                                            *)
LEMMA AppendFine ==
    ASSUME NEW C, NEW q \in Seq(Fn), NEW f \in Fn, Fine(C, q),
           \A g \in Range(q) : Before(C, g, f)
    PROVE  /\ Append(q, f) \in Seq(Fn) /\ Fine(C, Append(q, f))
           /\ Range(Append(q, f)) = Range(q) \cup {f}
<1> DEFINE p == Append(q, f)
<1>1. /\ p \in Seq(Fn) /\ Len(p) = Len(q) + 1 /\ Len(q) \in Nat
      /\ DOMAIN p = 1 .. Len(q) + 1 /\ DOMAIN q = 1 .. Len(q)
      /\ p[Len(q) + 1] = f /\ \A i \in 1 .. Len(q) : p[i] = q[i]
    BY SMTT(60)
<1>2. ASSUME NEW i \in 1 .. Len(p), NEW j \in 1 .. Len(p), i < j
      PROVE  Before(C, p[i], p[j])
  <2>1. CASE j \in 1 .. Len(q)
    <3>1. i \in 1 .. Len(q) /\ p[i] = q[i] /\ p[j] = q[j]
        BY <1>1, <1>2, <2>1, SMTT(60)
    <3> QED
        BY <1>2, <2>1, <3>1 DEF Fine
  <2>2. CASE j \notin 1 .. Len(q)
    <3>1. i \in DOMAIN q /\ p[i] = q[i] /\ p[j] = f
        BY <1>1, <1>2, <2>2, SMTT(60)
    <3>2. q[i] \in Range(q)
        BY <3>1 DEF Range
    <3> QED
        BY <3>1, <3>2
  <2> QED
      BY <2>1, <2>2
<1>3. Range(p) = Range(q) \cup {f}
    BY <1>1, SMTT(60) DEF Range
<1> QED
    BY <1>1, <1>2, <1>3 DEF Fine

(* What taking the first functor from a queue does.                        *)
LEMMA TailFine ==
    ASSUME NEW C, NEW q \in Seq(Fn), q # <<>>, Fine(C, q)
    PROVE  /\ Tail(q) \in Seq(Fn) /\ Fine(C, Tail(q))
           /\ Head(q) \in Fn /\ Head(q) \in Range(q)
           /\ Range(q) = Range(Tail(q)) \cup {Head(q)}
           /\ \A g \in Range(Tail(q)) : Before(C, Head(q), g)
<1> DEFINE p == Tail(q)
<1>1. /\ p \in Seq(Fn) /\ Len(p) = Len(q) - 1 /\ Len(q) \in Nat /\ Len(q) > 0
      /\ DOMAIN p = 1 .. Len(q) - 1 /\ DOMAIN q = 1 .. Len(q)
      /\ Head(q) = q[1] /\ \A i \in 1 .. Len(q) - 1 : p[i] = q[i + 1]
      /\ 1 \in DOMAIN q /\ q[1] \in Fn
    BY SMTT(60)
<1>2. ASSUME NEW i \in 1 .. Len(p), NEW j \in 1 .. Len(p), i < j
      PROVE  Before(C, p[i], p[j])
  <2>1. i + 1 \in 1 .. Len(q) /\ j + 1 \in 1 .. Len(q) /\ i + 1 < j + 1
      BY <1>1, <1>2, SMTT(60)
  <2>2. p[i] = q[i + 1] /\ p[j] = q[j + 1]
      BY <1>1, SMTT(60)
  <2> QED
      BY <2>1, <2>2 DEF Fine
<1>3. \A g \in Range(p) : Before(C, q[1], g)
  <2> SUFFICES ASSUME NEW i \in 1 .. Len(q) - 1
               PROVE  Before(C, q[1], p[i])
      BY <1>1 DEF Range
  <2>1. 1 \in 1 .. Len(q) /\ i + 1 \in 1 .. Len(q) /\ 1 < i + 1 /\ p[i] = q[i + 1]
      BY <1>1, SMTT(60)
  <2> QED
      BY <2>1 DEF Fine
<1>4. Range(q) = Range(p) \cup {q[1]}
  <2>1. \A i \in DOMAIN p : i + 1 \in DOMAIN q /\ p[i] = q[i + 1]
      BY <1>1, SMTT(60)
  <2>2. \A i \in DOMAIN q : i = 1 \/ (i - 1 \in DOMAIN p /\ p[i - 1] = q[i])
      BY <1>1, SMTT(60)
  <2>3. ASSUME NEW x \in Range(q) PROVE x \in Range(p) \cup {q[1]}
    <3>1. PICK i \in DOMAIN q : x = q[i]
        BY <2>3 DEF Range
    <3> QED
        BY <2>2, <3>1 DEF Range
  <2>4. ASSUME NEW x \in Range(p) PROVE x \in Range(q)
    <3>1. PICK i \in DOMAIN p : x = p[i]
        BY <2>4 DEF Range
    <3> QED
        BY <2>1, <3>1 DEF Range
  <2>5. q[1] \in Range(q)
      BY <1>1 DEF Range
  <2> QED
      BY <2>3, <2>4, <2>5
<1>5. q[1] \in Range(q)
    BY <1>4
<1> QED
    BY <1>1, <1>2, <1>3, <1>4, <1>5 DEF Fine

(* An empty queue has no functors.                                         *)
LEMMA EmptyFine == \A C : Fine(C, <<>>) /\ <<>> \in Seq(Fn) /\ Range(<<>>) = {}
<1>1. Len(<<>>) = 0 /\ <<>> \in Seq(Fn) /\ DOMAIN <<>> = {} /\ 1 .. 0 = {}
    BY SMTT(60)
<1>2. Range(<<>>) = {}
    BY <1>1 DEF Range
<1> QED
    BY <1>1, <1>2 DEF Fine

(* A connection that is closed, or that is new, keeps the order.           *)
LEMMA OrderedMore ==
    ASSUME NEW C, NEW D, NEW b, NEW p, Ordered(b, p, C),
           \A f \in Range(b) \cup Range(p) :
               f.call = "forceCloseInLoop" => (f.conn \in C => f.conn \in D)
    PROVE  Ordered(b, p, D)
<1>1. b \in Seq(Fn) /\ p \in Seq(Fn)
    BY DEF Ordered
<1>2. ASSUME NEW f \in Range(b) \cup Range(p), NEW g, Before(C, f, g) PROVE Before(D, f, g)
    BY <1>2 DEF Before
<1>3. ASSUME NEW q, q = b \/ q = p PROVE Fine(D, q)
  <2> SUFFICES ASSUME NEW i \in 1 .. Len(q), NEW j \in 1 .. Len(q), i < j
               PROVE  Before(D, q[i], q[j])
      BY DEF Fine
  <2>1. Fine(C, q)
      BY <1>3 DEF Ordered
  <2>2. Before(C, q[i], q[j])
      BY <2>1 DEF Fine
  <2>3. DOMAIN q = 1 .. Len(q)
      BY <1>1, <1>3, SMTT(60)
  <2>4. q[i] \in Range(b) \cup Range(p)
      BY <1>3, <2>3 DEF Range
  <2> QED
      BY <1>2, <2>2, <2>4
<1>4. \A f \in Range(b), g \in Range(p) : Before(D, f, g)
    BY <1>2 DEF Ordered
<1> QED
    BY <1>1, <1>3, <1>4 DEF Ordered

(* A functor queued behind the others.                                     *)
MayPush(b, p, C, f) ==
    Ordered(b, p, C) /\ f \in Fn /\ \A g \in Range(b) \cup Range(p) : Before(C, g, f)
IsPush(b, p, C, f) ==
    Ordered(b, Append(p, f), C) /\ Range(Append(p, f)) = Range(p) \cup {f}

(* queueInLoop keeps the order.                                            *)
LEMMA PushOrdered ==
    ASSUME NEW C, NEW b, NEW p, NEW f, MayPush(b, p, C, f)
    PROVE  IsPush(b, p, C, f)
<1>1. p \in Seq(Fn) /\ Fine(C, p) /\ b \in Seq(Fn) /\ Fine(C, b) /\ f \in Fn
    BY DEF Ordered, MayPush
<1>2. PICK p2 : p2 = Append(p, f)
    OBVIOUS
<1>3. p2 \in Seq(Fn) /\ Fine(C, p2) /\ Range(p2) = Range(p) \cup {f}
    BY <1>1, <1>2, AppendFine DEF MayPush
<1>4. \A g \in Range(b), h \in Range(p2) : Before(C, g, h)
    BY <1>3 DEF Ordered, MayPush
<1> QED
    BY <1>1, <1>2, <1>3, <1>4 DEF Ordered, IsPush

(* A functor taken from the front.                                         *)
IsPop(b, p, C) ==
    /\ Ordered(Tail(b), p, C) /\ Head(b) \in Fn
    /\ Range(b) = Range(Tail(b)) \cup {Head(b)}
    /\ \A g \in Range(Tail(b)) \cup Range(p) : Before(C, Head(b), g)

(* So does running a functor, which none that is left has to precede.      *)
LEMMA PopOrdered ==
    ASSUME NEW C, NEW b, NEW p, Ordered(b, p, C), b # <<>>
    PROVE  IsPop(b, p, C)
<1>1. p \in Seq(Fn) /\ Fine(C, p) /\ b \in Seq(Fn) /\ Fine(C, b)
    BY DEF Ordered
<1>2. PICK h, b2 : h = Head(b) /\ b2 = Tail(b)
    OBVIOUS
<1>3. /\ b2 \in Seq(Fn) /\ Fine(C, b2) /\ h \in Fn /\ h \in Range(b)
      /\ Range(b) = Range(b2) \cup {h} /\ \A g \in Range(b2) : Before(C, h, g)
    BY <1>1, <1>2, TailFine
<1>4. \A g \in Range(p) : Before(C, h, g)
    BY <1>3 DEF Ordered
<1>5. \A g \in Range(b2), f \in Range(p) : Before(C, g, f)
    BY <1>3 DEF Ordered
<1>6. Ordered(b2, p, C)
    BY <1>1, <1>3, <1>5 DEF Ordered
<1> QED
    BY <1>2, <1>3, <1>4, <1>6 DEF IsPop

(* What the queue becomes: a functor more, the same ones, one less.        *)
Pushed(f) == Ordered(batch', pending', Closed) /\ Queued' = Queued \cup {f}
Moved == Ordered(batch', pending', Closed) /\ Queued' = Queued
Popped(h) ==
    /\ Ordered(batch', pending', Closed) /\ Queued = Queued' \cup {h}
    /\ h \in Fn /\ Bound(h) /\ \A g \in Queued' : Before(Closed, h, g)

(* Swapping pendingFunctors_ into the batch changes no functor.            *)
LEMMA QueueMoved ==
    ASSUME Functors, UNCHANGED <<batch, pending>> \/ TakeBatch
    PROVE  Moved
<1>1. CASE UNCHANGED <<batch, pending>>
    BY <1>1 DEF Functors, Moved, Queued
<1>2. CASE TakeBatch
  <2>1. batch = <<>> /\ batch' = pending /\ pending' = <<>>
      BY <1>2 DEF TakeBatch, BetweenBatches
  <2>2. Range(<<>>) = {} /\ \A C : Fine(C, <<>>) /\ <<>> \in Seq(Fn)
      BY EmptyFine
  <2> QED
      BY <2>1, <2>2 DEF Functors, Moved, Queued, Ordered
<1> QED
    BY <1>1, <1>2

(* EventLoop::queueInLoop, outside the functors.                           *)
LEMMA QueuePushed ==
    ASSUME Functors, NEW f \in Fn, QueueInLoop(f), batch' = batch,
           \A g \in Queued : Before(Closed, g, f)
    PROVE  Pushed(f)
<1>1. PICK b, p, C : b = batch /\ p = pending /\ C = Closed
    OBVIOUS
<1>2. MayPush(b, p, C, f)
    BY <1>1 DEF MayPush, Functors, Queued
<1>3. IsPush(b, p, C, f)
    BY <1>2, PushOrdered
<1>4. pending' = Append(p, f)
    BY <1>1 DEF QueueInLoop
<1> QED
    BY <1>1, <1>3, <1>4 DEF Pushed, IsPush, Queued

(* A functor that queues none.                                             *)
LEMMA QueuePopped ==
    ASSUME Functors, NEW s, Run(s), pending' = pending, NEW h, h = Head(batch)
    PROVE  Popped(h) /\ h.call = s
<1>1. PICK b, p, C : b = batch /\ p = pending /\ C = Closed
    OBVIOUS
<1>2. Ordered(b, p, C) /\ b # <<>> /\ h.call = s /\ batch' = Tail(b) /\ h = Head(b)
    BY <1>1 DEF Functors, Run
<1>3. IsPop(b, p, C)
    BY <1>2, PopOrdered
<1>4. Queued' = Range(Tail(b)) \cup Range(p) /\ Queued = Range(b) \cup Range(p)
    BY <1>1, <1>2 DEF Queued
<1>5. /\ Ordered(batch', pending', Closed) /\ Queued = Queued' \cup {h}
      /\ h \in Fn /\ \A g \in Queued' : Before(Closed, h, g)
    BY <1>1, <1>2, <1>3, <1>4 DEF IsPop
<1>6. Bound(h)
    BY <1>5 DEF Functors
<1> QED
    BY <1>2, <1>5, <1>6 DEF Popped

(* A functor run that queues another one.                                  *)
Turned(h, f) ==
    /\ Ordered(batch', pending', Closed)
    /\ h \in Fn /\ h \in Queued /\ Bound(h)
    /\ \E S : Queued = S \cup {h} /\ Queued' = S \cup {f} /\ \A g \in S : Before(Closed, h, g)

(* A functor that queues one.                                              *)
LEMMA QueueTurned ==
    ASSUME Functors, NEW s, Run(s), NEW f \in Fn, QueueInLoop(f),
           NEW h, h = Head(batch), \A g \in Queued : Before(Closed, g, f)
    PROVE  Turned(h, f) /\ h.call = s
<1>1. PICK b, p, C : b = batch /\ p = pending /\ C = Closed
    OBVIOUS
<1>2. /\ Ordered(b, p, C) /\ b # <<>> /\ h.call = s /\ batch' = Tail(b) /\ h = Head(b)
      /\ pending' = Append(p, f) /\ Queued = Range(b) \cup Range(p)
    BY <1>1 DEF Functors, Run, QueueInLoop, Queued
<1>3. IsPop(b, p, C)
    BY <1>2, PopOrdered
<1>4. PICK b2 : b2 = Tail(b)
    OBVIOUS
<1>5. MayPush(b2, p, C, f)
    BY <1>1, <1>2, <1>3, <1>4 DEF MayPush, IsPop
<1>6. IsPush(b2, p, C, f)
    BY <1>5, PushOrdered
<1>7. PICK S : S = Range(b2) \cup Range(p)
    OBVIOUS
<1>8. Queued = S \cup {h} /\ h \in Fn /\ \A g \in S : Before(Closed, h, g)
    BY <1>1, <1>2, <1>3, <1>4, <1>7 DEF IsPop
<1>9. Queued' = S \cup {f} /\ Ordered(batch', pending', Closed)
    BY <1>1, <1>2, <1>4, <1>6, <1>7 DEF IsPush, Queued
<1>10. Bound(h) /\ h \in Queued
    BY <1>8 DEF Functors
<1> QED
    BY <1>2, <1>8, <1>9, <1>10 DEF Turned

-----------------------------------------------------------------------------
(* What the member functions of Connector do.                              *)

(* The fields of a connector.                                              *)
LEMMA FieldsOf ==
    ASSUME NEW c \in Object
    PROVE  /\ c.connect \in BOOLEAN /\ c.state \in States /\ c.channel \in Channels
           /\ c.delay \in Delays /\ c.timers \in Nat /\ c.gaveUp \in BOOLEAN
  BY SMTT(60) DEF Object

(* The connector d after a step.                                           *)
Is(d, connect, state, channel, timers) ==
    /\ d \in Object /\ d.connect = connect /\ d.state = state
    /\ d.channel = channel /\ d.timers = timers

(* What EXCEPT does to the fields that matter,                             *)
LEMMA SetField ==
    ASSUME NEW c \in Object, NEW b \in BOOLEAN, NEW s \in States, NEW h \in Channels,
           NEW n \in Nat
    PROVE  /\ Is([c EXCEPT !.connect = b], b, c.state, c.channel, c.timers)
           /\ Is([c EXCEPT !.state = s], c.connect, s, c.channel, c.timers)
           /\ Is([c EXCEPT !.channel = h], c.connect, c.state, h, c.timers)
           /\ Is([c EXCEPT !.timers = n], c.connect, c.state, c.channel, n)
<1>1. Is([c EXCEPT !.connect = b], b, c.state, c.channel, c.timers)
    BY SMTT(60) DEF Object, Is
<1>2. Is([c EXCEPT !.state = s], c.connect, s, c.channel, c.timers)
    BY SMTT(60) DEF Object, Is
<1>3. Is([c EXCEPT !.channel = h], c.connect, c.state, h, c.timers)
    BY SMTT(60) DEF Object, Is
<1>4. Is([c EXCEPT !.timers = n], c.connect, c.state, c.channel, n)
    BY SMTT(60) DEF Object, Is
<1> QED
    BY <1>1, <1>2, <1>3, <1>4

(* and to the others.                                                      *)
LEMMA SetOther ==
    ASSUME NEW c \in Object, NEW b \in BOOLEAN, NEW d \in Delays
    PROVE  /\ Is([c EXCEPT !.gaveUp = b], c.connect, c.state, c.channel, c.timers)
           /\ Is([c EXCEPT !.delay = d], c.connect, c.state, c.channel, c.timers)
           /\ [c EXCEPT !.delay = d].delay = d
           /\ [c EXCEPT !.gaveUp = b].delay = c.delay
<1>1. Is([c EXCEPT !.gaveUp = b], c.connect, c.state, c.channel, c.timers)
    BY SMTT(60) DEF Object, Is
<1>2. Is([c EXCEPT !.delay = d], c.connect, c.state, c.channel, c.timers)
    BY SMTT(60) DEF Object, Is
<1>3. [c EXCEPT !.delay = d].delay = d /\ [c EXCEPT !.gaveUp = b].delay = c.delay
    BY SMTT(60) DEF Object
<1> QED
    BY <1>1, <1>2, <1>3

(* The delay is doubled up to its limit.                                   *)
LEMMA DelayGrows ==
    ASSUME NEW d \in Delays
    PROVE  Min({d * 2, kMaxRetryDelayMs}) \in Delays
<1>1. /\ d \in Nat /\ kMaxRetryDelayMs \in Nat /\ kInitRetryDelayMs \in Nat
      /\ kInitRetryDelayMs <= d /\ d <= kMaxRetryDelayMs /\ d * 2 \in Nat
    BY DelayAssumption, SMTT(60) DEF Delays
<1>2. PICK m \in {d * 2, kMaxRetryDelayMs} : \A y \in {d * 2, kMaxRetryDelayMs} : m <= y
    BY <1>1, SMTT(60)
<1>3. /\ Min({d * 2, kMaxRetryDelayMs}) \in {d * 2, kMaxRetryDelayMs}
      /\ \A y \in {d * 2, kMaxRetryDelayMs} : Min({d * 2, kMaxRetryDelayMs}) <= y
    BY <1>2 DEF Min
<1>4. PICK k : k = Min({d * 2, kMaxRetryDelayMs})
    OBVIOUS
<1>5. k \in {d * 2, kMaxRetryDelayMs} /\ k <= d * 2 /\ k <= kMaxRetryDelayMs
    BY <1>3, <1>4
<1>6. k \in Delays
    BY <1>1, <1>5, SMTT(60) DEF Delays
<1> QED
    BY <1>4, <1>6

(* Connector::retry.                                                       *)
LEMMA RetryIs ==
    ASSUME NEW c \in Object
    PROVE  Is(Retry(c), c.connect, "kDisconnected", c.channel,
              IF c.connect THEN c.timers + 1 ELSE c.timers)
<1>1. PICK c1 : c1 = [c EXCEPT !.state = "kDisconnected"]
    OBVIOUS
<1>2. Is(c1, c.connect, "kDisconnected", c.channel, c.timers)
    BY <1>1, SetField, FieldsOf DEF States
<1>3. CASE c.connect
  <2>1. PICK c2 : c2 = [c1 EXCEPT !.timers = c1.timers + 1]
      OBVIOUS
  <2>2. c1 \in Object /\ c1.timers + 1 \in Nat /\ c1.timers = c.timers
    <3>1. c1 \in Object /\ c1.timers = c.timers
        BY <1>2 DEF Is
    <3>2. c1.timers \in Nat
        BY <3>1, FieldsOf
    <3>3. c1.timers + 1 \in Nat
        BY <3>2, SMTT(60)
    <3> QED
        BY <3>1, <3>3
  <2>3. Is(c2, c1.connect, c1.state, c1.channel, c1.timers + 1)
      BY <2>1, <2>2, SetField, FieldsOf
  <2>4. PICK m : m = Min({c2.delay * 2, kMaxRetryDelayMs})
      OBVIOUS
  <2>5. c2 \in Object
      BY <2>3 DEF Is
  <2>6. m \in Delays
      BY <2>4, <2>5, FieldsOf, DelayGrows
  <2>7. PICK c3 : c3 = [c2 EXCEPT !.delay = m]
      OBVIOUS
  <2>8. Is(c3, c2.connect, c2.state, c2.channel, c2.timers)
      BY <2>5, <2>6, <2>7, SetOther
  <2>9. Retry(c) = c3
      BY <1>1, <1>3, <2>1, <2>4, <2>7 DEF Retry
  <2> QED
      BY <1>2, <1>3, <2>2, <2>3, <2>8, <2>9 DEF Is
<1>4. CASE ~c.connect
  <2>1. Retry(c) = c1
      BY <1>1, <1>4 DEF Retry
  <2> QED
      BY <1>2, <1>4, <2>1 DEF Is
<1> QED
    BY <1>3, <1>4

(* Connector::startInLoop: nothing, an attempt, or another one later.      *)
Begun(d, c) ==
    \/ Is(d, c.connect, c.state, c.channel, c.timers)
    \/ c.connect /\ Is(d, c.connect, "kConnecting", "added", c.timers)
    \/ c.connect /\ Is(d, c.connect, "kDisconnected", c.channel, c.timers + 1)

(* connect(2) is in progress, fails, or is not called.                     *)
LEMMA StartIs ==
    ASSUME NEW c \in Object, NEW d \in StartInLoop(c)
    PROVE  Begun(d, c)
<1>1. CASE ~c.connect
    BY <1>1 DEF StartInLoop, Begun, Is
<1>2. CASE c.connect
  <2>1. d \in {Connecting(c), Retry(c), [c EXCEPT !.gaveUp = TRUE]}
      BY <1>2 DEF StartInLoop, ConnectSocket
  <2>2. CASE d = Connecting(c)
    <3>1. PICK c1 : c1 = [c EXCEPT !.state = "kConnecting"]
        OBVIOUS
    <3>2. Is(c1, c.connect, "kConnecting", c.channel, c.timers)
        BY <3>1, SetField, FieldsOf DEF States
    <3>3. d = [c1 EXCEPT !.channel = "added"]
        BY <2>2, <3>1 DEF Connecting
    <3>4. Is(d, c1.connect, c1.state, "added", c1.timers)
        BY <3>2, <3>3, SetField, FieldsOf DEF Channels, Is
    <3> QED
        BY <1>2, <3>2, <3>4 DEF Begun, Is
  <2>3. CASE d = Retry(c)
      BY <1>2, <2>3, RetryIs DEF Begun, Is
  <2>4. CASE d = [c EXCEPT !.gaveUp = TRUE]
      BY <2>4, SetOther, FieldsOf DEF Begun
  <2> QED
      BY <2>1, <2>2, <2>3, <2>4
<1> QED
    BY <1>1, <1>2

(* Connector::restart.                                                     *)
LEMMA RestartIs ==
    ASSUME NEW c \in Object, NEW d \in Restart(c)
    PROVE  \E e : Is(e, TRUE, "kDisconnected", c.channel, c.timers) /\ Begun(d, e)
<1>1. PICK c1 : c1 = [c EXCEPT !.state = "kDisconnected"]
    OBVIOUS
<1>2. Is(c1, c.connect, "kDisconnected", c.channel, c.timers)
    BY <1>1, SetField, FieldsOf DEF States
<1>3. kInitRetryDelayMs \in Delays
    BY DelayAssumption, SMTT(60) DEF Delays
<1>4. PICK c2 : c2 = [c1 EXCEPT !.delay = kInitRetryDelayMs]
    OBVIOUS
<1>5. Is(c2, c1.connect, c1.state, c1.channel, c1.timers)
    BY <1>2, <1>3, <1>4, SetOther DEF Is
<1>6. PICK c3 : c3 = [c2 EXCEPT !.connect = TRUE]
    OBVIOUS
<1>7. Is(c3, TRUE, c2.state, c2.channel, c2.timers)
    BY <1>5, <1>6, SetField, FieldsOf DEF Is
<1>8. d \in StartInLoop(c3)
    BY <1>1, <1>4, <1>6 DEF Restart
<1>9. Begun(d, c3)
    BY <1>7, <1>8, StartIs DEF Is
<1>10. Is(c3, TRUE, "kDisconnected", c.channel, c.timers)
    BY <1>2, <1>5, <1>7 DEF Is
<1> QED
    BY <1>9, <1>10

(* The ends of an attempt: it is stopped, it fails, it succeeds.           *)
LEMMA AttemptEnds ==
    ASSUME NEW c \in Object
    PROVE  /\ Is(StopInLoop(c), c.connect, "kDisconnected", "removed",
                 IF c.connect THEN c.timers + 1 ELSE c.timers)
           /\ Is(Retry(RemoveAndResetChannel(c)), c.connect, "kDisconnected", "removed",
                 IF c.connect THEN c.timers + 1 ELSE c.timers)
           /\ Is([RemoveAndResetChannel(c) EXCEPT !.state = "kConnected"],
                 c.connect, "kConnected", "removed", c.timers)
<1>1. PICK r : r = RemoveAndResetChannel(c)
    OBVIOUS
<1>2. Is(r, c.connect, c.state, "removed", c.timers)
    BY <1>1, SetField, FieldsOf DEF RemoveAndResetChannel, Channels
<1>3. Is(Retry(r), r.connect, "kDisconnected", r.channel,
         IF r.connect THEN r.timers + 1 ELSE r.timers)
    BY <1>2, RetryIs DEF Is
<1>4. Is([r EXCEPT !.state = "kConnected"], r.connect, "kConnected", r.channel, r.timers)
    BY <1>2, SetField, FieldsOf DEF Is, States
<1>5. PICK c1, r1 : c1 = [c EXCEPT !.state = "kDisconnected"] /\ r1 = RemoveAndResetChannel(c1)
    OBVIOUS
<1>6. Is(c1, c.connect, "kDisconnected", c.channel, c.timers)
    BY <1>5, SetField, FieldsOf DEF States
<1>7. Is(r1, c1.connect, c1.state, "removed", c1.timers)
    BY <1>5, <1>6, SetField, FieldsOf DEF RemoveAndResetChannel, Channels, Is
<1>8. Is(Retry(r1), r1.connect, "kDisconnected", r1.channel,
         IF r1.connect THEN r1.timers + 1 ELSE r1.timers)
    BY <1>7, RetryIs DEF Is
<1>9. StopInLoop(c) = Retry(r1)
    BY <1>5 DEF StopInLoop
<1>10. Is(Retry(r), c.connect, "kDisconnected", "removed",
         IF c.connect THEN c.timers + 1 ELSE c.timers)
    BY <1>2, <1>3 DEF Is
<1>11. Is([r EXCEPT !.state = "kConnected"], c.connect, "kConnected", "removed", c.timers)
    BY <1>2, <1>4 DEF Is
<1>12. Is(Retry(r1), c.connect, "kDisconnected", "removed",
         IF c.connect THEN c.timers + 1 ELSE c.timers)
    BY <1>6, <1>7, <1>8 DEF Is
<1> QED
    BY <1>1, <1>9, <1>10, <1>11, <1>12

(* TcpClient::connect lets the connector connect.                          *)
LEMMA ConnectIs ==
    ASSUME NEW c \in Object
    PROVE  Is([c EXCEPT !.connect = TRUE, !.gaveUp = FALSE], TRUE, c.state, c.channel, c.timers)
<1>1. PICK c1 : c1 = [c EXCEPT !.connect = TRUE]
    OBVIOUS
<1>2. Is(c1, TRUE, c.state, c.channel, c.timers)
    BY <1>1, SetField, FieldsOf
<1>3. Is([c1 EXCEPT !.gaveUp = FALSE], c1.connect, c1.state, c1.channel, c1.timers)
    BY <1>2, SetOther, FieldsOf DEF Is
<1>4. [c EXCEPT !.connect = TRUE, !.gaveUp = FALSE] = [c1 EXCEPT !.gaveUp = FALSE]
    BY <1>1
<1> QED
    BY <1>2, <1>3, <1>4 DEF Is

-----------------------------------------------------------------------------
(* What is queued after a step.                                            *)

(* Functors are told apart by what they call and on what.                  *)
LEMMA CallsDiffer ==
    /\ \A s : Call(s).call = s
    /\ \A i : ForceCall(i).call = "forceCloseInLoop" /\ ForceCall(i).conn = i
    /\ \A i : DestroyCall(i).call = "connectDestroyed" /\ DestroyCall(i).conn = i
    /\ \A s \in FnCalls : Call(s) \in Fn
    /\ \A i \in Nat : ForceCall(i) \in Fn /\ DestroyCall(i) \in Fn
  BY SMTT(60) DEF Call, ForceCall, DestroyCall, Fn, FnCalls

(* A functor that calls connectDestroyed.                                  *)
LEMMA DestroyIs ==
    ASSUME NEW f \in Fn, f.call = "connectDestroyed"
    PROVE  f = DestroyCall(f.conn)
  BY SMTT(60) DEF DestroyCall, Fn

(* Any functor but resetChannel may be queued if it is not queued yet.     *)
LEMMA MayQueue ==
    ASSUME NEW C, NEW f, NEW g
    PROVE  /\ f.call = "stopInLoop" /\ (g = f => g.call = "stopInLoop") => Before(C, g, f)
           /\ f.call = "forceCloseInLoop" => Before(C, g, f)
           /\ f.call # "resetChannel" /\ g # f => Before(C, g, f)
  BY DEF Before

(* The functors of a queue in which nothing is new.                        *)
LEMMA SameHas ==
    ASSUME Queued' = Queued
    PROVE  /\ HasStart' <=> HasStart
           /\ HasStop' <=> HasStop
           /\ HasReset' <=> HasReset
           /\ \A i : HasDestroy(i)' <=> HasDestroy(i)
  BY DEF HasStart, HasStop, HasReset, HasDestroy, Call, DestroyCall

(* A functor that was queued.                                              *)
LEMMA PushedHas ==
    ASSUME NEW S, NEW f, Queued' = S \cup {f}
    PROVE  /\ HasStart' <=> Call("startInLoop") \in S \/ f = Call("startInLoop")
           /\ HasStop' <=> Call("stopInLoop") \in S \/ f = Call("stopInLoop")
           /\ HasReset' <=> Call("resetChannel") \in S \/ f = Call("resetChannel")
           /\ \A i : HasDestroy(i)' <=> DestroyCall(i) \in S \/ f = DestroyCall(i)
  BY DEF HasStart, HasStop, HasReset, HasDestroy, Call, DestroyCall

(* A functor that was run.                                                 *)
LEMMA PoppedHas ==
    ASSUME NEW S, NEW h, Queued = S \cup {h}, \A g \in S : Before(Closed, h, g)
    PROVE  /\ Call("startInLoop") \in S <=> HasStart /\ h # Call("startInLoop")
           /\ Call("resetChannel") \in S <=> HasReset /\ h # Call("resetChannel")
           /\ Call("stopInLoop") \in S => HasStop
           /\ h.call # "stopInLoop" => (Call("stopInLoop") \in S <=> HasStop)
           /\ \A i : DestroyCall(i) \in S <=> HasDestroy(i) /\ h # DestroyCall(i)
<1>1. /\ Call("startInLoop").call = "startInLoop" /\ Call("resetChannel").call = "resetChannel"
      /\ Call("stopInLoop").call = "stopInLoop"
    BY CallsDiffer
<1>2. \A i : DestroyCall(i).call = "connectDestroyed"
    BY CallsDiffer
<1>3. h.call \in {"startInLoop", "resetChannel", "connectDestroyed"} => h \notin S
    BY DEF Before
<1>4. \A f : f \in Queued <=> f \in S \/ f = h
    OBVIOUS
<1>5. Call("startInLoop") \in S <=> HasStart /\ h # Call("startInLoop")
    BY <1>1, <1>3, <1>4 DEF HasStart
<1>6. Call("resetChannel") \in S <=> HasReset /\ h # Call("resetChannel")
    BY <1>1, <1>3, <1>4 DEF HasReset
<1>7. /\ Call("stopInLoop") \in S => HasStop
      /\ h.call # "stopInLoop" => (Call("stopInLoop") \in S <=> HasStop)
    BY <1>1, <1>4 DEF HasStop
<1>8. \A i : DestroyCall(i) \in S <=> HasDestroy(i) /\ h # DestroyCall(i)
    BY <1>2, <1>3, <1>4 DEF HasDestroy
<1> QED
    BY <1>5, <1>6, <1>7, <1>8

(* The order and the meaning of the functors are kept.                     *)
LEMMA FunctorsKept ==
    ASSUME Functors, Ordered(batch', pending', Closed),
           DOMAIN conns \subseteq DOMAIN conns',
           \A i \in Closed : conns'[i].state = "kDisconnected",
           \A f \in Queued' : f \in Queued \/ Bound(f)'
    PROVE  Functors'
<1>1. PICK b, p, C, D : b = batch' /\ p = pending' /\ C = Closed /\ D = Closed'
    OBVIOUS
<1>2. C \subseteq D
    BY <1>1 DEF Closed
<1>3. Ordered(b, p, D)
    BY <1>1, <1>2, OrderedMore
<1>4. ASSUME NEW f \in Queued, Bound(f) PROVE Bound(f)'
    BY <1>4 DEF Bound, Call
<1> QED
    BY <1>1, <1>3, <1>4 DEF Functors

(* Where the threads are after one of them went on.                        *)
LEMMA GotoIs ==
    ASSUME PartsTyped, NEW t \in Threads, NEW place \in Places, Goto(t, place)
    PROVE  /\ at' \in [Threads -> Places] /\ at'[t] = place
           /\ \A u \in Threads : u # t => at'[u] = at[u]
  BY DEF PartsTyped, Goto

(* The connections, when a step leaves them and the client's life alone.   *)
LEMMA ConnectionsKept ==
    ASSUME Connections, conns' = conns, client'.connection = client.connection,
           client'.alive = client.alive, client'.keeps => ~client.alive,
           \A i : HasDestroy(i)' => HasDestroy(i)
    PROVE  Connections' /\ (AnyOpen' <=> AnyOpen) /\ (NoneOrphan' <=> NoneOrphan)
<1>1. \A i : Open(i)' <=> Open(i)
    BY DEF Open
<1>2. (AnyOpen' <=> AnyOpen) /\ (NoneOrphan' <=> NoneOrphan)
    BY <1>1 DEF AnyOpen, NoneOrphan
<1>3. \A i \in DOMAIN conns' :
          /\ Open(i)' => conns'[i].destroyed = 0
          /\ Open(i)' \/ conns'[i].destroyed = 1 => ~HasDestroy(i)'
    BY <1>1 DEF Connections
<1>4. (client.connection # 0 =>
          Open(client.connection) /\ conns[client.connection].cb = "client")'
    BY DEF Connections, Open
<1> QED
    BY <1>1, <1>2, <1>3, <1>4 DEF Connections

-----------------------------------------------------------------------------
(* Steps that leave the connections alone.                                 *)

(* What such a step has to be shown to do.                                 *)
LEMMA QuietKeeps ==
    ASSUME CInv, conns' = conns, client'.connection = client.connection,
           client'.alive = client.alive, client'.keeps => ~client.alive,
           Ordered(batch', pending', Closed),
           \A f \in Queued' : f \in Queued \/ f.call \notin {"forceCloseInLoop", "connectDestroyed"},
           \A f \in Queued' : f \in Queued \/ f = Call(f.call),
           PartsTyped', Core'
    PROVE  CInv'
<1>1. \A i : HasDestroy(i)' => HasDestroy(i)
    BY CallsDiffer DEF HasDestroy, DestroyCall
<1>2. Connections'
    BY <1>1, ConnectionsKept DEF CInv
<1>3. ConnsTyped'
    BY DEF CInv, ConnsTyped
<1>4. \A f \in Queued' : f \in Queued \/ Bound(f)'
    BY DEF Bound, Call
<1>5. Functors'
  <2>1. \A i \in Closed : conns'[i].state = "kDisconnected"
      BY DEF Closed
  <2> QED
      BY <1>4, <2>1, FunctorsKept DEF CInv
<1> QED
    BY <1>2, <1>3, <1>5 DEF CInv

(* The open and the orphaned connections of such a step.                   *)
LEMMA QuietConns ==
    ASSUME conns' = conns
    PROVE  (AnyOpen' <=> AnyOpen) /\ (NoneOrphan' <=> NoneOrphan)
  BY DEF AnyOpen, NoneOrphan, Open

(* The fields of the client.                                               *)
LEMMA ClientFields ==
    ASSUME NEW c \in Client
    PROVE  /\ c.alive \in BOOLEAN /\ c.connect \in BOOLEAN /\ c.retry \in BOOLEAN
           /\ c.connection \in Nat /\ c.keeps \in BOOLEAN
  BY SMTT(60) DEF Client

(* What EXCEPT does to them.                                               *)
ClientIs(d, alive, connect, connection, keeps) ==
    /\ d \in Client /\ d.alive = alive /\ d.connect = connect
    /\ d.connection = connection /\ d.keeps = keeps

(* One field at a time.                                                    *)
LEMMA SetClient ==
    ASSUME NEW c \in Client, NEW b \in BOOLEAN, NEW n \in Nat
    PROVE  /\ ClientIs([c EXCEPT !.retry = b], c.alive, c.connect, c.connection, c.keeps)
           /\ ClientIs([c EXCEPT !.connect = b], c.alive, b, c.connection, c.keeps)
           /\ ClientIs([c EXCEPT !.alive = b], b, c.connect, c.connection, c.keeps)
           /\ ClientIs([c EXCEPT !.keeps = b], c.alive, c.connect, c.connection, b)
           /\ ClientIs([c EXCEPT !.connection = n], c.alive, c.connect, n, c.keeps)
<1>1. ClientIs([c EXCEPT !.retry = b], c.alive, c.connect, c.connection, c.keeps)
    BY SMTT(60) DEF Client, ClientIs
<1>2. ClientIs([c EXCEPT !.connect = b], c.alive, b, c.connection, c.keeps)
    BY SMTT(60) DEF Client, ClientIs
<1>3. ClientIs([c EXCEPT !.alive = b], b, c.connect, c.connection, c.keeps)
    BY SMTT(60) DEF Client, ClientIs
<1>4. ClientIs([c EXCEPT !.keeps = b], c.alive, c.connect, c.connection, b)
    BY SMTT(60) DEF Client, ClientIs
<1>5. ClientIs([c EXCEPT !.connection = n], c.alive, c.connect, n, c.keeps)
    BY SMTT(60) DEF Client, ClientIs
<1> QED
    BY <1>1, <1>2, <1>3, <1>4, <1>5

(* The same connections are open, with the same callbacks.                 *)
SameConns ==
    /\ conns' \in Seq(Conn) /\ Len(conns') = Len(conns) /\ DOMAIN conns' = DOMAIN conns
    /\ \A i \in DOMAIN conns :
           /\ Open(i)' <=> Open(i)
           /\ conns'[i].cb = conns[i].cb /\ conns'[i].destroyed = conns[i].destroyed
ForcesOnly ==
    /\ Ordered(batch', pending', Closed) /\ \A f \in Queued : f \in Queued'
    /\ \A f \in Queued' : f \in Queued \/ (f.call = "forceCloseInLoop" /\ f.conn \in DOMAIN conns)

(* Calls that leave the connector alone: enableRetry, disconnect,          *)
(* forceClose; and the loop that takes a batch.                            *)
LEMMA IdleStep ==
    ASSUME CInv, SameConns, ForcesOnly, UNCHANGED <<connector, user>>,
           client' \in Client, client'.alive = client.alive, client'.keeps = client.keeps,
           client'.connection = client.connection, client'.connect => client.connect
    PROVE  CInv'
<1>1. /\ HasStart' <=> HasStart
      /\ HasStop' <=> HasStop
      /\ HasReset' <=> HasReset
      /\ \A i : HasDestroy(i)' => HasDestroy(i)
  <2>1. \A s : Call(s).call = s
      BY CallsDiffer
  <2>2. \A i : DestroyCall(i).call = "connectDestroyed"
      BY CallsDiffer
  <2> QED
      BY <2>1, <2>2 DEF ForcesOnly, HasStart, HasStop, HasReset, HasDestroy, Call, DestroyCall
<1>2. (AnyOpen' <=> AnyOpen) /\ (NoneOrphan' <=> NoneOrphan)
    BY DEF SameConns, AnyOpen, NoneOrphan
<1>3. at' = at /\ calls' = calls /\ stopped' = stopped
    BY DEF user
<1>4. conns = <<>> => conns' = <<>>
  <2>1. conns = <<>> => Len(conns) = 0
      BY SMTT(60)
  <2>2. conns' \in Seq(Conn) /\ Len(conns') = 0 => conns' = <<>>
      BY SMTT(60)
  <2> QED
      BY <2>1, <2>2 DEF SameConns
<1>5. Fresh'
    BY <1>1, <1>3, <1>4 DEF CInv, Core, Fresh, Starting
<1>6. ChannelKept' /\ OneThing'
    BY <1>1, <1>2, <1>3 DEF CInv, Core, ChannelKept, OneThing
<1>7. Destroyed'
    BY <1>1, <1>2, <1>3 DEF CInv, Core, Destroyed
<1>8. StopCounts'
    BY <1>1, <1>3 DEF CInv, Core, StopCounts
<1>9. PartsTyped'
    BY <1>3 DEF CInv, PartsTyped
<1>10. ConnsTyped'
    BY DEF CInv, ConnsTyped, SameConns
<1>11. Functors'
  <2>1. \A i \in Closed : i \in DOMAIN conns /\ ~Open(i)
      BY DEF Closed, Open
  <2>2. \A i \in Closed : conns'[i].state = "kDisconnected"
      BY <2>1 DEF SameConns, Open
  <2>3. \A f \in Queued' : f \in Queued \/ Bound(f)'
      BY DEF ForcesOnly, Bound, SameConns
  <2> QED
      BY <2>2, <2>3, FunctorsKept DEF CInv, ForcesOnly, SameConns
<1>12. Connections'
  <2>1. \A i \in DOMAIN conns' :
            /\ Open(i)' => conns'[i].destroyed = 0
            /\ Open(i)' \/ conns'[i].destroyed = 1 => ~HasDestroy(i)'
      BY <1>1 DEF CInv, Connections, SameConns
  <2>2. client.connection # 0 => client.connection \in DOMAIN conns
    <3>1. DOMAIN conns = 1 .. Len(conns) /\ Len(conns) \in Nat /\ client.connection \in 0 .. Len(conns)
        BY SMTT(60) DEF CInv, ConnsTyped
    <3> QED
        BY <3>1, SMTT(60)
  <2>3. (client.connection # 0 =>
            Open(client.connection) /\ conns[client.connection].cb = "client")'
    <3>1. PICK k : k = client.connection
        OBVIOUS
    <3>2. k # 0 => Open(k)' /\ conns'[k].cb = "client"
        BY <2>2, <3>1 DEF CInv, Connections, SameConns
    <3> QED
        BY <3>1, <3>2 DEF Open
  <2> QED
      BY <1>2, <2>1, <2>3 DEF CInv, Connections, SameConns
<1> QED
    BY <1>5, <1>6, <1>7, <1>8, <1>9, <1>10, <1>11, <1>12 DEF CInv, Core

(* The calls that were made so far.                                        *)
LEMMA CallsAre ==
    ASSUME PartsTyped
    PROVE  /\ calls.connect < 1 => calls.connect = 0
           /\ [calls EXCEPT !.stop = @ + 1] \in [connect : {0, 1}, stop : Nat]
           /\ [calls EXCEPT !.stop = @ + 1].connect = calls.connect
           /\ calls.connect = 0 =>
                  /\ [calls EXCEPT !.connect = @ + 1] \in [connect : {0, 1}, stop : Nat]
                  /\ [calls EXCEPT !.connect = @ + 1].connect = 1
<1>1. calls \in [connect : {0, 1}, stop : Nat]
    BY DEF PartsTyped
<1> QED
    BY <1>1, SMTT(60)

(* TcpClient::connect up to runInLoop, called once.                        *)
LEMMA ConnectStep ==
    ASSUME CInv, MaxConnects = 1, NEW t \in Threads, Connect(t)
    PROVE  CInv'
<1>1. /\ client.alive /\ at[t] = "idle" /\ calls.connect < 1
      /\ client' = [client EXCEPT !.connect = TRUE]
      /\ connector' = [connector EXCEPT !.connect = TRUE, !.gaveUp = FALSE]
      /\ Goto(t, "start") /\ calls' = [calls EXCEPT !.connect = @ + 1] /\ stopped' = "nobody"
      /\ UNCHANGED <<pending, batch, conns>>
    BY DEF Connect, Calls
<1>2. PartsTyped /\ connector \in Object /\ client \in Client /\ Functors
    BY DEF CInv, PartsTyped
<1>3. calls.connect = 0 /\ calls' \in [connect : {0, 1}, stop : Nat] /\ calls'.connect = 1
    BY <1>1, <1>2, CallsAre
<1>4. Is(connector', TRUE, connector.state, connector.channel, connector.timers)
    BY <1>1, <1>2, ConnectIs
<1>5. ClientIs(client', client.alive, TRUE, client.connection, client.keeps)
    BY <1>1, <1>2, SetClient, ClientFields
<1>6. /\ at' \in [Threads -> Places] /\ at'[t] = "start"
      /\ \A u \in Threads : u # t => at'[u] = at[u]
    BY <1>1, <1>2, GotoIs DEF Places
<1>7. Moved
    BY <1>1, <1>2, QueueMoved
<1>8. /\ HasStart' <=> HasStart
      /\ HasStop' <=> HasStop
      /\ HasReset' <=> HasReset
    BY <1>7, SameHas DEF Moved
<1>9. (AnyOpen' <=> AnyOpen) /\ (NoneOrphan' <=> NoneOrphan)
    BY <1>1, QuietConns
<1>10. /\ ~Starting /\ connector.timers = 0 /\ connector.state = "kDisconnected"
       /\ connector.channel = "none" /\ at["loop"] # "restart" /\ conns = <<>>
    BY <1>3 DEF CInv, Core, Fresh
<1>11. at["loop"] # "start" /\ at["user"] # "start" /\ ~HasStart
    BY <1>10 DEF Starting
<1>12. /\ connector'.timers = 0 /\ connector'.state = "kDisconnected"
       /\ connector'.channel = "none" /\ conns' = <<>>
    BY <1>1, <1>4, <1>10 DEF Is
<1>13. at'["loop"] # "restart" /\ at'["user"] # "restart"
    BY <1>2, <1>6, <1>10 DEF Threads, PartsTyped
<1>14. ~(at'["loop"] = "start" /\ at'["user"] = "start")
    BY <1>6, <1>11 DEF Threads
<1>15. calls'.connect # 0
    BY <1>3, SMTT(60)
<1>16. Fresh'
    BY <1>8, <1>11, <1>12, <1>13, <1>14, <1>15 DEF Fresh
<1>17. ChannelKept'
    BY <1>8, <1>10, <1>12 DEF ChannelKept, CInv, Core
<1>18. ~AnyOpen'
  <2>1. DOMAIN <<>> = {}
      BY SMTT(60)
  <2> QED
      BY <1>12, <2>1 DEF AnyOpen
<1>19. OneThing'
    BY <1>12, <1>18 DEF OneThing
<1>20. Destroyed' /\ StopCounts'
    BY <1>1, <1>5 DEF Destroyed, StopCounts, ClientIs
<1>21. connector'.timers \in {0, 1}
    BY <1>12
<1>22. PartsTyped'
    BY <1>1, <1>3, <1>4, <1>5, <1>6, <1>13, <1>21 DEF PartsTyped, Is, ClientIs
<1>23. client'.keeps => ~client.alive
    BY <1>5 DEF CInv, Connections, ClientIs
<1> QED
    BY <1>1, <1>5, <1>7, <1>16, <1>17, <1>19, <1>20, <1>22, <1>23, QuietKeeps
    DEF Core, Moved, ClientIs

(* TcpClient::stop up to queueInLoop.                                      *)
LEMMA StopStep ==
    ASSUME CInv, NEW t \in Threads, Stop(t)
    PROVE  CInv'
<1>1. /\ client.alive /\ at[t] = "idle"
      /\ client' = [client EXCEPT !.connect = FALSE]
      /\ connector' = [connector EXCEPT !.connect = FALSE]
      /\ Goto(t, "stop") /\ calls' = [calls EXCEPT !.stop = @ + 1] /\ stopped' = t
      /\ UNCHANGED <<pending, batch, conns>>
    BY DEF Stop, Calls
<1>2. PartsTyped /\ connector \in Object /\ client \in Client /\ Functors
    BY DEF CInv, PartsTyped
<1>3. calls' \in [connect : {0, 1}, stop : Nat] /\ calls'.connect = calls.connect
    BY <1>1, <1>2, CallsAre
<1>4. /\ connector' \in Object /\ connector'.connect = FALSE
      /\ connector'.state = connector.state /\ connector'.channel = connector.channel
      /\ connector'.timers = connector.timers
    BY <1>1, <1>2, SetField, FieldsOf DEF Is
<1>5. ClientIs(client', client.alive, FALSE, client.connection, client.keeps)
    BY <1>1, <1>2, SetClient, ClientFields
<1>6. /\ at' \in [Threads -> Places] /\ at'[t] = "stop"
      /\ \A u \in Threads : u # t => at'[u] = at[u]
    BY <1>1, <1>2, GotoIs DEF Places
<1>7. Moved
    BY <1>1, <1>2, QueueMoved
<1>8. /\ HasStart' <=> HasStart
      /\ HasStop' <=> HasStop
      /\ HasReset' <=> HasReset
    BY <1>7, SameHas DEF Moved
<1>9. (AnyOpen' <=> AnyOpen) /\ (NoneOrphan' <=> NoneOrphan)
    BY <1>1, QuietConns
<1>10. /\ at'["loop"] = "start" => at["loop"] = "start"
       /\ at'["user"] = "start" => at["user"] = "start"
       /\ at'["loop"] = "restart" => at["loop"] = "restart"
       /\ at'["user"] # "restart"
       /\ t = "loop" => at'["loop"] = "stop"
    BY <1>2, <1>6 DEF Threads, PartsTyped
<1>11. Fresh'
    BY <1>1, <1>3, <1>4, <1>8, <1>10 DEF Fresh, CInv, Core, Starting
<1>12. ChannelKept' /\ OneThing'
    BY <1>4, <1>8, <1>9, <1>10 DEF ChannelKept, OneThing, CInv, Core
<1>13. Destroyed'
    BY <1>1, <1>5 DEF Destroyed, ClientIs
<1>14. StopCounts'
    BY <1>1, <1>4, <1>5, <1>10 DEF StopCounts, ClientIs
<1>15. PartsTyped'
    BY <1>1, <1>2, <1>3, <1>4, <1>5, <1>6, <1>10 DEF PartsTyped, ClientIs
<1>16. client'.keeps => ~client.alive
    BY <1>5 DEF CInv, Connections, ClientIs
<1> QED
    BY <1>1, <1>5, <1>7, <1>11, <1>12, <1>13, <1>14, <1>15, <1>16, QuietKeeps
    DEF Core, Moved, ClientIs

(* Where the threads are when t has gone back to what it was doing.        *)
LEMMA BackIs ==
    ASSUME PartsTyped, NEW t \in Threads, Goto(t, "idle")
    PROVE  /\ at' \in [Threads -> Places] /\ at'[t] = "idle"
           /\ at'["loop"] = at["loop"] \/ at'["loop"] = "idle"
           /\ at'["user"] = at["user"] \/ at'["user"] = "idle"
           /\ t = "loop" => at'["user"] = at["user"]
           /\ at'["user"] # "restart"
<1>1. /\ at' \in [Threads -> Places] /\ at'[t] = "idle"
      /\ \A u \in Threads : u # t => at'[u] = at[u]
    BY GotoIs DEF Places
<1>2. at'["user"] = at["user"] \/ at'["user"] = "idle"
    BY <1>1 DEF Threads
<1>3. at["user"] # "restart"
    BY DEF PartsTyped
<1>4. at'["loop"] = at["loop"] \/ at'["loop"] = "idle"
    BY <1>1 DEF Threads
<1>5. t = "loop" => at'["user"] = at["user"]
    BY <1>1 DEF Threads
<1>6. at'["user"] # "restart"
    BY <1>2, <1>3
<1> QED
    BY <1>1, <1>2, <1>4, <1>5, <1>6

(* The queueInLoop of TcpClient::stop.                                     *)
LEMMA QueueStopStep ==
    ASSUME CInv, NEW t \in Threads, QueueStop(t)
    PROVE  CInv'
<1>1. /\ at[t] = "stop" /\ Goto(t, "idle") /\ QueueInLoop(Call("stopInLoop"))
      /\ UNCHANGED <<connector, batch, client, conns, calls, stopped>>
    BY DEF QueueStop
<1>2. PartsTyped /\ Functors
    BY DEF CInv
<1>3. /\ at' \in [Threads -> Places] /\ at'["user"] # "restart"
      /\ at'["loop"] = at["loop"] \/ at'["loop"] = "idle"
      /\ at'["user"] = at["user"] \/ at'["user"] = "idle"
    BY <1>1, <1>2, BackIs
<1>4. Call("stopInLoop") \in Fn /\ Call("stopInLoop").call = "stopInLoop"
    BY CallsDiffer DEF FnCalls
<1>5. Pushed(Call("stopInLoop"))
    BY <1>1, <1>2, <1>4, MayQueue, QueuePushed
<1>6. Queued' = Queued \cup {Call("stopInLoop")}
    BY <1>5 DEF Pushed
<1>7. /\ Call("stopInLoop") # Call("startInLoop")
      /\ Call("stopInLoop") # Call("resetChannel")
    BY CallsDiffer
<1>8. /\ HasStart' <=> HasStart
      /\ HasReset' <=> HasReset
      /\ HasStop'
    BY <1>6, <1>7, PushedHas DEF HasStart, HasReset
<1>9. (AnyOpen' <=> AnyOpen) /\ (NoneOrphan' <=> NoneOrphan)
    BY <1>1, QuietConns
<1>10. client.alive
    BY <1>1 DEF CInv, Core, Destroyed, Threads
<1>11. Fresh'
    BY <1>1, <1>3, <1>8 DEF Fresh, CInv, Core, Starting
<1>12. ChannelKept' /\ OneThing'
    BY <1>1, <1>3, <1>8, <1>9 DEF ChannelKept, OneThing, CInv, Core
<1>13. Destroyed' /\ StopCounts'
    BY <1>1, <1>3, <1>8, <1>10 DEF Destroyed, StopCounts, CInv, Core
<1>14. PartsTyped'
    BY <1>1, <1>2, <1>3 DEF PartsTyped
<1>15. client'.keeps => ~client.alive
    BY <1>1 DEF CInv, Connections
<1>16. /\ \A f \in Queued' : f \in Queued \/ f.call \notin {"forceCloseInLoop", "connectDestroyed"}
       /\ \A f \in Queued' : f \in Queued \/ f = Call(f.call)
    BY <1>4, <1>6
<1> QED
    BY <1>1, <1>5, <1>11, <1>12, <1>13, <1>14, <1>15, <1>16, QuietKeeps DEF Core, Pushed

(* An attempt that is begun when there was nothing.                        *)
MayBegin(c) ==
    /\ c.state = "kDisconnected" /\ c.channel = "none" /\ c.timers = 0
    /\ Begun(connector', c)

(* It is then the only thing there is.                                     *)
LEMMA Begins ==
    ASSUME NEW c, MayBegin(c), ~HasReset', ~AnyOpen', at'["loop"] # "restart",
           ~Starting', calls'.connect # 0
    PROVE  /\ Fresh' /\ ChannelKept' /\ OneThing'
           /\ connector' \in Object /\ connector'.timers \in {0, 1}
           /\ connector'.connect = c.connect
           /\ ~c.connect => connector'.channel = "none" /\ connector'.timers = 0
<1>1. 0 + 1 = 1 /\ 0 # 1
    BY SMTT(60)
<1>2. /\ connector' \in Object /\ connector'.connect = c.connect
      /\ \/ /\ connector'.state = "kDisconnected" /\ connector'.channel = "none"
            /\ connector'.timers = 0
         \/ /\ c.connect /\ connector'.state = "kConnecting" /\ connector'.channel = "added"
            /\ connector'.timers = 0
         \/ /\ c.connect /\ connector'.state = "kDisconnected" /\ connector'.channel = "none"
            /\ connector'.timers = 1
    BY <1>1 DEF MayBegin, Begun, Is
<1>3. Fresh'
    BY DEF Fresh, Starting
<1>4. ChannelKept'
    BY <1>2 DEF ChannelKept
<1>5. OneThing'
    BY <1>1, <1>2 DEF OneThing
<1>6. connector'.timers \in {0, 1}
    BY <1>2
<1> QED
    BY <1>1, <1>2, <1>3, <1>4, <1>5, <1>6

(* A client that has no connections has no open one.                       *)
LEMMA NoneOpen == conns = <<>> => ~AnyOpen
<1>1. DOMAIN <<>> = {}
    BY SMTT(60)
<1> QED
    BY <1>1 DEF AnyOpen

(* The runInLoop of TcpClient::connect.                                    *)
LEMMA StartStep ==
    ASSUME CInv, NEW t \in Threads, Start(t)
    PROVE  CInv'
<1>1. /\ at[t] = "start" /\ Goto(t, "idle")
      /\ UNCHANGED <<batch, client, conns, calls, stopped>>
      /\ t = "loop" => connector' \in StartInLoop(connector) /\ UNCHANGED pending
      /\ t # "loop" => QueueInLoop(Call("startInLoop")) /\ UNCHANGED connector
    BY DEF Start
<1>2. PartsTyped /\ Functors /\ connector \in Object
    BY DEF CInv, PartsTyped
<1>3. /\ at' \in [Threads -> Places] /\ at'[t] = "idle" /\ at'["user"] # "restart"
      /\ at'["loop"] = at["loop"] \/ at'["loop"] = "idle"
      /\ at'["user"] = at["user"] \/ at'["user"] = "idle"
    BY <1>1, <1>2, BackIs
<1>4. Starting
    BY <1>1 DEF Starting, Threads
<1>5. /\ calls.connect # 0 /\ connector.timers = 0 /\ connector.state = "kDisconnected"
      /\ connector.channel = "none" /\ at["loop"] # "restart" /\ conns = <<>>
      /\ ~HasStart /\ ~(at["loop"] = "start" /\ at["user"] = "start")
    BY <1>1, <1>4 DEF CInv, Core, Fresh, Threads
<1>6. ~HasReset
    BY <1>5 DEF CInv, Core, ChannelKept
<1>7. at'["loop"] # "start" /\ at'["user"] # "start" /\ at'["loop"] # "restart"
    BY <1>1, <1>3, <1>5 DEF Threads
<1>8. client.alive
    BY <1>1 DEF CInv, Core, Destroyed, Threads
<1>9. Destroyed'
    BY <1>1, <1>8 DEF Destroyed
<1>10. (AnyOpen' <=> AnyOpen) /\ ~AnyOpen
    BY <1>1, <1>5, QuietConns, NoneOpen
<1>11. client'.keeps => ~client.alive
    BY <1>1 DEF CInv, Connections
<1>12. CASE t = "loop"
  <2>1. Begun(connector', connector)
      BY <1>1, <1>2, <1>12, StartIs
  <2>2. Moved
      BY <1>1, <1>2, <1>12, QueueMoved
  <2>3. (HasStart' <=> HasStart) /\ (HasReset' <=> HasReset)
      BY <2>2, SameHas DEF Moved
  <2>4. ~Starting'
      BY <1>5, <1>7, <2>3 DEF Starting
  <2>5. /\ Fresh' /\ ChannelKept' /\ OneThing'
        /\ connector' \in Object /\ connector'.timers \in {0, 1}
        /\ connector'.connect = connector.connect
        /\ ~connector.connect => connector'.channel = "none"
      BY <1>1, <1>5, <1>6, <1>7, <1>10, <2>1, <2>3, <2>4, Begins DEF MayBegin
  <2>6. StopCounts'
      BY <1>1, <1>7, <2>5 DEF StopCounts, CInv, Core
  <2>7. PartsTyped'
      BY <1>1, <1>2, <1>3, <2>5 DEF PartsTyped
  <2> QED
      BY <1>1, <1>9, <1>11, <2>2, <2>5, <2>6, <2>7, QuietKeeps DEF Core, Moved
<1>13. CASE t # "loop"
  <2>1. Call("startInLoop") \in Fn /\ Call("startInLoop").call = "startInLoop"
      BY CallsDiffer DEF FnCalls
  <2>2. \A g \in Queued : g # Call("startInLoop")
      BY <1>5 DEF HasStart
  <2>3. Pushed(Call("startInLoop"))
      BY <1>1, <1>2, <1>13, <2>1, <2>2, MayQueue, QueuePushed
  <2>4. Queued' = Queued \cup {Call("startInLoop")}
      BY <2>3 DEF Pushed
  <2>5. /\ Call("startInLoop") # Call("stopInLoop")
        /\ Call("startInLoop") # Call("resetChannel")
      BY CallsDiffer
  <2>6. /\ HasStart'
        /\ HasReset' <=> HasReset
        /\ HasStop' <=> HasStop
      BY <2>4, <2>5, PushedHas DEF HasStop, HasReset
  <2>7. Fresh'
      BY <1>1, <1>5, <1>7, <1>13 DEF Fresh
  <2>8. ChannelKept' /\ OneThing'
      BY <1>1, <1>7, <1>10, <1>13, <2>6 DEF ChannelKept, OneThing, CInv, Core
  <2>9. StopCounts'
      BY <1>1, <1>5, <1>7, <1>13 DEF StopCounts, CInv, Core
  <2>10. PartsTyped'
      BY <1>1, <1>2, <1>3, <1>13 DEF PartsTyped
  <2>11. /\ \A f \in Queued' : f \in Queued \/ f.call \notin {"forceCloseInLoop", "connectDestroyed"}
         /\ \A f \in Queued' : f \in Queued \/ f = Call(f.call)
      BY <2>1, <2>4
  <2> QED
      BY <1>1, <1>9, <1>11, <2>3, <2>7, <2>8, <2>9, <2>10, <2>11, QuietKeeps DEF Core, Pushed
<1> QED
    BY <1>12, <1>13

(* Connector::startInLoop as a functor.                                    *)
LEMMA FunctorStartStep ==
    ASSUME CInv, InLoop, FunctorStart, UNCHANGED <<client, conns, user>>
    PROVE  CInv'
<1>1. PICK h : h = Head(batch)
    OBVIOUS
<1>2. /\ at["loop"] = "idle" /\ Run("startInLoop") /\ pending' = pending
      /\ connector' \in StartInLoop(connector)
      /\ at' = at /\ calls' = calls /\ stopped' = stopped /\ client' = client /\ conns' = conns
    BY DEF InLoop, FunctorStart, user
<1>3. PartsTyped /\ Functors /\ connector \in Object
    BY DEF CInv, PartsTyped
<1>4. Popped(h) /\ h.call = "startInLoop"
    BY <1>1, <1>2, <1>3, QueuePopped
<1>5. h = Call("startInLoop")
    BY <1>4 DEF Popped, Bound
<1>6. Queued = Queued' \cup {h} /\ \A g \in Queued' : Before(Closed, h, g)
    BY <1>4 DEF Popped
<1>7. /\ HasStart' => HasStart /\ h # Call("startInLoop")
      /\ HasReset' => HasReset
      /\ HasStop' <=> HasStop
    BY <1>4, <1>6, PoppedHas DEF HasStart, HasReset, HasStop, Call
<1>8. HasStart
    BY <1>5, <1>6 DEF HasStart
<1>9. /\ calls.connect # 0 /\ connector.timers = 0 /\ connector.state = "kDisconnected"
      /\ connector.channel = "none" /\ conns = <<>>
      /\ at["loop"] # "start" /\ at["user"] # "start"
    BY <1>8 DEF CInv, Core, Fresh, Starting
<1>10. ~HasReset' /\ ~Starting'
    BY <1>2, <1>5, <1>7, <1>9 DEF CInv, Core, ChannelKept, Starting
<1>11. (NoneOrphan' <=> NoneOrphan) /\ ~AnyOpen'
    BY <1>2, <1>9, QuietConns, NoneOpen
<1>12. Begun(connector', connector)
    BY <1>2, <1>3, StartIs
<1>13. /\ Fresh' /\ ChannelKept' /\ OneThing'
       /\ connector' \in Object /\ connector'.timers \in {0, 1}
       /\ connector'.connect = connector.connect
       /\ ~connector.connect => connector'.channel = "none" /\ connector'.timers = 0
    BY <1>2, <1>9, <1>10, <1>11, <1>12, Begins DEF MayBegin
<1>14. StopCounts'
    BY <1>2, <1>13 DEF StopCounts, CInv, Core
<1>15. Destroyed'
    BY <1>2, <1>7, <1>8, <1>10, <1>11, <1>13 DEF Destroyed, CInv, Core
<1>16. PartsTyped'
    BY <1>2, <1>3, <1>13 DEF PartsTyped
<1>17. client'.keeps => ~client.alive
    BY <1>2 DEF CInv, Connections
<1>18. Ordered(batch', pending', Closed) /\ \A f \in Queued' : f \in Queued
    BY <1>4, <1>6 DEF Popped
<1> QED
    BY <1>2, <1>13, <1>14, <1>15, <1>16, <1>17, <1>18, QuietKeeps DEF Core

(* A retry timer that expires.                                             *)
LEMMA RetryTimerStep ==
    ASSUME CInv, InLoop, RetryTimer, UNCHANGED <<client, conns, user>>
    PROVE  CInv'
<1>1. /\ at["loop"] = "idle" /\ batch = <<>> /\ pending = <<>> /\ connector.timers > 0
      /\ connector' \in StartInLoop([connector EXCEPT !.timers = connector.timers - 1])
      /\ UNCHANGED <<pending, batch>>
      /\ at' = at /\ calls' = calls /\ stopped' = stopped /\ client' = client /\ conns' = conns
    BY DEF InLoop, RetryTimer, TimersExpire, BetweenBatches, user
<1>2. PartsTyped /\ Functors /\ connector \in Object /\ connector.timers \in {0, 1}
    BY DEF CInv, PartsTyped
<1>3. connector.timers = 1 /\ connector.timers # 0 /\ connector.timers - 1 = 0
    BY <1>1, <1>2, SMTT(60)
<1>4. PICK c : c = [connector EXCEPT !.timers = 0]
    OBVIOUS
<1>5. /\ c \in Object /\ c.connect = connector.connect /\ c.state = connector.state
      /\ c.channel = connector.channel /\ c.timers = 0
  <2>1. 0 \in Nat
      OBVIOUS
  <2>2. /\ connector.connect \in BOOLEAN /\ connector.state \in States
        /\ connector.channel \in Channels
      BY <1>2, FieldsOf
  <2>3. Is(c, connector.connect, connector.state, connector.channel, 0)
      BY <1>2, <1>4, <2>1, <2>2, SetField
  <2> QED
      BY <2>3 DEF Is
<1>6. Begun(connector', c)
    BY <1>1, <1>3, <1>4, <1>5, StartIs
<1>7. Queued = {}
    BY <1>1, EmptyFine DEF Queued
<1>8. Moved
    BY <1>1, <1>2, QueueMoved
<1>9. Queued' = Queued
    BY <1>8 DEF Moved
<1>10. ~HasStart' /\ ~HasReset' /\ ~HasStop' /\ ~HasReset /\ ~HasStart
    BY <1>7, <1>9 DEF HasStart, HasReset, HasStop
<1>11. connector.state = "kDisconnected" /\ ~AnyOpen
    BY <1>3 DEF CInv, Core, OneThing
<1>12. connector.channel = "none"
    BY <1>2, <1>10, <1>11, FieldsOf DEF CInv, Core, ChannelKept, Channels
<1>13. ~Starting /\ calls.connect # 0
    BY <1>3 DEF CInv, Core, Fresh
<1>14. ~Starting'
    BY <1>1, <1>10, <1>13 DEF Starting
<1>15. (NoneOrphan' <=> NoneOrphan) /\ ~AnyOpen'
    BY <1>1, <1>11, QuietConns
<1>16. /\ Fresh' /\ ChannelKept' /\ OneThing'
       /\ connector' \in Object /\ connector'.timers \in {0, 1}
       /\ connector'.connect = connector.connect
       /\ ~connector.connect => connector'.channel = "none" /\ connector'.timers = 0
    BY <1>1, <1>5, <1>6, <1>10, <1>11, <1>12, <1>13, <1>14, <1>15, Begins DEF MayBegin
<1>17. StopCounts'
    BY <1>1, <1>16 DEF StopCounts, CInv, Core
<1>18. Destroyed'
    BY <1>1, <1>3, <1>10, <1>15, <1>16 DEF Destroyed, CInv, Core
<1>19. PartsTyped'
    BY <1>1, <1>2, <1>16 DEF PartsTyped
<1>20. client'.keeps => ~client.alive
    BY <1>1 DEF CInv, Connections
<1> QED
    BY <1>1, <1>8, <1>9, <1>16, <1>17, <1>18, <1>19, <1>20, QuietKeeps DEF Core, Moved

(* Connector::restart after the close callback of the client.              *)
LEMMA RestartStep ==
    ASSUME CInv, RestartConnector
    PROVE  CInv'
<1>1. /\ at["loop"] = "restart" /\ Goto("loop", "idle") /\ connector' \in Restart(connector)
      /\ UNCHANGED <<pending, batch, client, conns, calls, stopped>>
    BY DEF RestartConnector
<1>2. PartsTyped /\ Functors /\ connector \in Object
    BY DEF CInv, PartsTyped
<1>3. PICK e : Is(e, TRUE, "kDisconnected", connector.channel, connector.timers)
               /\ Begun(connector', e)
    BY <1>1, <1>2, RestartIs
<1>4. /\ at' \in [Threads -> Places] /\ at'["loop"] = "idle" /\ at'["user"] # "restart"
      /\ at'["user"] = at["user"]
    BY <1>1, <1>2, BackIs DEF Threads
<1>5. Moved
    BY <1>1, <1>2, QueueMoved
<1>6. (HasStart' <=> HasStart) /\ (HasReset' <=> HasReset)
    BY <1>5, SameHas DEF Moved
<1>7. connector.channel = "none" /\ connector.timers = 0 /\ ~AnyOpen
    BY <1>1 DEF CInv, Core, OneThing
<1>8. ~Starting /\ calls.connect # 0
    BY <1>1 DEF CInv, Core, Fresh
<1>9. ~Starting' /\ ~HasReset' /\ ~AnyOpen'
    BY <1>1, <1>4, <1>6, <1>7, <1>8, QuietConns DEF Starting, CInv, Core, ChannelKept
<1>10. client.alive /\ stopped # "loop"
    BY <1>1 DEF CInv, Core, Destroyed, StopCounts
<1>11. /\ Fresh' /\ ChannelKept' /\ OneThing'
       /\ connector' \in Object /\ connector'.timers \in {0, 1}
    BY <1>1, <1>3, <1>4, <1>7, <1>8, <1>9, Begins DEF MayBegin, Is
<1>12. StopCounts' /\ Destroyed'
    BY <1>1, <1>10 DEF StopCounts, Destroyed
<1>13. PartsTyped'
    BY <1>1, <1>2, <1>4, <1>11 DEF PartsTyped
<1>14. client'.keeps => ~client.alive
    BY <1>1 DEF CInv, Connections
<1> QED
    BY <1>1, <1>5, <1>11, <1>12, <1>13, <1>14, QuietKeeps DEF Core, Moved

(* What an attempt says of everything else.                                *)
LEMMA Attempting ==
    ASSUME CInv, connector.channel = "added"
    PROVE  /\ connector.timers = 0 /\ ~AnyOpen /\ ~HasReset /\ ~Starting /\ calls.connect # 0
           /\ at["loop"] # "restart"
           /\ \A g \in Queued : Before(Closed, g, Call("resetChannel"))
<1>1. connector.timers = 0 /\ ~AnyOpen /\ ~HasReset
    BY DEF CInv, Core, OneThing, ChannelKept
<1>2. ~Starting /\ calls.connect # 0 /\ at["loop"] # "restart"
    BY DEF CInv, Core, Fresh, OneThing
<1>3. ASSUME NEW g \in Queued PROVE Before(Closed, g, Call("resetChannel"))
  <2>1. g # Call("resetChannel")
      BY <1>1 DEF HasReset
  <2>2. g.call = "forceCloseInLoop" => g.conn \in DOMAIN conns
      BY DEF CInv, Functors, Bound
  <2>3. g.call = "forceCloseInLoop" => g.conn \in Closed
      BY <1>1, <2>2 DEF AnyOpen, Open, Closed
  <2> QED
      BY <2>1, <2>3 DEF Before
<1> QED
    BY <1>1, <1>2, <1>3

(* The end of an attempt that makes no connection.                         *)
AttemptOver ==
    /\ connector' \in Object /\ connector'.connect = connector.connect
    /\ connector'.channel = "removed"
    /\ \/ connector'.state \in {"kDisconnected", "kConnected"} /\ connector'.timers = 0
       \/ connector'.state = "kDisconnected" /\ connector'.timers = 1 /\ connector.connect

(* What is then left is a timer, if anything.                              *)
LEMMA Ends ==
    ASSUME CInv, connector.channel = "added", AttemptOver, HasReset', HasStart' => HasStart,
           UNCHANGED <<client, conns, user>>
    PROVE  Core' /\ PartsTyped'
<1>1. at' = at /\ calls' = calls /\ stopped' = stopped /\ client' = client /\ conns' = conns
    BY DEF user
<1>2. (AnyOpen' <=> AnyOpen) /\ (NoneOrphan' <=> NoneOrphan)
    BY <1>1, QuietConns
<1>3. /\ connector.timers = 0 /\ ~AnyOpen /\ ~Starting /\ calls.connect # 0
      /\ at["loop"] # "restart"
    BY Attempting
<1>4. ~Starting'
    BY <1>1, <1>3 DEF Starting
<1>5. connector'.timers \in {0, 1} /\ (connector'.timers = 1 => connector'.timers # 0)
  <2>1. 0 # 1
      BY SMTT(60)
  <2> QED
      BY <2>1 DEF AttemptOver
<1>6. Fresh'
    BY <1>1, <1>3, <1>4 DEF Fresh, Starting
<1>7. ChannelKept'
    BY DEF ChannelKept, AttemptOver
<1>8. OneThing'
    BY <1>1, <1>2, <1>3, <1>5 DEF OneThing, AttemptOver
<1>9. StopCounts'
    BY <1>1 DEF StopCounts, CInv, Core, AttemptOver
<1>10. Destroyed'
    BY <1>1, <1>2 DEF Destroyed, CInv, Core, AttemptOver
<1>11. PartsTyped'
    BY <1>1, <1>5 DEF PartsTyped, CInv, AttemptOver
<1> QED
    BY <1>6, <1>7, <1>8, <1>9, <1>10, <1>11 DEF Core

(* Connector::retry at the end of one.                                     *)
LEMMA FailedIs ==
    ASSUME CInv, connector.channel = "added",
           connector' = StopInLoop(connector) \/ connector' = Retry(RemoveAndResetChannel(connector))
    PROVE  AttemptOver
<1>1. connector \in Object /\ connector.timers = 0 /\ 0 + 1 = 1
  <2>1. 0 + 1 = 1
      BY SMTT(60)
  <2> QED
      BY <2>1, Attempting DEF CInv, PartsTyped
<1>2. Is(connector', connector.connect, "kDisconnected", "removed",
         IF connector.connect THEN connector.timers + 1 ELSE connector.timers)
    BY <1>1, AttemptEnds
<1> QED
    BY <1>1, <1>2 DEF AttemptOver, Is

(* Connector::handleWrite and handleError when the attempt failed, and     *)
(* handleWrite when it succeeded after a stop().                           *)
LEMMA AttemptOverStep ==
    ASSUME CInv, BetweenBatches, connector.channel = "added", AttemptOver,
           QueueInLoop(Call("resetChannel")), UNCHANGED <<batch, client, conns, user>>
    PROVE  CInv'
<1>1. Functors /\ batch' = batch /\ client' = client /\ conns' = conns
    BY DEF CInv
<1>2. Call("resetChannel") \in Fn /\ Call("resetChannel").call = "resetChannel"
    BY CallsDiffer DEF FnCalls
<1>3. \A g \in Queued : Before(Closed, g, Call("resetChannel"))
    BY Attempting
<1>4. Pushed(Call("resetChannel"))
    BY <1>1, <1>2, <1>3, QueuePushed
<1>5. Queued' = Queued \cup {Call("resetChannel")}
    BY <1>4 DEF Pushed
<1>6. Call("resetChannel") # Call("startInLoop")
    BY CallsDiffer
<1>7. HasReset' /\ (HasStart' => HasStart)
    BY <1>5, <1>6, PushedHas DEF HasStart
<1>8. Core' /\ PartsTyped'
    BY <1>7, Ends
<1>9. client'.keeps => ~client.alive
    BY <1>1 DEF CInv, Connections
<1>10. /\ \A f \in Queued' : f \in Queued \/ f.call \notin {"forceCloseInLoop", "connectDestroyed"}
       /\ \A f \in Queued' : f \in Queued \/ f = Call(f.call)
    BY <1>2, <1>5
<1> QED
    BY <1>1, <1>4, <1>8, <1>9, <1>10, QuietKeeps DEF Pushed

(* Connector::stopInLoop.                                                  *)
LEMMA FunctorStopStep ==
    ASSUME CInv, InLoop, FunctorStop, UNCHANGED <<client, conns, user>>
    PROVE  CInv'
<1>1. PICK h : h = Head(batch)
    OBVIOUS
<1>2. /\ at["loop"] = "idle" /\ Run("stopInLoop") /\ client' = client /\ conns' = conns
      /\ at' = at /\ calls' = calls /\ stopped' = stopped
      /\ connector.state = "kConnecting" =>
             connector' = StopInLoop(connector) /\ QueueInLoop(Call("resetChannel"))
      /\ connector.state # "kConnecting" => connector' = connector /\ pending' = pending
    BY DEF InLoop, FunctorStop, user
<1>3. PartsTyped /\ Functors
    BY DEF CInv
<1>4. client'.keeps => ~client.alive
    BY <1>2 DEF CInv, Connections
<1>5. CASE connector.state = "kConnecting"
  <2>1. connector.channel = "added"
      BY <1>5 DEF CInv, Core, ChannelKept
  <2>2. AttemptOver
      BY <1>2, <1>5, <2>1, FailedIs
  <2>3. Call("resetChannel") \in Fn /\ Call("resetChannel").call = "resetChannel"
      BY CallsDiffer DEF FnCalls
  <2>4. \A g \in Queued : Before(Closed, g, Call("resetChannel"))
      BY <2>1, Attempting
  <2>5. Turned(h, Call("resetChannel"))
      BY <1>1, <1>2, <1>3, <1>5, <2>3, <2>4, QueueTurned
  <2>6. PICK S : Queued = S \cup {h} /\ Queued' = S \cup {Call("resetChannel")}
      BY <2>5 DEF Turned
  <2>7. Call("resetChannel") # Call("startInLoop")
      BY CallsDiffer
  <2>8. HasReset' /\ (HasStart' => HasStart)
      BY <2>6, <2>7, PushedHas DEF HasStart
  <2>9. Core' /\ PartsTyped'
      BY <2>1, <2>2, <2>8, Ends
  <2>10. /\ \A f \in Queued' : f \in Queued \/ f.call \notin {"forceCloseInLoop", "connectDestroyed"}
         /\ \A f \in Queued' : f \in Queued \/ f = Call(f.call)
      BY <2>3, <2>6
  <2> QED
      BY <1>2, <1>4, <2>5, <2>9, <2>10, QuietKeeps DEF Turned
<1>6. CASE connector.state # "kConnecting"
  <2>1. Popped(h) /\ h.call = "stopInLoop"
      BY <1>1, <1>2, <1>3, <1>6, QueuePopped
  <2>2. h = Call("stopInLoop")
      BY <2>1 DEF Popped, Bound
  <2>3. Queued = Queued' \cup {h} /\ \A g \in Queued' : Before(Closed, h, g)
      BY <2>1 DEF Popped
  <2>4. h # Call("startInLoop") /\ h # Call("resetChannel")
      BY <2>2, CallsDiffer
  <2>5. /\ HasStart' <=> HasStart
        /\ HasReset' <=> HasReset
        /\ HasStop' => HasStop
      BY <2>3, <2>4, PoppedHas DEF HasStart, HasReset, HasStop, Call
  <2>6. (AnyOpen' <=> AnyOpen) /\ (NoneOrphan' <=> NoneOrphan)
      BY <1>2, QuietConns
  <2>7. connector.channel # "added" /\ connector' = connector
      BY <1>2, <1>6 DEF CInv, Core, ChannelKept
  <2>8. Fresh'
      BY <1>2, <2>5, <2>7 DEF Fresh, CInv, Core, Starting
  <2>9. ChannelKept' /\ OneThing'
      BY <1>2, <2>5, <2>6, <2>7 DEF ChannelKept, OneThing, CInv, Core
  <2>10. Destroyed' /\ StopCounts'
      BY <1>2, <2>5, <2>6, <2>7 DEF Destroyed, StopCounts, CInv, Core
  <2>11. PartsTyped'
      BY <1>2, <1>3, <2>7 DEF PartsTyped
  <2>12. Ordered(batch', pending', Closed) /\ \A f \in Queued' : f \in Queued
      BY <2>1, <2>3 DEF Popped
  <2> QED
      BY <1>2, <1>4, <2>8, <2>9, <2>10, <2>11, <2>12, QuietKeeps DEF Core
<1> QED
    BY <1>5, <1>6

(* Connector::resetChannel.                                                *)
LEMMA FunctorResetStep ==
    ASSUME CInv, InLoop, FunctorReset, UNCHANGED <<client, conns, user>>
    PROVE  CInv'
<1>1. PICK h : h = Head(batch)
    OBVIOUS
<1>2. /\ at["loop"] = "idle" /\ Run("resetChannel") /\ pending' = pending
      /\ connector' = [connector EXCEPT !.channel = "none"]
      /\ at' = at /\ calls' = calls /\ stopped' = stopped /\ client' = client /\ conns' = conns
    BY DEF InLoop, FunctorReset, user
<1>3. PartsTyped /\ Functors /\ connector \in Object
    BY DEF CInv, PartsTyped
<1>4. Popped(h) /\ h.call = "resetChannel"
    BY <1>1, <1>2, <1>3, QueuePopped
<1>5. h = Call("resetChannel")
    BY <1>4 DEF Popped, Bound
<1>6. Queued = Queued' \cup {h} /\ \A g \in Queued' : Before(Closed, h, g)
    BY <1>4 DEF Popped
<1>7. HasReset /\ h # Call("startInLoop")
    BY <1>5, <1>6, CallsDiffer DEF HasReset
<1>8. /\ HasStart' <=> HasStart
      /\ ~HasReset'
      /\ HasStop' <=> HasStop
    BY <1>4, <1>5, <1>6, <1>7, PoppedHas DEF HasStart, HasReset, HasStop, Call
<1>9. /\ connector' \in Object /\ connector'.connect = connector.connect
      /\ connector'.state = connector.state /\ connector'.channel = "none"
      /\ connector'.timers = connector.timers
    BY <1>2, <1>3, SetField, FieldsOf DEF Is, Channels
<1>10. connector.channel = "removed"
    BY <1>7 DEF CInv, Core, ChannelKept
<1>11. connector.state # "kConnecting"
    BY <1>10 DEF CInv, Core, ChannelKept
<1>12. (AnyOpen' <=> AnyOpen) /\ (NoneOrphan' <=> NoneOrphan)
    BY <1>2, QuietConns
<1>13. Fresh'
    BY <1>2, <1>8, <1>10 DEF Fresh, CInv, Core, Starting
<1>14. ChannelKept' /\ OneThing'
    BY <1>2, <1>8, <1>9, <1>11, <1>12 DEF ChannelKept, OneThing, CInv, Core
<1>15. Destroyed'
    BY <1>2, <1>8, <1>9, <1>12 DEF Destroyed, CInv, Core
<1>16. StopCounts'
    BY <1>2, <1>9 DEF StopCounts, CInv, Core
<1>17. PartsTyped'
    BY <1>2, <1>3, <1>9 DEF PartsTyped
<1>18. client'.keeps => ~client.alive
    BY <1>2 DEF CInv, Connections
<1>19. Ordered(batch', pending', Closed) /\ \A f \in Queued' : f \in Queued
    BY <1>4, <1>6 DEF Popped
<1> QED
    BY <1>2, <1>13, <1>14, <1>15, <1>16, <1>17, <1>18, <1>19, QuietKeeps DEF Core

(* The second for which the client's destructor kept the connector ends.   *)
LEMMA RemoveConnectorStep ==
    ASSUME CInv, RemoveConnector
    PROVE  CInv'
<1>1. /\ at["loop"] = "idle" /\ batch = <<>> /\ pending = <<>> /\ client.keeps
      /\ client' = [client EXCEPT !.keeps = FALSE]
      /\ UNCHANGED <<pending, batch>> /\ connector' = connector /\ conns' = conns
      /\ at' = at /\ calls' = calls /\ stopped' = stopped
    BY DEF InLoop, RemoveConnector, TimersExpire, BetweenBatches, user
<1>2. PartsTyped /\ Functors /\ client \in Client
    BY DEF CInv, PartsTyped
<1>3. /\ client' \in Client /\ client'.alive = client.alive /\ client'.connect = client.connect
      /\ client'.connection = client.connection /\ ~client'.keeps
    BY <1>1, <1>2, SetClient, ClientFields DEF ClientIs
<1>4. Queued = {}
    BY <1>1, EmptyFine DEF Queued
<1>5. Moved
    BY <1>1, <1>2, QueueMoved
<1>6. Queued' = Queued
    BY <1>5 DEF Moved
<1>7. ~HasStart' /\ ~HasReset' /\ ~HasStop' /\ ~HasReset /\ ~HasStart /\ ~HasStop
    BY <1>4, <1>6 DEF HasStart, HasReset, HasStop
<1>8. (AnyOpen' <=> AnyOpen) /\ (NoneOrphan' <=> NoneOrphan)
    BY <1>1, QuietConns
<1>9. Fresh'
    BY <1>1, <1>7 DEF Fresh, CInv, Core, Starting
<1>10. ChannelKept' /\ OneThing'
    BY <1>1, <1>7, <1>8 DEF ChannelKept, OneThing, CInv, Core
<1>11. Destroyed' /\ StopCounts'
    BY <1>1, <1>3, <1>7, <1>8 DEF Destroyed, StopCounts, CInv, Core
<1>12. PartsTyped'
    BY <1>1, <1>2, <1>3 DEF PartsTyped
<1> QED
    BY <1>1, <1>3, <1>5, <1>6, <1>9, <1>10, <1>11, <1>12, QuietKeeps DEF Core, Moved

(* ~TcpClient without a connection.                                        *)
LEMMA DtorUnconnectedStep ==
    ASSUME CInv, DtorUnconnected
    PROVE  CInv'
<1>1. /\ client.alive /\ at["loop"] = "idle" /\ at["user"] = "idle" /\ client.connection = 0
      /\ client' = [client EXCEPT !.alive = FALSE, !.keeps = TRUE]
      /\ connector' = [connector EXCEPT !.connect = FALSE]
      /\ QueueInLoop(Call("stopInLoop")) /\ batch' = batch /\ conns' = conns
      /\ at' = at /\ calls' = calls /\ stopped' = stopped
    BY DEF DtorUnconnected, Calls, user
<1>2. PartsTyped /\ Functors /\ client \in Client /\ connector \in Object
    BY DEF CInv, PartsTyped
<1>3. /\ connector' \in Object /\ connector'.connect = FALSE
      /\ connector'.state = connector.state /\ connector'.channel = connector.channel
      /\ connector'.timers = connector.timers
    BY <1>1, <1>2, SetField, FieldsOf DEF Is
<1>4. /\ client' \in Client /\ ~client'.alive /\ client'.connect = client.connect
      /\ client'.connection = client.connection /\ client'.keeps
  <2>1. PICK c1 : c1 = [client EXCEPT !.alive = FALSE]
      OBVIOUS
  <2>2. ClientIs(c1, FALSE, client.connect, client.connection, client.keeps)
      BY <1>2, <2>1, SetClient, ClientFields
  <2>3. c1 \in Client
      BY <2>2 DEF ClientIs
  <2>4. client' = [c1 EXCEPT !.keeps = TRUE]
      BY <1>1, <2>1
  <2>5. ClientIs(client', c1.alive, c1.connect, c1.connection, TRUE)
      BY <2>3, <2>4, SetClient, ClientFields
  <2> QED
      BY <2>2, <2>5 DEF ClientIs
<1>5. Call("stopInLoop") \in Fn /\ Call("stopInLoop").call = "stopInLoop"
    BY CallsDiffer DEF FnCalls
<1>6. Pushed(Call("stopInLoop"))
    BY <1>1, <1>2, <1>5, MayQueue, QueuePushed
<1>7. Queued' = Queued \cup {Call("stopInLoop")}
    BY <1>6 DEF Pushed
<1>8. /\ Call("stopInLoop") # Call("startInLoop")
      /\ Call("stopInLoop") # Call("resetChannel")
      /\ \A i : DestroyCall(i) # Call("stopInLoop")
    BY CallsDiffer
<1>9. /\ HasStart' <=> HasStart
      /\ HasReset' <=> HasReset
      /\ HasStop'
      /\ \A i : HasDestroy(i)' => HasDestroy(i)
    BY <1>7, <1>8, PushedHas DEF HasStart, HasReset, HasDestroy
<1>10. (AnyOpen' <=> AnyOpen) /\ (NoneOrphan' <=> NoneOrphan)
    BY <1>1, QuietConns
<1>11. Fresh'
    BY <1>1, <1>3, <1>9 DEF Fresh, CInv, Core, Starting
<1>12. ChannelKept' /\ OneThing'
    BY <1>1, <1>3, <1>9, <1>10 DEF ChannelKept, OneThing, CInv, Core
<1>13. Destroyed' /\ StopCounts'
    BY <1>1, <1>3, <1>4, <1>9, <1>10 DEF Destroyed, StopCounts, CInv, Core
<1>14. PartsTyped'
    BY <1>1, <1>2, <1>3, <1>4 DEF PartsTyped
<1>15. ConnsTyped'
    BY <1>1, <1>4 DEF CInv, ConnsTyped
<1>16. Functors'
  <2>1. \A i \in Closed : conns'[i].state = "kDisconnected"
      BY <1>1 DEF Closed
  <2>2. \A f \in Queued' : f \in Queued \/ Bound(f)'
      BY <1>5, <1>7 DEF Bound, Call
  <2> QED
      BY <1>1, <1>2, <1>6, <2>1, <2>2, FunctorsKept DEF Pushed
<1>17. \A i \in DOMAIN conns : ~(Open(i) /\ conns[i].cb = "client")
  <2>1. \A i \in DOMAIN conns : i # 0
      BY SMTT(60) DEF CInv, ConnsTyped
  <2> QED
      BY <1>1, <2>1 DEF CInv, Connections
<1>18. Connections'
    BY <1>1, <1>4, <1>9, <1>17 DEF CInv, Connections, Open
<1> QED
    BY <1>11, <1>12, <1>13, <1>14, <1>15, <1>16, <1>18 DEF CInv, Core

-----------------------------------------------------------------------------
(* Steps that change a connection.                                         *)

(* The fields of a connection, and what EXCEPT does to them.               *)
ConnIs(d, state, cb, destroyed) ==
    d \in Conn /\ d.state = state /\ d.cb = cb /\ d.destroyed = destroyed

(* One field at a time.                                                    *)
LEMMA SetConn ==
    ASSUME NEW c \in Conn, NEW s \in ConnStates
    PROVE  /\ c.state \in ConnStates /\ c.cb \in {"client", "detail"} /\ c.destroyed \in {0, 1}
           /\ ConnIs([c EXCEPT !.state = s], s, c.cb, c.destroyed)
           /\ ConnIs([c EXCEPT !.cb = "detail"], c.state, "detail", c.destroyed)
           /\ c.destroyed = 0 => ConnIs([c EXCEPT !.destroyed = @ + 1], c.state, c.cb, 1)
<1>1. ConnIs([c EXCEPT !.state = s], s, c.cb, c.destroyed)
    BY SMTT(60) DEF Conn, ConnIs
<1>2. ConnIs([c EXCEPT !.cb = "detail"], c.state, "detail", c.destroyed)
    BY SMTT(60) DEF Conn, ConnIs
<1>3. c.destroyed = 0 => ConnIs([c EXCEPT !.destroyed = @ + 1], c.state, c.cb, 1)
    BY SMTT(60) DEF Conn, ConnIs
<1>4. c.state \in ConnStates /\ c.cb \in {"client", "detail"} /\ c.destroyed \in {0, 1}
    BY SMTT(60) DEF Conn
<1> QED
    BY <1>1, <1>2, <1>3, <1>4

(* One connection is changed.                                              *)
Become(i, r) ==
    /\ conns' \in Seq(Conn) /\ Len(conns') = Len(conns) /\ DOMAIN conns' = DOMAIN conns
    /\ conns'[i] = r /\ \A j \in DOMAIN conns : j # i => conns'[j] = conns[j]

(* EXCEPT on the connections.                                              *)
LEMMA ConnBecomes ==
    ASSUME ConnsTyped, NEW i \in DOMAIN conns, NEW r \in Conn,
           conns' = [conns EXCEPT ![i] = r]
    PROVE  Become(i, r)
  BY SMTT(60) DEF ConnsTyped, Become

(* connection_ is a connection, which is open.                             *)
LEMMA ConnectionIs ==
    ASSUME CInv, client.connection # 0
    PROVE  /\ client.connection \in DOMAIN conns /\ conns[client.connection] \in Conn
           /\ client.connection \in Nat
           /\ Open(client.connection) /\ conns[client.connection].cb = "client"
           /\ AnyOpen
<1>1. /\ client.connection \in DOMAIN conns /\ conns[client.connection] \in Conn
      /\ client.connection \in Nat
  <2>1. ConnsTyped
      BY DEF CInv
  <2> QED
      BY <2>1, SMTT(60) DEF ConnsTyped
<1> QED
    BY <1>1 DEF CInv, Connections, AnyOpen

(* What an open connection says of everything else.                        *)
LEMMA OpenMeans ==
    ASSUME CInv, AnyOpen
    PROVE  /\ conns # <<>> /\ ~Starting /\ calls.connect # 0
           /\ connector.channel # "added" /\ connector.timers = 0 /\ at["loop"] # "restart"
<1>1. conns # <<>>
    BY NoneOpen
<1>2. connector.channel # "added" /\ connector.timers # 1 /\ at["loop"] # "restart"
    BY DEF CInv, Core, OneThing
<1>3. connector.timers = 0
    BY <1>2 DEF CInv, PartsTyped
<1> QED
    BY <1>1, <1>2, <1>3 DEF CInv, Core, Fresh

(* TcpClient::enableRetry, and the loop that takes a batch.                *)
LEMMA EnableRetryStep ==
    ASSUME CInv, NEW t \in Threads, EnableRetry(t)
    PROVE  CInv'
<1>1. /\ client' = [client EXCEPT !.retry = TRUE]
      /\ UNCHANGED <<connector, conns, user>> /\ UNCHANGED <<batch, pending>>
    BY DEF EnableRetry, user
<1>2. client \in Client /\ Functors /\ conns \in Seq(Conn)
    BY DEF CInv, PartsTyped, ConnsTyped
<1>3. /\ client' \in Client /\ client'.alive = client.alive /\ client'.connect = client.connect
      /\ client'.connection = client.connection /\ client'.keeps = client.keeps
    BY <1>1, <1>2, SetClient, ClientFields DEF ClientIs
<1>4. ForcesOnly
    BY <1>1, <1>2, QueueMoved DEF Moved, ForcesOnly
<1>5. SameConns
    BY <1>1, <1>2 DEF SameConns, Open
<1> QED
    BY <1>1, <1>3, <1>4, <1>5, IdleStep

(* EventLoop::doPendingFunctors, up to its first functor.                  *)
LEMMA TakeBatchStep ==
    ASSUME CInv, TakeBatch, UNCHANGED <<client, conns, user>>
    PROVE  CInv'
<1>1. client \in Client /\ Functors /\ conns \in Seq(Conn) /\ connector' = connector
    BY DEF CInv, PartsTyped, ConnsTyped, TakeBatch
<1>2. ForcesOnly
    BY <1>1, QueueMoved DEF Moved, ForcesOnly
<1>3. SameConns
    BY <1>1 DEF SameConns, Open
<1>4. /\ client' \in Client /\ client'.alive = client.alive /\ client'.connect = client.connect
      /\ client'.connection = client.connection /\ client'.keeps = client.keeps
    BY <1>1
<1>5. UNCHANGED <<connector, user>>
    BY <1>1
<1> QED
    BY <1>2, <1>3, <1>4, <1>5, IdleStep

(* A connection that begins to be closed.                                  *)
LEMMA Disconnecting ==
    ASSUME CInv, NEW i \in DOMAIN conns, conns[i].state = "kConnected",
           Become(i, [conns[i] EXCEPT !.state = "kDisconnecting"])
    PROVE  SameConns
<1>1. conns[i] \in Conn
    BY SMTT(60) DEF CInv, ConnsTyped
<1>2. ConnIs([conns[i] EXCEPT !.state = "kDisconnecting"], "kDisconnecting", conns[i].cb,
             conns[i].destroyed)
    BY <1>1, SetConn DEF ConnStates
<1>3. /\ conns'[i].state = "kDisconnecting" /\ conns'[i].cb = conns[i].cb
      /\ conns'[i].destroyed = conns[i].destroyed
    BY <1>2 DEF ConnIs, Become
<1> QED
    BY <1>3 DEF SameConns, Become, Open

(* TcpClient::disconnect.                                                  *)
LEMMA DisconnectStep ==
    ASSUME CInv, NEW t \in Threads, Disconnect(t)
    PROVE  CInv'
<1>1. /\ client' = [client EXCEPT !.connect = FALSE]
      /\ conns' = [i \in DOMAIN conns |->
                      IF i = client.connection /\ conns[i].state = "kConnected"
                      THEN [conns[i] EXCEPT !.state = "kDisconnecting"] ELSE conns[i]]
      /\ UNCHANGED <<connector, user>> /\ UNCHANGED <<batch, pending>>
    BY DEF Disconnect, user
<1>2. client \in Client /\ Functors /\ conns \in Seq(Conn) /\ ConnsTyped
    BY DEF CInv, PartsTyped, ConnsTyped
<1>3. /\ client' \in Client /\ client'.alive = client.alive /\ client'.connect = FALSE
      /\ client'.connection = client.connection /\ client'.keeps = client.keeps
    BY <1>1, <1>2, SetClient, ClientFields DEF ClientIs
<1>4. ForcesOnly
    BY <1>1, <1>2, QueueMoved DEF Moved, ForcesOnly
<1>5. SameConns
  <2>1. PICK k : k = client.connection
      OBVIOUS
  <2>2. CASE k \in DOMAIN conns /\ conns[k].state = "kConnected"
    <3>1. conns' = [conns EXCEPT ![k] = [conns[k] EXCEPT !.state = "kDisconnecting"]]
        BY <1>1, <1>2, <2>1, <2>2, SMTT(60)
    <3>2. conns[k] \in Conn
        BY <1>2, <2>2, SMTT(60)
    <3>3. [conns[k] EXCEPT !.state = "kDisconnecting"] \in Conn
        BY <3>2, SetConn DEF ConnStates, ConnIs
    <3>4. Become(k, [conns[k] EXCEPT !.state = "kDisconnecting"])
        BY <1>2, <2>2, <3>1, <3>3, ConnBecomes
    <3> QED
        BY <2>2, <3>4, Disconnecting
  <2>3. CASE ~(k \in DOMAIN conns /\ conns[k].state = "kConnected")
    <3>1. conns' = [i \in DOMAIN conns |-> conns[i]]
        BY <1>1, <2>1, <2>3
    <3>2. [i \in DOMAIN conns |-> conns[i]] = conns
        BY <1>2, SMTT(60)
    <3> QED
        BY <1>2, <3>1, <3>2 DEF SameConns, Open
  <2> QED
      BY <2>2, <2>3
<1> QED
    BY <1>1, <1>3, <1>4, <1>5, IdleStep

(* TcpConnection::forceClose on connection_.                               *)
LEMMA ForceCloseStep ==
    ASSUME CInv, NEW t \in Threads, ForceClose(t)
    PROVE  CInv'
<1>1. PICK k : k = client.connection
    OBVIOUS
<1>2. /\ k # 0 /\ conns[k].state = "kConnected"
      /\ conns' = [conns EXCEPT ![k] = [conns[k] EXCEPT !.state = "kDisconnecting"]]
      /\ QueueInLoop(ForceCall(k)) /\ batch' = batch /\ client' = client
      /\ UNCHANGED <<connector, user>>
    BY <1>1 DEF ForceClose, ForceCall, user
<1>3. client \in Client /\ Functors /\ ConnsTyped
    BY DEF CInv, PartsTyped
<1>4. k \in DOMAIN conns /\ conns[k] \in Conn /\ k \in Nat
    BY <1>1, <1>2, ConnectionIs
<1>5. [conns[k] EXCEPT !.state = "kDisconnecting"] \in Conn
    BY <1>4, SetConn DEF ConnStates, ConnIs
<1>6. Become(k, [conns[k] EXCEPT !.state = "kDisconnecting"])
    BY <1>2, <1>3, <1>4, <1>5, ConnBecomes
<1>7. SameConns
    BY <1>2, <1>4, <1>6, Disconnecting
<1>8. /\ ForceCall(k) \in Fn /\ ForceCall(k).call = "forceCloseInLoop"
      /\ ForceCall(k).conn = k
    BY <1>4, CallsDiffer
<1>9. Pushed(ForceCall(k))
    BY <1>2, <1>3, <1>8, MayQueue, QueuePushed
<1>10. ForcesOnly
    BY <1>4, <1>8, <1>9 DEF Pushed, ForcesOnly
<1> QED
    BY <1>2, <1>3, <1>7, <1>10, IdleStep

(* A connection that was closed, by the peer or by forceCloseInLoop.       *)
CloseQueued(i) ==
    /\ Ordered(batch', pending', Closed) /\ ~HasReset /\ ~HasReset'
    /\ HasStart' <=> HasStart
    /\ HasStop' <=> HasStop
    /\ \A f \in Queued' : f \in Queued \/ f = DestroyCall(i)

(* handleClose, and the close callback that was set last.                  *)
LEMMA CloseStep ==
    ASSUME CInv, InLoop, NEW i \in DOMAIN conns, Open(i), RemoveConnection(i), CloseQueued(i),
           UNCHANGED <<connector, calls, stopped>>
    PROVE  CInv'
<1>1. /\ connector' = connector /\ calls' = calls /\ stopped' = stopped /\ at["loop"] = "idle"
      /\ conns' = [conns EXCEPT ![i] = [conns[i] EXCEPT !.state = "kDisconnected"]]
      /\ conns[i].cb = "client" =>
             /\ client' = [client EXCEPT !.connection = 0]
             /\ Goto("loop", IF client.retry /\ client.connect THEN "restart" ELSE "idle")
      /\ conns[i].cb # "client" => client' = client /\ at' = at
    BY DEF RemoveConnection, InLoop
<1>2. PartsTyped /\ ConnsTyped /\ Functors /\ client \in Client
    BY DEF CInv, PartsTyped
<1>3. conns[i] \in Conn
    BY <1>2, SMTT(60) DEF ConnsTyped
<1>4. ConnIs([conns[i] EXCEPT !.state = "kDisconnected"], "kDisconnected", conns[i].cb,
             conns[i].destroyed)
    BY <1>3, SetConn DEF ConnStates
<1>5. Become(i, [conns[i] EXCEPT !.state = "kDisconnected"])
    BY <1>1, <1>2, <1>4, ConnBecomes DEF ConnIs
<1>6. /\ conns'[i].state = "kDisconnected" /\ conns'[i].cb = conns[i].cb
      /\ conns'[i].destroyed = conns[i].destroyed
    BY <1>4, <1>5 DEF ConnIs, Become
<1>7. AnyOpen
    BY DEF AnyOpen
<1>8. /\ ~Starting /\ calls.connect # 0 /\ connector.channel = "none" /\ connector.timers = 0
  <2>1. ~Starting /\ calls.connect # 0 /\ connector.channel # "added" /\ connector.timers = 0
      BY <1>7, OpenMeans
  <2>2. connector.channel # "removed" /\ connector.channel \in Channels
      BY <1>2, FieldsOf DEF CInv, Core, ChannelKept, CloseQueued, PartsTyped
  <2> QED
      BY <2>1, <2>2 DEF Channels
<1>9. \A j \in DOMAIN conns' : ~Open(j)'
    BY <1>5, <1>6 DEF CInv, Connections, Become, Open
<1>10. ~AnyOpen'
    BY <1>9 DEF AnyOpen
<1>11. NoneOrphan' <=> NoneOrphan
    BY <1>5, <1>6 DEF NoneOrphan, Become
<1>12. /\ client' \in Client /\ client'.alive = client.alive /\ client'.connect = client.connect
       /\ client'.keeps = client.keeps /\ client'.connection = 0
       /\ at' \in [Threads -> Places] /\ at'["user"] = at["user"]
       /\ at'["loop"] = "idle" \/ (client.alive /\ client.connect /\ at'["loop"] = "restart")
       /\ conns[i].cb # "client" => at' = at
  <2>1. CASE conns[i].cb = "client"
    <3>1. 0 \in Nat
        OBVIOUS
    <3>2. ClientIs(client', client.alive, client.connect, 0, client.keeps)
        BY <1>1, <1>2, <2>1, <3>1, SetClient, ClientFields
    <3>3. client.alive
        BY <2>1 DEF CInv, Connections
    <3>4. PICK p : p = IF client.retry /\ client.connect THEN "restart" ELSE "idle"
        OBVIOUS
    <3>5. p \in Places /\ (p = "idle" \/ (p = "restart" /\ client.connect))
        BY <3>4 DEF Places
    <3>6. /\ at' \in [Threads -> Places] /\ at'["loop"] = p
          /\ \A u \in Threads : u # "loop" => at'[u] = at[u]
        BY <1>1, <1>2, <2>1, <3>4, <3>5, GotoIs DEF Threads
    <3>7. at'["user"] = at["user"]
        BY <3>6 DEF Threads
    <3> QED
        BY <2>1, <3>2, <3>3, <3>5, <3>6, <3>7 DEF ClientIs
  <2>2. CASE conns[i].cb # "client"
    <3>1. ~client.alive
        BY <2>2 DEF CInv, Connections, NoneOrphan
    <3>2. client.connection = 0
        BY <3>1 DEF CInv, Core, Destroyed
    <3> QED
        BY <1>1, <1>2, <2>2, <3>2 DEF PartsTyped
  <2> QED
      BY <2>1, <2>2
<1>13. ~Starting'
    BY <1>8, <1>12 DEF Starting, CloseQueued
<1>14. Fresh'
    BY <1>1, <1>8, <1>13 DEF Fresh, Starting
<1>15. ChannelKept' /\ OneThing'
    BY <1>1, <1>8, <1>10 DEF ChannelKept, OneThing, CInv, Core, CloseQueued
<1>16. Destroyed'
  <2>1. CASE client.alive
      BY <1>12, <2>1 DEF Destroyed
  <2>2. CASE ~client.alive
    <3>1. at'["loop"] = "idle"
        BY <1>12, <2>2
    <3> QED
        BY <1>1, <1>11, <1>12, <2>2, <3>1 DEF Destroyed, CInv, Core, CloseQueued
  <2> QED
      BY <2>1, <2>2
<1>17. StopCounts'
    BY <1>1, <1>8, <1>12 DEF StopCounts, CInv, Core
<1>18. PartsTyped'
    BY <1>1, <1>2, <1>12 DEF PartsTyped
<1>19. ConnsTyped'
  <2>1. 0 \in 0 .. Len(conns)
      BY <1>2, SMTT(60) DEF ConnsTyped
  <2> QED
      BY <1>2, <1>5, <1>12, <2>1 DEF ConnsTyped, Become
<1>20. Functors'
  <2>1. \A j \in Closed : conns'[j].state = "kDisconnected"
      BY <1>5, <1>6 DEF Closed, Become
  <2>2. DestroyCall(i).call = "connectDestroyed" /\ DestroyCall(i).conn = i
      BY CallsDiffer
  <2>3. \A f \in Queued' : f \in Queued \/ Bound(f)'
      BY <1>5, <2>2 DEF Bound, CloseQueued, Become
  <2> QED
      BY <1>2, <1>5, <2>1, <2>3, FunctorsKept DEF CloseQueued, Become
<1>21. Connections'
  <2>1. \A j : HasDestroy(j)' => HasDestroy(j) \/ j = i
    <3>1. ASSUME NEW j, DestroyCall(j) = DestroyCall(i) PROVE j = i
      <4>1. DestroyCall(j).conn = j /\ DestroyCall(i).conn = i
          BY CallsDiffer
      <4> QED
          BY <3>1, <4>1
    <3> QED
        BY <3>1 DEF CloseQueued, HasDestroy, DestroyCall
  <2>2. conns[i].destroyed # 1
    <3>1. 0 # 1
        BY SMTT(60)
    <3> QED
        BY <3>1 DEF CInv, Connections
  <2>3. \A j \in DOMAIN conns' : conns'[j].destroyed = 1 => ~HasDestroy(j)'
      BY <1>5, <1>6, <2>1, <2>2 DEF CInv, Connections, Become
  <2> QED
      BY <1>9, <1>11, <1>12, <2>3 DEF CInv, Connections
<1> QED
    BY <1>14, <1>15, <1>16, <1>17, <1>18, <1>19, <1>20, <1>21 DEF CInv, Core

(* The queue when connectDestroyed is queued for an open connection.       *)
LEMMA MayDestroy ==
    ASSUME CInv, NEW i \in DOMAIN conns, Open(i)
    PROVE  /\ DestroyCall(i) \in Fn /\ DestroyCall(i).call = "connectDestroyed"
           /\ \A g \in Queued : Before(Closed, g, DestroyCall(i))
           /\ DestroyCall(i) # Call("startInLoop") /\ DestroyCall(i) # Call("stopInLoop")
           /\ DestroyCall(i) # Call("resetChannel")
<1>1. i \in Nat
    BY SMTT(60) DEF CInv, ConnsTyped
<1>2. DestroyCall(i) \in Fn /\ DestroyCall(i).call = "connectDestroyed"
    BY <1>1, CallsDiffer
<1>3. DestroyCall(i) \notin Queued
    BY DEF CInv, Connections, HasDestroy
<1>4. \A g \in Queued : Before(Closed, g, DestroyCall(i))
    BY <1>2, <1>3, MayQueue
<1>5. /\ DestroyCall(i) # Call("startInLoop") /\ DestroyCall(i) # Call("stopInLoop")
      /\ DestroyCall(i) # Call("resetChannel")
    BY CallsDiffer
<1> QED
    BY <1>2, <1>4, <1>5

(* TcpConnection::handleClose, called by the channel.                      *)
LEMMA HandleCloseStep ==
    ASSUME CInv, NEW i \in DOMAIN conns, HandleClose(i)
    PROVE  CInv'
<1>1. /\ InLoop /\ ~HasReset /\ Open(i) /\ RemoveConnection(i) /\ batch' = batch
      /\ UNCHANGED <<connector, calls, stopped>> /\ QueueInLoop(DestroyCall(i))
    BY DEF HandleClose, HasReset, Open, RemoveConnection, DestroyCall
<1>2. /\ DestroyCall(i) \in Fn /\ \A g \in Queued : Before(Closed, g, DestroyCall(i))
      /\ DestroyCall(i) # Call("startInLoop") /\ DestroyCall(i) # Call("stopInLoop")
      /\ DestroyCall(i) # Call("resetChannel")
    BY <1>1, MayDestroy
<1>3. Pushed(DestroyCall(i))
    BY <1>1, <1>2, QueuePushed DEF CInv
<1>4. Queued' = Queued \cup {DestroyCall(i)} /\ Ordered(batch', pending', Closed)
    BY <1>3 DEF Pushed
<1>5. /\ HasStart' <=> HasStart
      /\ HasStop' <=> HasStop
      /\ ~HasReset'
    BY <1>1, <1>2, <1>4, PushedHas DEF HasStart, HasStop, HasReset
<1>6. CloseQueued(i)
    BY <1>1, <1>4, <1>5 DEF CloseQueued
<1> QED
    BY <1>1, <1>6, CloseStep

(* TcpConnection::forceCloseInLoop.                                        *)
LEMMA ForceCloseInLoopStep ==
    ASSUME CInv, ForceCloseInLoop
    PROVE  CInv'
<1>1. PICK h, i : h = Head(batch) /\ i = h.conn
    OBVIOUS
<1>2. /\ InLoop /\ Run("forceCloseInLoop") /\ UNCHANGED <<connector, calls, stopped>>
      /\ conns[i].state \in {"kConnected", "kDisconnecting"} => RemoveConnection(i)
      /\ conns[i].state \notin {"kConnected", "kDisconnecting"} =>
             UNCHANGED <<conns, client, pending, at>>
    BY <1>1 DEF ForceCloseInLoop
<1>3. Functors /\ PartsTyped /\ ConnsTyped
    BY DEF CInv
<1>4. CASE conns[i].state \in {"kConnected", "kDisconnecting"}
  <2>1. h \in Queued /\ h.call = "forceCloseInLoop"
    <3>1. batch \in Seq(Fn) /\ batch # <<>> /\ h.call = "forceCloseInLoop"
        BY <1>1, <1>2, <1>3 DEF Run, Functors, Ordered
    <3>2. 1 \in DOMAIN batch /\ h = batch[1]
        BY <1>1, <3>1, SMTT(60)
    <3> QED
        BY <3>1, <3>2 DEF Queued, Range
  <2>2. i \in DOMAIN conns
      BY <1>1, <1>3, <2>1 DEF Functors, Bound
  <2>3. Open(i) /\ RemoveConnection(i) /\ QueueInLoop(DestroyCall(i))
      BY <1>2, <1>4 DEF Open, RemoveConnection, DestroyCall
  <2>4. /\ DestroyCall(i) \in Fn /\ \A g \in Queued : Before(Closed, g, DestroyCall(i))
        /\ DestroyCall(i) # Call("startInLoop") /\ DestroyCall(i) # Call("stopInLoop")
        /\ DestroyCall(i) # Call("resetChannel")
      BY <2>2, <2>3, MayDestroy
  <2>5. Turned(h, DestroyCall(i))
      BY <1>1, <1>2, <1>3, <2>3, <2>4, QueueTurned
  <2>6. PICK S : /\ Queued = S \cup {h} /\ Queued' = S \cup {DestroyCall(i)}
                 /\ \A g \in S : Before(Closed, h, g)
      BY <2>5 DEF Turned
  <2>7. /\ h # Call("startInLoop") /\ h # Call("resetChannel")
      BY <2>1, CallsDiffer
  <2>8. /\ HasStart' <=> HasStart
        /\ HasStop' <=> HasStop
        /\ HasReset' <=> HasReset
    <3>1. /\ Call("startInLoop") \in S <=> HasStart
          /\ Call("resetChannel") \in S <=> HasReset
          /\ Call("stopInLoop") \in S <=> HasStop
        BY <2>1, <2>6, <2>7, PoppedHas
    <3> QED
        BY <2>4, <2>6, <3>1, PushedHas
  <2>9. ~HasReset
    <3>1. i \notin Closed
        BY <2>3 DEF Closed, Open
    <3>2. Call("resetChannel") \notin S
        BY <1>1, <2>1, <2>6, <3>1, CallsDiffer DEF Before
    <3> QED
        BY <2>6, <2>7, <3>2 DEF HasReset
  <2>10. CloseQueued(i)
      BY <2>5, <2>6, <2>8, <2>9 DEF CloseQueued, Turned
  <2> QED
      BY <1>2, <2>2, <2>3, <2>10, CloseStep
<1>5. CASE conns[i].state \notin {"kConnected", "kDisconnecting"}
  <2>1. /\ connector' = connector /\ calls' = calls /\ stopped' = stopped /\ at' = at
        /\ conns' = conns /\ client' = client /\ pending' = pending
      BY <1>2, <1>5
  <2>2. Popped(h) /\ h.call = "forceCloseInLoop"
      BY <1>1, <1>2, <1>3, <2>1, QueuePopped
  <2>3. Queued = Queued' \cup {h} /\ \A g \in Queued' : Before(Closed, h, g)
      BY <2>2 DEF Popped
  <2>4. h # Call("startInLoop") /\ h # Call("resetChannel")
      BY <2>2, CallsDiffer
  <2>5. /\ HasStart' <=> HasStart
        /\ HasReset' <=> HasReset
        /\ HasStop' <=> HasStop
      BY <2>2, <2>3, <2>4, PoppedHas DEF HasStart, HasReset, HasStop, Call
  <2>6. (AnyOpen' <=> AnyOpen) /\ (NoneOrphan' <=> NoneOrphan)
      BY <2>1, QuietConns
  <2>7. Fresh'
      BY <2>1, <2>5 DEF Fresh, CInv, Core, Starting
  <2>8. ChannelKept' /\ OneThing'
      BY <2>1, <2>5, <2>6 DEF ChannelKept, OneThing, CInv, Core
  <2>9. Destroyed' /\ StopCounts'
      BY <2>1, <2>5, <2>6 DEF Destroyed, StopCounts, CInv, Core
  <2>10. PartsTyped'
      BY <1>3, <2>1 DEF PartsTyped
  <2>11. client'.keeps => ~client.alive
      BY <2>1 DEF CInv, Connections
  <2>12. Ordered(batch', pending', Closed) /\ \A f \in Queued' : f \in Queued
      BY <2>2, <2>3 DEF Popped
  <2> QED
      BY <2>1, <2>7, <2>8, <2>9, <2>10, <2>11, <2>12, QuietKeeps DEF Core
<1> QED
    BY <1>4, <1>5

(* TcpConnection::connectDestroyed, the functor that handleClose queued.   *)
LEMMA ConnectDestroyedStep ==
    ASSUME CInv, ConnectDestroyed
    PROVE  CInv'
<1>1. PICK h, i : h = Head(batch) /\ i = h.conn
    OBVIOUS
<1>2. /\ at["loop"] = "idle" /\ Run("connectDestroyed") /\ pending' = pending
      /\ conns' = [conns EXCEPT ![i] = [conns[i] EXCEPT !.destroyed = @ + 1]]
      /\ connector' = connector /\ client' = client
      /\ at' = at /\ calls' = calls /\ stopped' = stopped
    BY <1>1 DEF ConnectDestroyed, InLoop, user
<1>3. Functors /\ PartsTyped /\ ConnsTyped
    BY DEF CInv
<1>4. Popped(h) /\ h.call = "connectDestroyed"
    BY <1>1, <1>2, <1>3, QueuePopped
<1>5. /\ i \in DOMAIN conns /\ h \in Fn /\ Queued = Queued' \cup {h}
      /\ \A g \in Queued' : Before(Closed, h, g)
    BY <1>1, <1>4 DEF Popped, Bound
<1>6. h = DestroyCall(i)
    BY <1>1, <1>4, <1>5, DestroyIs
<1>7. h # Call("startInLoop") /\ h # Call("resetChannel")
    BY <1>4, CallsDiffer
<1>8. /\ HasStart' <=> HasStart
      /\ HasReset' <=> HasReset
      /\ HasStop' <=> HasStop
      /\ \A j : HasDestroy(j)' => HasDestroy(j) /\ h # DestroyCall(j)
    BY <1>4, <1>5, <1>7, PoppedHas
    DEF HasStart, HasReset, HasStop, HasDestroy, Call, DestroyCall
<1>9. HasDestroy(i)
    BY <1>5, <1>6 DEF HasDestroy
<1>10. conns[i] \in Conn
    BY <1>3, <1>5, SMTT(60) DEF ConnsTyped
<1>11. ~Open(i) /\ conns[i].destroyed = 0
    BY <1>5, <1>9, <1>10, SetConn DEF CInv, Connections, ConnStates
<1>12. ConnIs([conns[i] EXCEPT !.destroyed = @ + 1], conns[i].state, conns[i].cb, 1)
    BY <1>10, <1>11, SetConn DEF ConnStates
<1>13. Become(i, [conns[i] EXCEPT !.destroyed = @ + 1])
    BY <1>2, <1>3, <1>5, <1>12, ConnBecomes DEF ConnIs
<1>14. /\ conns'[i].state = conns[i].state /\ conns'[i].cb = conns[i].cb
       /\ conns'[i].destroyed = 1
    BY <1>12, <1>13 DEF ConnIs, Become
<1>15. \A j \in DOMAIN conns : (Open(j)' <=> Open(j)) /\ conns'[j].cb = conns[j].cb
    BY <1>13, <1>14 DEF Become, Open
<1>16. (AnyOpen' <=> AnyOpen) /\ (NoneOrphan' <=> NoneOrphan)
    BY <1>13, <1>15 DEF AnyOpen, NoneOrphan, Become
<1>17. conns # <<>>
    BY <1>5, SMTT(60)
<1>18. Fresh'
    BY <1>2, <1>8, <1>17 DEF Fresh, CInv, Core, Starting
<1>19. ChannelKept' /\ OneThing'
    BY <1>2, <1>8, <1>16 DEF ChannelKept, OneThing, CInv, Core
<1>20. Destroyed' /\ StopCounts'
    BY <1>2, <1>8, <1>16 DEF Destroyed, StopCounts, CInv, Core
<1>21. PartsTyped'
    BY <1>2, <1>3 DEF PartsTyped
<1>22. ConnsTyped'
    BY <1>2, <1>3, <1>13 DEF ConnsTyped, Become
<1>23. Functors'
  <2>1. \A j \in Closed : conns'[j].state = "kDisconnected"
      BY <1>13, <1>14 DEF Closed, Become
  <2> QED
      BY <1>3, <1>4, <1>5, <1>13, <2>1, FunctorsKept DEF Popped, Become
<1>24. Connections'
  <2>1. \A j \in DOMAIN conns' :
            /\ Open(j)' => conns'[j].destroyed = 0
            /\ Open(j)' \/ conns'[j].destroyed = 1 => ~HasDestroy(j)'
      BY <1>6, <1>8, <1>11, <1>13, <1>15 DEF CInv, Connections, Become
  <2>2. client.connection # 0 => client.connection \in DOMAIN conns
      BY ConnectionIs
  <2>3. (client.connection # 0 =>
            Open(client.connection) /\ conns[client.connection].cb = "client")'
    <3>1. PICK k : k = client.connection
        OBVIOUS
    <3>2. k # 0 => Open(k)' /\ conns'[k].cb = "client"
        BY <1>15, <2>2, <3>1 DEF CInv, Connections
    <3> QED
        BY <1>2, <3>1, <3>2 DEF Open
  <2> QED
      BY <1>2, <1>13, <1>15, <1>16, <2>1, <2>3 DEF CInv, Connections, Become
<1> QED
    BY <1>18, <1>19, <1>20, <1>21, <1>22, <1>23, <1>24 DEF CInv, Core

(* ~TcpClient with a connection, which it leaves behind.                   *)
LEMMA DtorConnectedStep ==
    ASSUME CInv, NEW unique \in BOOLEAN, DtorConnected(unique)
    PROVE  CInv'
<1>1. PICK i : i = client.connection
    OBVIOUS
<1>2. /\ client.alive /\ at["loop"] = "idle" /\ at["user"] = "idle" /\ i # 0
      /\ client' = [client EXCEPT !.alive = FALSE, !.connection = 0]
      /\ unique => /\ conns' = [conns EXCEPT ![i] = [Orphan(i) EXCEPT !.state = "kDisconnecting"]]
                   /\ QueueInLoop(ForceCall(i))
      /\ ~unique => conns' = [conns EXCEPT ![i] = Orphan(i)] /\ pending' = pending
      /\ connector' = connector /\ batch' = batch
      /\ at' = at /\ calls' = calls /\ stopped' = stopped
    BY <1>1 DEF DtorConnected, Calls, ForceCall, user
<1>3. Functors /\ PartsTyped /\ ConnsTyped /\ client \in Client
    BY DEF CInv, PartsTyped
<1>4. i \in DOMAIN conns /\ conns[i] \in Conn /\ Open(i) /\ AnyOpen /\ i \in Nat
    BY <1>1, <1>2, ConnectionIs
<1>5. /\ client' \in Client /\ ~client'.alive /\ client'.connect = client.connect
      /\ client'.connection = 0 /\ client'.keeps = client.keeps
  <2>1. PICK c1 : c1 = [client EXCEPT !.alive = FALSE]
      OBVIOUS
  <2>2. ClientIs(c1, FALSE, client.connect, client.connection, client.keeps)
      BY <1>3, <2>1, SetClient, ClientFields
  <2>3. c1 \in Client /\ 0 \in Nat
      BY <2>2 DEF ClientIs
  <2>4. client' = [c1 EXCEPT !.connection = 0]
      BY <1>2, <2>1
  <2>5. ClientIs(client', c1.alive, c1.connect, 0, c1.keeps)
      BY <2>3, <2>4, SetClient, ClientFields
  <2> QED
      BY <2>2, <2>5 DEF ClientIs
<1>6. PICK r : /\ Become(i, r) /\ r \in Conn /\ r.state # "kDisconnected" /\ r.cb = "detail"
               /\ r.destroyed = conns[i].destroyed
  <2>1. PICK o : o = Orphan(i)
      OBVIOUS
  <2>2. ConnIs(o, conns[i].state, "detail", conns[i].destroyed)
      BY <1>4, <2>1, SetConn DEF Orphan, ConnStates
  <2>3. CASE unique
    <3>1. PICK r : r = [o EXCEPT !.state = "kDisconnecting"]
        OBVIOUS
    <3>2. ConnIs(r, "kDisconnecting", o.cb, o.destroyed)
        BY <2>2, <3>1, SetConn DEF ConnIs, ConnStates
    <3>3. Become(i, r)
        BY <1>2, <1>3, <1>4, <2>1, <2>3, <3>1, <3>2, ConnBecomes DEF ConnIs
    <3> QED
        BY <2>2, <3>2, <3>3 DEF ConnIs
  <2>4. CASE ~unique
    <3>1. Become(i, o)
        BY <1>2, <1>3, <1>4, <2>1, <2>2, <2>4, ConnBecomes DEF ConnIs
    <3> QED
        BY <1>4, <2>2, <3>1 DEF ConnIs, Open
  <2> QED
      BY <2>3, <2>4
<1>7. /\ Ordered(batch', pending', Closed) /\ \A f \in Queued : f \in Queued'
      /\ \A f \in Queued' : f \in Queued \/ (f.call = "forceCloseInLoop" /\ f.conn = i)
  <2>1. /\ ForceCall(i) \in Fn /\ ForceCall(i).call = "forceCloseInLoop"
        /\ ForceCall(i).conn = i
      BY <1>4, CallsDiffer
  <2>2. CASE unique
    <3>1. Pushed(ForceCall(i))
        BY <1>2, <1>3, <2>1, <2>2, MayQueue, QueuePushed
    <3> QED
        BY <2>1, <3>1 DEF Pushed
  <2>3. CASE ~unique
      BY <1>2, <1>3, <2>3, QueueMoved DEF Moved
  <2> QED
      BY <2>2, <2>3
<1>8. /\ HasStart' <=> HasStart
      /\ HasStop' <=> HasStop
      /\ HasReset' <=> HasReset
      /\ \A j : HasDestroy(j)' => HasDestroy(j)
  <2>1. \A s : Call(s).call = s
      BY CallsDiffer
  <2>2. \A j : DestroyCall(j).call = "connectDestroyed"
      BY CallsDiffer
  <2> QED
      BY <1>7, <2>1, <2>2 DEF HasStart, HasStop, HasReset, HasDestroy, Call, DestroyCall
<1>9. \A j \in DOMAIN conns : (Open(j)' <=> Open(j)) /\ conns'[j].destroyed = conns[j].destroyed
    BY <1>4, <1>6 DEF Become, Open
<1>10. AnyOpen' <=> AnyOpen
    BY <1>6, <1>9 DEF AnyOpen, Become
<1>11. ~NoneOrphan'
    BY <1>4, <1>6 DEF NoneOrphan, Become
<1>12. /\ ~Starting /\ calls.connect # 0
       /\ connector.channel # "added" /\ connector.timers = 0
    BY <1>4, OpenMeans
<1>13. ~HasStart
    BY <1>12 DEF Starting
<1>14. Fresh'
    BY <1>2, <1>8, <1>12, <1>13 DEF Fresh, CInv, Core, Starting
<1>15. ChannelKept' /\ OneThing'
    BY <1>2, <1>8, <1>10 DEF ChannelKept, OneThing, CInv, Core
<1>16. Destroyed' /\ StopCounts'
    BY <1>2, <1>5, <1>8, <1>11, <1>12, <1>13 DEF Destroyed, StopCounts, CInv, Core
<1>17. PartsTyped'
    BY <1>2, <1>3, <1>5 DEF PartsTyped
<1>18. ConnsTyped'
  <2>1. 0 \in 0 .. Len(conns)
      BY <1>3, SMTT(60) DEF ConnsTyped
  <2> QED
      BY <1>3, <1>5, <1>6, <2>1 DEF ConnsTyped, Become
<1>19. Functors'
  <2>1. \A j \in Closed : conns'[j].state = "kDisconnected"
      BY <1>4, <1>6 DEF Closed, Become, Open
  <2>2. \A f \in Queued' : f \in Queued \/ Bound(f)'
      BY <1>4, <1>6, <1>7 DEF Bound, Become
  <2> QED
      BY <1>3, <1>6, <1>7, <2>1, <2>2, FunctorsKept DEF Become
<1>20. Connections'
  <2>1. \A j \in DOMAIN conns' :
            /\ Open(j)' => conns'[j].destroyed = 0
            /\ Open(j)' \/ conns'[j].destroyed = 1 => ~HasDestroy(j)'
      BY <1>6, <1>8, <1>9 DEF CInv, Connections, Become
  <2>2. \A j \in DOMAIN conns' : ~(Open(j)' /\ conns'[j].cb = "client")
      BY <1>1, <1>4, <1>6, <1>9 DEF CInv, Connections, Become
  <2>3. \A j, k \in DOMAIN conns' : Open(j)' /\ Open(k)' => j = k
      BY <1>6, <1>9 DEF CInv, Connections, Become
  <2> QED
      BY <1>5, <2>1, <2>2, <2>3 DEF Connections
<1> QED
    BY <1>14, <1>15, <1>16, <1>17, <1>18, <1>19, <1>20 DEF CInv, Core

(* TcpClient::newConnection, called by Connector::handleWrite.             *)
LEMMA NewConnectionStep ==
    ASSUME CInv, InLoop, AttemptSucceeds, connector.connect, NewConnection, UNCHANGED user
    PROVE  CInv'
<1>1. PICK n : n = Len(conns) + 1
    OBVIOUS
<1>2. PICK r : r = [state |-> "kConnected", cb |-> "client", destroyed |-> 0]
    OBVIOUS
<1>3. /\ at["loop"] = "idle" /\ connector.channel = "added" /\ batch' = batch
      /\ connector' = [RemoveAndResetChannel(connector) EXCEPT !.state = "kConnected"]
      /\ QueueInLoop(Call("resetChannel")) /\ n \in 1 .. MaxConns
      /\ conns' = Append(conns, r) /\ client' = [client EXCEPT !.connection = n]
      /\ at' = at /\ calls' = calls /\ stopped' = stopped
    BY <1>1, <1>2 DEF InLoop, AttemptSucceeds, NewConnection, NextConnId, ConnIds, user
<1>4. Functors /\ PartsTyped /\ ConnsTyped /\ client \in Client /\ connector \in Object
    BY DEF CInv, PartsTyped
<1>5. /\ connector.timers = 0 /\ ~AnyOpen /\ ~HasReset /\ ~Starting /\ calls.connect # 0
      /\ \A g \in Queued : Before(Closed, g, Call("resetChannel"))
    BY <1>3, Attempting
<1>6. Is(connector', connector.connect, "kConnected", "removed", connector.timers)
    BY <1>3, <1>4, AttemptEnds
<1>7. /\ connector' \in Object /\ connector'.state = "kConnected"
      /\ connector'.channel = "removed" /\ connector'.timers = 0
    BY <1>5, <1>6 DEF Is
<1>8. /\ client.alive /\ stopped # "loop" /\ NoneOrphan
    BY <1>3 DEF CInv, Core, Destroyed, StopCounts, Connections
<1>9. /\ conns' \in Seq(Conn) /\ Len(conns') = n /\ n \in Nat /\ n <= MaxConns
      /\ DOMAIN conns' = 1 .. n /\ DOMAIN conns = 1 .. Len(conns)
      /\ conns'[n] = r /\ n \in DOMAIN conns' /\ n \notin DOMAIN conns
      /\ \A j \in DOMAIN conns' : j = n \/ j \in DOMAIN conns
      /\ \A j \in DOMAIN conns : j \in DOMAIN conns' /\ conns'[j] = conns[j]
      /\ n # 0 /\ n \in 0 .. n
  <2>1. r \in Conn
      BY <1>2, SMTT(60) DEF Conn, ConnStates
  <2>2. conns \in Seq(Conn) /\ MaxConns \in Nat
      BY <1>4, ClientAssumption DEF ConnsTyped
  <2> QED
      BY <1>1, <1>3, <2>1, <2>2, SMTT(60)
<1>10. r.state = "kConnected" /\ r.cb = "client" /\ r.destroyed = 0
    BY <1>2, SMTT(60)
<1>11. /\ client' \in Client /\ client'.alive /\ client'.connect = client.connect
       /\ client'.connection = n /\ client'.keeps = client.keeps
  <2>1. n \in Nat /\ client.alive \in BOOLEAN
      BY <1>4, <1>9, ClientFields
  <2>2. ClientIs(client', client.alive, client.connect, n, client.keeps)
      BY <1>3, <1>4, <2>1, SetClient
  <2> QED
      BY <1>8, <2>2 DEF ClientIs
<1>12. Call("resetChannel") \in Fn /\ Call("resetChannel").call = "resetChannel"
    BY CallsDiffer DEF FnCalls
<1>13. Pushed(Call("resetChannel"))
    BY <1>3, <1>4, <1>5, <1>12, QueuePushed
<1>14. Queued' = Queued \cup {Call("resetChannel")} /\ Ordered(batch', pending', Closed)
    BY <1>13 DEF Pushed
<1>15. /\ Call("resetChannel") # Call("startInLoop")
       /\ \A i : DestroyCall(i) # Call("resetChannel")
    BY CallsDiffer
<1>16. /\ HasStart' <=> HasStart
       /\ HasReset'
       /\ \A i : HasDestroy(i)' => HasDestroy(i)
    BY <1>14, <1>15, PushedHas DEF HasStart, HasDestroy
<1>17. ~Starting'
    BY <1>3, <1>5, <1>16 DEF Starting
<1>18. Fresh'
    BY <1>3, <1>5, <1>17 DEF Fresh, Starting
<1>19. ChannelKept'
    BY <1>7, <1>16 DEF ChannelKept
<1>20. OneThing'
  <2>1. 0 # 1
      BY SMTT(60)
  <2> QED
      BY <1>3, <1>7, <2>1 DEF OneThing
<1>21. Destroyed' /\ StopCounts'
    BY <1>3, <1>8, <1>11 DEF Destroyed, StopCounts
<1>22. PartsTyped'
    BY <1>3, <1>4, <1>7, <1>11 DEF PartsTyped
<1>23. ConnsTyped'
    BY <1>9, <1>11 DEF ConnsTyped
<1>24. Functors'
  <2>1. \A j \in Closed : conns'[j].state = "kDisconnected"
      BY <1>9 DEF Closed
  <2>2. \A f \in Queued' : f \in Queued \/ Bound(f)'
      BY <1>12, <1>14 DEF Bound, Call
  <2> QED
      BY <1>4, <1>9, <1>14, <2>1, <2>2, FunctorsKept
<1>25. ~HasDestroy(n)
  <2>1. DestroyCall(n).call = "connectDestroyed" /\ DestroyCall(n).conn = n
      BY CallsDiffer
  <2> QED
      BY <1>4, <1>9, <2>1 DEF HasDestroy, Functors, Bound
<1>26. \A j \in DOMAIN conns' : Open(j)' => j = n
    BY <1>5, <1>9 DEF AnyOpen, Open
<1>27. \A j \in DOMAIN conns' : conns'[j].destroyed = 1 => ~HasDestroy(j)'
    BY <1>9, <1>16, <1>25 DEF CInv, Connections
<1>28. NoneOrphan'
    BY <1>8, <1>9, <1>10 DEF NoneOrphan
<1>29. (client.connection # 0 =>
            Open(client.connection) /\ conns[client.connection].cb = "client")'
    BY <1>9, <1>10, <1>11 DEF Open
<1>30. \A j \in DOMAIN conns' : Open(j)' => conns'[j].destroyed = 0 /\ ~HasDestroy(j)'
    BY <1>9, <1>10, <1>16, <1>25, <1>26
<1>31. client'.keeps => ~client'.alive
    BY <1>8, <1>11 DEF CInv, Connections
<1>32. Connections'
    BY <1>11, <1>26, <1>27, <1>28, <1>29, <1>30, <1>31 DEF Connections
<1> QED
    BY <1>18, <1>19, <1>20, <1>21, <1>22, <1>23, <1>24, <1>32 DEF CInv, Core

(* Connector::handleWrite when the attempt succeeded.                      *)
LEMMA HandleWriteStep ==
    ASSUME CInv, HandleWrite
    PROVE  CInv'
<1>1. InLoop /\ AttemptSucceeds /\ UNCHANGED user
    BY DEF HandleWrite
<1>2. CASE connector.connect
  <2>1. NewConnection
      BY <1>2 DEF HandleWrite
  <2> QED
      BY <1>1, <1>2, <2>1, NewConnectionStep
<1>3. CASE ~connector.connect
  <2>1. /\ BetweenBatches /\ connector.channel = "added"
        /\ connector' = [RemoveAndResetChannel(connector) EXCEPT !.state = "kConnected"]
        /\ QueueInLoop(Call("resetChannel")) /\ UNCHANGED <<batch, client, conns, user>>
      BY <1>1, <1>3 DEF HandleWrite, AttemptSucceeds
  <2>2. connector \in Object /\ connector.timers = 0
      BY <2>1, Attempting DEF CInv, PartsTyped
  <2>3. Is(connector', connector.connect, "kConnected", "removed", connector.timers)
      BY <2>1, <2>2, AttemptEnds
  <2>4. AttemptOver
      BY <2>2, <2>3 DEF AttemptOver, Is
  <2> QED
      BY <2>1, <2>4, AttemptOverStep
<1> QED
    BY <1>2, <1>3

-----------------------------------------------------------------------------
(* The invariant holds, and what it says.                                  *)

(* The constructors of TcpClient and Connector.                            *)
LEMMA InitInv == Init => CInv
<1> SUFFICES ASSUME Init PROVE CInv
    OBVIOUS
<1>1. /\ connector \in Object /\ connector.connect = FALSE /\ connector.state = "kDisconnected"
      /\ connector.channel = "none" /\ connector.timers = 0
    BY DelayAssumption, SMTT(60) DEF Init, ConnectorInit, Object, States, Channels, Delays
<1>2. /\ client \in Client /\ client.alive /\ client.connection = 0 /\ ~client.keeps
    BY SMTT(60) DEF Init, Client
<1>3. /\ at \in [Threads -> Places] /\ at["loop"] = "idle" /\ at["user"] = "idle"
      /\ stopped = "nobody" /\ conns = <<>>
    BY DEF Init, Threads, Places
<1>4. calls \in [connect : {0, 1}, stop : Nat] /\ calls.connect = 0
    BY SMTT(60) DEF Init
<1>5. pending = <<>> /\ batch = <<>>
    BY DEF Init, ConnectorInit
<1>6. Queued = {}
    BY <1>5, EmptyFine DEF Queued
<1>7. /\ ~HasStart /\ ~HasStop /\ ~HasReset /\ \A i : ~HasDestroy(i)
    BY <1>6 DEF HasStart, HasStop, HasReset, HasDestroy
<1>8. DOMAIN conns = {} /\ conns \in Seq(Conn) /\ Len(conns) = 0 /\ Len(conns) <= MaxConns
    BY <1>3, ClientAssumption, SMTT(60)
<1>9. 0 \in 0 .. 0 /\ 0 # 1
    BY SMTT(60)
<1>10. PartsTyped
    BY <1>1, <1>2, <1>3, <1>4 DEF PartsTyped
<1>11. ConnsTyped
    BY <1>2, <1>8, <1>9 DEF ConnsTyped
<1>12. Functors
    BY <1>5, <1>6, EmptyFine DEF Functors, Ordered
<1>13. Fresh /\ ChannelKept
    BY <1>1, <1>3, <1>7 DEF Fresh, ChannelKept, Starting
<1>14. OneThing /\ Destroyed /\ StopCounts
    BY <1>1, <1>2, <1>3, <1>9 DEF OneThing, Destroyed, StopCounts
<1>15. Connections
    BY <1>2, <1>8 DEF Connections, NoneOrphan
<1> QED
    BY <1>10, <1>11, <1>12, <1>13, <1>14, <1>15 DEF CInv, Core

(* A step of the connector in the loop.                                    *)
LEMMA ConnectorStepKeeps ==
    ASSUME CInv, ConnectorStep
    PROVE  CInv'
<1>1. InLoop /\ UNCHANGED <<client, conns, user>>
    BY DEF ConnectorStep
<1>2. CASE AttemptFails
  <2>1. /\ BetweenBatches /\ connector.channel = "added"
        /\ connector' = Retry(RemoveAndResetChannel(connector))
        /\ QueueInLoop(Call("resetChannel")) /\ UNCHANGED <<batch, client, conns, user>>
      BY <1>1, <1>2 DEF AttemptFails
  <2>2. AttemptOver
      BY <2>1, FailedIs
  <2> QED
      BY <2>1, <2>2, AttemptOverStep
<1> QED
    BY <1>1, <1>2, TakeBatchStep, FunctorStartStep, FunctorStopStep, FunctorResetStep,
       RetryTimerStep DEF ConnectorStep

(* Every step of a client whose connect() is called once.                  *)
LEMMA NextKeeps ==
    ASSUME CInv, MaxConnects = 1, [Next]_vars
    PROVE  CInv'
<1>1. ASSUME NEW t \in Threads, UserCall(t) \/ Returns(t) PROVE CInv'
    BY <1>1, EnableRetryStep, ConnectStep, StopStep, DisconnectStep, ForceCloseStep, StartStep,
       QueueStopStep DEF UserCall, Returns
<1>2. CASE Dtor \/ RemoveConnector
    BY <1>2, DtorUnconnectedStep, DtorConnectedStep, RemoveConnectorStep DEF Dtor
<1>3. CASE LoopStep \/ HandleWrite
    BY <1>3, ConnectorStepKeeps, ForceCloseInLoopStep, RestartStep, ConnectDestroyedStep,
       HandleWriteStep DEF LoopStep
<1>4. ASSUME NEW i \in DOMAIN conns, HandleClose(i) PROVE CInv'
    BY <1>4, HandleCloseStep
<1>5. CASE UNCHANGED vars
  <2>1. /\ connector' = connector /\ pending' = pending /\ batch' = batch /\ client' = client
        /\ conns' = conns /\ at' = at /\ calls' = calls /\ stopped' = stopped
      BY <1>5 DEF vars
  <2>2. client \in Client /\ Functors /\ conns \in Seq(Conn)
      BY DEF CInv, PartsTyped, ConnsTyped
  <2>3. UNCHANGED <<batch, pending>> /\ UNCHANGED <<connector, user>>
      BY <2>1 DEF user
  <2>4. ForcesOnly
      BY <2>2, <2>3, QueueMoved DEF Moved, ForcesOnly
  <2>5. SameConns
      BY <2>1, <2>2 DEF SameConns, Open
  <2> QED
      BY <2>1, <2>2, <2>3, <2>4, <2>5, IdleStep
<1> QED
    BY <1>1, <1>2, <1>3, <1>4, <1>5 DEF Next

(* A queue that is empty holds no resetChannel, so the channel is gone.    *)
LEMMA TimerFindsNone ==
    ASSUME CInv, TimersExpire, connector.timers > 0
    PROVE  connector.state = "kDisconnected" /\ connector.channel = "none"
<1>1. connector.timers \in {0, 1} /\ connector \in Object
    BY DEF CInv, PartsTyped
<1>2. connector.timers = 1
    BY <1>1, SMTT(60)
<1>3. connector.state = "kDisconnected"
    BY <1>2 DEF CInv, Core, OneThing
<1>4. Queued = {}
    BY EmptyFine DEF Queued, TimersExpire, BetweenBatches
<1>5. ~HasReset
    BY <1>4 DEF HasReset
<1>6. connector.channel # "added" /\ connector.channel # "removed"
    BY <1>3, <1>5 DEF CInv, Core, ChannelKept
<1> QED
    BY <1>1, <1>3, <1>6, FieldsOf DEF Channels

(* How many attempts there are, counted one by one.                        *)
LEMMA CountAttempts ==
    ASSUME CInv
    PROVE  Attempts \in {0, 1} /\ (AnyOpen => Attempts = 0)
<1>1. PICK A, B, D : /\ A = {t \in Threads : at[t] \in {"start", "restart"}}
                     /\ B = Queued \cap {Call("startInLoop")}
                     /\ D = {"added"} \cap {connector.channel}
    OBVIOUS
<1>2. Attempts = Cardinality(A) + Cardinality(B) + Cardinality(D) + connector.timers
    BY <1>1 DEF Attempts
<1>3. Cardinality({}) = 0 /\ \A x : Cardinality({x}) = 1
    BY FS_EmptySet, FS_Singleton
<1>4. at["user"] # "restart" /\ connector.timers \in {0, 1}
    BY DEF CInv, PartsTyped
<1>5. D = IF connector.channel = "added" THEN {"added"} ELSE {}
    BY <1>1
<1>6. B = IF HasStart THEN {Call("startInLoop")} ELSE {}
    BY <1>1 DEF HasStart
<1>7. CASE Starting
  <2>1. connector.timers = 0 /\ connector.channel = "none" /\ at["loop"] # "restart" /\ ~AnyOpen
      BY <1>7, NoneOpen DEF CInv, Core, Fresh
  <2>2. Cardinality(D) = 0
      BY <1>3, <1>5, <2>1
  <2>3. Cardinality(A) + Cardinality(B) = 1
    <3>1. CASE HasStart
      <4>1. A = {}
          BY <1>1, <1>4, <2>1, <3>1 DEF CInv, Core, Fresh, Threads
      <4>2. Cardinality(A) = 0 /\ Cardinality(B) = 1
          BY <1>3, <1>6, <3>1, <4>1
      <4> QED
          BY <4>2, SMTT(60)
    <3>2. CASE ~HasStart
      <4>1. A = {"loop"} \/ A = {"user"}
        <5>1. CASE at["loop"] = "start"
          <6>1. at["user"] # "start"
              BY <5>1 DEF CInv, Core, Fresh
          <6> QED
              BY <1>1, <1>4, <5>1, <6>1 DEF Threads
        <5>2. CASE at["loop"] # "start"
          <6>1. at["user"] = "start"
              BY <1>7, <3>2, <5>2 DEF Starting
          <6> QED
              BY <1>1, <2>1, <5>2, <6>1 DEF Threads
        <5> QED
            BY <5>1, <5>2
      <4>2. Cardinality(A) = 1 /\ Cardinality(B) = 0
          BY <1>3, <1>6, <3>2, <4>1
      <4> QED
          BY <4>2, SMTT(60)
    <3> QED
        BY <3>1, <3>2
  <2>4. Attempts = 1
    <3>1. PICK a, b, d : a = Cardinality(A) + Cardinality(B) /\ d = Cardinality(D) /\ b = connector.timers
        OBVIOUS
    <3>2. a = 1 /\ b = 0 /\ d = 0
        BY <2>1, <2>2, <2>3, <3>1
    <3>3. a + d + b = 1
        BY <3>2, SMTT(60)
    <3> QED
        BY <1>2, <3>1, <3>3
  <2> QED
      BY <2>1, <2>4
<1>8. CASE ~Starting
  <2>1. at["loop"] # "start" /\ at["user"] # "start" /\ ~HasStart
      BY <1>8 DEF Starting
  <2>2. A = IF at["loop"] = "restart" THEN {"loop"} ELSE {}
      BY <1>1, <1>4, <2>1 DEF Threads
  <2>3. PICK a, b, d, n : /\ a = Cardinality(A) /\ b = Cardinality(B) /\ d = Cardinality(D)
                          /\ n = connector.timers
      OBVIOUS
  <2>4. /\ a = IF at["loop"] = "restart" THEN 1 ELSE 0
        /\ b = 0 /\ n \in {0, 1}
        /\ d = IF connector.channel = "added" THEN 1 ELSE 0
      BY <1>3, <1>4, <1>5, <1>6, <2>1, <2>2, <2>3
  <2>5. /\ at["loop"] = "restart" => connector.channel # "added" /\ n = 0
        /\ connector.channel = "added" => n = 0
        /\ AnyOpen => at["loop"] # "restart" /\ connector.channel # "added" /\ n = 0
      BY <2>3, OpenMeans DEF CInv, Core, OneThing
  <2>6. a + b + d + n \in {0, 1} /\ (AnyOpen => a + b + d + n = 0)
      BY <2>4, <2>5, SMTT(60)
  <2> QED
      BY <1>2, <2>3, <2>6
<1> QED
    BY <1>7, <1>8

(* The parts of the type invariant that the code relies on.                *)
LEMMA CInvTypes == CInv => TypeOK
<1> SUFFICES ASSUME CInv PROVE TypeOK
    OBVIOUS
<1>1. PartsTyped /\ ConnsTyped /\ connector \in Object
    BY DEF CInv, PartsTyped
<1>2. connector.state \in States /\ connector.channel \in Channels /\ connector.timers \in Nat
      /\ connector.delay \in kInitRetryDelayMs .. kMaxRetryDelayMs
    BY <1>1, FieldsOf DEF Delays
<1>3. ASSUME NEW f \in Queued PROVE f.conn \in 0 .. Len(conns)
  <2>1. Bound(f) /\ conns \in Seq(Conn)
      BY <1>1 DEF CInv, Functors, ConnsTyped
  <2>2. CASE f.call \in {"forceCloseInLoop", "connectDestroyed"}
    <3>1. f.conn \in DOMAIN conns
        BY <2>1, <2>2 DEF Bound
    <3> QED
        BY <2>1, <3>1, SMTT(60)
  <2>3. CASE f.call \notin {"forceCloseInLoop", "connectDestroyed"}
    <3>1. f = Call(f.call)
        BY <2>1, <2>3 DEF Bound
    <3>2. \A s : Call(s).conn = 0
        BY SMTT(60) DEF Call
    <3>3. f.conn = 0
        BY <3>1, <3>2
    <3> QED
        BY <2>1, <3>3, SMTT(60)
  <2> QED
      BY <2>2, <2>3
<1> QED
    BY <1>1, <1>2, <1>3 DEF TypeOK, PartsTyped, ConnsTyped

(* The invariant implies what the run checks,                              *)
LEMMA CInvOneAtATime == CInv => OneAtATime
<1> SUFFICES ASSUME CInv PROVE OneAtATime
    OBVIOUS
<1>1. TypeOK
    BY CInvTypes
<1>2. OneAttempt
  <2>1. Attempts <= 1
      BY CountAttempts, SMTT(60)
  <2> QED
      BY <2>1, CountAttempts, ConnectionIs DEF OneAttempt
<1>3. StartsAfresh
  <2>1. CASE Starting
      BY <2>1 DEF CInv, Core, Fresh, StartsAfresh
  <2>2. CASE ~Starting
    <3>1. ~(batch # <<>> /\ Head(batch) = Call("startInLoop"))
      <4>1. SUFFICES ASSUME batch # <<>>, Head(batch) = Call("startInLoop") PROVE FALSE
          OBVIOUS
      <4>2. batch \in Seq(Fn)
          BY DEF CInv, Functors, Ordered
      <4>3. 1 \in DOMAIN batch /\ Head(batch) = batch[1]
          BY <4>1, <4>2, SMTT(60)
      <4>4. Head(batch) \in Queued
          BY <4>3 DEF Queued, Range
      <4> QED
          BY <2>2, <4>1, <4>4 DEF Starting, HasStart
    <3>2. at["loop"] # "start"
        BY <2>2 DEF Starting
    <3>3. at["loop"] = "restart" => connector.channel = "none"
        BY DEF CInv, Core, OneThing
    <3> QED
        BY <3>1, <3>2, <3>3, TimerFindsNone DEF StartsAfresh, StartsInLoop
  <2> QED
      BY <2>1, <2>2
<1>4. StopInLoopHolds
    BY DEF CInv, Core, StopCounts, ChannelKept, StopInLoopHolds, Halted, HasStop, Threads
<1> QED
    BY <1>1, <1>2, <1>3, <1>4 DEF OneAtATime

(* both of it.                                                             *)
LEMMA CInvNothingDangles == CInv => NothingDangles
<1> SUFFICES ASSUME CInv PROVE NothingDangles
    OBVIOUS
<1>1. CallbacksFindClient
    BY DEF CInv, Core, Destroyed, Connections, CallbacksFindClient
<1>2. StoppedConnectorKept
  <2>1. SUFFICES ASSUME NoneOrphan, NEW f \in Queued, UsesConnector(f),
                        ~client.alive, ~client.keeps
                 PROVE  FALSE
      BY DEF StoppedConnectorKept, FunctorsFindConnector, ConnectorExists, NoneOrphan
  <2>2. ~HasStart /\ ~HasStop /\ ~HasReset
      BY <2>1 DEF CInv, Core, Destroyed
  <2>3. f = Call(f.call)
      BY <2>1 DEF CInv, Functors, Bound, UsesConnector
  <2> QED
      BY <2>1, <2>2, <2>3 DEF UsesConnector, HasStart, HasStop, HasReset
<1>3. DestroyedOnce
  <2>1. ASSUME NEW i \in DOMAIN conns PROVE conns[i].destroyed <= 1 /\ conns[i].destroyed \in {0, 1}
    <3>1. conns[i] \in Conn
        BY SMTT(60) DEF CInv, ConnsTyped
    <3> QED
        BY <3>1, SMTT(60) DEF Conn
  <2>2. 0 # 1
      BY SMTT(60)
  <2> QED
      BY <2>1, <2>2 DEF DestroyedOnce, CInv, Connections
<1> QED
    BY <1>1, <1>2, <1>3 DEF NothingDangles

(* For any delays, any number of calls of stop() and of connections: a     *)
(* client whose connect() is called once has one attempt or one connection *)
(* at a time, an attempt starts when the last one is cleaned up, and none  *)
(* follows a stop() in the loop (Connector.cc:49 and 131).                 *)
THEOREM OneAttemptAlways ==
    ASSUME MaxConnects = 1
    PROVE  Spec => []OneAtATime
<1>1. Init => CInv
    BY InitInv
<1>2. CInv /\ [Next]_vars => CInv'
    BY NextKeeps
<1>3. CInv => OneAtATime
    BY CInvOneAtATime
<1> QED
    BY <1>1, <1>2, <1>3, PTL DEF Spec

(* Under the same assumption nothing that was destroyed is called: the     *)
(* callbacks bound to the raw TcpClient find it, the functors bound to the *)
(* raw Connector find the one that ~TcpClient stopped, and                 *)
(* connectDestroyed runs at most once for a connection.                    *)
THEOREM NothingDanglesEver ==
    ASSUME MaxConnects = 1
    PROVE  Spec => []NothingDangles
<1>1. Init => CInv
    BY InitInv
<1>2. CInv /\ [Next]_vars => CInv'
    BY NextKeeps
<1>3. CInv => NothingDangles
    BY CInvNothingDangles
<1> QED
    BY <1>1, <1>2, <1>3, PTL DEF Spec

=============================================================================
