------------------------ MODULE TcpConnectionProofs -------------------------
(***************************************************************************)
(* The output side of a TcpConnection is sound whatever its users call,    *)
(* from whichever threads, however long messages are, however few bytes a  *)
(* write takes and whenever the peer or the server goes away.              *)
(***************************************************************************)
EXTENDS TcpConnection, SequenceTheorems, TLAPS

\* Leaves go to Zenon unless they name another prover.
USE ZenonT(60)

Names == {"connectEstablished", "connectDestroyed", "send", "shutdown", "forceClose",
          "startRead", "stopRead", "writeComplete", "highWater"}
Functors == [op : Names, msg : Seq(Bytes)]
Calls == [op : Names \cup {"none"}, step : 0..2, msg : Seq(Bytes)]
Todo == {"user", "dispatch", "hup", "err", "in", "out", "closeCallback", "remove"}

\* connectEstablished is only ever the first functor of a queue: TcpServer queues it
\* before anybody else knows the connection.
Waiting(q) == q # <<>> /\ q[1].op = "connectEstablished"
Queue(q) ==
    /\ q \in Seq(Functors)
    /\ \A i \in 2..Len(q) : q[i].op # "connectEstablished"

Typed ==
    /\ state \in StateE /\ reading \in BOOLEAN /\ fin \in BOOLEAN
    /\ index \in {"kNew", "kAdded", "kDeleted"} /\ events \subseteq {"read", "write"}
    /\ output \in Seq(Bytes) /\ wire \in Seq(Bytes) /\ accepted \in Seq(Bytes)
    /\ peer \in {"open", "closed", "reset", "gone"}
    /\ inputs \in 0..MaxInput /\ inbox \in 0..inputs
    /\ todo \in Seq(Todo) /\ timer \in BOOLEAN
    /\ server \in {"holds", "removed", "dead"}
    /\ removing \in Nat /\ destroyed \in Nat /\ closed \in BOOLEAN
    /\ calls \in 0..MaxCalls
    /\ tpc \in [Threads -> Calls]
    /\ \A t \in Threads : tpc[t] # Idle => tpc[t].op \in Names \ {"connectEstablished"}

\* Until connectEstablished runs nobody has touched the connection.
Untouched ==
    /\ todo = <<>> /\ ~timer /\ index = "kNew"
    /\ \A t \in Threads : tpc[t] = Idle

Starting ==
    /\ Queue(pending)
    /\ state = "kConnecting" <=> Waiting(pending)
    /\ state = "kConnecting" => Untouched

Output == StreamIntact /\ WritingIffOutput /\ FinLast

OInv == Typed /\ Starting /\ Output

-----------------------------------------------------------------------------
\* A sequence cut in two, as a write of its first k bytes cuts it.
LEMMA CutInTwo ==
    ASSUME NEW S, NEW m \in Seq(S), NEW k \in 0..Len(m)
    PROVE  /\ SubSeq(m, 1, k) \in Seq(S)
           /\ SubSeq(m, k + 1, Len(m)) \in Seq(S)
           /\ Len(SubSeq(m, k + 1, Len(m))) = Len(m) - k
           /\ SubSeq(m, 1, k) \o SubSeq(m, k + 1, Len(m)) = m
<1>1. Len(m) \in Nat /\ 1 \in 1..Len(m) + 1 /\ k \in 1 - 1..Len(m) /\ Len(m) \in k..Len(m)
    BY SMTT(60)
<1>2. SubSeq(m, 1, k) \o SubSeq(m, k + 1, Len(m)) = SubSeq(m, 1, Len(m))
    BY <1>1, ConcatAdjacentSubSeq
<1>3. SubSeq(m, 1, Len(m)) = m
    BY SubSeqFull
<1>4. SubSeq(m, 1, k) \in Seq(S)
    <2>1. \A i \in 1..k : m[i] \in S
        BY <1>1, SMTT(60)
    <2> QED
        BY <1>1, <2>1, SubSeqProperties, SMTT(60)
<1>5. SubSeq(m, k + 1, Len(m)) \in Seq(S) /\ Len(SubSeq(m, k + 1, Len(m))) = Len(m) - k
    <2>1. \A i \in k + 1..Len(m) : m[i] \in S
        BY <1>1, SMTT(60)
    <2>2. k + 1 \in Int /\ Len(m) \in Int
        BY <1>1, SMTT(60)
    <2>3. /\ SubSeq(m, k + 1, Len(m)) \in Seq(S)
          /\ Len(SubSeq(m, k + 1, Len(m))) =
                IF k + 1 <= Len(m) THEN Len(m) - (k + 1) + 1 ELSE 0
        BY <2>1, <2>2, SubSeqProperties, SMTT(60)
    <2> QED
        BY <1>1, <2>3, SMTT(60)
<1> QED
    BY <1>2, <1>3, <1>4, <1>5

\* Concatenation, as a step appends first to the wire and then to the buffer.
LEMMA Regroup ==
    ASSUME NEW S, NEW w \in Seq(S), NEW a \in Seq(S), NEW b \in Seq(S)
    PROVE  (w \o a) \o b = w \o (a \o b)
BY ConcatAssociative, SMTT(60)

\* A functor queued behind others does not change which of them is first.
LEMMA AppendQueue ==
    ASSUME NEW q, Queue(q), NEW f \in Functors, f.op # "connectEstablished"
    PROVE  /\ Queue(Append(q, f))
           /\ Waiting(Append(q, f)) <=> Waiting(q)
<1>1. q \in Seq(Functors)
    BY DEF Queue
<1>2. /\ Append(q, f) \in Seq(Functors) /\ Append(q, f) # <<>>
      /\ Len(Append(q, f)) = Len(q) + 1 /\ Len(q) \in Nat
      /\ \A i \in 1..Len(q) : Append(q, f)[i] = q[i]
      /\ Append(q, f)[Len(q) + 1] = f
    BY <1>1, AppendProperties, SMTT(60)
<1> DEFINE r == Append(q, f)
<1> HIDE DEF r
<1>3. Queue(r)
    BY <1>2, SMTT(60) DEF Queue, r
<1>4. Waiting(r) <=> Waiting(q)
    <2>1. CASE q = <<>>
        BY <1>1, <1>2, <2>1, SMTT(60) DEF Waiting, r
    <2>2. CASE q # <<>>
        <3>1. Len(q) > 0
            BY <1>1, <2>2, SMTT(60)
        <3>2. r[1] = q[1] /\ r # <<>>
            BY <1>2, <3>1, SMTT(60) DEF r
        <3> QED
            BY <2>2, <3>2 DEF Waiting
    <2> QED
        BY <2>1, <2>2
<1> QED
    BY <1>3, <1>4 DEF r

\* After the first functor no other is connectEstablished.
LEMMA TailQueue ==
    ASSUME NEW q, Queue(q), q # <<>>
    PROVE  /\ Head(q) = q[1] /\ Head(q) \in Functors
           /\ Queue(Tail(q))
           /\ ~Waiting(Tail(q))
<1>1. q \in Seq(Functors)
    BY DEF Queue
<1>2. /\ Tail(q) \in Seq(Functors) /\ Len(Tail(q)) = Len(q) - 1 /\ Len(q) \in Nat /\ Len(q) > 0
      /\ \A i \in 1 .. Len(Tail(q)) : Tail(q)[i] = q[i + 1]
    BY <1>1, HeadTailProperties, SMTT(60)
<1>3. \A i \in 1 .. Len(Tail(q)) : Tail(q)[i].op # "connectEstablished"
    BY <1>2, SMTT(60) DEF Queue
<1> QED
    BY <1>1, <1>2, <1>3, SMTT(60) DEF Queue, Waiting

\* The form in which TypeOK speaks of connectEstablished.
LEMMA WaitingIsQueued ==
    ASSUME NEW q, Queue(q)
    PROVE  Waiting(q) <=> \E i \in DOMAIN q : q[i].op = "connectEstablished"
<1>1. q \in Seq(Functors) /\ Len(q) \in Nat /\ DOMAIN q = 1..Len(q)
    BY SMTT(60) DEF Queue
<1> QED
    BY <1>1, SMTT(60) DEF Queue, Waiting

\* Functors made by Op carry no bytes.
LEMMA OpIsFunctor == \A op \in Names : Op(op) \in Functors /\ Op(op).op = op
    BY SMTT(60) DEF Op, Functors

\* The bytes of a message are bytes.
LEMMA MessageIsBytes ==
    ASSUME NEW n \in 1..MaxCalls, NEW len \in Nat
    PROVE  Message(n, len) \in Seq(Bytes) /\ Len(Message(n, len)) = len
<1>1. \A i \in 1..len : <<n, i>> \in Bytes
    BY SMTT(60) DEF Bytes
<1> QED
    BY <1>1, SMTT(60) DEF Message
-----------------------------------------------------------------------------
\* What a step has to keep is kept by one that neither writes nor buffers a byte and
\* leaves the interest in write events alone, unless it closes the connection.
LEMMA QuietOutput ==
    ASSUME OInv, UNCHANGED <<output, wire, accepted, fin>>,
           \/ closed' = closed /\ ("write" \in events' <=> "write" \in events)
           \/ closed'
    PROVE  Output'
BY DEF OInv, Output, StreamIntact, WritingIffOutput, FinLast, Typed

\* Channel::update keeps the interest set and the index in their types.
LEMMA UpdateTyped ==
    ASSUME NEW evs \in SUBSET {"read", "write"}, Update(evs)
    PROVE  events' \subseteq {"read", "write"} /\ index' \in {"kNew", "kAdded", "kDeleted"}
BY DEF Update

\* While connectEstablished waits, the connection is in no handler and in no call,
\* so a step of either finds it started, and keeps it so if it queues nothing or one
\* functor behind those there are.
LEMMA StartedQueue ==
    ASSUME OInv, state # "kConnecting", state' # "kConnecting",
           \/ UNCHANGED pending
           \/ \E f \in Functors : f.op # "connectEstablished" /\ pending' = Append(pending, f)
           \/ pending # <<>> /\ pending' = Tail(pending)
    PROVE  Starting'
<1>1. Queue(pending) /\ ~Waiting(pending)
    BY DEF OInv, Starting
<1>2. Queue(pending') /\ ~Waiting(pending')
    <2>1. CASE UNCHANGED pending
        BY <1>1, <2>1
    <2>2. ASSUME NEW f \in Functors, f.op # "connectEstablished", pending' = Append(pending, f)
          PROVE  Queue(pending') /\ ~Waiting(pending')
        BY <1>1, <2>2, AppendQueue
    <2>3. CASE pending # <<>> /\ pending' = Tail(pending)
        BY <1>1, <2>3, TailQueue
    <2> QED
        BY <2>1, <2>2, <2>3
<1> QED
    BY <1>2 DEF Starting

\* A functor other than connectEstablished finds the connection started.
LEMMA FunctorStarted ==
    ASSUME OInv, NEW op \in Names \ {"connectEstablished"}, RunFunctor(op)
    PROVE  /\ state # "kConnecting" /\ pending # <<>>
           /\ Head(pending) \in Functors /\ Head(pending).op = op
           /\ Queue(Tail(pending)) /\ ~Waiting(Tail(pending))
<1>1. Queue(pending) /\ pending # <<>> /\ Head(pending).op = op
    BY DEF OInv, Starting, RunFunctor
<1>2. /\ Head(pending) = pending[1] /\ Head(pending) \in Functors
      /\ Queue(Tail(pending)) /\ ~Waiting(Tail(pending))
    BY <1>1, TailQueue
<1> QED
    BY <1>1, <1>2 DEF OInv, Starting, Waiting

-----------------------------------------------------------------------------
\* What sendInLoop may do to the connection's output side: the types are kept, the
\* functor it queues is not connectEstablished, and the stream stays intact.
Sent ==
    /\ events' \subseteq {"read", "write"} /\ index' \in {"kNew", "kAdded", "kDeleted"}
    /\ output' \in Seq(Bytes) /\ wire' \in Seq(Bytes) /\ accepted' \in Seq(Bytes)
    /\ peer' \in {"open", "closed", "reset", "gone"}
    /\ Queue(pending') /\ ~Waiting(pending')
    /\ Output'

\* The bytes a write did not take go to the end of the output buffer, and write
\* events are asked for.
LEMMA BufferRestKeeps ==
    ASSUME Typed, NEW m \in Seq(Bytes), NEW k \in 0..Len(m), NEW q, Queue(q), ~Waiting(q),
           BufferRest(m, k, q)
    PROVE  /\ events' \subseteq {"read", "write"} /\ index' \in {"kNew", "kAdded", "kDeleted"}
           /\ Queue(pending') /\ ~Waiting(pending')
           /\ output' = output \o SubSeq(m, k + 1, Len(m))
           /\ output' \in Seq(Bytes) /\ output' # <<>>
           /\ "write" \in events'
<1> DEFINE rest == SubSeq(m, k + 1, Len(m))
<1>1. rest \in Seq(Bytes) /\ rest # <<>> /\ output \in Seq(Bytes) /\ output' = output \o rest
    BY CutInTwo DEF BufferRest, Typed
<1> HIDE DEF rest
<1>2. output' \in Seq(Bytes) /\ output' # <<>>
    BY <1>1, SMTT(60)
<1>3. events' \subseteq {"read", "write"} /\ index' \in {"kNew", "kAdded", "kDeleted"} /\ "write" \in events'
    BY DEF BufferRest, Enable, Update, Typed
<1>4. Queue(pending') /\ ~Waiting(pending')
    <2>1. Op("highWater") \in Functors /\ Op("highWater").op # "connectEstablished"
        BY OpIsFunctor DEF Names
    <2>2. pending' = q \/ pending' = Append(q, Op("highWater"))
        BY DEF BufferRest
    <2> QED
        <3>1. Queue(Append(q, Op("highWater"))) /\ ~Waiting(Append(q, Op("highWater")))
            BY <2>1, AppendQueue
        <3> QED
            BY <2>2, <3>1
<1> QED
    BY <1>1, <1>2, <1>3, <1>4 DEF rest

\* sendInLoop: what the socket does not take goes behind what waits, to be written.
LEMMA SendKeeps ==
    ASSUME OInv, NEW m \in Seq(Bytes), NEW q, Queue(q), ~Waiting(q),
           SendInLoop(m, q), UNCHANGED closed
    PROVE  Sent
<1> USE DEF OInv
<1>1. Typed
    OBVIOUS
<1>2. CASE UNCHANGED <<events, index, output, wire, accepted>> /\ pending' = q
    <2>1. peer' \in {"open", "closed", "reset", "gone"}
        BY DEF SendInLoop, Typed
    <2>2. UNCHANGED fin
        BY DEF SendInLoop
    <2>3. Output'
        BY <1>2, <2>2 DEF Output, StreamIntact, WritingIffOutput, FinLast
    <2> QED
        BY <1>1, <1>2, <2>1, <2>3 DEF Sent, Typed
<1>3. ASSUME Direct, ~Broken, accepted' = accepted \o m, UNCHANGED peer,
             NEW k \in 0..Len(m), wire' = wire \o SubSeq(m, 1, k),
             \/ /\ k = Len(m)
                /\ pending' = Append(q, Op("writeComplete"))
                /\ UNCHANGED <<output, events, index>>
             \/ BufferRest(m, k, q)
      PROVE  Sent
    <2> DEFINE a == SubSeq(m, 1, k)
               b == SubSeq(m, k + 1, Len(m))
    <2>1. a \in Seq(Bytes) /\ b \in Seq(Bytes) /\ a \o b = m /\ Len(b) = Len(m) - k
        BY CutInTwo
    <2>2. output = <<>> /\ "write" \notin events /\ ~fin /\ fin' = fin
        BY <1>3 DEF Direct, Broken, SendInLoop
    <2>3. wire \in Seq(Bytes) /\ accepted \in Seq(Bytes) /\ wire = accepted
        BY <2>2, ConcatEmptySeq DEF Typed, Output, StreamIntact
    <2>4. wire' = wire \o a
        BY <1>3
    <2> HIDE DEF a, b
    <2>5. wire' \in Seq(Bytes) /\ accepted' \in Seq(Bytes)
        BY <1>3, <2>1, <2>3, <2>4, SMTT(60)
    <2>6. wire' \o b = accepted'
        <3>1. (wire \o a) \o b = wire \o (a \o b)
            <4>1. wire \in Seq(Bytes) /\ a \in Seq(Bytes) /\ b \in Seq(Bytes)
                BY <2>1, <2>3
            <4> QED
                BY <4>1, Regroup, SMTT(60)
        <3>2. wire' \o b = wire \o m
            BY <2>1, <2>4, <3>1
        <3> QED
            BY <1>3, <2>3, <3>2
    <2>7. CASE BufferRest(m, k, q)
        <3>1. /\ events' \subseteq {"read", "write"} /\ index' \in {"kNew", "kAdded", "kDeleted"}
              /\ Queue(pending') /\ ~Waiting(pending')
              /\ output' = output \o b
              /\ output' # <<>>
              /\ "write" \in events'
            BY <1>1, <2>7, BufferRestKeeps DEF b
        <3>2. output' = b
            BY <2>1, <2>2, <3>1, ConcatEmptySeq
        <3>3. Output'
            BY <2>2, <2>6, <3>1, <3>2 DEF Output, StreamIntact, WritingIffOutput, FinLast
        <3> QED
            BY <1>3, <2>1, <2>5, <3>1, <3>2, <3>3 DEF Sent, Typed
    <2>8. CASE k = Len(m) /\ pending' = Append(q, Op("writeComplete"))
               /\ UNCHANGED <<output, events, index>>
        <3>1. b = <<>>
            BY <2>1, <2>8, SMTT(60)
        <3>2. wire' \o output' = accepted'
            BY <2>2, <2>6, <2>8, <3>1
        <3>3. Output'
            BY <2>2, <2>8, <3>2 DEF Output, StreamIntact, WritingIffOutput, FinLast
        <3>4. Op("writeComplete") \in Functors /\ Op("writeComplete").op # "connectEstablished"
            BY OpIsFunctor DEF Names
        <3>5. Queue(pending') /\ ~Waiting(pending')
            BY <2>8, <3>4, AppendQueue
        <3> QED
            BY <1>3, <2>5, <2>8, <3>3, <3>5 DEF Sent, Typed
    <2> QED
        BY <1>3, <2>7, <2>8
<1>4. CASE ~Direct /\ BufferRest(m, 0, q) /\ accepted' = accepted \o m /\ UNCHANGED <<wire, peer>>
    <2>1. /\ wire \in Seq(Bytes) /\ output \in Seq(Bytes) /\ accepted \in Seq(Bytes)
          /\ wire \o output = accepted
        BY DEF Typed, Output, StreamIntact
    <2>2. SubSeq(m, 0 + 1, Len(m)) = m
        BY SubSeqFull, SMTT(60)
    <2> DEFINE c == SubSeq(m, 0 + 1, Len(m))
    <2>3. /\ events' \subseteq {"read", "write"} /\ index' \in {"kNew", "kAdded", "kDeleted"}
          /\ Queue(pending') /\ ~Waiting(pending')
          /\ output' = output \o m
          /\ output' \in Seq(Bytes) /\ output' # <<>>
          /\ "write" \in events'
        <3>1. 0 \in 0..Len(m)
            BY SMTT(60)
        <3>2. /\ events' \subseteq {"read", "write"} /\ index' \in {"kNew", "kAdded", "kDeleted"}
              /\ Queue(pending') /\ ~Waiting(pending')
              /\ output' = output \o c
              /\ output' \in Seq(Bytes) /\ output' # <<>>
              /\ "write" \in events'
            BY <1>1, <1>4, <3>1, BufferRestKeeps
        <3> QED
            BY <2>2, <3>2
    <2>4. wire' \o output' = accepted'
        <3>1. (wire \o output) \o m = wire \o (output \o m)
            <4>1. wire \in Seq(Bytes) /\ output \in Seq(Bytes)
                BY <2>1
            <4> QED
                BY <4>1, Regroup, SMTT(60)
        <3> QED
            BY <1>4, <2>1, <2>3, <3>1
    <2>5. fin' = fin /\ (~closed => ~fin)
        BY <1>4 DEF SendInLoop, Direct, Output, WritingIffOutput, FinLast
    <2>6. Output'
        BY <2>3, <2>4, <2>5 DEF Output, StreamIntact, WritingIffOutput, FinLast
    <2>7. accepted' \in Seq(Bytes)
        BY <1>4, <2>1, SMTT(60)
    <2> QED
        BY <1>4, <2>1, <2>3, <2>6, <2>7 DEF Sent, Typed
<1> QED
    BY <1>2, <1>3, <1>4 DEF SendInLoop

-----------------------------------------------------------------------------
\* handleWrite: a write takes the first k bytes of the output buffer; with the last
\* of them the interest in write events goes, and only then may the write side be
\* shut down.
LEMMA WriteKeeps ==
    ASSUME OInv, HandleWrite
    PROVE  OInv'
<1> USE DEF OInv
<1>1. state # "kConnecting" /\ state' # "kConnecting" /\ UNCHANGED closed
    BY DEF HandleWrite, Step, Starting, Untouched, owner
<1>2. todo' \in Seq(Todo)
    BY HeadTailProperties DEF HandleWrite, Step, Typed
<1> DEFINE rest == <<state, reading, accepted, inbox, inputs, server, removing, closed, destroyed,
                     timer, tpc, calls>>
<1>0. UNCHANGED rest
    BY DEF HandleWrite, Step, owner
<1>3. CASE UNCHANGED <<events, index, output, wire, fin, pending>>
    <2>1. peer' \in {"open", "closed", "reset", "gone"}
        <3>1. peer' = peer \/ peer' = "gone"
            BY DEF HandleWrite
        <3>2. peer \in {"open", "closed", "reset", "gone"}
            BY DEF Typed
        <3> QED
            BY <3>1, <3>2
    <2>2. Typed'
        BY <1>0, <1>2, <1>3, <2>1 DEF Typed
    <2>3. Output'
        BY <1>1, <1>3, QuietOutput DEF HandleWrite
    <2> QED
        BY <1>1, <1>3, <2>2, <2>3, StartedQueue
<1>4. ASSUME "write" \in events, ~Broken, NEW k \in 1..Len(output),
             wire' = wire \o SubSeq(output, 1, k),
             output' = SubSeq(output, k + 1, Len(output)), UNCHANGED peer,
             \/ /\ k = Len(output)
                /\ Disable("write")
                /\ pending' = Append(pending, Op("writeComplete"))
                /\ FinishShutdown(events')
             \/ /\ k < Len(output)
                /\ UNCHANGED <<events, index, pending, fin>>
      PROVE  OInv'
    <2> DEFINE a == SubSeq(output, 1, k)
               b == SubSeq(output, k + 1, Len(output))
    <2>1. output \in Seq(Bytes) /\ wire \in Seq(Bytes) /\ wire \o output = accepted /\ ~fin
        BY <1>4 DEF Typed, Output, StreamIntact, Broken
    <2>2. k \in 0..Len(output) /\ Len(output) \in Nat
        BY <2>1, SMTT(60)
    <2>3. a \in Seq(Bytes) /\ b \in Seq(Bytes) /\ a \o b = output /\ Len(b) = Len(output) - k
        BY <2>1, <2>2, CutInTwo
    <2>4. wire' = wire \o a /\ output' = b
        BY <1>4
    <2> HIDE DEF a, b
    <2>5. wire' \in Seq(Bytes) /\ output' \in Seq(Bytes)
        BY <2>1, <2>3, <2>4, SMTT(60)
    <2>6. wire' \o output' = accepted'
        <3>1. (wire \o a) \o b = wire \o (a \o b)
            <4>1. wire \in Seq(Bytes) /\ a \in Seq(Bytes) /\ b \in Seq(Bytes)
                BY <2>1, <2>3
            <4> QED
                BY <4>1, Regroup, SMTT(60)
        <3>2. wire' \o output' = wire \o output
            BY <2>3, <2>4, <3>1
        <3>3. accepted' = accepted
            BY DEF HandleWrite
        <3> QED
            BY <2>1, <3>2, <3>3
    <2>7. CASE k = Len(output) /\ Disable("write") /\ FinishShutdown(events')
               /\ pending' = Append(pending, Op("writeComplete"))
        <3>1. output' = <<>>
            BY <2>2, <2>3, <2>4, <2>7, SMTT(60)
        <3>2. /\ events' = events \ {"write"}
              /\ events' \subseteq {"read", "write"} /\ index' \in {"kNew", "kAdded", "kDeleted"}
            BY <2>7 DEF Disable, Update, Typed
        <3>3. fin' \in BOOLEAN
            <4>1. fin' = fin \/ fin' = (fin \/ "write" \notin events')
                BY <2>7 DEF FinishShutdown, ShutdownInLoop
            <4>2. fin \in BOOLEAN
                BY DEF Typed
            <4> QED
                BY <4>1, <4>2
        <3>4. Typed'
            BY <1>0, <1>2, <1>4, <2>5, <3>2, <3>3 DEF Typed
        <3>5. Output'
            BY <2>6, <3>1, <3>2 DEF Output, StreamIntact, WritingIffOutput, FinLast
        <3>6. Op("writeComplete") \in Functors /\ Op("writeComplete").op # "connectEstablished"
            BY OpIsFunctor DEF Names
        <3> QED
            BY <1>1, <2>7, <3>4, <3>5, <3>6, StartedQueue
    <2>8. CASE k < Len(output) /\ UNCHANGED <<events, index, pending, fin>>
        <3>1. output' # <<>> /\ output # <<>>
            BY <2>1, <2>2, <2>3, <2>4, <2>8, SMTT(60)
        <3>2. Typed'
            BY <1>0, <1>2, <1>4, <2>5, <2>8 DEF Typed
        <3>3. Output'
            <4>1. "write" \in events' /\ ~fin'
                BY <1>4, <2>1, <2>8
            <4> QED
                BY <2>6, <3>1, <4>1 DEF Output, StreamIntact, WritingIffOutput, FinLast
        <3> QED
            BY <1>1, <2>8, <3>2, <3>3, StartedQueue
    <2> QED
        BY <1>4, <2>7, <2>8
<1> QED
    BY <1>3, <1>4 DEF HandleWrite

\* handleClose closes the connection, after which nothing is promised of its output.
LEMMA CloseKeeps ==
    ASSUME OInv, NEW rest \in Seq(Todo), HandleClose(rest), state # "kConnecting"
    PROVE  /\ state' = "kDisconnected" /\ closed' /\ UNCHANGED <<reading, output>>
           /\ events' \subseteq {"read", "write"} /\ index' \in {"kNew", "kAdded", "kDeleted"}
           /\ todo' \in Seq(Todo)
<1>1. events' \subseteq {"read", "write"} /\ index' \in {"kNew", "kAdded", "kDeleted"}
    BY DEF HandleClose, Update
<1>2. <<"user", "closeCallback">> \in Seq(Todo)
    BY SMTT(60) DEF Todo
<1>3. todo' \in Seq(Todo)
    BY <1>2, ConcatProperties DEF HandleClose
<1> QED
    BY <1>1, <1>3 DEF HandleClose

\* The server and the peer act at any time, connectEstablished waiting or not.
LEMMA AsideQueue ==
    ASSUME OInv, UNCHANGED <<state, index, todo, timer, tpc>>,
           \/ UNCHANGED pending
           \/ \E f \in Functors : f.op # "connectEstablished" /\ pending' = Append(pending, f)
    PROVE  Starting'
<1>1. Queue(pending)
    BY DEF OInv, Starting
<1>2. Queue(pending') /\ (Waiting(pending') <=> Waiting(pending))
    <2>1. CASE UNCHANGED pending
        BY <1>1, <2>1
    <2>2. ASSUME NEW f \in Functors, f.op # "connectEstablished", pending' = Append(pending, f)
          PROVE  Queue(pending') /\ (Waiting(pending') <=> Waiting(pending))
        BY <1>1, <2>2, AppendQueue
    <2> QED
        BY <2>1, <2>2
<1> QED
    BY <1>2 DEF OInv, Starting, Untouched

-----------------------------------------------------------------------------
(* User code in the loop thread.                                           *)

\* send: a message of a user, taken, dropped or buffered by sendInLoop.
LEMMA OwnerSendKeeps ==
    ASSUME OInv, OwnerSend
    PROVE  OInv'
<1> USE DEF OInv
<1>1. state = "kConnected" /\ UNCHANGED <<state, closed, tpc, timer, owner>>
    BY DEF OwnerSend, OwnerCall, owner, SendInLoop
<1>2. calls \in Nat /\ calls' = calls + 1 /\ calls' \in 1..MaxCalls
    BY ConnectionAssumption, SMTT(60) DEF OwnerSend, OwnerCall, Typed
<1>3. PICK len \in Lengths : SendInLoop(Message(calls + 1, len), pending)
    BY DEF OwnerSend
<1>4. Message(calls + 1, len) \in Seq(Bytes)
    <2>1. len \in Nat /\ calls + 1 \in 1..MaxCalls
        BY <1>2, ConnectionAssumption
    <2> QED
        BY <2>1, MessageIsBytes
<1>5. Queue(pending) /\ ~Waiting(pending)
    BY <1>1 DEF Starting
<1>6. Sent
    BY <1>1, <1>3, <1>4, <1>5, SendKeeps
<1>7. UNCHANGED <<reading, fin, inbox, inputs, todo>>
    BY <1>3 DEF SendInLoop
<1>8. Typed'
    BY <1>1, <1>2, <1>6, <1>7, SMTT(60) DEF Sent, Typed, owner
<1> QED
    BY <1>1, <1>6, <1>8 DEF Sent, Starting

\* shutdown in the loop thread sends the FIN only if nothing waits.
LEMMA OwnerShutdownKeeps ==
    ASSUME OInv, OwnerShutdown
    PROVE  OInv'
<1> USE DEF OInv
<1>1. state = "kConnected" /\ state' = "kDisconnecting"
    BY DEF OwnerShutdown
<1>2. fin' \in BOOLEAN /\ (fin' => fin \/ "write" \notin events)
    BY DEF OwnerShutdown, ShutdownInLoop, Typed
<1>3. calls' \in 0..MaxCalls
    BY ConnectionAssumption, SMTT(60) DEF OwnerShutdown, OwnerCall, Typed
<1>4. Typed'
    BY <1>1, <1>2, <1>3 DEF OwnerShutdown, OwnerCall, Typed, owner, StateE
<1>5. Output'
    BY <1>2 DEF OwnerShutdown, OwnerCall, owner, Output, StreamIntact, WritingIffOutput, FinLast
<1>6. Starting'
    BY <1>1, StartedQueue DEF OwnerShutdown
<1> QED
    BY <1>4, <1>5, <1>6

\* startRead and stopRead do not touch the interest in write events.
LEMMA ReadKeeps ==
    ASSUME Typed, NEW q, StartReadInLoop(q) \/ StopReadInLoop(q)
    PROVE  /\ events' \subseteq {"read", "write"} /\ index' \in {"kNew", "kAdded", "kDeleted"}
           /\ reading' \in BOOLEAN
           /\ "write" \in events' <=> "write" \in events
           /\ pending' = q /\ UNCHANGED <<state, output, socket, todo>>
<1>1. pending' = q /\ UNCHANGED <<state, output, socket, todo>>
    BY DEF StartReadInLoop, StopReadInLoop
<1>2. reading' \in BOOLEAN
    <2>1. reading' = TRUE \/ reading' = FALSE \/ reading' = reading
        BY DEF StartReadInLoop, StopReadInLoop
    <2>2. reading \in BOOLEAN
        BY DEF Typed
    <2> QED
        BY <2>1, <2>2
<1>3. \/ UNCHANGED <<events, index>>
      \/ Update(events \cup {"read"})
      \/ Update(events \ {"read"})
    BY DEF StartReadInLoop, StopReadInLoop, Enable, Disable
<1>4. events \subseteq {"read", "write"} /\ index \in {"kNew", "kAdded", "kDeleted"}
    BY DEF Typed
<1>5. /\ events' \subseteq {"read", "write"} /\ index' \in {"kNew", "kAdded", "kDeleted"}
      /\ "write" \in events' <=> "write" \in events
    <2>1. CASE UNCHANGED <<events, index>>
        BY <1>4, <2>1
    <2>2. CASE Update(events \cup {"read"})
        BY <1>4, <2>2 DEF Update
    <2>3. CASE Update(events \ {"read"})
        BY <1>4, <2>3 DEF Update
    <2> QED
        BY <1>3, <2>1, <2>2, <2>3
<1> QED
    BY <1>1, <1>2, <1>5

\* The other calls in the loop thread leave the output alone.
LEMMA OwnerOtherKeeps ==
    ASSUME OInv, OwnerForceClose \/ OwnerForceCloseWithDelay \/ OwnerStartRead \/ OwnerStopRead
    PROVE  OInv'
<1> USE DEF OInv
<1>1. Op("forceClose") \in Functors /\ Op("forceClose").op # "connectEstablished"
    BY OpIsFunctor DEF Names
<1>2. calls' \in 0..MaxCalls /\ state # "kConnecting"
    BY ConnectionAssumption, SMTT(60) DEF OwnerForceClose, OwnerForceCloseWithDelay, OwnerStartRead, OwnerStopRead,
           OwnerCall, Typed, Known
<1>3. CASE OwnerForceClose
    <2>1. Typed'
        BY <1>2, <1>3 DEF OwnerForceClose, OwnerCall, Typed, owner, socket, StateE
    <2>2. Output'
        BY <1>3, QuietOutput DEF OwnerForceClose, OwnerCall, owner, socket
    <2>3. Starting'
        BY <1>1, <1>2, <1>3, StartedQueue DEF OwnerForceClose
    <2> QED
        BY <2>1, <2>2, <2>3
<1>4. CASE OwnerForceCloseWithDelay
    <2>1. Typed'
        BY <1>2, <1>4 DEF OwnerForceCloseWithDelay, OwnerCall, Typed, owner, socket, StateE
    <2>2. Output'
        BY <1>4, QuietOutput DEF OwnerForceCloseWithDelay, OwnerCall, owner, socket
    <2>3. Starting'
        BY <1>2, <1>4, StartedQueue DEF OwnerForceCloseWithDelay
    <2> QED
        BY <2>1, <2>2, <2>3
<1>5. CASE OwnerStartRead \/ OwnerStopRead
    <2>1. UNCHANGED <<timer, tpc, owner>> /\ (StartReadInLoop(pending) \/ StopReadInLoop(pending))
        BY <1>5 DEF OwnerStartRead, OwnerStopRead, OwnerCall
    <2>2. /\ events' \subseteq {"read", "write"} /\ index' \in {"kNew", "kAdded", "kDeleted"}
          /\ reading' \in BOOLEAN
          /\ "write" \in events' <=> "write" \in events
          /\ pending' = pending /\ UNCHANGED <<state, output, socket, todo>>
        BY <2>1, ReadKeeps
    <2>3. Typed'
        BY <1>2, <2>1, <2>2 DEF Typed, owner, socket
    <2>4. Output'
        BY <2>1, <2>2, QuietOutput DEF owner, socket
    <2>5. Starting'
        BY <1>2, <2>2, StartedQueue
    <2> QED
        BY <2>3, <2>4, <2>5
<1> QED
    BY <1>3, <1>4, <1>5

-----------------------------------------------------------------------------
(* Other threads.                                                          *)

\* A call begins in a connection whose callback has run.
LEMMA ThreadCallKeeps ==
    ASSUME OInv, NEW t \in Threads, ThreadCall(t)
    PROVE  OInv'
<1> USE DEF OInv
<1>1. state # "kConnecting" /\ UNCHANGED <<conn, socket, pending, todo, timer, owner>>
    BY DEF ThreadCall, Known
<1>2. calls' \in 0..MaxCalls /\ calls + 1 \in 1..MaxCalls
    BY ConnectionAssumption, SMTT(60) DEF ThreadCall, Typed
<1>3. tpc \in [Threads -> Calls]
    BY DEF Typed
<1> DEFINE IsCall(c) == c \in Calls /\ c.op \in Names \ {"connectEstablished"}
<1>4. PICK c : tpc' = [tpc EXCEPT ![t] = c] /\ IsCall(c)
    <2>1. \A len \in Lengths : IsCall([op |-> "send", step |-> 2, msg |-> Message(calls + 1, len)])
        <3>1. \A len \in Lengths : Message(calls + 1, len) \in Seq(Bytes)
            BY <1>2, ConnectionAssumption, MessageIsBytes
        <3> QED
            BY <3>1, SMTT(60) DEF Calls, Names
    <2>2. /\ IsCall([op |-> "shutdown", step |-> 1, msg |-> <<>>])
          /\ IsCall([op |-> "forceClose", step |-> 1, msg |-> <<>>])
          /\ \A op \in {"startRead", "stopRead"} : IsCall([op |-> op, step |-> 2, msg |-> <<>>])
        BY SMTT(60) DEF Calls, Names
    <2> HIDE DEF IsCall
    <2> QED
        BY <2>1, <2>2 DEF ThreadCall
<1>5. Typed'
    <2>1. tpc' \in [Threads -> Calls]
        BY <1>3, <1>4
    <2>2. \A u \in Threads : tpc'[u] # Idle => tpc'[u].op \in Names \ {"connectEstablished"}
        BY <1>3, <1>4 DEF Typed
    <2> QED
        BY <1>1, <1>2, <2>1, <2>2 DEF Typed, conn, socket, owner
<1>6. Output'
    BY <1>1, QuietOutput DEF conn, socket, owner
<1>7. Starting'
    BY <1>1, StartedQueue DEF conn
<1> QED
    BY <1>5, <1>6, <1>7

\* A thread that has looked at state_ writes it, whatever it has become since.
LEMMA ThreadSetStateKeeps ==
    ASSUME OInv, NEW t \in Threads, ThreadSetState(t)
    PROVE  OInv'
<1> USE DEF OInv
<1>1. tpc \in [Threads -> Calls] /\ tpc[t].step = 1 /\ tpc[t] # Idle
    BY SMTT(60) DEF ThreadSetState, Idle, Typed
<1>2. state # "kConnecting" /\ state' = "kDisconnecting"
    BY <1>1 DEF ThreadSetState, Starting, Untouched
<1>3. tpc' \in [Threads -> Calls]
    <2>1. [tpc[t] EXCEPT !.step = 2] \in Calls
        <3>1. tpc[t] \in [op : Names \cup {"none"}, step : 0..2, msg : Seq(Bytes)] /\ 2 \in 0..2
            BY <1>1, SMTT(60) DEF Calls
        <3> QED
            BY <3>1 DEF Calls
    <2>2. tpc' = [tpc EXCEPT ![t] = [tpc[t] EXCEPT !.step = 2]]
        BY DEF ThreadSetState
    <2> QED
        BY <1>1, <2>1, <2>2
<1>4. \A u \in Threads : tpc'[u] # Idle => tpc'[u].op \in Names \ {"connectEstablished"}
    <2>1. tpc'[t].op = tpc[t].op /\ \A u \in Threads : u # t => tpc'[u] = tpc[u]
        BY <1>1 DEF ThreadSetState, Calls
    <2> QED
        BY <1>1, <2>1 DEF Typed
<1>5. Typed'
    BY <1>2, <1>3, <1>4 DEF ThreadSetState, Typed, socket, owner, StateE
<1>6. Output'
    BY QuietOutput DEF ThreadSetState, socket, owner
<1>7. Starting'
    BY <1>2, StartedQueue DEF ThreadSetState
<1> QED
    BY <1>5, <1>6, <1>7

\* A call of another thread queues its functor.
LEMMA ThreadQueueKeeps ==
    ASSUME OInv, NEW t \in Threads, ThreadQueue(t)
    PROVE  OInv'
<1> USE DEF OInv
<1>1. tpc \in [Threads -> Calls] /\ tpc[t] # Idle /\ tpc[t].op \in Names \ {"connectEstablished"}
    BY SMTT(60) DEF ThreadQueue, Idle, Typed
<1>2. state # "kConnecting" /\ UNCHANGED <<conn, socket, todo, timer, owner, calls>>
    BY <1>1 DEF ThreadQueue, Starting, Untouched
<1> DEFINE f == [op |-> tpc[t].op, msg |-> tpc[t].msg]
<1>3. f \in Functors /\ f.op # "connectEstablished" /\ pending' = Append(pending, f)
    <2>1. tpc[t] \in Calls /\ pending' = Append(pending, f)
        BY <1>1 DEF ThreadQueue
    <2>2. f.op = tpc[t].op /\ f.msg = tpc[t].msg /\ tpc[t].msg \in Seq(Bytes)
        BY <2>1 DEF Calls
    <2>3. f \in Functors
        BY <1>1, <2>2 DEF Functors
    <2> QED
        BY <1>1, <2>1, <2>2, <2>3
<1>4. Idle \in Calls
    BY SMTT(60) DEF Idle, Calls
<1>5. tpc' \in [Threads -> Calls] /\ \A u \in Threads : tpc'[u] # Idle => tpc'[u] = tpc[u]
    BY <1>1, <1>4 DEF ThreadQueue
<1>6. Typed'
    BY <1>2, <1>5 DEF Typed, conn, socket, owner
<1>7. Output'
    BY <1>2, QuietOutput DEF conn, socket, owner
<1> HIDE DEF f
<1>8. Starting'
    BY <1>2, <1>3, StartedQueue DEF conn
<1> QED
    BY <1>6, <1>7, <1>8

-----------------------------------------------------------------------------
(* Functors.                                                               *)

\* connectEstablished is the first to touch the connection.
LEMMA ConnectEstablishedKeeps ==
    ASSUME OInv, ConnectEstablished
    PROVE  OInv'
<1> USE DEF OInv
<1>1. Queue(pending) /\ pending # <<>>
    BY DEF ConnectEstablished, RunFunctor, Starting
<1>2. Queue(pending') /\ ~Waiting(pending') /\ state' = "kConnected"
    BY <1>1, TailQueue DEF ConnectEstablished
<1>3. events' \subseteq {"read", "write"} /\ index' \in {"kNew", "kAdded", "kDeleted"}
      /\ ("write" \in events' <=> "write" \in events)
    BY DEF ConnectEstablished, Enable, Update, Typed
<1>4. todo' \in Seq(Todo)
    BY SMTT(60) DEF ConnectEstablished, Todo
<1>5. Typed'
    BY <1>2, <1>3, <1>4 DEF ConnectEstablished, RunFunctor, Typed, socket, StateE
<1>6. Output'
    BY <1>3, QuietOutput DEF ConnectEstablished, RunFunctor, socket
<1> QED
    BY <1>2, <1>5, <1>6 DEF Starting

\* The functor of a send from another thread.
LEMMA FunctorSendKeeps ==
    ASSUME OInv, FunctorSend
    PROVE  OInv'
<1> USE DEF OInv
<1>1. RunFunctor("send")
    BY DEF FunctorSend
<1>2. /\ state # "kConnecting" /\ Head(pending) \in Functors
      /\ Queue(Tail(pending)) /\ ~Waiting(Tail(pending))
    BY <1>1, FunctorStarted DEF Names
<1>3. Head(pending).msg \in Seq(Bytes)
    BY <1>2 DEF Functors
<1>4. SendInLoop(Head(pending).msg, Tail(pending)) /\ UNCHANGED <<closed, destroyed>>
    BY DEF FunctorSend
<1>5. Sent
    BY <1>2, <1>3, <1>4, SendKeeps
<1>6. UNCHANGED <<state, reading, fin, inbox, inputs, todo>>
    BY <1>4 DEF SendInLoop
<1>7. Typed'
    BY <1>1, <1>4, <1>5, <1>6 DEF Sent, Typed, RunFunctor
<1> QED
    BY <1>2, <1>5, <1>6, <1>7 DEF Sent, Starting

\* shutdownInLoop, run for another thread.
LEMMA FunctorShutdownKeeps ==
    ASSUME OInv, FunctorShutdown
    PROVE  OInv'
<1> USE DEF OInv
<1>1. RunFunctor("shutdown")
    BY DEF FunctorShutdown
<1>2. state # "kConnecting" /\ Queue(Tail(pending)) /\ ~Waiting(Tail(pending))
    BY <1>1, FunctorStarted DEF Names
<1>3. fin' \in BOOLEAN /\ (fin' => fin \/ "write" \notin events)
    BY DEF FunctorShutdown, ShutdownInLoop, Typed
<1>4. Typed'
    BY <1>1, <1>3 DEF FunctorShutdown, RunFunctor, Typed, conn
<1>5. Output'
    BY <1>3 DEF FunctorShutdown, conn, Output, StreamIntact, WritingIffOutput, FinLast
<1> QED
    BY <1>2, <1>4, <1>5 DEF FunctorShutdown, Starting, conn

\* startReadInLoop and stopReadInLoop.
LEMMA FunctorReadKeeps ==
    ASSUME OInv, FunctorStartRead \/ FunctorStopRead
    PROVE  OInv'
<1> USE DEF OInv
<1>1. PICK op \in {"startRead", "stopRead"} : RunFunctor(op)
    BY DEF FunctorStartRead, FunctorStopRead
<1>2. state # "kConnecting" /\ Queue(Tail(pending)) /\ ~Waiting(Tail(pending))
    BY <1>1, FunctorStarted DEF Names
<1>3. /\ UNCHANGED <<closed, destroyed>>
      /\ StartReadInLoop(Tail(pending)) \/ StopReadInLoop(Tail(pending))
    BY DEF FunctorStartRead, FunctorStopRead
<1>4. /\ events' \subseteq {"read", "write"} /\ index' \in {"kNew", "kAdded", "kDeleted"}
      /\ reading' \in BOOLEAN
      /\ "write" \in events' <=> "write" \in events
      /\ pending' = Tail(pending) /\ UNCHANGED <<state, output, socket, todo>>
    BY <1>3, ReadKeeps
<1>5. Typed'
    BY <1>1, <1>3, <1>4 DEF RunFunctor, Typed, socket
<1>6. Output'
    BY <1>3, <1>4, QuietOutput DEF socket
<1> QED
    BY <1>2, <1>4, <1>5, <1>6 DEF Starting

\* forceCloseInLoop, if the connection is not closed yet.
LEMMA ForceCloseKeeps ==
    ASSUME OInv, ForceCloseInLoop
    PROVE  OInv'
<1> USE DEF OInv
<1>1. RunFunctor("forceClose")
    BY DEF ForceCloseInLoop
<1>2. state # "kConnecting" /\ Queue(pending') /\ ~Waiting(pending')
    BY <1>1, FunctorStarted DEF Names, ForceCloseInLoop
<1>3. CASE Closable /\ HandleClose(<<>>)
    <2>1. <<>> \in Seq(Todo)
        BY SMTT(60)
    <2>2. /\ state' = "kDisconnected" /\ closed' /\ UNCHANGED <<reading, output>>
          /\ events' \subseteq {"read", "write"} /\ index' \in {"kNew", "kAdded", "kDeleted"}
          /\ todo' \in Seq(Todo)
        BY <1>2, <1>3, <2>1, CloseKeeps
    <2>3. closed' \in BOOLEAN
        BY <1>3 DEF HandleClose
    <2>4. Typed'
        BY <1>1, <2>2, <2>3 DEF ForceCloseInLoop, RunFunctor, Typed, socket, StateE
    <2>5. Output'
        BY <2>2, QuietOutput DEF ForceCloseInLoop, socket
    <2> QED
        BY <1>2, <2>2, <2>4, <2>5 DEF Starting
<1>4. CASE UNCHANGED <<conn, todo, closed>>
    <2>1. Typed'
        BY <1>1, <1>4, SMTT(60) DEF ForceCloseInLoop, RunFunctor, Typed, socket, conn
    <2>2. Output'
        BY <1>4, QuietOutput DEF ForceCloseInLoop, socket, conn
    <2> QED
        BY <1>2, <1>4, <2>1, <2>2 DEF Starting, conn
<1> QED
    BY <1>3, <1>4 DEF ForceCloseInLoop

\* The functors that only call back, and those that come too late.
LEMMA FunctorOtherKeeps ==
    ASSUME OInv, FunctorTooLate \/ FunctorCallback
    PROVE  OInv'
<1> USE DEF OInv
<1>1. PICK op \in Names \ {"connectEstablished"} : RunFunctor(op)
    BY DEF FunctorTooLate, FunctorCallback, RawThis, Names
<1>2. state # "kConnecting" /\ Queue(Tail(pending)) /\ ~Waiting(Tail(pending))
    BY <1>1, FunctorStarted
<1>3. UNCHANGED <<conn, socket, closed, destroyed>> /\ pending' = Tail(pending)
    BY DEF FunctorTooLate, FunctorCallback
<1>4. todo' \in Seq(Todo)
    <2>1. <<"user">> \in Seq(Todo)
        BY SMTT(60) DEF Todo
    <2>2. todo \in Seq(Todo)
        BY DEF Typed
    <2> QED
        BY <2>1, <2>2 DEF FunctorTooLate, FunctorCallback
<1>5. Typed'
    BY <1>1, <1>3, <1>4 DEF RunFunctor, Typed, conn, socket
<1>6. Output'
    BY <1>3, QuietOutput DEF conn, socket
<1> QED
    BY <1>2, <1>3, <1>5, <1>6 DEF Starting, conn

\* connectDestroyed, whether or not the connection was closed before.
LEMMA ConnectDestroyedKeeps ==
    ASSUME OInv, ConnectDestroyed
    PROVE  OInv'
<1> USE DEF OInv
<1>1. RunFunctor("connectDestroyed")
    BY DEF ConnectDestroyed
<1>2. state # "kConnecting" /\ Queue(pending') /\ ~Waiting(pending')
    BY <1>1, FunctorStarted DEF Names, ConnectDestroyed
<1>3. closed' = TRUE /\ destroyed' \in Nat /\ state' \in StateE \ {"kConnecting"}
    BY <1>2, SMTT(60) DEF ConnectDestroyed, Typed, StateE
<1>4. events' \subseteq {"read", "write"} /\ index' \in {"kNew", "kAdded", "kDeleted"}
    <2>1. Update({}) \/ UNCHANGED <<events, index>>
        BY DEF ConnectDestroyed
    <2>2. events \subseteq {"read", "write"} /\ index \in {"kNew", "kAdded", "kDeleted"}
        BY DEF Typed
    <2>3. CASE Update({})
        BY <2>3 DEF Update
    <2>4. CASE UNCHANGED <<events, index>>
        BY <2>2, <2>4
    <2> QED
        BY <2>1, <2>3, <2>4
<1>5. todo' \in Seq(Todo)
    <2>1. <<"user", "remove">> \in Seq(Todo) /\ <<"remove">> \in Seq(Todo)
        BY SMTT(60) DEF Todo
    <2> QED
        BY <2>1 DEF ConnectDestroyed
<1>6. Typed'
    BY <1>1, <1>3, <1>4, <1>5 DEF ConnectDestroyed, RunFunctor, Typed, socket
<1>7. Output'
    BY <1>3, QuietOutput DEF ConnectDestroyed, socket
<1> QED
    BY <1>2, <1>3, <1>6, <1>7 DEF Starting

-----------------------------------------------------------------------------
(* Handlers, and the poll that starts them.                                *)

\* What a handler finds, and the rest of the stack it leaves.
LEMMA HandlerStarted ==
    ASSUME OInv, todo # <<>>
    PROVE  state # "kConnecting" /\ Tail(todo) \in Seq(Todo)
<1>1. todo \in Seq(Todo)
    BY DEF OInv, Typed
<1>2. Tail(todo) \in Seq(Todo)
    BY <1>1, SMTT(60)
<1> QED
    BY <1>2 DEF OInv, Starting, Untouched

\* Those that only take an element off the stack.
LEMMA ReturnKeeps ==
    ASSUME OInv, UserReturn \/ HandleEvent \/ CloseCallback \/ HandleError
    PROVE  OInv'
<1> USE DEF OInv
<1>1. todo # <<>> /\ todo' = Tail(todo) /\ UNCHANGED <<pending, timer, tpc, calls, conn, fin, wire, accepted>>
    BY DEF UserReturn, HandleEvent, CloseCallback, HandleError, Step, socket
<1>2. state # "kConnecting" /\ todo' \in Seq(Todo)
    BY <1>1, HandlerStarted
<1>3. peer' \in {"open", "closed", "reset", "gone"} /\ UNCHANGED <<inbox, inputs>>
    BY DEF UserReturn, HandleEvent, CloseCallback, HandleError, Typed, socket
<1>4. removing' \in Nat /\ UNCHANGED <<server, closed, destroyed>>
    BY SMTT(60) DEF UserReturn, HandleEvent, CloseCallback, HandleError, Typed, owner
<1>5. Typed'
    BY <1>1, <1>2, <1>3, <1>4 DEF Typed, conn
<1>6. Output'
    BY <1>1, <1>4, QuietOutput DEF conn
<1> QED
    BY <1>1, <1>2, <1>5, <1>6, StartedQueue DEF conn

\* The channel is removed: it asks for nothing.
LEMMA RemoveKeeps ==
    ASSUME OInv, RemoveChannel
    PROVE  OInv'
<1> USE DEF OInv
<1>1. state # "kConnecting" /\ todo' \in Seq(Todo)
    BY HandlerStarted DEF RemoveChannel, Step
<1>2. Typed'
    BY <1>1 DEF RemoveChannel, Step, Typed, socket, owner
<1>3. Output'
    BY QuietOutput DEF RemoveChannel, socket, owner
<1> QED
    BY <1>1, <1>2, <1>3, StartedQueue DEF RemoveChannel

\* handleClose in handleEvent, after a hangup or at the end of the input.
LEMMA HandleCloseKeeps ==
    ASSUME OInv, todo # <<>>, HandleClose(Tail(todo)),
           UNCHANGED <<pending, timer, tpc, calls, socket, server, removing, destroyed>>
    PROVE  OInv'
<1> USE DEF OInv
<1>1. state # "kConnecting" /\ Tail(todo) \in Seq(Todo)
    BY HandlerStarted
<1>2. /\ state' = "kDisconnected" /\ closed' /\ UNCHANGED <<reading, output>>
      /\ events' \subseteq {"read", "write"} /\ index' \in {"kNew", "kAdded", "kDeleted"}
      /\ todo' \in Seq(Todo)
    BY <1>1, CloseKeeps
<1>3. closed' \in BOOLEAN
    BY DEF HandleClose
<1>4. Typed'
    BY <1>2, <1>3 DEF Typed, socket, StateE
<1>5. Output'
    BY <1>2, QuietOutput DEF socket
<1> QED
    BY <1>1, <1>2, <1>4, <1>5, StartedQueue

\* handleRead takes input, or closes.
LEMMA HandleReadKeeps ==
    ASSUME OInv, HandleRead
    PROVE  OInv'
<1> USE DEF OInv
<1>1. todo # <<>> /\ UNCHANGED <<timer, tpc, calls, wire, accepted, fin, inputs, pending,
                                 server, removing, destroyed>>
    BY DEF HandleRead, Step
<1>2. state # "kConnecting" /\ Tail(todo) \in Seq(Todo)
    BY <1>1, HandlerStarted
<1>3. CASE HandleClose(Tail(todo)) /\ UNCHANGED <<peer, inbox>>
    BY <1>1, <1>3, HandleCloseKeeps DEF socket
<1>4. CASE /\ UNCHANGED <<conn, closed>>
           /\ inbox' \in {0, inbox} /\ peer' \in {"gone", peer}
           /\ todo' \in {Tail(todo), <<"user">> \o Tail(todo)}
    <2>1. todo' \in Seq(Todo)
        <3>1. <<"user">> \in Seq(Todo)
            BY SMTT(60) DEF Todo
        <3>2. <<"user">> \o Tail(todo) \in Seq(Todo)
            BY <1>2, <3>1, ConcatProperties
        <3> QED
            BY <1>2, <1>4, <3>2
    <2>2. inbox' \in 0..inputs /\ peer' \in {"open", "closed", "reset", "gone"}
        BY <1>4, SMTT(60) DEF Typed
    <2>3. Typed'
        BY <1>1, <1>4, <2>1, <2>2 DEF Typed, conn
    <2>4. Output'
        BY <1>1, <1>4, QuietOutput DEF conn
    <2> QED
        BY <1>1, <1>2, <1>4, <2>3, <2>4, StartedQueue DEF conn
<1> QED
    BY <1>3, <1>4 DEF HandleRead

\* poll reports events of a channel the kernel watches, so of one that was enabled.
LEMMA PollKeeps ==
    ASSUME OInv, NEW w \in BOOLEAN, Poll(w)
    PROVE  OInv'
<1> USE DEF OInv
<1>1. index = "kAdded" /\ UNCHANGED <<conn, socket, pending, timer, tpc, owner, calls>>
    BY DEF Poll
<1>2. state # "kConnecting"
    BY <1>1 DEF Starting, Untouched
<1>3. todo' \in Seq(Todo)
    <2>1. ASSUME NEW c, NEW x \in Todo
          PROVE  (IF c THEN <<x>> ELSE <<>>) \in Seq(Todo)
        BY SMTT(60)
    <2>2. "hup" \in Todo /\ "err" \in Todo /\ "in" \in Todo /\ "out" \in Todo
        BY DEF Todo
    <2>3. <<"dispatch">> \in Seq(Todo)
        BY SMTT(60) DEF Todo
    <2>4. \A a, b \in Seq(Todo) : a \o b \in Seq(Todo)
        BY ConcatProperties
    <2> QED
        BY <2>1, <2>2, <2>3, <2>4 DEF Poll
<1>4. Typed'
    BY <1>1, <1>3 DEF Typed, conn, socket, owner
<1>5. Output'
    BY <1>1, QuietOutput DEF conn, socket, owner
<1> QED
    BY <1>1, <1>2, <1>4, <1>5, StartedQueue DEF conn

-----------------------------------------------------------------------------
(* The timer of forceCloseWithDelay, the server and the peer.              *)

\* The timer of forceCloseWithDelay.
LEMMA DelayedKeeps ==
    ASSUME OInv, DelayedForceClose
    PROVE  OInv'
<1> USE DEF OInv
<1>1. /\ state # "kConnecting" /\ state' # "kConnecting" /\ state' \in StateE
      /\ UNCHANGED pending \/ pending' = Append(pending, Op("forceClose"))
    BY DEF DelayedForceClose, Starting, Untouched, Typed, StateE
<1>2. Op("forceClose") \in Functors /\ Op("forceClose").op # "connectEstablished"
    BY OpIsFunctor DEF Names
<1>3. Typed'
    <2>1. timer' \in BOOLEAN /\ UNCHANGED <<reading, events, index, output, socket, todo, tpc, owner, calls>>
        BY DEF DelayedForceClose
    <2> QED
        BY <1>1, <2>1 DEF Typed, socket, owner
<1>4. Output'
    BY QuietOutput DEF DelayedForceClose, socket, owner
<1>5. Starting'
    BY <1>1, <1>2, StartedQueue
<1> QED
    BY <1>3, <1>4, <1>5

\* The server removes the connection, or dies.
LEMMA ServerKeeps ==
    ASSUME OInv, RemoveConnectionInLoop \/ ServerDtor
    PROVE  OInv'
<1> USE DEF OInv
<1>1. /\ UNCHANGED <<conn, socket, todo, timer, tpc, closed, destroyed, calls>>
      /\ UNCHANGED pending \/ pending' = Append(pending, Op("connectDestroyed"))
    BY DEF RemoveConnectionInLoop, ServerDtor
<1>2. Op("connectDestroyed") \in Functors /\ Op("connectDestroyed").op # "connectEstablished"
    BY OpIsFunctor DEF Names
<1>3. server' \in {"holds", "removed", "dead"} /\ removing' \in Nat
    BY SMTT(60) DEF RemoveConnectionInLoop, ServerDtor, Typed
<1>4. Typed'
    BY <1>1, <1>3 DEF Typed, conn, socket
<1>5. Output'
    BY <1>1, QuietOutput DEF conn, socket
<1>6. Starting'
    BY <1>1, <1>2, AsideQueue DEF conn
<1> QED
    BY <1>4, <1>5, <1>6

\* The peer sends, closes or resets.
LEMMA PeerKeeps ==
    ASSUME OInv, PeerSend \/ PeerClose \/ PeerReset
    PROVE  OInv'
<1> USE DEF OInv
<1>1. UNCHANGED <<conn, wire, accepted, fin, pending, todo, timer, tpc, owner, calls>>
    BY DEF PeerSend, PeerClose, PeerReset
<1>2. /\ inputs' \in 0..MaxInput /\ inbox' \in 0..inputs'
      /\ peer' \in {"open", "closed", "reset", "gone"}
    BY ConnectionAssumption, SMTT(60) DEF PeerSend, PeerClose, PeerReset, Typed
<1>3. Typed'
    BY <1>1, <1>2 DEF Typed, conn, owner
<1>4. Output'
    BY <1>1, QuietOutput DEF conn, owner
<1>5. Starting'
    BY <1>1, AsideQueue DEF conn
<1> QED
    BY <1>3, <1>4, <1>5

-----------------------------------------------------------------------------
\* A connection starts untouched, with connectEstablished queued.
LEMMA InitOInv == Init => OInv
<1> SUFFICES ASSUME Init PROVE OInv
    OBVIOUS
<1>1. Typed
    <2>1. Idle \in Calls
        BY SMTT(60) DEF Idle, Calls
    <2>2. tpc \in [Threads -> Calls] /\ \A t \in Threads : tpc[t] = Idle
        BY <2>1 DEF Init
    <2>3. <<>> \in Seq(Bytes) /\ <<>> \in Seq(Todo)
        BY SMTT(60)
    <2>4. 0 \in 0..MaxInput /\ 0 \in 0..MaxCalls /\ 0 \in 0..0 /\ 0 \in Nat
        BY ConnectionAssumption, SMTT(60)
    <2>5. /\ state \in StateE /\ reading \in BOOLEAN /\ fin \in BOOLEAN
          /\ index \in {"kNew", "kAdded", "kDeleted"} /\ events \subseteq {"read", "write"}
          /\ peer \in {"open", "closed", "reset", "gone"} /\ timer \in BOOLEAN
          /\ server \in {"holds", "removed", "dead"} /\ closed \in BOOLEAN
        BY DEF Init, StateE
    <2>6. /\ output = <<>> /\ wire = <<>> /\ accepted = <<>> /\ todo = <<>>
          /\ inputs = 0 /\ inbox = 0 /\ removing = 0 /\ destroyed = 0 /\ calls = 0
        BY DEF Init
    <2> QED
        BY <2>2, <2>3, <2>4, <2>5, <2>6 DEF Typed
<1>2. pending = <<Op("connectEstablished")>> /\ Op("connectEstablished") \in Functors
      /\ Op("connectEstablished").op = "connectEstablished"
    BY OpIsFunctor DEF Init, Names
<1>3. Queue(pending) /\ Waiting(pending)
    BY <1>2, SMTT(60) DEF Queue, Waiting
<1>4. Starting
    BY <1>3 DEF Init, Starting, Untouched
<1>5. Output
    BY SMTT(60) DEF Init, Output, StreamIntact, WritingIffOutput, FinLast
<1> QED
    BY <1>1, <1>4, <1>5 DEF OInv

\* Every handler, functor, call and event keeps the invariant.
LEMMA NextOInv == OInv /\ [Next]_vars => OInv'
<1> SUFFICES ASSUME OInv, [Next]_vars PROVE OInv'
    OBVIOUS
<1>1. CASE OwnerStep
    BY <1>1, OwnerSendKeeps, OwnerShutdownKeeps, OwnerOtherKeeps DEF OwnerStep
<1>2. ASSUME NEW t \in Threads, ThreadCall(t) \/ ThreadSetState(t) \/ ThreadQueue(t)
      PROVE  OInv'
    BY <1>2, ThreadCallKeeps, ThreadSetStateKeeps, ThreadQueueKeeps
<1>3. CASE Functor
    BY <1>3, ConnectEstablishedKeeps, FunctorSendKeeps, FunctorShutdownKeeps, FunctorReadKeeps,
       ForceCloseKeeps, FunctorOtherKeeps, ConnectDestroyedKeeps DEF Functor
<1>4. CASE Handler
    <2>1. CASE HandleHup
        BY <2>1, HandleCloseKeeps DEF HandleHup, Step
    <2> QED
        BY <1>4, <2>1, ReturnKeeps, RemoveKeeps, HandleReadKeeps, WriteKeeps DEF Handler
<1>5. ASSUME NEW w \in BOOLEAN, Poll(w)
      PROVE  OInv'
    BY <1>5, PollKeeps
<1>6. CASE DelayedForceClose \/ RemoveConnectionInLoop \/ ServerDtor \/ PeerSend \/ PeerClose \/ PeerReset
    BY <1>6, DelayedKeeps, ServerKeeps, PeerKeeps
<1>7. CASE UNCHANGED vars
    <2>1. UNCHANGED <<conn, wire, accepted, fin, peer, inbox, inputs, pending, todo, timer, tpc, owner, calls>>
        BY <1>7 DEF vars, socket
    <2>2. Typed'
        BY <2>1 DEF OInv, Typed, conn, owner
    <2>3. Output'
        BY <2>1, QuietOutput DEF conn, owner
    <2>4. Starting'
        BY <2>1, AsideQueue DEF conn
    <2> QED
        BY <2>2, <2>3, <2>4 DEF OInv
<1> QED
    BY <1>1, <1>2, <1>3, <1>4, <1>5, <1>6, <1>7 DEF Next

\* What sendInLoop has taken is what the kernel has got followed by what waits in the
\* output buffer; write events are asked for exactly while bytes wait; and the FIN is
\* behind the last byte: for every number of threads and messages, every length,
\* every pattern of partial writes, errors and calls.
THEOREM OutputStaysSound == Spec => []OutputSound
<1>1. OInv => OutputSound
    <2> SUFFICES ASSUME OInv PROVE OutputSound
        OBVIOUS
    <2>1. state = "kConnecting" <=> \E i \in DOMAIN pending : pending[i].op = "connectEstablished"
        BY WaitingIsQueued DEF OInv, Starting
    <2>2. inbox \in 0..MaxInput
        BY ConnectionAssumption, SMTT(60) DEF OInv, Typed
    <2>3. TypeOK
        BY <2>1, <2>2 DEF OInv, Typed, TypeOK, Todo
    <2> QED
        BY <2>3 DEF OInv, Output, OutputSound
<1> QED
    BY <1>1, InitOInv, NextOInv, PTL DEF Spec

-----------------------------------------------------------------------------
(***************************************************************************)
(* Closing.  connectDestroyed runs once, and finds a channel that asks for *)
(* nothing, as long as state_ is written by the loop thread alone (other   *)
(* threads only send), nobody starts reading again, and the server stays.  *)
(* Then a connection passes through the stages below, each of which knows  *)
(* where the one report of the close is.                                   *)
(***************************************************************************)
Disciplined ==
    /\ ThreadOps \subseteq {"send"}
    /\ OwnerOps \cap {"startRead", "stopRead"} = {}
    /\ ServerMayDie = FALSE

\* How many times connectDestroyed waits in a queue, and that nothing in it writes
\* state_ or starts reading again.
NoneLeaves(q) == \A i \in 1..Len(q) : q[i].op # "connectDestroyed"
OneLeaves(q) ==
    \E i \in 1..Len(q) :
        /\ q[i].op = "connectDestroyed"
        /\ \A j \in 1..Len(q) : j # i => q[j].op # "connectDestroyed"
Barred == {"shutdown", "startRead", "stopRead"}
Tame(q) == \A i \in 1..Len(q) : q[i].op \notin Barred

\* What other threads do does not write state_.
OnlySend == \A t \in Threads : tpc[t] = Idle \/ (tpc[t].op = "send" /\ tpc[t].step = 2)

Events == {"user", "dispatch", "hup", "err", "in", "out"}
Harmless == {"err", "out"}

\* Behind the one event of a poll that may close the connection there is none that
\* closes it again.
ClosesOnce(s) ==
    \A i, j \in 1..Len(s) : i < j /\ s[i] \in {"hup", "in"} => s[j] \in Harmless

Open ==
    /\ ~closed
    /\ server = "holds" /\ removing = 0 /\ destroyed = 0 /\ NoneLeaves(pending)
    /\ todo \in Seq(Events) /\ ClosesOnce(todo)
    /\ state # "kDisconnected"
    /\ state # "kConnecting" => "read" \in events /\ index = "kAdded"

Closed == closed /\ state = "kDisconnected" /\ events = {}

Reports(s) == s # <<>> /\ Head(s) = "closeCallback" /\ Tail(s) \in Seq(Harmless)
Lull == Seq({"user", "err", "out"})

\* handleClose is about to call closeCallback_ ...
Reporting ==
    /\ Closed /\ index = "kDeleted"
    /\ server = "holds" /\ removing = 0 /\ destroyed = 0 /\ NoneLeaves(pending)
    /\ todo # <<>>
    /\ Reports(todo) \/ (Head(todo) = "user" /\ Reports(Tail(todo)))

\* ... the server is about to remove the connection ...
Reported ==
    /\ Closed /\ index = "kDeleted"
    /\ server = "holds" /\ removing = 1 /\ destroyed = 0 /\ NoneLeaves(pending)
    /\ todo \in Lull

\* ... connectDestroyed is about to run ...
Removed ==
    /\ Closed /\ index = "kDeleted"
    /\ server = "removed" /\ removing = 0 /\ destroyed = 0 /\ OneLeaves(pending)
    /\ todo \in Lull

\* ... it is about to remove the channel ...
Leaving ==
    /\ Closed /\ index = "kDeleted"
    /\ server = "removed" /\ removing = 0 /\ destroyed = 1 /\ NoneLeaves(pending)
    /\ todo = <<"remove">>

\* ... and it has.
Gone ==
    /\ Closed /\ index = "kNew"
    /\ server = "removed" /\ removing = 0 /\ destroyed = 1 /\ NoneLeaves(pending)
    /\ todo \in Lull

CInv == OnlySend /\ Tame(pending) /\ (Open \/ Reporting \/ Reported \/ Removed \/ Leaving \/ Gone)

-----------------------------------------------------------------------------
\* A functor that is queued adds itself to those that wait, and nothing else.
LEMMA AppendLeaves ==
    ASSUME NEW q \in Seq(Functors), NEW f \in Functors
    PROVE  /\ Tame(q) /\ f.op \notin Barred => Tame(Append(q, f))
           /\ NoneLeaves(q) /\ f.op # "connectDestroyed" => NoneLeaves(Append(q, f))
           /\ OneLeaves(q) /\ f.op # "connectDestroyed" => OneLeaves(Append(q, f))
           /\ NoneLeaves(q) /\ f.op = "connectDestroyed" => OneLeaves(Append(q, f))
<1> DEFINE r == Append(q, f)
           n == Len(q)
<1>1. n \in Nat /\ Len(r) = n + 1 /\ r[n + 1] = f /\ \A i \in 1..n : r[i] = q[i]
    BY AppendProperties, SMTT(60)
<1> HIDE DEF r, n
<1>2. 1..n + 1 = (1..n) \cup {n + 1} /\ n + 1 \notin 1..n
    BY <1>1, SMTT(60)
<1>3. Tame(q) /\ f.op \notin Barred => Tame(r)
    BY <1>1, <1>2 DEF Tame, n
<1>4. NoneLeaves(q) /\ f.op # "connectDestroyed" => NoneLeaves(r)
    BY <1>1, <1>2, SMTT(60) DEF NoneLeaves, n
<1>5. ASSUME OneLeaves(q), f.op # "connectDestroyed" PROVE OneLeaves(r)
    <2>1. PICK i \in 1..n : /\ q[i].op = "connectDestroyed"
                            /\ \A j \in 1..n : j # i => q[j].op # "connectDestroyed"
        BY <1>5 DEF OneLeaves, n
    <2>2. i \in 1..Len(r) /\ r[i].op = "connectDestroyed"
        BY <1>1, <1>2, <2>1
    <2>3. \A j \in 1..Len(r) : j # i => r[j].op # "connectDestroyed"
        BY <1>1, <1>2, <1>5, <2>1
    <2> QED
        BY <2>2, <2>3 DEF OneLeaves
<1>6. ASSUME NoneLeaves(q), f.op = "connectDestroyed" PROVE OneLeaves(r)
    <2>1. n + 1 \in 1..Len(r) /\ r[n + 1].op = "connectDestroyed"
        BY <1>1, <1>2, <1>6
    <2>2. \A j \in 1..Len(r) : j # n + 1 => r[j].op # "connectDestroyed"
        BY <1>1, <1>2, <1>6 DEF NoneLeaves, n
    <2> QED
        BY <2>1, <2>2 DEF OneLeaves
<1> QED
    BY <1>3, <1>4, <1>5, <1>6 DEF r

\* A functor that is taken from the queue takes itself away, and nothing else.
LEMMA TailLeaves ==
    ASSUME NEW q \in Seq(Functors), q # <<>>
    PROVE  /\ Tame(q) => Tame(Tail(q)) /\ Head(q).op \notin Barred
           /\ NoneLeaves(q) => NoneLeaves(Tail(q)) /\ Head(q).op # "connectDestroyed"
           /\ OneLeaves(q) /\ Head(q).op # "connectDestroyed" => OneLeaves(Tail(q))
           /\ OneLeaves(q) /\ Head(q).op = "connectDestroyed" => NoneLeaves(Tail(q))
<1> DEFINE r == Tail(q)
           n == Len(r)
<1>1. /\ n \in Nat /\ Len(q) = n + 1 /\ Head(q) = q[1]
      /\ \A i \in 1..n : r[i] = q[i + 1]
    BY HeadTailProperties, SMTT(60)
<1> HIDE DEF r, n
<1>2. 1 \in 1..Len(q) /\ \A i \in 1..n : i + 1 \in 1..Len(q) /\ i + 1 # 1
    BY <1>1, SMTT(60)
<1>3. Tame(q) => Tame(r) /\ Head(q).op \notin Barred
    BY <1>1, <1>2 DEF Tame, n
<1>4. NoneLeaves(q) => NoneLeaves(r) /\ Head(q).op # "connectDestroyed"
    BY <1>1, <1>2 DEF NoneLeaves, n
<1>5. ASSUME OneLeaves(q), Head(q).op # "connectDestroyed" PROVE OneLeaves(r)
    <2>1. PICK i \in 1..Len(q) : /\ q[i].op = "connectDestroyed"
                                 /\ \A j \in 1..Len(q) : j # i => q[j].op # "connectDestroyed"
        BY <1>5 DEF OneLeaves
    <2>2. i # 1
        BY <1>1, <1>5, <2>1
    <2>3. i - 1 \in 1..n /\ (i - 1) + 1 = i
        BY <1>1, <2>1, <2>2, SMTT(60)
    <2>4. r[i - 1].op = "connectDestroyed"
        BY <1>1, <2>1, <2>3
    <2>5. ASSUME NEW j \in 1..n, j # i - 1 PROVE r[j].op # "connectDestroyed"
        <3>1. j + 1 # i
            BY <2>5, <2>3, <1>1, SMTT(60)
        <3> QED
            BY <1>1, <1>2, <2>1, <3>1
    <2> QED
        BY <2>3, <2>4, <2>5 DEF OneLeaves, n
<1>6. ASSUME OneLeaves(q), Head(q).op = "connectDestroyed" PROVE NoneLeaves(r)
    <2>1. PICK i \in 1..Len(q) : /\ q[i].op = "connectDestroyed"
                                 /\ \A j \in 1..Len(q) : j # i => q[j].op # "connectDestroyed"
        BY <1>6 DEF OneLeaves
    <2>2. i = 1
        BY <1>1, <1>2, <1>6, <2>1
    <2>3. \A j \in 1..n : q[j + 1].op # "connectDestroyed"
        BY <1>2, <2>1, <2>2
    <2> QED
        BY <1>1, <2>3 DEF NoneLeaves, n
<1> QED
    BY <1>3, <1>4, <1>5, <1>6 DEF r

\* A step that does not concern leaving takes one other functor from the queue, or
\* queues one, or both.
Ordinary(f) == f \in Functors /\ f.op \notin Barred /\ f.op # "connectDestroyed"
Churn(q, r) ==
    \/ r = q
    \/ q # <<>> /\ Head(q).op # "connectDestroyed" /\ r = Tail(q)
    \/ \E f : Ordinary(f) /\ r = Append(q, f)
    \/ /\ q # <<>> /\ Head(q).op # "connectDestroyed"
       /\ \E f : Ordinary(f) /\ r = Append(Tail(q), f)

\* Functors that come and go leave the count of connectDestroyed as it is.
LEMMA ChurnLeaves ==
    ASSUME NEW q \in Seq(Functors), NEW r, Churn(q, r)
    PROVE  /\ Tame(q) => Tame(r)
           /\ NoneLeaves(q) => NoneLeaves(r)
           /\ OneLeaves(q) => OneLeaves(r)
<1>1. CASE r = q
    BY <1>1
<1>2. CASE q # <<>> /\ Head(q).op # "connectDestroyed" /\ r = Tail(q)
    BY <1>2, TailLeaves
<1>3. ASSUME NEW f, Ordinary(f), r = Append(q, f)
      PROVE  /\ Tame(q) => Tame(r)
             /\ NoneLeaves(q) => NoneLeaves(r)
             /\ OneLeaves(q) => OneLeaves(r)
    BY <1>3, AppendLeaves DEF Ordinary
<1>4. ASSUME q # <<>>, Head(q).op # "connectDestroyed", NEW f, Ordinary(f), r = Append(Tail(q), f)
      PROVE  /\ Tame(q) => Tame(r)
             /\ NoneLeaves(q) => NoneLeaves(r)
             /\ OneLeaves(q) => OneLeaves(r)
    <2>1. Tail(q) \in Seq(Functors)
        BY <1>4, SMTT(60)
    <2>2. /\ Tame(q) => Tame(Tail(q))
          /\ NoneLeaves(q) => NoneLeaves(Tail(q))
          /\ OneLeaves(q) => OneLeaves(Tail(q))
        BY <1>4, TailLeaves
    <2>3. /\ Tame(Tail(q)) => Tame(r)
          /\ NoneLeaves(Tail(q)) => NoneLeaves(r)
          /\ OneLeaves(Tail(q)) => OneLeaves(r)
        BY <1>4, <2>1, AppendLeaves DEF Ordinary
    <2> QED
        BY <2>2, <2>3
<1> QED
    BY <1>1, <1>2, <1>3, <1>4 DEF Churn

-----------------------------------------------------------------------------
(* The events of a poll.                                                   *)

\* An event in front of others that cannot close the connection a second time.
LEMMA EventsPush ==
    ASSUME NEW s \in Seq(Events), NEW x \in Events,
           (ClosesOnce(s) /\ x \notin {"hup", "in"}) \/ s \in Seq(Harmless)
    PROVE  <<x>> \o s \in Seq(Events) /\ ClosesOnce(<<x>> \o s)
<1> DEFINE r == <<x>> \o s
<1>1. r \in Seq(Events) /\ Len(r) = Len(s) + 1 /\ r[1] = x /\ \A i \in 2..Len(r) : r[i] = s[i - 1]
    <2>1. <<x>> \in Seq(Events) /\ Len(<<x>>) = 1 /\ <<x>>[1] = x /\ Len(s) \in Nat
        BY SMTT(60)
    <2>2. /\ r \in Seq(Events) /\ Len(r) = 1 + Len(s)
          /\ \A i \in 1..1 + Len(s) : r[i] = IF i <= 1 THEN <<x>>[i] ELSE s[i - 1]
        BY <2>1, ConcatProperties
    <2> QED
        BY <2>1, <2>2, SMTT(60)
<1> HIDE DEF r
<1>2. Len(s) \in Nat /\ \A i \in 2..Len(r) : i - 1 \in 1..Len(s)
    BY <1>1, SMTT(60)
<1>3. s \in Seq(Harmless) => \A i \in 1..Len(s) : s[i] \in Harmless
    BY SMTT(60)
<1>4. ASSUME NEW i \in 1..Len(r), NEW j \in 1..Len(r), i < j, r[i] \in {"hup", "in"}
      PROVE  r[j] \in Harmless
    <2>1. j \in 2..Len(r) /\ r[j] = s[j - 1] /\ j - 1 \in 1..Len(s)
        BY <1>1, <1>2, <1>4, SMTT(60)
    <2>2. CASE s \in Seq(Harmless)
        BY <1>3, <2>1, <2>2
    <2>3. CASE ClosesOnce(s) /\ x \notin {"hup", "in"}
        <3>1. i # 1
            BY <1>1, <1>4, <2>3
        <3>2. i \in 2..Len(r) /\ r[i] = s[i - 1] /\ i - 1 \in 1..Len(s) /\ i - 1 < j - 1
            BY <1>1, <1>2, <1>4, <3>1, SMTT(60)
        <3> QED
            BY <1>4, <2>1, <2>3, <3>2 DEF ClosesOnce
    <2> QED
        BY <2>2, <2>3
<1> QED
    BY <1>1, <1>4 DEF ClosesOnce, r

\* Once the event that may close has been handled only harmless ones remain.
LEMMA EventsPop ==
    ASSUME NEW s \in Seq(Events), s # <<>>, ClosesOnce(s)
    PROVE  /\ Tail(s) \in Seq(Events) /\ ClosesOnce(Tail(s))
           /\ Head(s) \in {"hup", "in"} => Tail(s) \in Seq(Harmless)
<1> DEFINE r == Tail(s)
<1>1. /\ r \in Seq(Events) /\ Len(r) = Len(s) - 1 /\ Len(s) \in Nat /\ Len(s) > 0 /\ Head(s) = s[1]
      /\ \A i \in 1..Len(r) : r[i] = s[i + 1]
    BY HeadTailProperties, SMTT(60)
<1> HIDE DEF r
<1>2. \A i \in 1..Len(r) : i + 1 \in 1..Len(s) /\ 1 < i + 1
    BY <1>1, SMTT(60)
<1>3. ClosesOnce(r)
    <2> SUFFICES ASSUME NEW i \in 1..Len(r), NEW j \in 1..Len(r), i < j, r[i] \in {"hup", "in"}
                 PROVE  r[j] \in Harmless
        BY DEF ClosesOnce
    <2>1. i + 1 \in 1..Len(s) /\ j + 1 \in 1..Len(s) /\ i + 1 < j + 1
        BY <1>1, <1>2, SMTT(60)
    <2> QED
        BY <1>1, <2>1 DEF ClosesOnce
<1>4. ASSUME Head(s) \in {"hup", "in"} PROVE r \in Seq(Harmless)
    <2>1. 1 \in 1..Len(s) /\ Len(s) \in Int /\ 2 \in Int
        BY <1>1, SMTT(60)
    <2>2. \A i \in 2..Len(s) : s[i] \in Harmless
        BY <1>1, <1>4, <2>1, SMTT(60) DEF ClosesOnce
    <2>3. SubSeq(s, 2, Len(s)) \in Seq(Harmless)
        BY <2>1, <2>2, SubSeqProperties
    <2>4. r = SubSeq(s, 2, Len(s))
        BY TailIsSubSeq DEF r
    <2> QED
        BY <2>3, <2>4
<1> QED
    BY <1>1, <1>3, <1>4 DEF r

\* A hangup is reported only if there is no input, so one poll does not report both.
LEMMA PollClosesOnce ==
    ASSUME NEW w \in BOOLEAN, Poll(w)
    PROVE  todo' \in Seq(Events) /\ ClosesOnce(todo')
<1> DEFINE in == "read" \in events /\ (inbox > 0 \/ peer # "open")
           hup == peer \in {"reset", "gone"} \/ (peer = "closed" /\ fin)
           out == "write" \in events /\ (w \/ peer \in {"reset", "gone"})
           h == IF hup /\ ~in THEN <<"hup">> ELSE <<>>
           e == IF peer = "reset" THEN <<"err">> ELSE <<>>
           i == IF in THEN <<"in">> ELSE <<>>
           o == IF out THEN <<"out">> ELSE <<>>
<1>1. todo' = <<"dispatch">> \o (((h \o e) \o i) \o o)
    BY DEF Poll
<1>2. /\ h = <<>> \/ h = <<"hup">>
      /\ e = <<>> \/ e = <<"err">>
      /\ i = <<>> \/ i = <<"in">>
      /\ o = <<>> \/ o = <<"out">>
      /\ h = <<>> \/ i = <<>>
    OBVIOUS
<1> HIDE DEF h, e, i, o
<1>3. /\ \A x \in Events : <<x>> \in Seq(Events)
      /\ <<>> \in Seq(Events) /\ <<>> \in Seq(Harmless)
      /\ "hup" \in Events /\ "err" \in Events /\ "in" \in Events /\ "out" \in Events /\ "dispatch" \in Events
    BY SMTT(60) DEF Events
<1>4. e \in Seq(Harmless) /\ o \in Seq(Harmless)
    <2>1. <<"err">> \in Seq(Harmless) /\ <<"out">> \in Seq(Harmless)
        BY SMTT(60) DEF Harmless
    <2> QED
        BY <1>2, <1>3, <2>1
<1>5. h \in Seq(Events) /\ e \in Seq(Events) /\ i \in Seq(Events) /\ o \in Seq(Events)
    BY <1>2, <1>3
<1>6. i \o o \in Seq(Events) /\ e \o (i \o o) \in Seq(Events)
    <2>1. i \o o \in Seq(Events)
        BY <1>5, ConcatProperties
    <2> QED
        BY <1>5, <2>1, ConcatProperties
<1> DEFINE r == h \o (e \o (i \o o))
<1>7. ((h \o e) \o i) \o o = r
    <2>1. h \o e \in Seq(Events)
        BY <1>5, ConcatProperties
    <2>2. ((h \o e) \o i) \o o = (h \o e) \o (i \o o)
        BY <1>5, <2>1, Regroup, SMTT(60)
    <2>3. (h \o e) \o (i \o o) = h \o (e \o (i \o o))
        BY <1>5, <1>6, Regroup, SMTT(60)
    <2> QED
        BY <2>2, <2>3
<1>8. r \in Seq(Events) /\ ClosesOnce(r)
    <2>1. \A s \in Seq(Events) : <<>> \o s = s
        BY ConcatEmptySeq
    <2>2. \A s \in Seq(Harmless) : s \in Seq(Events) => ClosesOnce(s)
        BY SMTT(60) DEF ClosesOnce
    <2>3. CASE i = <<>>
        <3>1. i \o o = o
            BY <1>5, <2>1, <2>3
        <3>2. e \o o \in Seq(Harmless)
            BY <1>4, ConcatProperties
        <3>3. e \o (i \o o) \in Seq(Harmless)
            BY <3>1, <3>2
        <3>4. CASE h = <<>>
            <4>1. r = e \o (i \o o)
                BY <1>6, <2>1, <3>4
            <4> QED
                BY <1>6, <2>2, <3>3, <4>1
        <3>5. CASE h = <<"hup">>
            BY <1>3, <1>6, <3>3, <3>5, EventsPush
        <3> QED
            BY <1>2, <3>4, <3>5
    <2>4. CASE i = <<"in">> /\ h = <<>>
        <3>1. ClosesOnce(i \o o)
            BY <1>3, <1>4, <1>5, <2>4, EventsPush
        <3>2. r = e \o (i \o o)
            BY <1>6, <2>1, <2>4
        <3>3. CASE e = <<>>
            <4>1. r = i \o o
                BY <1>6, <2>1, <3>2, <3>3
            <4> QED
                BY <1>6, <3>1, <4>1
        <3>4. CASE e = <<"err">>
            <4>1. "err" \notin {"hup", "in"}
                OBVIOUS
            <4>2. r = <<"err">> \o (i \o o)
                BY <3>2, <3>4
            <4> QED
                BY <1>3, <1>6, <3>1, <4>1, <4>2, EventsPush
        <3> QED
            BY <1>2, <3>3, <3>4
    <2> QED
        BY <1>2, <2>3, <2>4
<1>9. todo' = <<"dispatch">> \o r /\ "dispatch" \notin {"hup", "in"}
    BY <1>1, <1>7
<1> HIDE DEF r
<1> QED
    BY <1>3, <1>8, <1>9, EventsPush

-----------------------------------------------------------------------------
(* An open connection.                                                     *)

\* A step that neither closes the connection nor touches its server leaves it open
\* and in the poller.
LEMMA OpenStays ==
    ASSUME OInv, Tame(pending), Open, UNCHANGED owner, Churn(pending, pending'),
           todo' \in Seq(Events), ClosesOnce(todo'),
           state' \in {"kConnected", "kDisconnecting"}, "read" \in events', index' = "kAdded"
    PROVE  Tame(pending') /\ Open'
<1>1. pending \in Seq(Functors)
    BY DEF OInv, Starting, Queue
<1>2. Tame(pending') /\ NoneLeaves(pending')
    BY <1>1, ChurnLeaves DEF Open
<1> QED
    BY <1>2 DEF Open, owner

\* The channel of an open connection that has started is watched.
LEMMA OpenWatched ==
    ASSUME OInv, Open, state # "kConnecting"
    PROVE  /\ state \in {"kConnected", "kDisconnecting"} /\ "read" \in events /\ index = "kAdded"
           /\ todo \in Seq(Events) /\ ClosesOnce(todo)
BY DEF OInv, Typed, StateE, Open

\* Sending leaves an open connection open.
LEMMA OpenSends ==
    ASSUME OInv, Tame(pending), Open, UNCHANGED owner, state # "kConnecting",
           NEW m, NEW q, SendInLoop(m, q),
           q = pending \/ (pending # <<>> /\ Head(pending).op # "connectDestroyed" /\ q = Tail(pending))
    PROVE  Tame(pending') /\ Open'
<1>1. /\ state \in {"kConnected", "kDisconnecting"} /\ "read" \in events /\ index = "kAdded"
      /\ todo \in Seq(Events) /\ ClosesOnce(todo)
    BY OpenWatched
<1>2. UNCHANGED <<state, todo>>
    BY DEF SendInLoop
<1>3. UNCHANGED <<events, index>> \/ Enable("write")
    BY DEF SendInLoop, BufferRest
<1>4. "read" \in events' /\ index' = "kAdded"
    BY <1>1, <1>3 DEF Enable, Update
<1>5. pending' = q \/ pending' = Append(q, Op("writeComplete")) \/ pending' = Append(q, Op("highWater"))
    BY DEF SendInLoop, BufferRest
<1>6. Ordinary(Op("writeComplete")) /\ Ordinary(Op("highWater"))
    BY OpIsFunctor DEF Ordinary, Barred, Names
<1>7. Churn(pending, pending')
    BY <1>5, <1>6 DEF Churn
<1> QED
    BY <1>1, <1>2, <1>4, <1>7, OpenStays

\* handleClose takes the channel out of the poller and is about to report the close.
LEMMA OpenCloses ==
    ASSUME OInv, Open, state # "kConnecting", NEW rest \in Seq(Harmless), HandleClose(rest),
           UNCHANGED <<server, removing, destroyed>>, NoneLeaves(pending')
    PROVE  Reporting'
<1>1. index = "kAdded"
    BY OpenWatched
<1>2. Closed' /\ index' = "kDeleted"
    BY <1>1 DEF HandleClose, Update, Closed
<1>3. todo' = <<"user", "closeCallback">> \o rest
    BY DEF HandleClose
<1>4. todo' # <<>> /\ Head(todo') = "user" /\ Tail(todo') = <<"closeCallback">> \o rest
    BY <1>3, SMTT(60)
<1>5. Reports(<<"closeCallback">> \o rest)
    <2> DEFINE r == <<"closeCallback">> \o rest
    <2>1. r # <<>> /\ Head(r) = "closeCallback"
        BY SMTT(60)
    <2>2. Tail(r) = rest
        BY SMTT(60)
    <2> HIDE DEF r
    <2>3. Reports(r)
        BY <2>1, <2>2 DEF Reports
    <2> QED
        BY <2>3 DEF r
<1>6. Reports(Tail(todo'))
    BY <1>4, <1>5
<1> QED
    BY <1>2, <1>4, <1>6 DEF Reporting, Open

\* User code in the loop thread.
LEMMA OpenOwner ==
    ASSUME Disciplined, OInv, Tame(pending), Open, OwnerStep
    PROVE  Tame(pending') /\ Open'
<1>1. ~OwnerStartRead /\ ~OwnerStopRead
    BY DEF Disciplined, OwnerStartRead, OwnerStopRead, OwnerCall
<1>2. UNCHANGED owner /\ state # "kConnecting"
    BY <1>1 DEF OwnerStep, OwnerSend, OwnerShutdown, OwnerForceClose, OwnerForceCloseWithDelay, OwnerCall, Known
<1>3. /\ state \in {"kConnected", "kDisconnecting"} /\ "read" \in events /\ index = "kAdded"
      /\ todo \in Seq(Events) /\ ClosesOnce(todo)
    BY <1>2, OpenWatched
<1>4. CASE OwnerSend
    <2>1. PICK len \in Lengths : SendInLoop(Message(calls + 1, len), pending)
        BY <1>4 DEF OwnerSend
    <2> QED
        BY <1>2, <2>1, OpenSends
<1>5. CASE OwnerShutdown \/ OwnerForceClose \/ OwnerForceCloseWithDelay
    <2>1. state' = "kDisconnecting" /\ UNCHANGED <<events, index, todo>>
        BY <1>5 DEF OwnerShutdown, OwnerForceClose, OwnerForceCloseWithDelay
    <2>2. UNCHANGED pending \/ pending' = Append(pending, Op("forceClose"))
        BY <1>5 DEF OwnerShutdown, OwnerForceClose, OwnerForceCloseWithDelay
    <2>3. Ordinary(Op("forceClose"))
        BY OpIsFunctor DEF Ordinary, Barred, Names
    <2>4. Churn(pending, pending')
        BY <2>2, <2>3 DEF Churn
    <2> QED
        BY <1>2, <1>3, <2>1, <2>4, OpenStays
<1> QED
    BY <1>1, <1>4, <1>5 DEF OwnerStep

\* A functor of an open connection is not connectDestroyed.
LEMMA OpenFunctor ==
    ASSUME OInv, Tame(pending), Open, Functor
    PROVE  Tame(pending') /\ (Open' \/ Reporting')
<1>1. todo = <<>> /\ pending # <<>> /\ UNCHANGED <<server, removing>>
    BY DEF Functor, ConnectEstablished, FunctorTooLate, FunctorSend, FunctorShutdown,
           FunctorStartRead, FunctorStopRead, ForceCloseInLoop, FunctorCallback, ConnectDestroyed, RunFunctor
<1>2. pending \in Seq(Functors) /\ NoneLeaves(pending)
    BY DEF OInv, Starting, Queue, Open
<1>3. /\ Tame(Tail(pending)) /\ NoneLeaves(Tail(pending))
      /\ Head(pending).op \notin Barred /\ Head(pending).op # "connectDestroyed"
    BY <1>1, <1>2, TailLeaves
<1>4. Churn(pending, Tail(pending))
    BY <1>1, <1>3 DEF Churn
<1>5. ~FunctorShutdown /\ ~FunctorStartRead /\ ~FunctorStopRead /\ ~ConnectDestroyed
    BY <1>3 DEF FunctorShutdown, FunctorStartRead, FunctorStopRead, ConnectDestroyed, RunFunctor, Barred
<1>6. Alive
    BY DEF Open, Alive
<1>7. <<"user">> \in Seq(Events) /\ ClosesOnce(<<"user">>) /\ <<>> \in Seq(Events) /\ ClosesOnce(<<>>)
    BY SMTT(60) DEF Events, ClosesOnce
<1>8. CASE ConnectEstablished
    <2>1. /\ state' = "kConnected" /\ "read" \in events' /\ index' = "kAdded"
          /\ todo' = <<"user">> /\ pending' = Tail(pending) /\ UNCHANGED owner
        BY <1>8 DEF ConnectEstablished, RunFunctor, Enable, Update, owner
    <2> QED
        BY <1>4, <1>7, <2>1, OpenStays
<1>9. CASE FunctorSend
    <2>1. RunFunctor("send") /\ SendInLoop(Head(pending).msg, Tail(pending)) /\ UNCHANGED owner
        BY <1>9 DEF FunctorSend, RunFunctor, owner
    <2>2. state # "kConnecting"
        BY <2>1, FunctorStarted DEF Names
    <2> QED
        BY <1>1, <1>3, <2>1, <2>2, OpenSends
<1>10. CASE ForceCloseInLoop
    <2>1. RunFunctor("forceClose") /\ pending' = Tail(pending) /\ UNCHANGED destroyed
        BY <1>10 DEF ForceCloseInLoop
    <2>2. state # "kConnecting"
        BY <2>1, FunctorStarted DEF Names
    <2>3. CASE HandleClose(<<>>)
        <3>1. <<>> \in Seq(Harmless)
            BY SMTT(60)
        <3> QED
            BY <1>1, <1>3, <2>1, <2>2, <2>3, <3>1, OpenCloses
    <2>4. CASE ~Closable
        BY <2>2, <2>4, OpenWatched DEF Closable
    <2> QED
        BY <1>10, <2>3, <2>4 DEF ForceCloseInLoop
<1>11. CASE FunctorCallback
    <2>1. todo' = <<"user">> /\ pending' = Tail(pending) /\ UNCHANGED conn /\ UNCHANGED owner
        BY <1>11 DEF FunctorCallback, RunFunctor, owner
    <2>2. state # "kConnecting"
        BY <1>11, FunctorStarted DEF Names, FunctorCallback
    <2>3. /\ state' \in {"kConnected", "kDisconnecting"} /\ "read" \in events' /\ index' = "kAdded"
        BY <2>1, <2>2, OpenWatched DEF conn
    <2> QED
        BY <1>4, <1>7, <2>1, <2>3, OpenStays
<1> QED
    BY <1>5, <1>6, <1>8, <1>9, <1>10, <1>11 DEF Functor, FunctorTooLate

\* A handler of an open connection closes it at most once.
LEMMA OpenHandler ==
    ASSUME OInv, Tame(pending), Open, Handler
    PROVE  Tame(pending') /\ (Open' \/ Reporting')
<1>1. todo # <<>>
    BY DEF Handler, UserReturn, HandleEvent, HandleHup, HandleError, HandleRead, HandleWrite,
           CloseCallback, RemoveChannel, Step
<1>2. state # "kConnecting"
    BY <1>1, HandlerStarted
<1>3. /\ state \in {"kConnected", "kDisconnecting"} /\ "read" \in events /\ index = "kAdded"
      /\ todo \in Seq(Events) /\ ClosesOnce(todo)
    BY <1>2, OpenWatched
<1>4. /\ Tail(todo) \in Seq(Events) /\ ClosesOnce(Tail(todo))
      /\ Head(todo) \in {"hup", "in"} => Tail(todo) \in Seq(Harmless)
    BY <1>1, <1>3, EventsPop
<1>5. ~CloseCallback /\ ~RemoveChannel
    <2>1. Head(todo) \in Events
        BY <1>1, <1>3, SMTT(60)
    <2> QED
        BY <2>1 DEF CloseCallback, RemoveChannel, Step, Events
<1>6. Churn(pending, pending) /\ Tame(pending) /\ NoneLeaves(pending)
    BY DEF Churn, Open
<1>7. CASE UserReturn \/ HandleEvent \/ HandleError
    <2>1. UNCHANGED <<conn, pending, owner>> /\ todo' = Tail(todo)
        BY <1>7 DEF UserReturn, HandleEvent, HandleError
    <2> QED
        BY <1>3, <1>4, <1>6, <2>1, OpenStays DEF conn
<1>8. CASE HandleHup
    <2>1. Head(todo) = "hup" /\ HandleClose(Tail(todo)) /\ UNCHANGED <<pending, server, removing, destroyed>>
        BY <1>8 DEF HandleHup, Step
    <2>2. Tail(todo) \in Seq(Harmless) /\ NoneLeaves(pending') /\ pending' = pending
        BY <1>4, <1>6, <2>1
    <2> QED
        BY <1>2, <1>6, <2>1, <2>2, OpenCloses
<1>9. CASE HandleRead
    <2>1. Head(todo) = "in" /\ UNCHANGED <<pending, server, removing, destroyed>>
        BY <1>9 DEF HandleRead, Step
    <2>2. CASE HandleClose(Tail(todo))
        <3>1. Tail(todo) \in Seq(Harmless) /\ NoneLeaves(pending') /\ pending' = pending
            BY <1>4, <1>6, <2>1
        <3> QED
            BY <1>2, <1>6, <2>1, <2>2, <3>1, OpenCloses
    <2>3. CASE UNCHANGED <<conn, closed>> /\ todo' \in {Tail(todo), <<"user">> \o Tail(todo)}
        <3>1. "user" \in Events /\ "user" \notin {"hup", "in"}
            BY DEF Events
        <3>2. <<"user">> \o Tail(todo) \in Seq(Events) /\ ClosesOnce(<<"user">> \o Tail(todo))
            BY <1>4, <3>1, EventsPush
        <3>3. todo' \in Seq(Events) /\ ClosesOnce(todo')
            BY <1>4, <2>3, <3>2
        <3>4. UNCHANGED owner /\ UNCHANGED <<state, events, index>>
            BY <2>1, <2>3 DEF owner, conn
        <3> QED
            BY <1>3, <1>6, <2>1, <3>3, <3>4, OpenStays
    <2> QED
        BY <1>9, <2>2, <2>3 DEF HandleRead
<1>10. CASE HandleWrite
    <2>1. todo' = Tail(todo) /\ UNCHANGED owner /\ UNCHANGED state
        BY <1>10 DEF HandleWrite
    <2>2. UNCHANGED <<events, index>> \/ Disable("write")
        BY <1>10 DEF HandleWrite
    <2>3. "read" \in events' /\ index' = "kAdded"
        BY <1>3, <2>2, SMTT(60) DEF Disable, Update
    <2>4. pending' = pending \/ pending' = Append(pending, Op("writeComplete"))
        BY <1>10 DEF HandleWrite
    <2>5. Ordinary(Op("writeComplete"))
        BY OpIsFunctor DEF Ordinary, Barred, Names
    <2>6. Churn(pending, pending')
        BY <2>4, <2>5 DEF Churn
    <2> QED
        BY <1>3, <1>4, <2>1, <2>3, <2>6, OpenStays
<1> QED
    BY <1>5, <1>7, <1>8, <1>9, <1>10 DEF Handler

\* Threads, the timer, the poll, the server and the peer do not close a connection.
LEMMA OpenOther ==
    ASSUME Disciplined, OInv, OnlySend, Tame(pending), Open,
           \/ \E t \in Threads : ThreadCall(t) \/ ThreadSetState(t) \/ ThreadQueue(t)
           \/ \E w \in BOOLEAN : Poll(w)
           \/ DelayedForceClose
           \/ RemoveConnectionInLoop \/ ServerDtor
           \/ PeerSend \/ PeerClose \/ PeerReset
    PROVE  Tame(pending') /\ Open'
<1>1. ASSUME NEW t \in Threads PROVE ~ThreadSetState(t)
    BY SMTT(60) DEF OnlySend, ThreadSetState, Idle
<1>2. ~RemoveConnectionInLoop /\ ~ServerDtor
    BY SMTT(60) DEF Open, RemoveConnectionInLoop, ServerDtor, Disciplined
<1>3. CASE UNCHANGED <<conn, pending, todo, owner>>
    BY <1>3 DEF Open, conn, owner
<1>4. ASSUME NEW t \in Threads, ThreadQueue(t)
      PROVE  Tame(pending') /\ Open'
    <2> DEFINE f == [op |-> tpc[t].op, msg |-> tpc[t].msg]
    <2>1. tpc[t] \in Calls /\ tpc[t].op = "send" /\ pending' = Append(pending, f)
        BY <1>4, SMTT(60) DEF OnlySend, ThreadQueue, Idle, OInv, Typed
    <2>2. Ordinary(f)
        BY <2>1 DEF Ordinary, Calls, Functors, Names, Barred
    <2> HIDE DEF f
    <2>3. Churn(pending, pending') /\ UNCHANGED <<conn, todo, owner>>
        BY <1>4, <2>1, <2>2 DEF Churn, ThreadQueue
    <2>4. state # "kConnecting"
        BY <2>1, SMTT(60) DEF OInv, Starting, Untouched, Idle
    <2> QED
        BY <2>3, <2>4, OpenWatched, OpenStays DEF conn
<1>5. ASSUME NEW w \in BOOLEAN, Poll(w)
      PROVE  Tame(pending') /\ Open'
    <2>1. todo' \in Seq(Events) /\ ClosesOnce(todo')
        BY <1>5, PollClosesOnce
    <2>2. UNCHANGED <<conn, pending, owner>> /\ index = "kAdded"
        BY <1>5 DEF Poll
    <2>3. state # "kConnecting"
        BY <2>2 DEF OInv, Starting, Untouched
    <2> QED
        BY <2>1, <2>2, <2>3, OpenWatched, OpenStays DEF conn, Churn
<1>6. CASE DelayedForceClose
    <2>1. /\ timer /\ UNCHANGED <<events, index, todo, owner>>
          /\ \/ state' = "kDisconnecting" /\ pending' = Append(pending, Op("forceClose"))
             \/ UNCHANGED <<state, pending>>
        BY <1>6 DEF DelayedForceClose
    <2>2. state # "kConnecting"
        BY <2>1 DEF OInv, Starting, Untouched
    <2>3. Ordinary(Op("forceClose"))
        BY OpIsFunctor DEF Ordinary, Barred, Names
    <2>4. Churn(pending, pending')
        BY <2>1, <2>3 DEF Churn
    <2> QED
        BY <2>1, <2>2, <2>4, OpenWatched, OpenStays
<1>7. ASSUME NEW t \in Threads, ThreadCall(t)
      PROVE  UNCHANGED <<conn, pending, todo, owner>>
    BY <1>7 DEF ThreadCall
<1>8. PeerSend \/ PeerClose \/ PeerReset => UNCHANGED <<conn, pending, todo, owner>>
    BY DEF PeerSend, PeerClose, PeerReset
<1> QED
    BY <1>1, <1>2, <1>3, <1>4, <1>5, <1>6, <1>7, <1>8

-----------------------------------------------------------------------------
(* A closed connection.                                                    *)

Later ==
    \/ UNCHANGED todo
    \/ todo # <<>> /\ Head(todo) \in {"user", "err", "out"} /\ todo' = Tail(todo)
    \/ todo = <<>> /\ todo' = <<"user">>

\* What is left of handlers, functors and calls passes a closed connection by.
Passing ==
    /\ Closed' /\ UNCHANGED <<index, server, removing, destroyed>>
    /\ Churn(pending, pending') /\ Tame(pending')
    /\ Later

\* Nothing opens a connection again: users find state_ kDisconnected, sendInLoop
\* drops, handleWrite finds no interest in write events, and the poller does not
\* know the channel.
LEMMA ClosedPasses ==
    ASSUME Disciplined, OInv, OnlySend, Tame(pending), Closed, index # "kAdded",
           todo # <<>> => Head(todo) \notin {"hup", "in", "dispatch"}, [Next]_vars
    PROVE  \/ Passing
           \/ CloseCallback \/ RemoveChannel \/ RemoveConnectionInLoop \/ ConnectDestroyed
<1>1. pending \in Seq(Functors) /\ Churn(pending, pending)
    BY DEF OInv, Starting, Queue, Churn
<1>2. ASSUME UNCHANGED <<closed, state, events, index, server, removing, destroyed>>,
             Churn(pending, pending'), Later
      PROVE  Passing
    BY <1>1, <1>2, ChurnLeaves DEF Passing, Closed
<1>3. ~OwnerStep
    BY DEF Disciplined, Closed, OwnerStep, OwnerSend, OwnerShutdown, OwnerForceClose,
           OwnerForceCloseWithDelay, OwnerStartRead, OwnerStopRead, OwnerCall, Closable
<1>4. ASSUME NEW t \in Threads, ThreadCall(t) \/ ThreadSetState(t) \/ ThreadQueue(t)
      PROVE  Passing
    <2>1. ~ThreadSetState(t)
        BY SMTT(60) DEF OnlySend, ThreadSetState, Idle
    <2>2. CASE ThreadCall(t)
        BY <1>1, <1>2, <2>2 DEF ThreadCall, conn, owner, Later
    <2>3. CASE ThreadQueue(t)
        <3> DEFINE f == [op |-> tpc[t].op, msg |-> tpc[t].msg]
        <3>1. tpc[t] \in Calls /\ tpc[t].op = "send" /\ pending' = Append(pending, f)
            BY <2>3, SMTT(60) DEF OnlySend, ThreadQueue, Idle, OInv, Typed
        <3>2. Ordinary(f)
            BY <3>1 DEF Ordinary, Calls, Functors, Names, Barred
        <3> HIDE DEF f
        <3>3. Churn(pending, pending')
            BY <3>1, <3>2 DEF Churn
        <3> QED
            BY <1>2, <2>3, <3>3 DEF ThreadQueue, conn, owner, Later
    <2> QED
        BY <1>4, <2>1, <2>2, <2>3
<1>5. ASSUME Functor, ~ConnectDestroyed
      PROVE  Passing
    <2>1. todo = <<>> /\ pending # <<>> /\ UNCHANGED <<server, removing>>
        BY <1>5 DEF Functor, ConnectEstablished, FunctorTooLate, FunctorSend, FunctorShutdown,
               FunctorStartRead, FunctorStopRead, ForceCloseInLoop, FunctorCallback, ConnectDestroyed, RunFunctor
    <2>2. Head(pending).op \notin Barred
        BY <1>1, <2>1, TailLeaves
    <2>3. ~FunctorShutdown /\ ~FunctorStartRead /\ ~FunctorStopRead
        BY <2>2 DEF FunctorShutdown, FunctorStartRead, FunctorStopRead, RunFunctor, Barred
    <2>4. ~ConnectEstablished
        <3>1. ~Waiting(pending) /\ Queue(pending)
            BY DEF OInv, Starting, Closed
        <3>2. Head(pending).op # "connectEstablished"
            BY <2>1, <3>1, TailQueue DEF Waiting
        <3> QED
            BY <3>2 DEF ConnectEstablished, RunFunctor
    <2>5. CASE FunctorTooLate \/ FunctorSend \/ ForceCloseInLoop \/ FunctorCallback
        <3>1. Head(pending).op # "connectDestroyed"
            BY <2>5 DEF FunctorTooLate, FunctorSend, ForceCloseInLoop, FunctorCallback, RunFunctor, RawThis
        <3>2. Churn(pending, Tail(pending))
            BY <2>1, <3>1 DEF Churn
        <3>3. CASE FunctorTooLate
            BY <1>2, <2>1, <3>2, <3>3 DEF FunctorTooLate, conn, Later
        <3>4. CASE FunctorSend
            <4>1. /\ pending' = Tail(pending)
                  /\ UNCHANGED <<events, index, state, todo, closed, destroyed>>
                BY <3>4 DEF FunctorSend, SendInLoop, Closed
            <4> QED
                BY <1>2, <2>1, <3>2, <4>1 DEF Later
        <3>5. CASE ForceCloseInLoop
            <4>1. pending' = Tail(pending) /\ UNCHANGED <<conn, todo, closed, destroyed>>
                BY <3>5 DEF ForceCloseInLoop, Closable, Closed
            <4> QED
                BY <1>2, <2>1, <3>2, <4>1 DEF Later, conn
        <3>6. CASE FunctorCallback
            BY <1>2, <2>1, <3>2, <3>6 DEF FunctorCallback, conn, Later
        <3> QED
            BY <2>5, <3>3, <3>4, <3>5, <3>6
    <2> QED
        BY <1>5, <2>3, <2>4, <2>5 DEF Functor
<1>6. ASSUME Handler, ~CloseCallback, ~RemoveChannel
      PROVE  Passing
    <2>1. ~HandleEvent /\ ~HandleHup /\ ~HandleRead
        BY DEF HandleEvent, HandleHup, HandleRead, Step
    <2>2. CASE UserReturn
        BY <1>1, <1>2, <2>2 DEF UserReturn, conn, owner, Later
    <2>3. CASE HandleError
        BY <1>1, <1>2, <2>3 DEF HandleError, Step, conn, owner, Later
    <2>4. CASE HandleWrite
        <3>1. /\ todo # <<>> /\ Head(todo) = "out" /\ todo' = Tail(todo)
              /\ UNCHANGED <<state, owner>> /\ UNCHANGED <<events, index, pending>>
            BY <2>4 DEF HandleWrite, Step, Closed
        <3> QED
            BY <1>1, <1>2, <3>1 DEF owner, Later
    <2> QED
        BY <1>6, <2>1, <2>2, <2>3, <2>4 DEF Handler
<1>7. ASSUME NEW w \in BOOLEAN PROVE ~Poll(w)
    BY DEF Poll
<1>8. CASE DelayedForceClose
    <2>1. UNCHANGED <<state, pending, events, index, todo, owner>>
        BY <1>8 DEF DelayedForceClose, Closable, Closed
    <2> QED
        BY <1>1, <1>2, <2>1 DEF owner, Later
<1>9. ~ServerDtor
    BY DEF ServerDtor, Disciplined
<1>10. CASE PeerSend \/ PeerClose \/ PeerReset \/ UNCHANGED vars
    <2>1. UNCHANGED <<conn, pending, todo, owner>>
        BY <1>10 DEF PeerSend, PeerClose, PeerReset, vars
    <2> QED
        BY <1>1, <1>2, <2>1 DEF conn, owner, Later
<1> QED
    BY <1>3, <1>4, <1>5, <1>6, <1>7, <1>8, <1>9, <1>10 DEF Next

\* What a lull consists of.
LEMMA LullKeeps ==
    /\ \A s \in Lull : s # <<>> => Head(s) \in {"user", "err", "out"} /\ Tail(s) \in Lull
    /\ \A s \in Seq(Harmless) : s \in Lull
    /\ <<>> \in Lull /\ <<"user">> \in Lull
<1>1. ASSUME NEW s \in Lull, s # <<>> PROVE Head(s) \in {"user", "err", "out"} /\ Tail(s) \in Lull
    BY <1>1, HeadTailProperties DEF Lull
<1>2. ASSUME NEW s \in Seq(Harmless) PROVE s \in Lull
    <2>1. Harmless \subseteq {"user", "err", "out"}
        BY DEF Harmless
    <2> QED
        BY <2>1, SeqMonotonic DEF Lull
<1>3. <<>> \in Lull /\ <<"user">> \in Lull
    BY SMTT(60) DEF Lull
<1> QED
    BY <1>1, <1>2, <1>3

\* In each stage the report of the close is in one place, and each step leaves it
\* there or takes it to the next.
LEMMA StageKeeps ==
    ASSUME Disciplined, OInv, OnlySend, Tame(pending),
           Reporting \/ Reported \/ Removed \/ Leaving \/ Gone, [Next]_vars
    PROVE  Tame(pending') /\ (Reporting' \/ Reported' \/ Removed' \/ Leaving' \/ Gone')
<1>1. pending \in Seq(Functors)
    BY DEF OInv, Starting, Queue
<1>2. Closed /\ index # "kAdded"
    BY DEF Reporting, Reported, Removed, Leaving, Gone
<1>3. CASE Reporting
    <2>1. todo # <<>> /\ Head(todo) \in {"user", "closeCallback"}
        BY <1>3 DEF Reporting, Reports
    <2>2. Passing \/ CloseCallback \/ RemoveChannel \/ RemoveConnectionInLoop \/ ConnectDestroyed
        <3>1. Head(todo) \notin {"hup", "in", "dispatch"}
            BY <2>1
        <3> QED
            BY <1>2, <3>1, ClosedPasses
    <2>3. CASE Passing
        <3>1. NoneLeaves(pending') /\ Tame(pending')
            BY <1>1, <1>3, <2>3, ChurnLeaves DEF Passing, Reporting
        <3>2. UNCHANGED todo \/ (Head(todo) = "user" /\ todo' = Tail(todo))
            BY <2>1, <2>3 DEF Passing, Later
        <3>3. todo' # <<>> /\ (Reports(todo') \/ (Head(todo') = "user" /\ Reports(Tail(todo'))))
            BY <1>3, <3>2 DEF Reporting, Reports
        <3> QED
            BY <1>3, <2>3, <3>1, <3>3 DEF Passing, Reporting
    <2>4. CASE CloseCallback
        <3>1. Head(todo) = "closeCallback" /\ todo' = Tail(todo) /\ UNCHANGED <<conn, pending, server, closed, destroyed>>
            BY <2>4 DEF CloseCallback, Step
        <3>2. Tail(todo) \in Lull
            BY <1>3, <3>1, LullKeeps DEF Reporting, Reports
        <3>3. removing' = 1
            BY <1>3, <2>4, SMTT(60) DEF CloseCallback, Reporting
        <3> QED
            BY <1>3, <3>1, <3>2, <3>3 DEF Reporting, Reported, Closed, conn
    <2>5. ~RemoveChannel /\ ~RemoveConnectionInLoop /\ ~ConnectDestroyed
        BY <1>3, <2>1, SMTT(60) DEF Reporting, RemoveChannel, Step, RemoveConnectionInLoop, ConnectDestroyed, RunFunctor
    <2> QED
        BY <2>2, <2>3, <2>4, <2>5
<1>4. ASSUME todo \in Lull
      PROVE  /\ Passing \/ RemoveConnectionInLoop \/ ConnectDestroyed
             /\ Passing => todo' \in Lull
    <2>1. todo # <<>> => Head(todo) \in {"user", "err", "out"}
        BY <1>4, LullKeeps
    <2>2. Passing \/ CloseCallback \/ RemoveChannel \/ RemoveConnectionInLoop \/ ConnectDestroyed
        <3>1. todo # <<>> => Head(todo) \notin {"hup", "in", "dispatch"}
            BY <2>1
        <3> QED
            BY <1>2, <3>1, ClosedPasses
    <2>3. ~CloseCallback /\ ~RemoveChannel
        BY <2>1 DEF CloseCallback, RemoveChannel, Step
    <2> QED
        BY <1>4, <2>2, <2>3, LullKeeps DEF Passing, Later
<1>5. CASE Reported
    <2>1. CASE Passing
        <3>1. NoneLeaves(pending')
            BY <1>1, <1>5, <2>1, ChurnLeaves DEF Passing, Reported
        <3> QED
            BY <1>4, <1>5, <2>1, <3>1 DEF Passing, Reported
    <2>2. CASE RemoveConnectionInLoop
        <3>1. /\ pending' = Append(pending, Op("connectDestroyed")) /\ server' = "removed" /\ removing' = 0
              /\ UNCHANGED <<conn, todo, closed, destroyed>>
            BY <1>5, <2>2, SMTT(60) DEF RemoveConnectionInLoop, Reported
        <3>2. /\ Op("connectDestroyed") \in Functors /\ Op("connectDestroyed").op = "connectDestroyed"
              /\ Op("connectDestroyed").op \notin Barred
            BY OpIsFunctor DEF Names, Barred
        <3>3. OneLeaves(pending') /\ Tame(pending')
            BY <1>1, <1>5, <3>1, <3>2, AppendLeaves DEF Reported
        <3> QED
            BY <1>5, <3>1, <3>3 DEF Reported, Removed, Closed, conn
    <2>3. ~ConnectDestroyed
        BY <1>1, <1>5, TailLeaves DEF Reported, ConnectDestroyed, RunFunctor
    <2> QED
        BY <1>4, <1>5, <2>1, <2>2, <2>3 DEF Reported
<1>6. CASE Removed
    <2>1. CASE Passing
        <3>1. OneLeaves(pending')
            BY <1>1, <1>6, <2>1, ChurnLeaves DEF Passing, Removed
        <3> QED
            BY <1>4, <1>6, <2>1, <3>1 DEF Passing, Removed
    <2>2. ~RemoveConnectionInLoop
        BY <1>6, SMTT(60) DEF Removed, RemoveConnectionInLoop
    <2>3. CASE ConnectDestroyed
        <3>1. /\ pending # <<>> /\ Head(pending).op = "connectDestroyed" /\ pending' = Tail(pending)
              /\ UNCHANGED <<server, removing>> /\ destroyed' = 1 /\ closed'
            BY <1>6, <2>3, SMTT(60) DEF ConnectDestroyed, RunFunctor, Removed
        <3>2. todo' = <<"remove">> /\ UNCHANGED <<state, events, index>>
            BY <1>6, <2>3 DEF ConnectDestroyed, Removed, Closed
        <3>3. NoneLeaves(pending') /\ Tame(pending')
            BY <1>1, <1>6, <3>1, TailLeaves DEF Removed
        <3> QED
            BY <1>6, <3>1, <3>2, <3>3 DEF Removed, Leaving, Closed
    <2> QED
        BY <1>4, <1>6, <2>1, <2>2, <2>3 DEF Removed
<1>7. CASE Leaving
    <2>1. todo # <<>> /\ Head(todo) = "remove" /\ Tail(todo) = <<>>
        BY <1>7, SMTT(60) DEF Leaving
    <2>2. Passing \/ RemoveChannel
        <3>1. Head(todo) \notin {"hup", "in", "dispatch"}
            BY <2>1
        <3>2. ~CloseCallback /\ ~RemoveConnectionInLoop /\ ~ConnectDestroyed
            BY <1>7, <2>1, SMTT(60) DEF Leaving, CloseCallback, Step, RemoveConnectionInLoop, ConnectDestroyed, RunFunctor
        <3> QED
            BY <1>2, <3>1, <3>2, ClosedPasses
    <2>3. CASE Passing
        <3>1. NoneLeaves(pending')
            BY <1>1, <1>7, <2>3, ChurnLeaves DEF Passing, Leaving
        <3>2. UNCHANGED todo
            BY <2>1, <2>3 DEF Passing, Later
        <3> QED
            BY <1>7, <2>3, <3>1, <3>2 DEF Passing, Leaving
    <2>4. CASE RemoveChannel
        <3>1. todo' \in Lull
            BY <2>1, <2>4, LullKeeps DEF RemoveChannel
        <3> QED
            BY <1>7, <2>4, <3>1 DEF RemoveChannel, Leaving, Gone, Closed, owner
    <2> QED
        BY <2>2, <2>3, <2>4
<1>8. CASE Gone
    <2>1. ~RemoveConnectionInLoop
        BY <1>8, SMTT(60) DEF Gone, RemoveConnectionInLoop
    <2>2. ~ConnectDestroyed
        BY <1>1, <1>8, TailLeaves DEF Gone, ConnectDestroyed, RunFunctor
    <2>3. Passing /\ todo' \in Lull
        BY <1>4, <1>8, <2>1, <2>2 DEF Gone
    <2>4. NoneLeaves(pending')
        BY <1>1, <1>8, <2>3, ChurnLeaves DEF Passing, Gone
    <2> QED
        BY <1>8, <2>3, <2>4 DEF Passing, Gone
<1> QED
    BY <1>3, <1>5, <1>6, <1>7, <1>8

\* Other threads do nothing but send.
LEMMA OnlySendKeeps ==
    ASSUME Disciplined, OInv, OnlySend, [Next]_vars
    PROVE  OnlySend'
<1>1. tpc \in [Threads -> Calls]
    BY DEF OInv, Typed
<1>2. CASE UNCHANGED tpc
    BY <1>2 DEF OnlySend
<1>3. ASSUME NEW t \in Threads, ThreadCall(t)
      PROVE  OnlySend'
    <2>1. PICK len \in Lengths :
              tpc' = [tpc EXCEPT ![t] = [op |-> "send", step |-> 2, msg |-> Message(calls + 1, len)]]
        BY <1>3 DEF ThreadCall, Disciplined
    <2> QED
        BY <1>1, <2>1 DEF OnlySend
<1>4. ASSUME NEW t \in Threads, ThreadQueue(t)
      PROVE  OnlySend'
    BY <1>1, <1>4 DEF ThreadQueue, OnlySend
<1>5. ASSUME NEW t \in Threads PROVE ~ThreadSetState(t)
    BY SMTT(60) DEF OnlySend, ThreadSetState, Idle
<1>6. OwnerStep => UNCHANGED tpc
    BY DEF OwnerStep, OwnerSend, OwnerShutdown, OwnerForceClose, OwnerForceCloseWithDelay,
           OwnerStartRead, OwnerStopRead, OwnerCall
<1>7. Functor => UNCHANGED tpc
    BY DEF Functor, ConnectEstablished, FunctorTooLate, FunctorSend, FunctorShutdown,
           FunctorStartRead, FunctorStopRead, ForceCloseInLoop, FunctorCallback, ConnectDestroyed, RunFunctor
<1>8. Handler => UNCHANGED tpc
    BY DEF Handler, UserReturn, HandleEvent, HandleHup, HandleError, HandleRead, HandleWrite,
           CloseCallback, RemoveChannel, Step
<1>9. (\E w \in BOOLEAN : Poll(w)) => UNCHANGED tpc
    BY DEF Poll
<1>10. DelayedForceClose \/ RemoveConnectionInLoop \/ ServerDtor \/ PeerSend \/ PeerClose \/ PeerReset
          \/ UNCHANGED vars => UNCHANGED tpc
    BY DEF DelayedForceClose, RemoveConnectionInLoop, ServerDtor, PeerSend, PeerClose, PeerReset, vars
<1> QED
    BY <1>2, <1>3, <1>4, <1>5, <1>6, <1>7, <1>8, <1>9, <1>10 DEF Next

\* A connection starts open.
LEMMA InitCInv == Init => CInv
<1> SUFFICES ASSUME Init PROVE CInv
    OBVIOUS
<1>1. OnlySend
    BY DEF Init, OnlySend
<1>2. Len(pending) = 1 /\ pending[1].op = "connectEstablished"
    BY DEF Init, Op
<1>3. Tame(pending) /\ NoneLeaves(pending)
    BY <1>2, SMTT(60) DEF Tame, NoneLeaves, Barred
<1>4. <<>> \in Seq(Events) /\ ClosesOnce(<<>>)
    BY SMTT(60) DEF ClosesOnce
<1>5. Open
    BY <1>3, <1>4 DEF Init, Open
<1> QED
    BY <1>1, <1>3, <1>5 DEF CInv

\* Every step of a disciplined program leaves a connection in one of the stages.
LEMMA NextCInv ==
    ASSUME Disciplined
    PROVE  OInv /\ CInv /\ [Next]_vars => CInv'
<1> SUFFICES ASSUME OInv, CInv, [Next]_vars PROVE CInv'
    OBVIOUS
<1>1. OnlySend /\ Tame(pending) /\ OnlySend'
    BY OnlySendKeeps DEF CInv
<1>2. CASE Open
    <2>1. CASE OwnerStep
        BY <1>1, <1>2, <2>1, OpenOwner DEF CInv
    <2>2. CASE Functor
        BY <1>1, <1>2, <2>2, OpenFunctor DEF CInv
    <2>3. CASE Handler
        BY <1>1, <1>2, <2>3, OpenHandler DEF CInv
    <2>4. CASE UNCHANGED vars
        BY <1>1, <1>2, <2>4 DEF CInv, Open, vars, conn, owner
    <2>5. CASE \/ \E t \in Threads : ThreadCall(t) \/ ThreadSetState(t) \/ ThreadQueue(t)
               \/ \E w \in BOOLEAN : Poll(w)
               \/ DelayedForceClose
               \/ RemoveConnectionInLoop \/ ServerDtor
               \/ PeerSend \/ PeerClose \/ PeerReset
        <3>1. Tame(pending') /\ Open'
            BY <1>1, <1>2, <2>5, OpenOther
        <3> QED
            BY <1>1, <3>1 DEF CInv
    <2> QED
        BY <2>1, <2>2, <2>3, <2>4, <2>5 DEF Next
<1>3. CASE Reporting \/ Reported \/ Removed \/ Leaving \/ Gone
    BY <1>1, <1>3, StageKeeps DEF CInv
<1> QED
    BY <1>2, <1>3 DEF CInv

\* So a connection is always in one of them.
LEMMA Closing ==
    ASSUME Disciplined
    PROVE  Spec => [](OInv /\ CInv)
<1>1. OInv /\ CInv /\ [Next]_vars => OInv' /\ CInv'
    BY NextOInv, NextCInv
<1> QED
    BY <1>1, InitOInv, InitCInv, PTL DEF Spec

\* connectDestroyed is called once and the close is reported once, whatever hangups,
\* errors, ends of input, forceClose calls and timers coincide, if other threads only
\* send and the server stays.
THEOREM ConnectionDestroyedOnce ==
    ASSUME Disciplined
    PROVE  Spec => []DestroyedOnce
<1>1. OInv /\ CInv => DestroyedOnce
    BY SMTT(60) DEF CInv, Open, Reporting, Reported, Removed, Leaving, Gone, DestroyedOnce
<1> QED
    BY <1>1, Closing, PTL

\* Under the same discipline the asserts at the end hold: Channel::remove finds no
\* interest in events, and the destructor finds the connection disconnected and its
\* channel out of the poller.
THEOREM ConnectionEndsClean ==
    ASSUME Disciplined
    PROVE  Spec => []CleanAtEnd
<1>1. OInv /\ CInv => CleanAtEnd
    <2> SUFFICES ASSUME OInv, CInv PROVE CleanAtEnd
        OBVIOUS
    <2>1. CASE Open
        <3>1. todo # <<>> => Head(todo) # "remove"
            BY <2>1, SMTT(60) DEF Open, Events
        <3> QED
            BY <2>1, <3>1 DEF Open, CleanAtEnd, RemovedClean, DtorAsserts, Alive
    <2>2. CASE Reporting \/ Reported
        BY <2>2 DEF Reporting, Reported, Closed, CleanAtEnd, RemovedClean, DtorAsserts, Alive
    <2>3. CASE Removed
        <3>1. \E i \in DOMAIN pending : pending[i].op \notin RawThis
            <4>1. DOMAIN pending = 1..Len(pending)
                BY SMTT(60) DEF OInv, Starting, Queue
            <4> QED
                BY <2>3, <4>1 DEF Removed, OneLeaves, RawThis
        <3> QED
            BY <2>3, <3>1 DEF Removed, Closed, CleanAtEnd, RemovedClean, DtorAsserts, Alive
    <2>4. CASE Leaving \/ Gone
        BY <2>4, SMTT(60) DEF Leaving, Gone, Closed, CleanAtEnd, RemovedClean, DtorAsserts, Alive
    <2> QED
        BY <2>1, <2>2, <2>3, <2>4 DEF CInv
<1> QED
    BY <1>1, Closing, PTL
=============================================================================
