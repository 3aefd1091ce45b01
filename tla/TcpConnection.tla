--------------------------- MODULE TcpConnection ----------------------------
(***************************************************************************)
(* muduo::net::TcpConnection: one established connection in its EventLoop, *)
(* its Channel and its output Buffer, used by callbacks in the loop thread *)
(* and by other threads, and owned by a TcpServer in another loop.         *)
(*                                                                         *)
(* The socket is what write, read and poll tell of it: whether the peer    *)
(* is there, what it has sent, what has been written.  A byte is a pair    *)
(* <<message, position>>.  The loop thread is a stack of what it has yet   *)
(* to do (todo): events to dispatch, user code to return from, the rest of *)
(* a handler.  Functors run in order when the stack is empty, which is     *)
(* what SerialExecutor promises.                                           *)
(***************************************************************************)
EXTENDS Naturals, Sequences

CONSTANTS
    Threads,        \* other threads with access to the connection
    OwnerOps,       \* what user code in the loop thread calls
    ThreadOps,      \* what other threads call
    ServerMayDie,   \* the TcpServer may be destroyed before the connection
    Lengths,        \* lengths of messages
    HighWaterMark,  \* highWaterMark_, in bytes
    MaxCalls,       \* how many calls users make (a bound)
    MaxInput        \* how many messages the peer sends (a bound)

ASSUME ConnectionAssumption ==
    /\ ServerMayDie \in BOOLEAN
    /\ Lengths \subseteq Nat \ {0}
    /\ HighWaterMark \in Nat /\ MaxCalls \in Nat /\ MaxInput \in Nat

VARIABLES
    state,          \* state_
    reading,        \* reading_
    events,         \* the interest set of channel_
    index,          \* index_ of channel_: what EPollPoller knows of it
    output,         \* outputBuffer_
    wire,           \* history: bytes handed to the kernel, in order
    accepted,       \* history: bytes sendInLoop did not drop, in order
    fin,            \* shutdownWrite was called
    peer,           \* "open", "closed" (FIN), "reset" (RST not seen yet), "gone"
    inbox,          \* messages of the peer not read yet
    inputs,         \* messages the peer has sent
    pending,        \* functors queued in the loop
    todo,           \* what the loop thread is in the middle of
    timer,          \* forceCloseWithDelay has set a timer
    tpc,            \* other threads: the call they are in, and how far
    server,         \* "holds" the connection, has "removed" it, or is "dead"
    removing,       \* removeConnection functors in the server's loop
    closed,         \* history: handleClose or connectDestroyed has closed it
    destroyed,      \* history: how many times connectDestroyed has run
    calls           \* calls made so far

socket == <<wire, accepted, fin, peer, inbox, inputs>>
conn == <<state, reading, events, index, output>>
owner == <<server, removing, closed, destroyed>>
vars == <<conn, socket, pending, todo, timer, tpc, owner, calls>>

StateE == {"kDisconnected", "kConnecting", "kConnected", "kDisconnecting"}
Idle == [op |-> "none", step |-> 0, msg |-> <<>>]
Op(op) == [op |-> op, msg |-> <<>>]

\* TcpServer::newConnection has made the connection and queued its start.
Init ==
    /\ state = "kConnecting"
    /\ reading = TRUE
    /\ events = {} /\ index = "kNew"
    /\ output = <<>> /\ wire = <<>> /\ accepted = <<>>
    /\ fin = FALSE
    /\ peer = "open" /\ inbox = 0 /\ inputs = 0
    /\ pending = <<Op("connectEstablished")>>
    /\ todo = <<>>
    /\ timer = FALSE
    /\ tpc = [t \in Threads |-> Idle]
    /\ server = "holds" /\ removing = 0
    /\ closed = FALSE /\ destroyed = 0
    /\ calls = 0

-----------------------------------------------------------------------------
(* Who keeps the connection alive: the server's map, functors bound to a   *)
(* shared_ptr, a handler at work, a thread inside a call.                  *)

RawThis == {"send", "shutdown", "startRead", "stopRead"}
Alive ==
    \/ server = "holds" \/ removing > 0
    \/ \E i \in DOMAIN pending : pending[i].op \notin RawThis
    \/ todo # <<>>
    \/ \E t \in Threads : tpc[t] # Idle

\* Users get to know the connection by its connection callback.
Known == Alive /\ state # "kConnecting"

\* Message number n of a user.
Message(n, len) == [i \in 1..len |-> <<n, i>>]

Broken == fin \/ peer \in {"reset", "gone"}

\* Channel::update as EPollPoller::updateChannel takes it: a channel the kernel
\* does not watch is added, with whatever it asks for; one it watches is modified,
\* or deleted when it asks for nothing.
Update(evs) ==
    /\ events' = evs
    /\ index' = IF index = "kAdded" /\ evs = {} THEN "kDeleted" ELSE "kAdded"

Enable(e) == Update(events \cup {e})

Disable(e) == Update(events \ {e})

-----------------------------------------------------------------------------
(* The operations of the loop thread.  Each is given the functor queue q   *)
(* it starts from, since it may be a functor itself.                       *)

Crosses(n) == Len(output) + n >= HighWaterMark /\ Len(output) < HighWaterMark

\* Mutant: a message is written although others wait in the buffer.
Direct_Always == TRUE

\* Nothing is in the output queue: try writing directly.
Direct == "write" \notin events /\ output = <<>>

\* Mutant: the rest is buffered but write events are not asked for.
BufferRest_NoEnable(m, k, q) ==
    /\ k < Len(m)
    /\ output' = output \o SubSeq(m, k + 1, Len(m))
    /\ pending' = q
    /\ UNCHANGED <<events, index>>

\* The second half of sendInLoop: what was not written is buffered.
BufferRest(m, k, q) ==
    LET rest == SubSeq(m, k + 1, Len(m))
    IN  /\ rest # <<>>
        /\ output' = output \o rest
        /\ Enable("write")
        /\ pending' = IF Crosses(Len(rest)) THEN Append(q, Op("highWater")) ELSE q

\* sendInLoop: a write that takes k bytes when nothing waits, EWOULDBLOCK being
\* k = 0; EPIPE and ECONNRESET drop the message.
SendInLoop(m, q) ==
    /\ \/ /\ state = "kDisconnected"
          /\ pending' = q
          /\ UNCHANGED <<events, index, output, wire, accepted, peer>>
       \/ /\ state # "kDisconnected"
          /\ Direct /\ Broken
          /\ peer' = IF peer = "reset" THEN "gone" ELSE peer
          /\ pending' = q
          /\ UNCHANGED <<events, index, output, wire, accepted>>
       \/ /\ state # "kDisconnected"
          /\ Direct /\ ~Broken
          /\ \E k \in 0..Len(m) :
              /\ wire' = wire \o SubSeq(m, 1, k)
              /\ \/ /\ k = Len(m)
                    /\ pending' = Append(q, Op("writeComplete"))
                    /\ UNCHANGED <<output, events, index>>
                 \/ BufferRest(m, k, q)
          /\ accepted' = accepted \o m
          /\ UNCHANGED peer
       \/ /\ state # "kDisconnected"
          /\ ~Direct
          /\ BufferRest(m, 0, q)
          /\ accepted' = accepted \o m
          /\ UNCHANGED <<wire, peer>>
    /\ UNCHANGED <<state, reading, fin, inbox, inputs, todo>>

\* shutdownInLoop, with the interest set evs.
ShutdownInLoop(evs) == fin' = (fin \/ "write" \notin evs)

\* The end of handleWrite, when the last byte has been written.
FinishShutdown(evs) ==
    IF state = "kDisconnecting" THEN ShutdownInLoop(evs) ELSE UNCHANGED fin

StartReadInLoop(q) ==
    /\ \/ /\ ~reading \/ "read" \notin events
          /\ Enable("read")
          /\ reading' = TRUE
       \/ /\ reading /\ "read" \in events
          /\ UNCHANGED <<events, index, reading>>
    /\ pending' = q
    /\ UNCHANGED <<state, output, socket, todo>>

StopReadInLoop(q) ==
    /\ \/ /\ reading \/ "read" \in events
          /\ Disable("read")
          /\ reading' = FALSE
       \/ /\ ~reading /\ "read" \notin events
          /\ UNCHANGED <<events, index, reading>>
    /\ pending' = q
    /\ UNCHANGED <<state, output, socket, todo>>

\* Mutant: handleClose does not disable the channel.
HandleClose_NoDisable(rest) ==
    /\ state' = "kDisconnected"
    /\ closed' = TRUE
    /\ todo' = <<"user", "closeCallback">> \o rest
    /\ UNCHANGED <<events, index, reading, output>>

\* handleClose up to the connection callback; rest is what its caller goes on with.
HandleClose(rest) ==
    /\ state' = "kDisconnected"
    /\ Update({})
    /\ closed' = TRUE
    /\ todo' = <<"user", "closeCallback">> \o rest
    /\ UNCHANGED <<reading, output>>

-----------------------------------------------------------------------------
(* User code in the loop thread: in the callbacks of this connection, of   *)
(* others, of timers.                                                      *)

InUserCode == todo # <<>> => Head(todo) \in {"user", "dispatch"}

OwnerCall(op) ==
    /\ InUserCode /\ Known
    /\ op \in OwnerOps
    /\ calls < MaxCalls
    /\ calls' = calls + 1
    /\ UNCHANGED <<tpc, owner>>

OwnerSend ==
    /\ OwnerCall("send")
    /\ state = "kConnected"
    /\ \E len \in Lengths : SendInLoop(Message(calls + 1, len), pending)
    /\ UNCHANGED timer

OwnerShutdown ==
    /\ OwnerCall("shutdown")
    /\ state = "kConnected"
    /\ state' = "kDisconnecting"
    /\ ShutdownInLoop(events)
    /\ UNCHANGED <<reading, events, index, output, wire, accepted, peer, inbox,
                   inputs, pending, todo, timer>>

\* Mutant: the state is not looked at.
Closable_Always == TRUE

Closable == state \in {"kConnected", "kDisconnecting"}

OwnerForceClose ==
    /\ OwnerCall("forceClose")
    /\ Closable
    /\ state' = "kDisconnecting"
    /\ pending' = Append(pending, Op("forceClose"))
    /\ UNCHANGED <<reading, events, index, output, socket, todo, timer>>

OwnerForceCloseWithDelay ==
    /\ OwnerCall("forceCloseWithDelay")
    /\ Closable
    /\ state' = "kDisconnecting"
    /\ timer' = TRUE
    /\ UNCHANGED <<reading, events, index, output, socket, pending, todo>>

OwnerStartRead == OwnerCall("startRead") /\ StartReadInLoop(pending) /\ UNCHANGED timer
OwnerStopRead == OwnerCall("stopRead") /\ StopReadInLoop(pending) /\ UNCHANGED timer

UserReturn ==
    /\ todo # <<>> /\ Head(todo) = "user"
    /\ todo' = Tail(todo)
    /\ UNCHANGED <<conn, socket, pending, timer, tpc, owner, calls>>

\* The timer of forceCloseWithDelay: forceClose through a weak pointer.
DelayedForceClose ==
    /\ timer /\ todo = <<>>
    /\ timer' = FALSE
    /\ \/ /\ Alive /\ Closable
          /\ state' = "kDisconnecting"
          /\ pending' = Append(pending, Op("forceClose"))
       \/ /\ ~(Alive /\ Closable)
          /\ UNCHANGED <<state, pending>>
    /\ UNCHANGED <<reading, events, index, output, socket, todo, tpc, owner, calls>>

-----------------------------------------------------------------------------
(* Calls of other threads.  state_ is read, then written, then a functor   *)
(* is queued: three steps.                                                 *)

ThreadCall(t) ==
    /\ tpc[t] = Idle /\ Known
    /\ calls < MaxCalls
    /\ calls' = calls + 1
    /\ \/ /\ "send" \in ThreadOps /\ state = "kConnected"
          /\ \E len \in Lengths :
              tpc' = [tpc EXCEPT ![t] = [op |-> "send", step |-> 2,
                                         msg |-> Message(calls + 1, len)]]
       \/ /\ "shutdown" \in ThreadOps /\ state = "kConnected"
          /\ tpc' = [tpc EXCEPT ![t] = [op |-> "shutdown", step |-> 1, msg |-> <<>>]]
       \/ /\ "forceClose" \in ThreadOps /\ Closable
          /\ tpc' = [tpc EXCEPT ![t] = [op |-> "forceClose", step |-> 1, msg |-> <<>>]]
       \/ \E op \in ThreadOps \cap {"startRead", "stopRead"} :
              tpc' = [tpc EXCEPT ![t] = [op |-> op, step |-> 2, msg |-> <<>>]]
    /\ UNCHANGED <<conn, socket, pending, todo, timer, owner>>

ThreadSetState(t) ==
    /\ tpc[t].step = 1
    /\ state' = "kDisconnecting"
    /\ tpc' = [tpc EXCEPT ![t].step = 2]
    /\ UNCHANGED <<reading, events, index, output, socket, pending, todo, timer,
                   owner, calls>>

ThreadQueue(t) ==
    /\ tpc[t].step = 2
    /\ pending' = Append(pending, [op |-> tpc[t].op, msg |-> tpc[t].msg])
    /\ tpc' = [tpc EXCEPT ![t] = Idle]
    /\ UNCHANGED <<conn, socket, todo, timer, owner, calls>>

-----------------------------------------------------------------------------
(* Functors, run in order when no handler is at work.                      *)

RunFunctor(op) ==
    /\ todo = <<>>
    /\ pending # <<>> /\ Head(pending).op = op
    /\ UNCHANGED <<timer, tpc, server, removing, calls>>

ConnectEstablished ==
    /\ RunFunctor("connectEstablished")
    /\ state' = "kConnected"
    /\ Enable("read")
    /\ todo' = <<"user">>
    /\ pending' = Tail(pending)
    /\ UNCHANGED <<reading, output, socket, closed, destroyed>>

\* A functor bound to this that outlives the connection is not followed further.
FunctorTooLate ==
    /\ \E op \in RawThis : RunFunctor(op)
    /\ ~Alive
    /\ pending' = Tail(pending)
    /\ UNCHANGED <<conn, socket, todo, closed, destroyed>>

FunctorSend ==
    /\ RunFunctor("send") /\ Alive
    /\ SendInLoop(Head(pending).msg, Tail(pending))
    /\ UNCHANGED <<closed, destroyed>>

FunctorShutdown ==
    /\ RunFunctor("shutdown") /\ Alive
    /\ ShutdownInLoop(events)
    /\ pending' = Tail(pending)
    /\ UNCHANGED <<conn, wire, accepted, peer, inbox, inputs, todo, closed,
                   destroyed>>

FunctorStartRead ==
    /\ RunFunctor("startRead") /\ Alive
    /\ StartReadInLoop(Tail(pending))
    /\ UNCHANGED <<closed, destroyed>>

FunctorStopRead ==
    /\ RunFunctor("stopRead") /\ Alive
    /\ StopReadInLoop(Tail(pending))
    /\ UNCHANGED <<closed, destroyed>>

ForceCloseInLoop ==
    /\ RunFunctor("forceClose")
    /\ \/ Closable /\ HandleClose(<<>>)
       \/ ~Closable /\ UNCHANGED <<conn, todo, closed>>
    /\ pending' = Tail(pending)
    /\ UNCHANGED <<socket, destroyed>>

\* writeCompleteCallback_ and highWaterMarkCallback_.
FunctorCallback ==
    /\ RunFunctor("writeComplete") \/ RunFunctor("highWater")
    /\ todo' = <<"user">>
    /\ pending' = Tail(pending)
    /\ UNCHANGED <<conn, socket, closed, destroyed>>

\* connectDestroyed up to channel_->remove().
ConnectDestroyed ==
    /\ RunFunctor("connectDestroyed")
    /\ \/ /\ state = "kConnected"
          /\ state' = "kDisconnected"
          /\ Update({})
          /\ todo' = <<"user", "remove">>
       \/ /\ state # "kConnected"
          /\ todo' = <<"remove">>
          /\ UNCHANGED <<state, events, index>>
    /\ closed' = TRUE
    /\ destroyed' = destroyed + 1
    /\ pending' = Tail(pending)
    /\ UNCHANGED <<reading, output, socket>>

-----------------------------------------------------------------------------
(* Channel: poll, and handleEvent with the events it found.                *)

Step(what) ==
    /\ todo # <<>> /\ Head(todo) = what
    /\ UNCHANGED <<timer, tpc, calls>>

\* poll reports what the channel asked for, and errors and hangups in any case;
\* w says whether the kernel has room for output.
Poll(w) ==
    LET in == "read" \in events /\ (inbox > 0 \/ peer # "open")
        hup == peer \in {"reset", "gone"} \/ (peer = "closed" /\ fin)
        out == "write" \in events /\ (w \/ peer \in {"reset", "gone"})
        If(cond, what) == IF cond THEN <<what>> ELSE <<>>
        revents == If(hup /\ ~in, "hup") \o If(peer = "reset", "err")
                   \o If(in, "in") \o If(out, "out")
    IN  /\ todo = <<>>
        /\ index = "kAdded"
        /\ revents # <<>>
        /\ todo' = <<"dispatch">> \o revents
        /\ UNCHANGED <<conn, socket, pending, timer, tpc, owner, calls>>

HandleEvent ==
    /\ Step("dispatch")
    /\ todo' = Tail(todo)
    /\ UNCHANGED <<conn, socket, pending, owner>>

HandleHup ==
    /\ Step("hup")
    /\ HandleClose(Tail(todo))
    /\ UNCHANGED <<socket, pending, server, removing, destroyed>>

\* handleError reads, and clears, the error of the socket.
HandleError ==
    /\ Step("err")
    /\ peer' = IF peer = "reset" THEN "gone" ELSE peer
    /\ todo' = Tail(todo)
    /\ UNCHANGED <<conn, wire, accepted, fin, inbox, inputs, pending, owner>>

\* handleRead: everything there is, an error, or end of file.
HandleRead ==
    /\ Step("in")
    /\ \/ /\ inbox > 0
          /\ inbox' = 0
          /\ todo' = <<"user">> \o Tail(todo)
          /\ UNCHANGED <<conn, peer, closed>>
       \/ /\ peer = "reset"
          /\ peer' = "gone"
          /\ todo' = Tail(todo)
          /\ UNCHANGED <<conn, inbox, closed>>
       \/ /\ inbox = 0 /\ peer \in {"closed", "gone"}
          /\ HandleClose(Tail(todo))
          /\ UNCHANGED <<peer, inbox>>
    /\ UNCHANGED <<wire, accepted, fin, inputs, pending, server, removing, destroyed>>

HandleWrite ==
    /\ Step("out")
    /\ \/ /\ "write" \notin events
          /\ UNCHANGED <<events, index, output, wire, fin, peer, pending>>
       \/ /\ "write" \in events /\ Broken
          /\ peer' = IF peer = "reset" THEN "gone" ELSE peer
          /\ UNCHANGED <<events, index, output, wire, fin, pending>>
       \/ /\ "write" \in events /\ ~Broken
          /\ \E k \in 1..Len(output) :
              /\ wire' = wire \o SubSeq(output, 1, k)
              /\ output' = SubSeq(output, k + 1, Len(output))
              /\ \/ /\ k = Len(output)
                    /\ Disable("write")
                    /\ pending' = Append(pending, Op("writeComplete"))
                    /\ FinishShutdown(events')
                 \/ /\ k < Len(output)
                    /\ UNCHANGED <<events, index, pending, fin>>
          /\ UNCHANGED peer
    /\ todo' = Tail(todo)
    /\ UNCHANGED <<state, reading, accepted, inbox, inputs, owner>>

\* closeCallback_ is TcpServer::removeConnection, which queues in the server's loop.
CloseCallback ==
    /\ Step("closeCallback")
    /\ removing' = IF server = "dead" THEN removing ELSE removing + 1
    /\ todo' = Tail(todo)
    /\ UNCHANGED <<conn, socket, pending, server, closed, destroyed>>

RemoveChannel ==
    /\ Step("remove")
    /\ index' = "kNew"
    /\ todo' = Tail(todo)
    /\ UNCHANGED <<state, reading, events, output, socket, pending, owner>>

-----------------------------------------------------------------------------
(* The server, in its own loop, and the peer.                              *)

\* Mutant: connectDestroyed is not queued.
RemoveConnectionInLoop_NoQueue ==
    /\ removing > 0
    /\ removing' = removing - 1
    /\ server' = "removed"
    /\ UNCHANGED <<conn, socket, pending, todo, timer, tpc, closed, destroyed, calls>>

RemoveConnectionInLoop ==
    /\ removing > 0
    /\ removing' = removing - 1
    /\ \/ /\ server # "dead"
          /\ server' = "removed"
          /\ pending' = Append(pending, Op("connectDestroyed"))
       \/ /\ server = "dead"
          /\ UNCHANGED <<server, pending>>
    /\ UNCHANGED <<conn, socket, todo, timer, tpc, closed, destroyed, calls>>

\* ~TcpServer.
ServerDtor ==
    /\ ServerMayDie
    /\ server = "holds"
    /\ server' = "dead"
    /\ pending' = Append(pending, Op("connectDestroyed"))
    /\ UNCHANGED <<conn, socket, todo, timer, tpc, removing, closed, destroyed, calls>>

PeerSend ==
    /\ peer = "open"
    /\ inputs < MaxInput
    /\ inputs' = inputs + 1
    /\ inbox' = inbox + 1
    /\ UNCHANGED <<conn, wire, accepted, fin, peer, pending, todo, timer, tpc, owner, calls>>

PeerClose ==
    /\ peer = "open"
    /\ peer' = "closed"
    /\ UNCHANGED <<conn, wire, accepted, fin, inbox, inputs, pending, todo, timer,
                   tpc, owner, calls>>

PeerReset ==
    /\ peer \in {"open", "closed"}
    /\ peer' = "reset"
    /\ inbox' = 0
    /\ UNCHANGED <<conn, wire, accepted, fin, inputs, pending, todo, timer, tpc,
                   owner, calls>>

-----------------------------------------------------------------------------
OwnerStep ==
    \/ OwnerSend \/ OwnerShutdown \/ OwnerForceClose \/ OwnerForceCloseWithDelay
    \/ OwnerStartRead \/ OwnerStopRead

Functor ==
    \/ ConnectEstablished \/ FunctorTooLate \/ FunctorSend \/ FunctorShutdown
    \/ FunctorStartRead \/ FunctorStopRead \/ ForceCloseInLoop \/ FunctorCallback
    \/ ConnectDestroyed

Handler ==
    \/ UserReturn \/ HandleEvent \/ HandleHup \/ HandleError \/ HandleRead
    \/ HandleWrite \/ CloseCallback \/ RemoveChannel

Next ==
    \/ OwnerStep
    \/ \E t \in Threads : ThreadCall(t) \/ ThreadSetState(t) \/ ThreadQueue(t)
    \/ Functor \/ Handler
    \/ \E w \in BOOLEAN : Poll(w)
    \/ DelayedForceClose
    \/ RemoveConnectionInLoop \/ ServerDtor
    \/ PeerSend \/ PeerClose \/ PeerReset

Spec == Init /\ [][Next]_vars

\* Loops and threads are scheduled, callbacks return, timers fire, and the kernel
\* makes room for output again and again.
Fairness ==
    /\ WF_vars(Functor) /\ WF_vars(Handler) /\ SF_vars(Poll(TRUE))
    /\ WF_vars(DelayedForceClose) /\ WF_vars(RemoveConnectionInLoop)
    /\ \A t \in Threads : WF_vars(ThreadSetState(t)) /\ WF_vars(ThreadQueue(t))

FairSpec == Spec /\ Fairness

-----------------------------------------------------------------------------
(* Properties.                                                             *)

Bytes == (1..MaxCalls) \X Nat

\* The connection, its channel and the loop thread are in one of their states, only
\* bytes of messages are in the output buffer, and the state is kConnecting exactly
\* until connectEstablished runs.
TypeOK ==
    /\ state \in StateE
    /\ state = "kConnecting" <=>
         \E i \in DOMAIN pending : pending[i].op = "connectEstablished"
    /\ reading \in BOOLEAN /\ fin \in BOOLEAN
    /\ index \in {"kNew", "kAdded", "kDeleted"}
    /\ events \subseteq {"read", "write"}
    /\ output \in Seq(Bytes) /\ wire \in Seq(Bytes) /\ accepted \in Seq(Bytes)
    /\ peer \in {"open", "closed", "reset", "gone"}
    /\ inbox \in 0..MaxInput /\ inputs \in 0..MaxInput
    /\ server \in {"holds", "removed", "dead"}
    /\ removing \in Nat /\ destroyed \in Nat /\ closed \in BOOLEAN
    /\ calls \in 0..MaxCalls
    /\ todo \in Seq({"user", "dispatch", "hup", "err", "in", "out",
                     "closeCallback", "remove"})

\* What was written, followed by what waits in the output buffer, is what sendInLoop
\* took, byte for byte: a message sent while another waits never overtakes it, and
\* partial writes neither lose nor repeat a byte.
StreamIntact == wire \o output = accepted

\* A connection that is not closed asks for write events exactly while bytes wait:
\* it neither spins on a writable socket nor leaves bytes behind.
WritingIffOutput ==
    ~closed =>
        ("write" \in events <=> output # <<>>)

\* The write side is shut down only behind the last byte that was taken: shutdown
\* with bytes waiting is put off to the handleWrite that writes the last of them.
FinLast == fin /\ ~closed => output = <<>>

\* connectDestroyed "should be called only once" (TcpConnection.h:114): handleClose
\* reports the close to the server once, whatever events and calls coincide.
DestroyedOnce == destroyed <= 1 /\ removing <= 1

\* Channel::remove asserts that no event is asked for (Channel.cc:61), so the poller
\* does not keep a channel of a connection that is about to go.
RemovedClean == todo # <<>> /\ Head(todo) = "remove" => events = {}

\* The asserts of ~TcpConnection (TcpConnection.cc:71) and ~Channel (Channel.cc:40):
\* when nobody holds the connection any more it is disconnected and out of the loop.
DtorAsserts == ~Alive => state = "kDisconnected" /\ index = "kNew"

\* Bytes that were taken are written, unless the connection is closed first.
OutputDrains == output # <<>> ~> output = <<>> \/ state = "kDisconnected"

\* shutdown() and forceClose() take effect: the write side is shut down, or the
\* connection closed.
ShutdownHappens == state = "kDisconnecting" ~> fin \/ state = "kDisconnected"

\* A connection that is closed is taken out of the server and out of its loop.
ClosedIsDestroyed == state = "kDisconnected" ~> destroyed > 0 /\ index = "kNew"

\* The output side is sound: the stream intact, write events asked for while bytes
\* wait, and the FIN behind the last byte.
OutputSound == TypeOK /\ StreamIntact /\ WritingIffOutput /\ FinLast

\* However it was closed, a connection goes with a clean channel, and its destructor
\* finds what it asserts.
CleanAtEnd == RemovedClean /\ DtorAsserts

\* What was sent drains, and shutdown() takes effect behind it.
OutputEnds == OutputDrains /\ ShutdownHappens
=============================================================================
