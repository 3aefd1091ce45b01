----------------------------- MODULE TcpClient -----------------------------
(***************************************************************************)
(* muduo::net::TcpClient with its Connector: the calls of its user, in the *)
(* loop thread or in another one, the connections it makes one after the   *)
(* other, and its destruction in the loop thread.  A connection is what    *)
(* the client sees of it: its state, the close callback it is given and    *)
(* whether it was destroyed.                                               *)
(***************************************************************************)
EXTENDS Connector, FiniteSets

CONSTANTS
    MaxConnects,  \* how often the user calls connect() (a bound)
    MaxStops,     \* how often the user calls stop() (a bound)
    MaxConns      \* how many connections are established (a bound)

ASSUME ClientAssumption == MaxConns \in Nat

VARIABLES
    client,    \* the TcpClient: connect_, retry_, connection_ and its lifetime
    conns,     \* the connections made so far, in the order of nextConnId_
    at,        \* where the loop thread and the user's thread are
    calls,     \* how often connect() and stop() were called
    stopped    \* history: who called stop() last, since connect()

vars == <<connector, pending, batch, client, conns, at, calls, stopped>>
user == <<at, calls, stopped>>

Threads == {"loop", "user"}
Places == {"idle", "start", "stop", "restart"}
ConnIds == 1 .. MaxConns
NextConnId == Len(conns) + 1

Init ==
    /\ ConnectorInit
    /\ client = [alive |-> TRUE, connect |-> TRUE, retry |-> FALSE, connection |-> 0,
                 keeps |-> FALSE]
    /\ conns = <<>>
    /\ at = [t \in Threads |-> "idle"] /\ calls = [connect |-> 0, stop |-> 0] /\ stopped = "nobody"

Goto(t, place) == at' = [at EXCEPT ![t] = place]
InLoop == at["loop"] = "idle"

-----------------------------------------------------------------------------
(* The user's calls set flags and then reach the loop: connect() through   *)
(* runInLoop, which in the loop thread is a plain call, stop() through     *)
(* queueInLoop.                                                            *)

Calls(t) == client.alive /\ at[t] = "idle"

EnableRetry(t) ==
    /\ Calls(t) /\ ~client.retry
    /\ client' = [client EXCEPT !.retry = TRUE]
    /\ UNCHANGED <<connector, pending, batch, conns, user>>

Connect(t) ==
    /\ Calls(t) /\ calls.connect < MaxConnects
    /\ client' = [client EXCEPT !.connect = TRUE]
    /\ connector' = [connector EXCEPT !.connect = TRUE, !.gaveUp = FALSE]
    /\ Goto(t, "start") /\ calls' = [calls EXCEPT !.connect = @ + 1] /\ stopped' = "nobody"
    /\ UNCHANGED <<pending, batch, conns>>

Start(t) ==
    /\ at[t] = "start"
    /\ Goto(t, "idle")
    /\ IF t = "loop"
       THEN connector' \in StartInLoop(connector) /\ UNCHANGED pending
       ELSE QueueInLoop(Call("startInLoop")) /\ UNCHANGED connector
    /\ UNCHANGED <<batch, client, conns, calls, stopped>>

Stop(t) ==
    /\ Calls(t) /\ calls.stop < MaxStops
    /\ client' = [client EXCEPT !.connect = FALSE]
    /\ connector' = [connector EXCEPT !.connect = FALSE]
    /\ Goto(t, "stop") /\ calls' = [calls EXCEPT !.stop = @ + 1] /\ stopped' = t
    /\ UNCHANGED <<pending, batch, conns>>

QueueStop(t) ==
    /\ at[t] = "stop"
    /\ Goto(t, "idle")
    /\ QueueInLoop(Call("stopInLoop"))
    /\ UNCHANGED <<connector, batch, client, conns, calls, stopped>>

Disconnect(t) ==
    /\ Calls(t)
    /\ client' = [client EXCEPT !.connect = FALSE]
    /\ conns' = [i \in DOMAIN conns |->
                    IF i = client.connection /\ conns[i].state = "kConnected"
                    THEN [conns[i] EXCEPT !.state = "kDisconnecting"] ELSE conns[i]]
    /\ UNCHANGED <<connector, pending, batch, user>>

ForceClose(t) ==
    /\ Calls(t) /\ client.connection # 0
    /\ conns[client.connection].state = "kConnected"
    /\ conns' = [conns EXCEPT ![client.connection].state = "kDisconnecting"]
    /\ QueueInLoop([call |-> "forceCloseInLoop", conn |-> client.connection])
    /\ UNCHANGED <<connector, batch, client, user>>

(* ~TcpClient.  The user may hold the connection too; then it is not       *)
(* unique and is left open, with a close callback that does not need the   *)
(* client.  Without a connection the connector is stopped, and a timer     *)
(* keeps it for a second.                                                  *)
Orphan_StillBound(i) == conns[i]

Orphan(i) == [conns[i] EXCEPT !.cb = "detail"]

DtorConnected(unique) ==
    /\ Calls("loop") /\ at["user"] = "idle" /\ client.connection # 0
    /\ client' = [client EXCEPT !.alive = FALSE, !.connection = 0]
    /\ LET i == client.connection
       IN IF unique
          THEN /\ conns' = [conns EXCEPT ![i] = [Orphan(i) EXCEPT !.state = "kDisconnecting"]]
               /\ QueueInLoop([call |-> "forceCloseInLoop", conn |-> i])
          ELSE conns' = [conns EXCEPT ![i] = Orphan(i)] /\ UNCHANGED pending
    /\ UNCHANGED <<connector, batch, user>>

DtorUnconnected ==
    /\ Calls("loop") /\ at["user"] = "idle" /\ client.connection = 0
    /\ client' = [client EXCEPT !.alive = FALSE, !.keeps = TRUE]
    /\ connector' = [connector EXCEPT !.connect = FALSE]
    /\ QueueInLoop(Call("stopInLoop"))
    /\ UNCHANGED <<batch, conns, user>>

RemoveConnector ==
    /\ InLoop /\ TimersExpire /\ client.keeps
    /\ client' = [client EXCEPT !.keeps = FALSE]
    /\ UNCHANGED <<connector, pending, batch, conns, user>>

-----------------------------------------------------------------------------
(* The loop thread.                                                        *)

ConnectorStep ==
    /\ InLoop
    /\ TakeBatch \/ FunctorStart \/ FunctorStop \/ FunctorReset \/ RetryTimer \/ AttemptFails
    /\ UNCHANGED <<client, conns, user>>

NewConnection ==
    /\ NextConnId \in ConnIds
    /\ conns' = Append(conns, [state |-> "kConnected", cb |-> "client", destroyed |-> 0])
    /\ client' = [client EXCEPT !.connection = NextConnId]

HandleWrite ==
    /\ InLoop /\ AttemptSucceeds
    /\ IF connector.connect THEN NewConnection ELSE UNCHANGED <<client, conns>>
    /\ UNCHANGED user

(* handleClose of connection i, up to the end of its close callback or to  *)
(* the call of restart(), which follows the test of retry_ and connect_.   *)
RemoveConnection_NoQueue(i) ==
    /\ conns' = [conns EXCEPT ![i].state = "kDisconnected"]
    /\ client' = [client EXCEPT !.connection = 0] /\ UNCHANGED pending
    /\ Goto("loop", IF client.retry /\ client.connect THEN "restart" ELSE "idle")

RemoveConnection(i) ==
    /\ conns' = [conns EXCEPT ![i].state = "kDisconnected"]
    /\ QueueInLoop([call |-> "connectDestroyed", conn |-> i])
    /\ IF conns[i].cb = "client"
       THEN /\ client' = [client EXCEPT !.connection = 0]
            /\ Goto("loop", IF client.retry /\ client.connect THEN "restart" ELSE "idle")
       ELSE UNCHANGED <<client, at>>

(* The poll that reports a new connection's channel comes after the        *)
(* functors of the iteration that made it, resetChannel among them.        *)
HandleClose(i) ==
    /\ InLoop /\ BetweenBatches /\ Call("resetChannel") \notin Queued
    /\ conns[i].state \in {"kConnected", "kDisconnecting"}
    /\ RemoveConnection(i)
    /\ UNCHANGED <<connector, batch, calls, stopped>>

ForceCloseInLoop ==
    /\ InLoop /\ Run("forceCloseInLoop")
    /\ LET i == Head(batch).conn
       IN IF conns[i].state \in {"kConnected", "kDisconnecting"}
          THEN RemoveConnection(i) ELSE UNCHANGED <<conns, client, pending, at>>
    /\ UNCHANGED <<connector, calls, stopped>>

RestartConnector ==
    /\ at["loop"] = "restart"
    /\ Goto("loop", "idle")
    /\ connector' \in Restart(connector)
    /\ UNCHANGED <<pending, batch, client, conns, calls, stopped>>

ConnectDestroyed ==
    /\ InLoop /\ Run("connectDestroyed")
    /\ conns' = [conns EXCEPT ![Head(batch).conn].destroyed = @ + 1]
    /\ UNCHANGED <<connector, pending, client, user>>

Returns(t) == Start(t) \/ QueueStop(t)
LoopStep == ConnectorStep \/ ForceCloseInLoop \/ RestartConnector \/ ConnectDestroyed
UserCall(t) == EnableRetry(t) \/ Connect(t) \/ Stop(t) \/ Disconnect(t) \/ ForceClose(t)
Dtor == DtorUnconnected \/ \E unique \in BOOLEAN : DtorConnected(unique)

Next ==
    \/ \E t \in Threads : UserCall(t) \/ Returns(t)
    \/ Dtor \/ RemoveConnector
    \/ LoopStep \/ HandleWrite
    \/ \E i \in DOMAIN conns : HandleClose(i)

Spec == Init /\ [][Next]_vars

(* The loop runs, calls return and timers expire.  A server that can be    *)
(* reached again and again is reached in the end: that is strong fairness  *)
(* of the attempts that get through.                                       *)
FairSpec ==
    /\ Spec
    /\ WF_vars(LoopStep) /\ \A t \in Threads : WF_vars(Returns(t))
    /\ SF_vars(HandleWrite)
    /\ SF_vars(ConnectorStep /\ connector'.timers < connector.timers
                             /\ connector'.channel = "added")

-----------------------------------------------------------------------------
TypeOK ==
    /\ connector.state \in States /\ connector.channel \in Channels
    /\ connector.timers \in Nat
    /\ connector.delay \in kInitRetryDelayMs .. kMaxRetryDelayMs
    /\ \A f \in Queued : f.conn \in 0 .. Len(conns)
    /\ Len(conns) <= MaxConns /\ client.connection \in 0 .. Len(conns)
    /\ at \in [Threads -> Places] /\ stopped \in Threads \cup {"nobody"}

(* However attempts, retry timers, restarts and stops interleave, a client *)
(* whose connect() was called once has one attempt or one connection.      *)
Attempts ==
    Cardinality({t \in Threads : at[t] \in {"start", "restart"}})
    + Cardinality(Queued \cap {Call("startInLoop")})
    + Cardinality({"added"} \cap {connector.channel}) + connector.timers
OneAttempt ==
    /\ Attempts <= 1
    /\ client.connection # 0 => Attempts = 0

(* The asserts of startInLoop and connecting (Connector.cc:49 and 131):    *)
(* when startInLoop runs there is no attempt and the channel of the last   *)
(* one is gone.                                                            *)
StartsInLoop ==
    \/ at["loop"] = "start"
    \/ InLoop /\ batch # <<>> /\ Head(batch) = Call("startInLoop")
    \/ InLoop /\ TimersExpire /\ connector.timers > 0
StartsAfresh ==
    /\ StartsInLoop => connector.state = "kDisconnected" /\ connector.channel = "none"
    /\ at["loop"] = "restart" => connector.channel = "none"

(* Callbacks bound to the raw TcpClient are called only while it exists:   *)
(* newConnection by the connector, removeConnection by a connection, which *)
(* is then connection_ (TcpClient.cc:169).                                 *)
Open(i) == conns[i].state # "kDisconnected"
CallbacksFindClient ==
    /\ connector.channel = "added" /\ connector.connect => client.alive
    /\ \A i \in DOMAIN conns : Open(i) /\ conns[i].cb = "client" =>
                                   client.alive /\ client.connection = i

(* Functors bound to the raw Connector run while it exists.                *)
ConnectorExists == client.alive \/ client.keeps \/ connector.timers > 0
UsesConnector(f) == f.call \in {"startInLoop", "stopInLoop", "resetChannel"}
FunctorsFindConnector == (\E f \in Queued : UsesConnector(f)) => ConnectorExists

(* After a client that has no connection is destroyed, the second for      *)
(* which the connector is kept is enough for the functors that stop it.    *)
StoppedConnectorKept ==
    (\A i \in DOMAIN conns : conns[i].cb = "client") => FunctorsFindConnector

(* connectDestroyed is called once per connection, when it is closed.      *)
DestroyedOnce ==
    \A i \in DOMAIN conns : conns[i].destroyed <= 1 /\ (conns[i].destroyed = 1 => ~Open(i))

(* The functor of a stop() has run, and no thread is inside a call.        *)
Halted ==
    /\ Call("stopInLoop") \notin Queued
    /\ \A t \in Threads : at[t] = "idle"

(* A stop() in the loop thread holds: nothing connects before the next     *)
(* connect().  One in another thread may be overwritten by restart().      *)
StopInLoopHolds ==
    stopped = "loop" /\ Halted => ~connector.connect /\ connector.state # "kConnecting"

(* A client that is to connect, or to connect again, does, unless it is    *)
(* stopped or connect(2) fails with an error that is not retried.          *)
GetsConnected ==
    connector.connect ~> \/ connector.state = "kConnected" /\ at["loop"] # "restart"
                         \/ ~connector.connect \/ connector.gaveUp
                         \/ NextConnId > MaxConns

(* A connection that was closed, or that only the destroyed client held,   *)
(* reaches connectDestroyed.                                               *)
ClosedIsDestroyed ==
    \A i \in ConnIds :
        (i \in DOMAIN conns /\ (~Open(i) \/ [call |-> "forceCloseInLoop", conn |-> i] \in Queued))
            ~> (i \in DOMAIN conns /\ conns[i].destroyed = 1)

(* Attempts follow one another: there is one at a time, it starts when the *)
(* last one is cleaned up, and none follows a stop() in the loop.          *)
OneAtATime == TypeOK /\ OneAttempt /\ StartsAfresh /\ StopInLoopHolds

(* Nothing that was destroyed is called: not the client, not the connector *)
(* that is being stopped, and no connection is destroyed twice.            *)
NothingDangles == CallbacksFindClient /\ StoppedConnectorKept /\ DestroyedOnce
=============================================================================
