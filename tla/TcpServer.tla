----------------------------- MODULE TcpServer -----------------------------
(***************************************************************************)
(* muduo::net::TcpServer with its Acceptor and its EventLoopThreadPool:    *)
(* connections accepted in the base loop, given to the loops of the pool   *)
(* in turn, closed there, removed from the server's map in the base loop   *)
(* and destroyed in their own loop again; the descriptors they take from   *)
(* a process that has few; and the destruction of the server, which stops  *)
(* the pool.                                                               *)
(*                                                                         *)
(* A loop is a functor queue and the batch that is being run.  Its poll    *)
(* comes back by itself after a while, so it needs no wakeup here.         *)
(***************************************************************************)
EXTENDS Naturals, Sequences, FiniteSetsExt

CONSTANTS
    ThreadNums,  \* the values given to setThreadNum
    MaxPeers,    \* how many peers connect (a bound)
    Descriptors  \* how many connections the descriptor limit leaves room for

ASSUME ServerAssumption == ThreadNums \subseteq Nat /\ Descriptors \in Nat

VARIABLES
    numThreads,  \* _num_threads of the pool
    server,      \* the phase of the server's life
    pool,        \* _loops and _next
    connections, \* _connections
    conns,       \* every TcpConnection made, in the order of _next_conn_id
    backlog,     \* peers waiting to be accepted
    refused,     \* peers that were accepted only to be closed
    free,        \* unused descriptors of the process, idleFd_ not counted
    loops        \* the base loop, 0, and the loops of the pool

vars == <<numThreads, server, pool, connections, conns, backlog, refused, free, loops>>
acceptor == <<backlog, refused, free>>

Base == 0
PoolLoops == 1 .. numThreads
Loops == {Base} \cup PoolLoops
Phases == {"constructed", "started", "destructing", "destroyed"}
States == {"kConnecting", "kConnected", "kDisconnected"}

Functor(f, c) == [call |-> f, conn |-> c]
Queued(l) == Range(loops[l].batch) \cup Range(loops[l].pending)
Running(l) == loops[l].at \in {"poll", "functors"}

Init ==
    /\ numThreads \in ThreadNums
    /\ server = [phase |-> "constructed", joins |-> 1]
    /\ pool = [loops |-> <<>>, next |-> 1]
    /\ connections = {} /\ conns = <<>>
    /\ backlog = 0 /\ refused = 0 /\ free = Descriptors
    /\ loops = [l \in Loops |-> [at |-> IF l = Base THEN "poll" ELSE "none", quit |-> FALSE,
                                 pending |-> <<>>, batch |-> <<>>]]

-----------------------------------------------------------------------------
(* EventLoop.                                                              *)

Push(ls, l, f) == [ls EXCEPT ![l].pending = Append(@, f)]

(* From the handlers of poll to the functors that are queued by now.       *)
TakeBatch(l) ==
    /\ loops[l].at = "poll"
    /\ l = Base => server.phase # "destructing" /\ loops[l].pending # <<>>
    /\ loops' = [loops EXCEPT ![l] = [at |-> "functors", quit |-> @.quit,
                                      pending |-> <<>>, batch |-> @.pending]]
    /\ UNCHANGED <<numThreads, server, pool, connections, conns, acceptor>>

(* loop() looks at _quit once per iteration; EventLoopThread then lets the *)
(* loop go, with the functors that are still queued.                       *)
EndIteration(l) ==
    /\ loops[l].at = "functors" /\ loops[l].batch = <<>>
    /\ loops' = [loops EXCEPT ![l].at = IF loops[l].quit THEN "exited" ELSE "poll"]
    /\ UNCHANGED <<numThreads, server, pool, connections, conns, acceptor>>

Handles(l) == loops[l].at = "poll" /\ (l = Base => server.phase = "started")

Runs(l, f) ==
    /\ loops[l].at = "functors" /\ loops[l].batch # <<>>
    /\ Head(loops[l].batch).call = f
    /\ l = Base => server.phase # "destructing"
Popped(l) == [loops EXCEPT ![l].batch = Tail(@)]

-----------------------------------------------------------------------------
(* EventLoopThreadPool.                                                    *)

StartPool == pool' = [pool EXCEPT !.loops = [i \in PoolLoops |-> i]]

Advance(n) == IF n + 1 > Len(pool.loops) THEN 1 ELSE n + 1

GetNextLoop == IF pool.loops = <<>> THEN Base ELSE pool.loops[pool.next]

-----------------------------------------------------------------------------
(* TcpServer and Acceptor, in the base loop.                               *)

(* start() may be called again and then does nothing.                      *)
Start ==
    /\ server.phase = "constructed"
    /\ server' = [server EXCEPT !.phase = "started"]
    /\ StartPool
    /\ loops' = [l \in Loops |-> [loops[l] EXCEPT !.at = "poll"]]
    /\ UNCHANGED <<numThreads, connections, conns, acceptor>>

PeerConnects ==
    /\ server.phase = "started"
    /\ backlog + refused + Len(conns) < MaxPeers
    /\ backlog' = backlog + 1
    /\ UNCHANGED <<numThreads, server, pool, connections, conns, refused, free, loops>>

Established(c) == [c EXCEPT !.state = "kConnected"]

NewConnection ==
    /\ LET io == GetNextLoop
           c == [loop |-> io, state |-> "kConnecting", destroyed |-> 0]
           n == Len(conns) + 1
       IN /\ connections' = connections \cup {n}
          /\ IF io = Base
             THEN conns' = Append(conns, Established(c)) /\ UNCHANGED loops
             ELSE /\ conns' = Append(conns, c)
                  /\ loops' = Push(loops, io, Functor("connectEstablished", n))
    /\ pool' = IF pool.loops = <<>> THEN pool ELSE [pool EXCEPT !.next = Advance(@)]

HandleRead ==
    /\ Handles(Base) /\ backlog > 0 /\ free > 0
    /\ backlog' = backlog - 1 /\ free' = free - 1
    /\ NewConnection
    /\ UNCHANGED <<numThreads, server, refused>>

HandleReadFull_NoReserve ==
    /\ Handles(Base) /\ backlog > 0 /\ free = 0
    /\ UNCHANGED vars

(* accept fails with EMFILE: idleFd_ is given up for a moment to accept    *)
(* the peer and close it, and then opened again.  No other thread of the   *)
(* library opens a descriptor in between.                                  *)
HandleReadFull ==
    /\ Handles(Base) /\ backlog > 0 /\ free = 0
    /\ backlog' = backlog - 1 /\ refused' = refused + 1
    /\ UNCHANGED <<numThreads, server, pool, connections, conns, free, loops>>

RemoveConnectionInLoop_NoQueue(c, ls) ==
    /\ connections' = connections \ {c}
    /\ loops' = ls

RemoveConnectionInLoop(c, ls) ==
    /\ connections' = connections \ {c}
    /\ loops' = Push(ls, conns[c].loop, Functor("connectDestroyed", c))

(* The functor is bound to the raw server.  When that is gone the loops of *)
(* the pool are gone too, and whatever it does reaches no connection.      *)
FunctorRemove ==
    /\ Runs(Base, "removeConnectionInLoop")
    /\ IF server.phase = "destroyed"
       THEN loops' = Popped(Base) /\ UNCHANGED connections
       ELSE RemoveConnectionInLoop(Head(loops[Base].batch).conn, Popped(Base))
    /\ UNCHANGED <<numThreads, server, pool, conns, acceptor>>

(* ~TcpServer, in the base loop between events or functors: connectDestroyed *)
(* is run or queued for every connection, and then the threads of the pool *)
(* are told to quit and joined, one after the other.                       *)
Close(c) == [loop |-> c.loop, state |-> "kDisconnected", destroyed |-> c.destroyed + 1]

(* The functors of S one behind the other, in the order of the map.        *)
Sequenced(S) == CHOOSE s \in [1 .. Cardinality(S) -> S] : IsInjective(s)

Swept_OnlyConnected == {c \in connections : conns[c].state = "kConnected"}

Swept == connections

Dtor ==
    /\ Running(Base) /\ server.phase \in {"constructed", "started"}
    /\ server' = [server EXCEPT !.phase = "destructing"]
    /\ connections' = {}
    /\ conns' = [c \in DOMAIN conns |->
                    IF c \in Swept /\ conns[c].loop = Base THEN Close(conns[c]) ELSE conns[c]]
    /\ free' = free + Cardinality({c \in Swept : conns[c].loop = Base})
    /\ loops' = [l \in Loops |->
                    IF l = Base THEN loops[l]
                    ELSE [loops[l] EXCEPT !.pending = @ \o
                            Sequenced({Functor("connectDestroyed", c) :
                                         c \in {d \in Swept : conns[d].loop = l}})]]
    /\ UNCHANGED <<numThreads, pool, backlog, refused>>

Quit ==
    /\ server.phase = "destructing" /\ server.joins <= Len(pool.loops)
    /\ ~loops[server.joins].quit
    /\ loops' = [loops EXCEPT ![server.joins].quit = TRUE]
    /\ UNCHANGED <<numThreads, server, pool, connections, conns, acceptor>>

Joined ==
    /\ server.phase = "destructing"
    /\ IF server.joins <= Len(pool.loops)
       THEN loops[server.joins].at = "exited" /\ server' = [server EXCEPT !.joins = @ + 1]
       ELSE server' = [server EXCEPT !.phase = "destroyed"]
    /\ UNCHANGED <<numThreads, pool, connections, conns, acceptor, loops>>

-----------------------------------------------------------------------------
(* TcpConnection, in its own loop.                                         *)

FunctorEstablished(l) ==
    /\ Runs(l, "connectEstablished")
    /\ conns' = [conns EXCEPT ![Head(loops[l].batch).conn] = Established(@)]
    /\ loops' = Popped(l)
    /\ UNCHANGED <<numThreads, server, pool, connections, acceptor>>

HandleClose(c) ==
    /\ Handles(conns[c].loop) /\ conns[c].state = "kConnected"
    /\ conns' = [conns EXCEPT ![c].state = "kDisconnected"]
    /\ IF conns[c].loop = Base
       THEN RemoveConnectionInLoop(c, loops)
       ELSE /\ loops' = Push(loops, Base, Functor("removeConnectionInLoop", c))
            /\ UNCHANGED connections
    /\ UNCHANGED <<numThreads, server, pool, acceptor>>

FunctorDestroyed(l) ==
    /\ Runs(l, "connectDestroyed")
    /\ conns' = [conns EXCEPT ![Head(loops[l].batch).conn] = Close(@)]
    /\ free' = free + 1
    /\ loops' = Popped(l)
    /\ UNCHANGED <<numThreads, server, pool, connections, backlog, refused>>

LoopStep(l) == TakeBatch(l) \/ EndIteration(l) \/ FunctorEstablished(l) \/ FunctorDestroyed(l)
Accept == HandleRead \/ HandleReadFull
Destruct == Quit \/ Joined

Next ==
    \/ Start \/ PeerConnects \/ Accept \/ FunctorRemove \/ Dtor \/ Destruct
    \/ \E l \in Loops : LoopStep(l)
    \/ \E c \in DOMAIN conns : HandleClose(c)

Spec == Init /\ [][Next]_vars

(* Every loop keeps running, the listening socket is polled again and      *)
(* again, and the thread in the destructor goes on.                        *)
FairSpec ==
    /\ Spec
    /\ \A l \in 0 .. Max(ThreadNums) : WF_vars(l \in Loops /\ LoopStep(l))
    /\ WF_vars(FunctorRemove) /\ WF_vars(Destruct)
    /\ SF_vars(Accept)

-----------------------------------------------------------------------------
TypeOK ==
    /\ server.phase \in Phases /\ server.joins \in 1 .. numThreads + 1
    /\ pool.next \in 1 .. Len(pool.loops) + 1
    /\ pool.loops # <<>> => pool.next \in DOMAIN pool.loops
    /\ connections \subseteq DOMAIN conns
    /\ \A c \in DOMAIN conns : conns[c].state \in States /\ conns[c].loop \in Loops
    /\ free \in 0 .. Descriptors

(* A connection is in the map until removeConnectionInLoop erases it, and  *)
(* that finds it there (the assert of TcpServer.cc:96) exactly once.       *)
Leaving == {c \in DOMAIN conns : Functor("removeConnectionInLoop", c) \in Queued(Base)}
ErasedOnce ==
    server.phase = "started" =>
        /\ Leaving \subseteq connections
        /\ \A c \in DOMAIN conns : c \in connections <=>
               c \in Leaving \/ conns[c].state # "kDisconnected"

(* connectEstablished comes first (TcpConnection.cc:326) and               *)
(* connectDestroyed comes once, whatever the loops do in between.          *)
InTurn ==
    \A c \in DOMAIN conns :
        /\ conns[c].destroyed <= 1
        /\ conns[c].destroyed = 1 => conns[c].state = "kDisconnected"
        /\ Functor("connectEstablished", c) \in Queued(conns[c].loop) =>
               conns[c].state = "kConnecting"

(* No loop of the pool is given two connections more than another.         *)
Load(l) == Cardinality({c \in DOMAIN conns : conns[c].loop = l})
Balanced == \A k, l \in PoolLoops : Load(k) <= Load(l) + 1

(* When the destructor has begun, every connection is destroyed or will be *)
(* by a functor in the queue of its loop, unless that loop has exited.     *)
DtorForgetsNone ==
    server.phase \in {"destructing", "destroyed"} =>
        \A c \in DOMAIN conns :
            \/ conns[c].destroyed = 1
            \/ Functor("connectDestroyed", c) \in Queued(conns[c].loop)
            \/ loops[conns[c].loop].at = "exited"

(* ~TcpConnection finds the state kDisconnected (TcpConnection.cc:71): a   *)
(* loop of the pool does not go while it has connections to destroy.       *)
LoopsEmptyAtExit ==
    \A c \in DOMAIN conns :
        loops[conns[c].loop].at = "exited" => conns[c].state = "kDisconnected"

(* A peer is accepted, or turned away when there are no descriptors, and   *)
(* is not left in the queue of the listening socket.                       *)
PeersAnswered == backlog > 0 ~> backlog = 0 \/ server.phase # "started"

(* A connection that is closed is erased, destroyed and its descriptor     *)
(* returned.                                                               *)
ClosedIsDestroyed ==
    \A c \in 1 .. MaxPeers :
        (c \in DOMAIN conns /\ conns[c].state = "kDisconnected")
            ~> \/ c \in DOMAIN conns /\ conns[c].destroyed = 1 /\ c \notin connections
               \/ server.phase # "started"

(* The destructor of the server returns: the loops it joins do exit.       *)
DtorReturns == server.phase = "destructing" ~> server.phase = "destroyed"

(* Every connection is accounted for: in the map until it is erased, once, *)
(* in the queue of its loop until it is destroyed, once, also by a dying   *)
(* server, and on the loops in turn.                                       *)
ConnectionsAccounted == TypeOK /\ ErasedOnce /\ InTurn /\ Balanced /\ DtorForgetsNone

(* Closed connections are destroyed, and so is the server.                 *)
ClosesInTheEnd == ClosedIsDestroyed /\ DtorReturns
=============================================================================
