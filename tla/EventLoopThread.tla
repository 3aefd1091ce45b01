-------------------------- MODULE EventLoopThread ---------------------------
(***************************************************************************)
(* muduo::net::EventLoopThread: a thread whose function makes an EventLoop *)
(* on its own stack, publishes a pointer to it, runs loop() and withdraws  *)
(* the pointer; startLoop() waits for the pointer, the destructor quits    *)
(* the loop and joins the thread.  The loop is the module EventLoop, with  *)
(* the thread that owns the EventLoopThread ("main") as its only other     *)
(* thread.                                                                 *)
(*                                                                         *)
(* The condition variable of startLoop is waited for in a loop under the   *)
(* mutex that protects _loop, so the wait is the guard "_loop # NULL".     *)
(* The destructor reads _loop without the mutex.                           *)
(***************************************************************************)
EXTENDS Naturals, Sequences

CONSTANTS Functors, EventfdMax, MaxLoops      \* as in EventLoop

VARIABLES
    pc, loops, quit, calling, pending, functors, active, eventfd, tpc,
    posted, early, ran,               \* the EventLoop
    published,    \* _loop # NULL
    thread,       \* where the loop's thread is in threadFunc()
    main          \* where main is

Loop == INSTANCE EventLoop WITH Threads <- {"main"}

loopVars == <<pc, loops, quit, calling, pending, functors, active, eventfd, tpc,
              posted, early, ran>>
vars == <<loopVars, published, thread, main>>

Init ==
    /\ Loop!Init
    /\ published = FALSE
    /\ thread = "none"
    /\ main = "new"

-----------------------------------------------------------------------------
(* threadFunc().                                                           *)

\* The EventLoop is constructed and the thread-init callback starts; it is
\* user code in the loop's thread before loop().
ThreadConstruct ==
    /\ thread = "started"
    /\ thread' = "callback"
    /\ UNCHANGED <<loopVars, published, main>>

\* Mutant: the pointer is published only after loop() has been entered.
ThreadPublish_Skipped ==
    /\ thread = "callback"
    /\ thread' = "published"
    /\ UNCHANGED <<loopVars, published, main>>

ThreadPublish ==
    /\ thread = "callback"
    /\ published' = TRUE
    /\ thread' = "published"
    /\ UNCHANGED <<loopVars, main>>

ThreadEnterLoop ==
    /\ thread = "published"
    /\ Loop!LoopEnter
    /\ thread' = "looping"
    /\ UNCHANGED <<published, main>>

\* Mutant: the pointer is not withdrawn when loop() returns.
ThreadWithdraw_Dangling ==
    /\ thread = "looping"
    /\ pc = "out"
    /\ thread' = "withdrawn"
    /\ UNCHANGED <<loopVars, published, main>>

\* Under the mutex, after loop() has returned.
ThreadWithdraw ==
    /\ thread = "looping"
    /\ pc = "out"
    /\ published' = FALSE
    /\ thread' = "withdrawn"
    /\ UNCHANGED <<loopVars, main>>

\* The function returns: the mutex is released, then the EventLoop destroyed.
ThreadReturn ==
    /\ thread = "withdrawn"
    /\ thread' = "done"
    /\ UNCHANGED <<loopVars, published, main>>

\* User code in the loop's thread: the thread-init callback, and the callbacks
\* and functors run by loop().
ThreadUserCode ==
    /\ \/ thread = "callback"
       \/ thread = "looping" /\ pc # "out"
    /\ Loop!UserCode
    /\ UNCHANGED <<published, thread, main>>

ThreadLoopStep ==
    /\ thread = "looping"
    /\ Loop!LoopStep \/ Loop!PollTimeout
    /\ UNCHANGED <<published, thread, main>>

-----------------------------------------------------------------------------
(* The owner of the EventLoopThread.                                       *)

\* startLoop(): Thread::start().
StartLoop ==
    /\ main = "new"
    /\ main' = "starting"
    /\ thread' = "started"
    /\ UNCHANGED <<loopVars, published>>

\* startLoop() returns once it has seen _loop # NULL.
StartLoopReturn ==
    /\ main = "starting"
    /\ published
    /\ main' = "running"
    /\ UNCHANGED <<loopVars, published, thread>>

\* The owner uses the loop it got from startLoop().
MainQueue ==
    /\ main = "running"
    /\ \/ \E f \in Functors : Loop!QueueInLoop("main", f)
       \/ Loop!Wakeup("main")
    /\ UNCHANGED <<published, thread, main>>

\* ~EventLoopThread: reads _loop and, if it is NULL, neither quits nor joins.
DtorCheck ==
    /\ main \in {"new", "running"}
    /\ tpc["main"] = "idle"
    /\ main' = IF published THEN "quit" ELSE "done"
    /\ UNCHANGED <<loopVars, published, thread>>

\* ~EventLoopThread: _loop->quit(), first half ...
DtorQuit ==
    /\ main = "quit"
    /\ Loop!Quit("main")
    /\ main' = "wakeup"
    /\ UNCHANGED <<published, thread>>

\* ... and second half.
DtorWakeup ==
    /\ main = "wakeup"
    /\ Loop!Wakeup("main")
    /\ main' = "join"
    /\ UNCHANGED <<published, thread>>

DtorJoin ==
    /\ main = "join"
    /\ thread = "done"
    /\ main' = "done"
    /\ UNCHANGED <<loopVars, published, thread>>

-----------------------------------------------------------------------------
Next ==
    \/ ThreadConstruct \/ ThreadPublish \/ ThreadEnterLoop
    \/ ThreadWithdraw \/ ThreadReturn \/ ThreadUserCode \/ ThreadLoopStep
    \/ StartLoop \/ StartLoopReturn \/ MainQueue
    \/ DtorCheck \/ DtorQuit \/ DtorWakeup \/ DtorJoin

Spec == Init /\ [][Next]_vars

\* Both threads are scheduled, and the callbacks and functors return.  The
\* poll timeout is assumed here (it is a timeout of the kernel), so nothing
\* below can be blamed on its absence.
Fairness ==
    /\ WF_vars(ThreadConstruct) /\ WF_vars(ThreadPublish) /\ WF_vars(ThreadEnterLoop)
    /\ WF_vars(ThreadLoopStep) /\ WF_vars(ThreadWithdraw) /\ WF_vars(ThreadReturn)
    /\ WF_vars(StartLoopReturn)
    /\ WF_vars(main = "running" /\ Loop!Wakeup("main") /\ UNCHANGED <<published, thread, main>>)
    /\ WF_vars(DtorQuit) /\ WF_vars(DtorWakeup) /\ WF_vars(DtorJoin)

FairSpec == Spec /\ Fairness

-----------------------------------------------------------------------------
(* Properties.                                                             *)

\* The EventLoop, threadFunc and the owner are each in a state of their own; the
\* loop keeps its type, counter of the eventfd included, under this client too.
TypeOK ==
    /\ Loop!TypeOK
    /\ published \in BOOLEAN
    /\ thread \in {"none", "started", "callback", "published", "looping", "withdrawn", "done"}
    /\ main \in {"new", "starting", "running", "quit", "wakeup", "join", "done"}

Alive == thread \in {"callback", "published", "looping", "withdrawn"}

\* A pointer that anyone can still read from _loop points to a live EventLoop:
\* threadFunc withdraws it before the EventLoop on its stack goes away, and
\* publishes it only once it is there.
PublishedAlive == published => Alive

\* startLoop() does not wait for ever for _loop.  The one exception the code
\* has: the loop was quit by its own callbacks, and the pointer withdrawn,
\* before the waiting thread got to read it.
StartLoopReturns == main = "starting" ~> main = "running" \/ thread = "done"

\* A quit() by the destructor that reaches the loop inside loop() ends the
\* thread, and the join returns.
QuitJoins == main \in {"wakeup", "join"} /\ pc # "out" /\ quit ~> main = "done"

\* Whatever the interleaving of startLoop, threadFunc and the destructor, _loop
\* never dangles and every variable keeps its type.
LoopPublished == TypeOK /\ PublishedAlive

\* startLoop and, once its quit has reached loop(), the destructor return.
OwnerReturns == StartLoopReturns /\ QuitJoins
=============================================================================
