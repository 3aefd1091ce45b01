----------------------------- MODULE EventLoop ------------------------------
(***************************************************************************)
(* muduo::net::EventLoop: the loop thread polls, handles the active        *)
(* channels and runs the functors that were queued for it; other threads   *)
(* queue functors (queueInloop, runInLoop) or ask it to quit, and wake it  *)
(* through an eventfd.                                                     *)
(*                                                                         *)
(* pc is the place of the loop thread in loop(); _looping is pc # "out",   *)
(* and _event_handling is pc \in {"handle", "io"}.  Besides the wakeup     *)
(* channel there is one more channel, "io", which stands for every other   *)
(* channel of the loop.  User code runs in the loop thread outside loop()  *)
(* (pc = "out"), in the callback of "io" (pc = "io") and in a functor      *)
(* (pc = "functor"); there it may use the loop itself.                     *)
(***************************************************************************)
EXTENDS Naturals, Sequences, Functions

CONSTANTS
    Threads,      \* the threads other than the loop's own
    Functors,     \* the callbacks, each submitted at most once (a bound)
    EventfdMax,   \* the largest value an eventfd counter can hold
    MaxLoops      \* how often loop() is called (a bound)

ASSUME EventfdAssumption == EventfdMax \in Nat \ {0}

VARIABLES
    pc,           \* where the loop thread is
    loops,        \* number of calls of loop() so far
    quit,         \* _quit
    calling,      \* _calling_pending_functors
    pending,      \* _pending_functors
    functors,     \* the batch of doPendingFunctors that has not run yet
    active,       \* _active_channels not yet handled
    eventfd,      \* the counter behind _wake_up_fd
    tpc,          \* where each other thread is: "idle", or "wake" before wakeup()
    posted,       \* history: every functor submitted
    early,        \* history: functors the owner queued while not in loop()
    ran           \* history: the functors started, in order

queues == <<pending, functors>>
history == <<posted, early, ran>>
vars == <<pc, loops, quit, calling, queues, active, eventfd, tpc, history>>

Channels == {"wakeup", "io"}
Places == {"out", "test", "poll", "handle", "io", "swap", "run", "functor"}

\* User code is executing in the loop thread.
InUserCode == pc \in {"out", "io", "functor"}

Init ==
    /\ pc = "out"
    /\ loops = 0
    /\ quit = FALSE
    /\ calling = FALSE
    /\ pending = <<>>
    /\ functors = <<>>
    /\ active = {}
    /\ eventfd = 0
    /\ tpc = [t \in Threads |-> "idle"]
    /\ posted = {}
    /\ early = {}
    /\ ran = <<>>

-----------------------------------------------------------------------------
(* Operations that any thread may call.                                    *)

\* wakeup(): adds one to the counter, or fails with EAGAIN at the maximum
\* (the descriptor is non-blocking and the failure is only logged).
wakeup(n) == IF n < EventfdMax THEN n + 1 ELSE n

\* Mutant: queueInloop leaves the loop asleep.
QueueInLoop_NoWakeup(t, f) ==
    /\ tpc[t] = "idle"
    /\ f \notin posted
    /\ posted' = posted \cup {f}
    /\ pending' = Append(pending, f)
    /\ UNCHANGED <<pc, loops, quit, calling, functors, active, eventfd, tpc, early, ran>>

\* queueInloop, or runInLoop which calls it, in a thread that is not the
\* loop's own: the push is under the mutex, wakeup() follows outside of it.
QueueInLoop(t, f) ==
    /\ tpc[t] = "idle"
    /\ f \notin posted
    /\ posted' = posted \cup {f}
    /\ pending' = Append(pending, f)
    /\ tpc' = [tpc EXCEPT ![t] = "wake"]
    /\ UNCHANGED <<pc, loops, quit, calling, functors, active, eventfd, early, ran>>

\* Mutant: quit() leaves the loop asleep.
Quit_NoWakeup(t) ==
    /\ tpc[t] = "idle"
    /\ quit' = TRUE
    /\ UNCHANGED <<pc, loops, calling, queues, active, eventfd, tpc, history>>

\* quit() in a thread that is not the loop's own.
Quit(t) ==
    /\ tpc[t] = "idle"
    /\ quit' = TRUE
    /\ tpc' = [tpc EXCEPT ![t] = "wake"]
    /\ UNCHANGED <<pc, loops, calling, queues, active, eventfd, history>>

\* The second half of QueueInLoop and of Quit.
Wakeup(t) ==
    /\ tpc[t] = "wake"
    /\ eventfd' = wakeup(eventfd)
    /\ tpc' = [tpc EXCEPT ![t] = "idle"]
    /\ UNCHANGED <<pc, loops, quit, calling, queues, active, history>>

\* Mutant: queueInloop without "|| _calling_pending_functors".
OwnerQueueInLoop_NeverWakes(f) ==
    /\ InUserCode
    /\ f \notin posted
    /\ posted' = posted \cup {f}
    /\ pending' = Append(pending, f)
    /\ early' = IF pc = "out" THEN early \cup {f} ELSE early
    /\ UNCHANGED <<pc, loops, quit, calling, functors, active, eventfd, tpc, ran>>

\* queueInloop in the loop thread: it wakes the loop only while functors are
\* being called.  Nothing the other threads can see separates the two halves.
OwnerQueueInLoop(f) ==
    /\ InUserCode
    /\ f \notin posted
    /\ posted' = posted \cup {f}
    /\ pending' = Append(pending, f)
    /\ eventfd' = IF calling THEN wakeup(eventfd) ELSE eventfd
    /\ early' = IF pc = "out" THEN early \cup {f} ELSE early
    /\ UNCHANGED <<pc, loops, quit, calling, functors, active, tpc, ran>>

\* runInLoop in the loop thread calls the functor at once.
OwnerRunInLoop(f) ==
    /\ InUserCode
    /\ f \notin posted
    /\ posted' = posted \cup {f}
    /\ ran' = Append(ran, f)
    /\ UNCHANGED <<pc, loops, quit, calling, queues, active, eventfd, tpc, early>>

\* quit() in the loop thread does not wake it.
OwnerQuit ==
    /\ InUserCode
    /\ quit' = TRUE
    /\ UNCHANGED <<pc, loops, calling, queues, active, eventfd, tpc, history>>

-----------------------------------------------------------------------------
(* loop().                                                                 *)

LoopEnter ==
    /\ pc = "out"
    /\ loops < MaxLoops
    /\ loops' = loops + 1
    /\ quit' = FALSE
    /\ pc' = "test"
    /\ UNCHANGED <<calling, queues, active, eventfd, tpc, history>>

LoopTest ==
    /\ pc = "test"
    /\ pc' = IF quit THEN "out" ELSE "poll"
    /\ UNCHANGED <<loops, quit, calling, queues, active, eventfd, tpc, history>>

\* poll() returns because some descriptor is ready: the eventfd whenever its
\* counter is not zero, and the others whenever the outside world makes them.
PollReady ==
    /\ pc = "poll"
    /\ \E io \in SUBSET {"io"} :
        active' = io \cup IF eventfd > 0 THEN {"wakeup"} ELSE {}
    /\ active' # {}
    /\ pc' = "handle"
    /\ UNCHANGED <<loops, quit, calling, queues, eventfd, tpc, history>>

\* poll() returns after k_poll_time_ms, or interrupted, with no channel ready.
PollTimeout ==
    /\ pc = "poll"
    /\ eventfd = 0
    /\ pc' = "handle"
    /\ UNCHANGED <<loops, quit, calling, queues, active, eventfd, tpc, history>>

\* EventLoop::handleRead, the callback of the wakeup channel: the read takes
\* the whole counter.
HandleRead ==
    /\ pc = "handle"
    /\ "wakeup" \in active
    /\ active' = active \ {"wakeup"}
    /\ eventfd' = 0
    /\ UNCHANGED <<pc, loops, quit, calling, queues, tpc, history>>

HandleIo ==
    /\ pc = "handle"
    /\ "io" \in active
    /\ active' = active \ {"io"}
    /\ pc' = "io"
    /\ UNCHANGED <<loops, quit, calling, queues, eventfd, tpc, history>>

HandleIoReturn ==
    /\ pc = "io"
    /\ pc' = "handle"
    /\ UNCHANGED <<loops, quit, calling, queues, active, eventfd, tpc, history>>

HandleEnd ==
    /\ pc = "handle"
    /\ active = {}
    /\ pc' = "swap"
    /\ UNCHANGED <<loops, quit, calling, queues, active, eventfd, tpc, history>>

\* Mutant: the pending functors are copied, not swapped.
SwapFunctors_Copy ==
    /\ pc = "swap"
    /\ calling' = TRUE
    /\ functors' = pending
    /\ pc' = "run"
    /\ UNCHANGED <<loops, quit, pending, active, eventfd, tpc, history>>

\* doPendingFunctors(): the flag and, under the mutex, the swap.
SwapFunctors ==
    /\ pc = "swap"
    /\ calling' = TRUE
    /\ functors' = pending
    /\ pending' = <<>>
    /\ pc' = "run"
    /\ UNCHANGED <<loops, quit, active, eventfd, tpc, history>>

RunFunctor ==
    /\ pc = "run"
    /\ functors # <<>>
    /\ ran' = Append(ran, Head(functors))
    /\ functors' = Tail(functors)
    /\ pc' = "functor"
    /\ UNCHANGED <<loops, quit, calling, pending, active, eventfd, tpc, posted, early>>

FunctorReturn ==
    /\ pc = "functor"
    /\ pc' = "run"
    /\ UNCHANGED <<loops, quit, calling, queues, active, eventfd, tpc, history>>

RunEnd ==
    /\ pc = "run"
    /\ functors = <<>>
    /\ calling' = FALSE
    /\ pc' = "test"
    /\ UNCHANGED <<loops, quit, queues, active, eventfd, tpc, history>>

-----------------------------------------------------------------------------
Other(t) ==
    \/ \E f \in Functors : QueueInLoop(t, f)
    \/ Quit(t)
    \/ Wakeup(t)

UserCode ==
    \/ \E f \in Functors : OwnerQueueInLoop(f) \/ OwnerRunInLoop(f)
    \/ OwnerQuit

\* The steps of loop() that wait for nothing but a ready descriptor.
LoopStep ==
    \/ LoopTest \/ PollReady
    \/ HandleRead \/ HandleIo \/ HandleIoReturn \/ HandleEnd
    \/ SwapFunctors \/ RunFunctor \/ FunctorReturn \/ RunEnd

Next ==
    \/ \E t \in Threads : Other(t)
    \/ UserCode
    \/ LoopEnter \/ PollTimeout
    \/ LoopStep

Spec == Init /\ [][Next]_vars

\* The loop thread is scheduled, callbacks and functors return, and a thread
\* inside queueInloop or quit goes on to its wakeup().  Nobody has to call
\* anything, and the poll timeout is NOT assumed to come: what is live without
\* it is live because of the wakeups.  (PollReady is fair only through the
\* eventfd: see FairPoll.)
FairPoll == PollReady /\ eventfd > 0

Fairness ==
    /\ WF_vars(LoopTest) /\ WF_vars(FairPoll)
    /\ WF_vars(HandleRead) /\ WF_vars(HandleIo) /\ WF_vars(HandleIoReturn)
    /\ WF_vars(HandleEnd) /\ WF_vars(SwapFunctors) /\ WF_vars(RunFunctor)
    /\ WF_vars(FunctorReturn) /\ WF_vars(RunEnd)
    /\ \A t \in Threads : WF_vars(Wakeup(t))

FairSpec == Spec /\ Fairness

-----------------------------------------------------------------------------
(* Properties.                                                             *)

\* Every variable keeps its type: the counter stays within what an eventfd
\* holds, and the queues hold functors that were submitted.
TypeOK ==
    /\ pc \in Places
    /\ loops \in Nat
    /\ quit \in BOOLEAN
    /\ calling \in BOOLEAN
    /\ pending \in Seq(posted)
    /\ functors \in Seq(posted)
    /\ active \in SUBSET Channels
    /\ eventfd \in 0..EventfdMax
    /\ tpc \in [Threads -> {"idle", "wake"}]
    /\ posted \in SUBSET Functors
    /\ early \in SUBSET posted
    /\ ran \in Seq(posted)

\* Somebody makes the next poll() return: the eventfd is readable, or a thread
\* is on its way to make it so.
WakeupComing == eventfd > 0 \/ \E t \in Threads : tpc[t] = "wake"

\* A functor that is not excused (queued by the owner outside of loop()) waits.
WorkPending == \E i \in DOMAIN pending : pending[i] \notin early

\* No lost wakeup (queueInloop, doPendingFunctors, handleRead): whenever the
\* loop is in poll() and a functor waits in _pending_functors, poll() is about
\* to return.  The functors the owner queued before it called loop() are the
\* exception the code has: queueInloop does not wake the loop for them.
NoLostWakeup == pc = "poll" /\ WorkPending => WakeupComing

\* quit() cannot be slept through (quit, loop): whenever the loop is in poll()
\* and _quit is set, poll() is about to return.
QuitNotSleptThrough == pc = "poll" /\ quit => WakeupComing

\* The inductive invariant behind both.  A wakeup consumed by handleRead is
\* paid back by the swap that follows it before the next poll(), so the promise
\* is suspended exactly from the return of poll() to the swap.
Awake == pc \in {"handle", "io", "swap"}

IInv ==
    /\ TypeOK
    /\ ~Awake /\ WorkPending => WakeupComing
    /\ QuitNotSleptThrough
    /\ pc \in {"run", "functor"} <=> calling

\* The loop is a serial executor: functors are run in the order in which they
\* were queued, none is lost or run twice, whatever the interleaving of
\* queueInloop with the swap in doPendingFunctors.
Executor == INSTANCE SerialExecutor WITH queue <- functors \o pending
ExecutorSpec == Executor!Spec

\* Every functor queued by another thread or from a callback is run, or the
\* loop leaves loop() (doPendingFunctors and the wakeups alone achieve it: no
\* poll timeout is assumed).
QueuedRuns ==
    \A f \in Functors :
        f \in posted \ early ~> f \in Range(ran) \/ pc = "out"

\* A quit() that arrives while the loop is in loop() makes it leave (quit, loop).
QuitExits == quit /\ pc # "out" ~> pc = "out"
=============================================================================
