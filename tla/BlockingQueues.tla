--------------------------- MODULE BlockingQueues ---------------------------
(***************************************************************************)
(* The producer and consumer classes of muduo::base: BlockingQueue,        *)
(* BoundedBlockingQueue, BoundedBlockingQueue_std, and ThreadPool with the *)
(* Threads it starts and their CountDownLatch.  All four are monitors, a   *)
(* mutex and conditions around a deque, so one model serves them; class    *)
(* says which one a behaviour is about.                                    *)
(*                                                                         *)
(* A critical section is one step, from the lock to the unlock or the      *)
(* wait.  A notified thread takes its next step when it gets the mutex     *)
(* again, and any other thread may be faster.                              *)
(***************************************************************************)
EXTENDS Naturals, Sequences, FiniteSets

CONSTANTS
    Producers,   \* threads that call put() or run()
    Consumers,   \* threads that call take(), or the workers of the pool
    Capacities,  \* values of _capacity and _queue_capacity
    MaxPuts,     \* how many items each producer puts (a bound)
    Main         \* the thread that starts and stops the pool

ASSUME QueueAssumption ==
    /\ IsFiniteSet(Producers) /\ IsFiniteSet(Consumers)
    /\ Producers \cap Consumers = {} /\ Main \notin Producers \cup Consumers
    /\ Capacities \subseteq Nat /\ MaxPuts \in Nat

VARIABLES
    class,       \* which class this is
    capacity,    \* _capacity, or _queue_capacity, where 0 means no limit
    queue,       \* _queue
    waiting,     \* the threads blocked on each condition
    pc,          \* where each thread is
    count,       \* puts called by each producer
    running,     \* _running
    threads,     \* _threads: the workers made by start()
    latch,       \* _latch of the Thread being started
    tid,         \* the workers whose _tid is set
    accepted,    \* history: items in the order in which they were put
    taken        \* history: items in the order in which they were taken

pool == <<running, threads, latch, tid>>
vars == <<class, capacity, queue, waiting, pc, count, pool, accepted, taken>>

Bounded == {"BoundedBlockingQueue", "BoundedBlockingQueue_std"}
Conditions == {"_not_empty", "_not_full", "_latch"}
Threads == Producers \cup Consumers \cup {Main}

Init ==
    /\ class \in Bounded \cup {"BlockingQueue", "ThreadPool"}
    /\ capacity \in Capacities
    /\ class \in Bounded => capacity > 0
    /\ queue = <<>>
    /\ waiting = [c \in Conditions |-> {}]
    /\ pc = [t \in Threads |-> IF t \in Producers THEN "idle"
                               ELSE IF t = Main THEN "constructed"
                               ELSE IF class = "ThreadPool" THEN "none" ELSE "take"]
    /\ count = [p \in Producers |-> 0]
    /\ running = FALSE /\ threads = {} /\ latch = 0 /\ tid = {}
    /\ accepted = <<>> /\ taken = <<>>

-----------------------------------------------------------------------------
(* Condition.                                                              *)

Blocked(t) == \E c \in Conditions : t \in waiting[c]
At(t, place) == pc[t] = place /\ ~Blocked(t)
Goto(t, place) == pc' = [pc EXCEPT ![t] = place]

Wait(t, c) == waiting' = [waiting EXCEPT ![c] = @ \cup {t}]

\* Mutant: only the item that ends an empty queue is announced.
Notify_WhenEmpty(c) ==
    \/ /\ waiting[c] = {} \/ queue # <<>>
       /\ UNCHANGED waiting
    \/ /\ queue = <<>>
       /\ \E t \in waiting[c] : waiting' = [waiting EXCEPT ![c] = @ \ {t}]

\* Mutant: nobody is woken.
Notify_Never(c) == UNCHANGED waiting

\* notify() wakes one thread, if there is one.
Notify(c) ==
    \/ waiting[c] = {} /\ UNCHANGED waiting
    \/ \E t \in waiting[c] : waiting' = [waiting EXCEPT ![c] = @ \ {t}]

NotifyAll(c) == waiting' = [waiting EXCEPT ![c] = {}]

\* pthread_cond_wait may return without a notification.
SpuriousWakeup(t) ==
    /\ \E c \in Conditions : t \in waiting[c] /\ waiting' = [waiting EXCEPT ![c] = @ \ {t}]
    /\ UNCHANGED <<class, capacity, queue, pc, count, pool, accepted, taken>>

-----------------------------------------------------------------------------
(* put() and run().                                                        *)

Item(p) == <<p, count[p]>>

\* put() is called; run() without threads calls the task at once.
\* Nobody calls run() while start() is at work: both use _threads without the mutex,
\* and users call start() first (ThreadPool_test.cc).
CallPut(p) ==
    /\ At(p, "idle")
    /\ class = "ThreadPool" => pc[Main] \notin {"starting", "started"}
    /\ count[p] < MaxPuts
    /\ count' = [count EXCEPT ![p] = @ + 1]
    /\ Goto(p, IF class = "ThreadPool" /\ threads = {} THEN "inline" ELSE "put")
    /\ UNCHANGED <<class, capacity, queue, waiting, pool, accepted, taken>>

RunInline(p) ==
    /\ At(p, "inline")
    /\ accepted' = Append(accepted, Item(p))
    /\ taken' = Append(taken, Item(p))
    /\ Goto(p, "idle")
    /\ UNCHANGED <<class, capacity, queue, waiting, count, pool>>

\* ThreadPool::isFull.
IsFull == capacity > 0 /\ Len(queue) >= capacity

\* The bodies of put() and run(): wait while the queue is full, else push and notify.
PutUnless(full, p) ==
    /\ At(p, "put")
    /\ \/ /\ full
          /\ Wait(p, "_not_full")
          /\ UNCHANGED <<queue, pc, accepted>>
       \/ /\ ~full
          /\ queue' = Append(queue, Item(p))
          /\ accepted' = Append(accepted, Item(p))
          /\ Notify("_not_empty")
          /\ Goto(p, "idle")
    /\ UNCHANGED <<class, capacity, count, pool, taken>>

BlockingQueuePut(p) == class = "BlockingQueue" /\ PutUnless(FALSE, p)
BoundedPut(p) == class = "BoundedBlockingQueue" /\ PutUnless(Len(queue) = capacity, p)
BoundedStdPut(p) == class = "BoundedBlockingQueue_std" /\ PutUnless(Len(queue) = capacity, p)
Run(p) == class = "ThreadPool" /\ PutUnless(IsFull, p)

-----------------------------------------------------------------------------
(* take().                                                                 *)

Pop ==
    /\ taken' = Append(taken, Head(queue))
    /\ queue' = Tail(queue)

\* A consumer takes again and again; empty is the condition of the wait.
TakeUnless(empty, t, next) ==
    /\ At(t, "take")
    /\ \/ /\ empty
          /\ Wait(t, "_not_empty")
          /\ UNCHANGED <<queue, taken, pc>>
       \/ /\ ~empty /\ queue # <<>>
          /\ Pop
          /\ IF class \in Bounded \/ (class = "ThreadPool" /\ capacity > 0)
             THEN Notify("_not_full") ELSE UNCHANGED waiting
          /\ Goto(t, next)
       \/ /\ ~empty /\ queue = <<>>
          /\ Goto(t, "loop")
          /\ UNCHANGED <<queue, taken, waiting>>
    /\ UNCHANGED <<class, capacity, count, pool, accepted>>

BlockingQueueTake(t) == class = "BlockingQueue" /\ TakeUnless(queue = <<>>, t, "take")
BoundedTake(t) == class = "BoundedBlockingQueue" /\ TakeUnless(queue = <<>>, t, "take")
BoundedStdTake(t) == class = "BoundedBlockingQueue_std" /\ TakeUnless(queue = <<>>, t, "take")

\* ThreadPool::take gives up, without a task, when the pool has stopped.
PoolTake(t) == class = "ThreadPool" /\ TakeUnless(queue = <<>> /\ running, t, "task")

-----------------------------------------------------------------------------
(* ThreadPool::start and stop, Thread::start and join.                     *)

PoolStart ==
    /\ class = "ThreadPool"
    /\ At(Main, "constructed")
    /\ \A p \in Producers : pc[p] = "idle"
    /\ running' = TRUE
    /\ Goto(Main, "starting")
    /\ UNCHANGED <<class, capacity, queue, waiting, count, threads, latch, tid, accepted, taken>>

\* Thread::start creates the thread, with a latch of one ...
StartThread(t) ==
    /\ At(Main, "starting")
    /\ t \in Consumers \ threads
    /\ threads' = threads \cup {t}
    /\ latch' = 1
    /\ pc' = [pc EXCEPT ![t] = "created", ![Main] = "started"]
    /\ UNCHANGED <<class, capacity, queue, waiting, count, running, tid, accepted, taken>>

\* ... and waits for it.
LatchWait ==
    /\ At(Main, "started")
    /\ \/ latch > 0 /\ Wait(Main, "_latch") /\ UNCHANGED pc
       \/ latch = 0 /\ Goto(Main, "starting") /\ UNCHANGED waiting
    /\ UNCHANGED <<class, capacity, queue, count, pool, accepted, taken>>

\* start() returns with the threads it was asked for, none included.
StartReturn ==
    /\ At(Main, "starting")
    /\ Goto(Main, "up")
    /\ UNCHANGED <<class, capacity, queue, waiting, count, pool, accepted, taken>>

\* ThreadData::runInThread: _tid, then the latch, then the function.
SetTid(t) ==
    /\ At(t, "created")
    /\ tid' = tid \cup {t}
    /\ Goto(t, "tid")
    /\ UNCHANGED <<class, capacity, queue, waiting, count, running, threads, latch, accepted, taken>>

CountDown(t) ==
    /\ At(t, "tid")
    /\ latch' = latch - 1
    /\ IF latch' = 0 THEN NotifyAll("_latch") ELSE UNCHANGED waiting
    /\ Goto(t, "loop")
    /\ UNCHANGED <<class, capacity, queue, count, running, threads, tid, accepted, taken>>

\* The loop of ThreadPool::runInThread reads _running without the mutex.
WorkerLoop(t) ==
    /\ At(t, "loop")
    /\ Goto(t, IF running THEN "take" ELSE "exit")
    /\ UNCHANGED <<class, capacity, queue, waiting, count, pool, accepted, taken>>

TaskReturn(t) ==
    /\ At(t, "task")
    /\ Goto(t, "loop")
    /\ UNCHANGED <<class, capacity, queue, waiting, count, pool, accepted, taken>>

\* Mutant: stop() wakes one worker.
Stop_One ==
    /\ At(Main, "up")
    /\ running' = FALSE
    /\ Notify("_not_empty")
    /\ Goto(Main, "joining")
    /\ UNCHANGED <<class, capacity, queue, count, threads, latch, tid, accepted, taken>>

\* stop(), called by the user or by the destructor.
Stop ==
    /\ At(Main, "up")
    /\ running' = FALSE
    /\ NotifyAll("_not_empty")
    /\ Goto(Main, "joining")
    /\ UNCHANGED <<class, capacity, queue, count, threads, latch, tid, accepted, taken>>

Join ==
    /\ At(Main, "joining")
    /\ \A t \in threads : pc[t] = "exit"
    /\ Goto(Main, "stopped")
    /\ UNCHANGED <<class, capacity, queue, waiting, count, pool, accepted, taken>>

-----------------------------------------------------------------------------
Put(p) == RunInline(p) \/ BlockingQueuePut(p) \/ BoundedPut(p) \/ BoundedStdPut(p) \/ Run(p)
Take(t) == BlockingQueueTake(t) \/ BoundedTake(t) \/ BoundedStdTake(t) \/ PoolTake(t)
Worker(t) == SetTid(t) \/ CountDown(t) \/ WorkerLoop(t) \/ TaskReturn(t)

Next ==
    \/ \E p \in Producers : CallPut(p) \/ Put(p)
    \/ \E t \in Consumers : Take(t) \/ Worker(t) \/ StartThread(t)
    \/ PoolStart \/ LatchWait \/ StartReturn \/ Stop \/ Join
    \/ \E t \in Threads : SpuriousWakeup(t)

Spec == Init /\ [][Next]_vars

\* Every thread that is not blocked goes on; nobody has to call anything, and no
\* spurious wakeup has to come.  The main thread's StartReturn is its own choice.
FairSpec ==
    /\ Spec
    /\ \A p \in Producers : WF_vars(Put(p))
    /\ \A t \in Consumers : WF_vars(Take(t) \/ Worker(t))
    /\ WF_vars(LatchWait) /\ WF_vars(Join)

-----------------------------------------------------------------------------
(* Properties.                                                             *)

Stopped == pc[Main] \in {"joining", "stopped"}

\* Every variable keeps its type, and a bounded queue never holds more than its
\* capacity (the asserts of put() and run()).
TypeOK ==
    /\ DOMAIN waiting = Conditions
    /\ waiting["_not_full"] \subseteq Producers
    /\ waiting["_not_empty"] \subseteq Consumers
    /\ waiting["_latch"] \subseteq {Main}
    /\ latch \in 0..1
    /\ tid \subseteq threads /\ threads \subseteq Consumers
    /\ class \in Bounded \/ (class = "ThreadPool" /\ capacity > 0) => Len(queue) <= capacity

\* Items leave the queue in the order in which they entered it, each once, whichever
\* threads put and take them (a task called inline counts as put and taken).
InOrder == taken \o queue = accepted

\* No lost wakeup: while a consumer sleeps, there is for each item in the queue a
\* consumer that is awake and on its way to take it.
NoIdleConsumer ==
    waiting["_not_empty"] # {} =>
        Len(queue) <= Cardinality({t \in Consumers : At(t, "take")})

\* The same for producers: while one sleeps, there is for each free place a producer
\* that is awake and on its way to fill it.
NoIdleProducer ==
    waiting["_not_full"] # {} =>
        capacity - Len(queue) <= Cardinality({p \in Producers : At(p, "put")})

\* No worker sleeps once stop() has begun to join: the flag and the notification are
\* set under the mutex that the waiting worker holds while it tests the flag.
StopLeavesNoneAsleep == Stopped => waiting["_not_empty"] = {}

\* Thread::start returns with _tid set (its assert), whenever the thread gets to run.
StartedHasTid == pc[Main] # "started" => threads \subseteq tid

\* Thread::start returns, also when the new thread counts down before the wait.
StartReturns == pc[Main] = "started" ~> pc[Main] = "starting"

\* stop() returns: each worker leaves its loop, wherever stop() found it.
StopReturns == pc[Main] = "joining" ~> pc[Main] = "stopped"

\* Every item put is taken, unless the pool is stopped first (stop() drops what is
\* queued) or has no thread.
ItemTaken ==
    \A p \in Producers, n \in 1..MaxPuts :
        (\E i \in DOMAIN accepted : accepted[i] = <<p, n>>)
            ~> (\E i \in DOMAIN taken : taken[i] = <<p, n>>) \/ Stopped

\* Items stay in order and within the capacity, and nobody sleeps who could go on,
\* whichever threads the notifications wake.
NobodyIdle ==
    /\ TypeOK /\ InOrder /\ StartedHasTid
    /\ NoIdleConsumer /\ NoIdleProducer /\ StopLeavesNoneAsleep

\* Thread::start and ThreadPool::stop return.
CallsReturn == StartReturns /\ StopReturns
=============================================================================
