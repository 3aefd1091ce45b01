------------------------ MODULE BlockingQueuesProofs ------------------------
(***************************************************************************)
(* Nobody sleeps who could go on, for any number of producers, consumers   *)
(* and items and every capacity.                                           *)
(*                                                                         *)
(* NoIdleConsumer and NoIdleProducer are inductive once it is known where  *)
(* the sleepers are, when a worker may sleep at all, and when a queue has  *)
(* sleeping producers.  That tasks called inline do not overtake others    *)
(* rests on the order in which start() and run() are called.               *)
(***************************************************************************)
EXTENDS BlockingQueues, FiniteSetTheorems, SequenceTheorems, TLAPS

\* Leaves go to the SMT solver unless they name another prover.
USE SMTT(60)

Items == Producers \X Nat
Limited == class \in Bounded \/ (class = "ThreadPool" /\ capacity > 0)

Places == {"idle", "put", "inline", "take", "task", "loop", "exit", "none", "created", "tid",
           "constructed", "starting", "started", "up", "joining", "stopped"}

Awake == {t \in Consumers : pc[t] = "take" /\ t \notin waiting["_not_empty"]}
Pushing == {p \in Producers : pc[p] = "put" /\ p \notin waiting["_not_full"]}

Typed ==
    /\ class \in Bounded \cup {"BlockingQueue", "ThreadPool"}
    /\ capacity \in Nat /\ running \in BOOLEAN
    /\ queue \in Seq(Items) /\ accepted \in Seq(Items) /\ taken \in Seq(Items)
    /\ pc \in [Threads -> Places] /\ count \in [Producers -> Nat]
    /\ waiting \in [Conditions -> SUBSET Threads]

(* Sleepers are where they wait, and only where somebody will notify them. *)
Sleepers ==
    /\ \A t \in waiting["_not_empty"] : pc[t] = "take"
    /\ \A p \in waiting["_not_full"] : pc[p] = "put"
    /\ waiting["_not_full"] # {} => Limited
    /\ class = "ThreadPool" /\ waiting["_not_empty"] # {} => running

(* Tasks are queued only when start() is over and has made a thread.       *)
PoolPhases ==
    /\ class # "ThreadPool" => pc[Main] = "constructed"
    /\ Stopped => ~running
    /\ pc[Main] = "constructed" => threads = {}
    /\ class = "ThreadPool" /\ pc[Main] \in {"starting", "started"}
          => \A p \in Producers : pc[p] = "idle"
    /\ class = "ThreadPool" /\ threads = {}
          => queue = <<>> /\ \A p \in Producers : pc[p] # "put"
    /\ class = "ThreadPool" => \A t \in Consumers \ threads : pc[t] = "none"
    /\ \A p \in Producers : pc[p] = "inline" => class = "ThreadPool" /\ threads = {}

(* One thread is started at a time, and the latch is its own.              *)
Starting == {t \in Consumers : pc[t] \in {"created", "tid"}}

OneStarts ==
    /\ \A t \in threads : pc[t] = "created" \/ t \in tid
    /\ \A t \in Starting : t \in threads /\ latch = 1 /\ pc[Main] = "started"
    /\ \A t, u \in Starting : t = u

ItemsAwaited == waiting["_not_empty"] # {} => Len(queue) <= Cardinality(Awake)
RoomAwaited == waiting["_not_full"] # {} => capacity - Len(queue) <= Cardinality(Pushing)

QInv ==
    /\ Typed /\ TypeOK /\ InOrder /\ Sleepers /\ PoolPhases /\ OneStarts
    /\ ItemsAwaited /\ RoomAwaited

-----------------------------------------------------------------------------
(* What sequences and sets contribute.                                     *)

(* Moving the head of the queue to the end of what was taken keeps order.  *)
LEMMA TakenInOrder ==
    ASSUME NEW t \in Seq(Items), NEW q \in Seq(Items), q # <<>>
    PROVE  /\ Append(t, Head(q)) \o Tail(q) = t \o q
           /\ Append(t, Head(q)) \in Seq(Items) /\ Tail(q) \in Seq(Items)
           /\ Len(Tail(q)) = Len(q) - 1
<1> DEFINE h == Head(q)
           r == Tail(q)
<1>1. h \in Items /\ r \in Seq(Items) /\ Len(r) = Len(q) - 1
    BY HeadTailProperties
<1>2. q = <<h>> \o r
  <2>1. Len(q) \in Nat \ {0} /\ q[1] = h
    BY EmptySeq
  <2>2. SubSeq(q, 1, Len(q)) = <<q[1]>> \o SubSeq(q, 1 + 1, Len(q))
    BY <2>1, SubSeqRecursiveFirst
  <2>3. SubSeq(q, 1, Len(q)) = q /\ SubSeq(q, 2, Len(q)) = r
    BY SubSeqFull, TailIsSubSeq
  <2> QED
    BY <2>1, <2>2, <2>3
<1> HIDE DEF h, r
<1>3. Append(t, h) = t \o <<h>> /\ Append(t, h) \in Seq(Items) /\ <<h>> \in Seq(Items)
    BY <1>1, AppendIsConcat, AppendProperties
<1>4. Append(t, h) \o r = t \o q
    BY <1>1, <1>2, <1>3, ConcatAssociative
<1> QED
    BY <1>1, <1>3, <1>4 DEF h, r

(* An item put behind the queue comes last.                                *)
LEMMA PutInOrder ==
    ASSUME NEW t \in Seq(Items), NEW q \in Seq(Items), NEW x \in Items
    PROVE  /\ t \o Append(q, x) = Append(t \o q, x)
           /\ Append(q, x) \in Seq(Items) /\ Append(t \o q, x) \in Seq(Items)
           /\ Len(Append(q, x)) = Len(q) + 1
<1>1. Append(q, x) = q \o <<x>> /\ <<x>> \in Seq(Items)
    BY AppendIsConcat
<1>2. t \o q \in Seq(Items) /\ Append(t \o q, x) = (t \o q) \o <<x>>
    BY ConcatProperties, AppendIsConcat
<1> QED
    BY <1>1, <1>2, ConcatAssociative, ConcatProperties

(* How many are left of a set when one joins or leaves.                    *)
LEMMA Subsets ==
    ASSUME NEW S, IsFiniteSet(S), NEW T \in SUBSET S, NEW U \in SUBSET S
    PROVE  /\ Cardinality(T) \in Nat /\ Cardinality(U) \in Nat
           /\ T \subseteq U => Cardinality(T) <= Cardinality(U)
           /\ \A x \in S : x \notin T /\ T \cup {x} \subseteq U
                 => Cardinality(T) + 1 <= Cardinality(U)
           /\ \A x \in S : T \ {x} \subseteq U => Cardinality(T) - 1 <= Cardinality(U)
<1>1. IsFiniteSet(T) /\ IsFiniteSet(U)
    BY FS_Subset
<1>2. Cardinality(T) \in Nat /\ Cardinality(U) \in Nat
    BY <1>1, FS_CardinalityType
<1>3. T \subseteq U => Cardinality(T) <= Cardinality(U)
    BY <1>1, FS_Subset
<1>4. ASSUME NEW x \in S, x \notin T, T \cup {x} \subseteq U
      PROVE  Cardinality(T) + 1 <= Cardinality(U)
  <2>1. Cardinality(T \cup {x}) = Cardinality(T) + 1
    BY <1>1, <1>4, FS_AddElement, ZenonT(60)
  <2> QED
    BY <1>1, <1>4, <2>1, FS_Subset
<1>5. ASSUME NEW x \in S, T \ {x} \subseteq U
      PROVE  Cardinality(T) - 1 <= Cardinality(U)
  <2>1. Cardinality(T \ {x}) = IF x \in T THEN Cardinality(T) - 1 ELSE Cardinality(T)
    BY <1>1, FS_RemoveElement
  <2>2. Cardinality(T \ {x}) <= Cardinality(U)
    BY <1>1, <1>5, FS_Subset
  <2>3. Cardinality(T \ {x}) \in Nat
    BY <1>1, FS_RemoveElement, FS_CardinalityType
  <2> QED
    BY <1>2, <2>1, <2>2, <2>3
<1> QED
    BY <1>2, <1>3, <1>4, <1>5

-----------------------------------------------------------------------------
(* Sleepers that were provided for still are, when the queue stays as it   *)
(* is, nobody falls asleep and nobody who is awake turns away.             *)
LEMMA StillAwaited ==
    ASSUME QInv, queue' = queue, capacity' = capacity,
           waiting'["_not_empty"] \subseteq waiting["_not_empty"],
           waiting'["_not_full"] \subseteq waiting["_not_full"],
           Awake \subseteq Awake', Pushing \subseteq Pushing'
    PROVE  ItemsAwaited' /\ RoomAwaited'
<1>1. Cardinality(Awake) <= Cardinality(Awake') /\ Cardinality(Awake) \in Nat /\ Cardinality(Awake') \in Nat
  <2>1. Awake \in SUBSET Consumers /\ Awake' \in SUBSET Consumers
    BY DEF Awake
  <2> QED
    BY <2>1, Subsets, QueueAssumption
<1>2. Cardinality(Pushing) <= Cardinality(Pushing') /\ Cardinality(Pushing) \in Nat /\ Cardinality(Pushing') \in Nat
  <2>1. Pushing \in SUBSET Producers /\ Pushing' \in SUBSET Producers
    BY DEF Pushing
  <2> QED
    BY <2>1, Subsets, QueueAssumption
<1>3. Len(queue) \in Nat /\ capacity \in Nat
    BY LenProperties DEF QInv, Typed
<1>4. ItemsAwaited'
    BY <1>1, <1>3 DEF QInv, ItemsAwaited
<1>5. RoomAwaited'
    BY <1>2, <1>3 DEF QInv, RoomAwaited
<1> QED
    BY <1>4, <1>5

(* A call of put() or run() begins.                                        *)
LEMMA CallPutKeeps ==
    ASSUME QInv, NEW p \in Producers, CallPut(p)
    PROVE  QInv'
<1>1. Typed' /\ TypeOK'
    BY QueueAssumption DEF QInv, Typed, TypeOK, Places, Threads, Conditions, CallPut, At, Goto, pool
<1>2. InOrder'
    BY DEF QInv, InOrder, CallPut, At, Goto, pool
<1>3. Sleepers'
    BY QueueAssumption DEF QInv, Typed, TypeOK, Sleepers, Limited, PoolPhases, Threads,
       Conditions, CallPut, At, Goto, pool
<1>4. PoolPhases'
    BY QueueAssumption DEF QInv, Typed, TypeOK, PoolPhases, Stopped, Threads, CallPut, At, Goto,
       pool
<1>5. OneStarts'
    BY QueueAssumption DEF QInv, Typed, TypeOK, OneStarts, Starting, Threads, CallPut, At, Goto,
       pool
<1>6. Awake \subseteq Awake' /\ Pushing \subseteq Pushing'
    BY QueueAssumption DEF QInv, Typed, TypeOK, Awake, Pushing, PoolPhases, Threads, Conditions,
       CallPut, At, Goto, pool
<1>7. ItemsAwaited' /\ RoomAwaited'
    BY <1>6, StillAwaited, QueueAssumption DEF QInv, Typed, TypeOK, Conditions, CallPut, At, Goto,
       pool
<1> QED
    BY <1>1, <1>2, <1>3, <1>4, <1>5, <1>7 DEF QInv

(* A new thread sets its _tid ...                                          *)
LEMMA SetTidKeeps ==
    ASSUME QInv, NEW t \in Consumers, SetTid(t)
    PROVE  QInv'
<1>1. Typed' /\ TypeOK'
    BY QueueAssumption DEF QInv, Typed, TypeOK, Places, OneStarts, Starting, Threads, Conditions,
       SetTid, At, Goto, pool
<1>2. InOrder'
    BY DEF QInv, InOrder, SetTid, At, Goto, pool
<1>3. Sleepers'
    BY QueueAssumption DEF QInv, Typed, TypeOK, Sleepers, Limited, PoolPhases, Threads,
       Conditions, SetTid, At, Goto, pool
<1>4. PoolPhases'
    BY QueueAssumption DEF QInv, Typed, TypeOK, PoolPhases, Stopped, Threads, SetTid, At, Goto, pool
<1>5. OneStarts'
    BY QueueAssumption DEF QInv, Typed, TypeOK, OneStarts, Starting, Threads, SetTid, At, Goto, pool
<1>6. Awake \subseteq Awake' /\ Pushing \subseteq Pushing'
    BY QueueAssumption DEF QInv, Typed, TypeOK, Awake, Pushing, PoolPhases, Threads, Conditions,
       SetTid, At, Goto, pool
<1>7. ItemsAwaited' /\ RoomAwaited'
    BY <1>6, StillAwaited, QueueAssumption DEF QInv, Typed, TypeOK, Conditions, SetTid, At, Goto,
       pool
<1> QED
    BY <1>1, <1>2, <1>3, <1>4, <1>5, <1>7 DEF QInv

(* A worker looks at _running.                                             *)
LEMMA WorkerLoopKeeps ==
    ASSUME QInv, NEW t \in Consumers, WorkerLoop(t)
    PROVE  QInv'
<1>1. Typed' /\ TypeOK'
    BY QueueAssumption DEF QInv, Typed, TypeOK, Places, Threads, Conditions, WorkerLoop, At, Goto,
       pool
<1>2. InOrder'
    BY DEF QInv, InOrder, WorkerLoop, At, Goto, pool
<1>3. Sleepers'
    BY QueueAssumption DEF QInv, Typed, TypeOK, Sleepers, Limited, PoolPhases, Threads,
       Conditions, WorkerLoop, At, Goto, pool
<1>4. PoolPhases'
    BY QueueAssumption DEF QInv, Typed, TypeOK, PoolPhases, Stopped, Threads, WorkerLoop, At,
       Goto, pool
<1>5. OneStarts'
    BY QueueAssumption DEF QInv, Typed, TypeOK, OneStarts, Starting, Threads, WorkerLoop, At,
       Goto, pool
<1>6. Awake \subseteq Awake' /\ Pushing \subseteq Pushing'
    BY QueueAssumption DEF QInv, Typed, TypeOK, Awake, Pushing, PoolPhases, Threads, Conditions,
       WorkerLoop, At, Goto, pool
<1>7. ItemsAwaited' /\ RoomAwaited'
    BY <1>6, StillAwaited, QueueAssumption DEF QInv, Typed, TypeOK, Conditions, WorkerLoop, At,
       Goto, pool
<1> QED
    BY <1>1, <1>2, <1>3, <1>4, <1>5, <1>7 DEF QInv

(* A task returns.                                                         *)
LEMMA TaskReturnKeeps ==
    ASSUME QInv, NEW t \in Consumers, TaskReturn(t)
    PROVE  QInv'
<1>1. Typed' /\ TypeOK'
    BY QueueAssumption DEF QInv, Typed, TypeOK, Places, Threads, Conditions, TaskReturn, At, Goto,
       pool
<1>2. InOrder'
    BY DEF QInv, InOrder, TaskReturn, At, Goto, pool
<1>3. Sleepers'
    BY QueueAssumption DEF QInv, Typed, TypeOK, Sleepers, Limited, PoolPhases, Threads,
       Conditions, TaskReturn, At, Goto, pool
<1>4. PoolPhases'
    BY QueueAssumption DEF QInv, Typed, TypeOK, PoolPhases, Stopped, Threads, TaskReturn, At,
       Goto, pool
<1>5. OneStarts'
    BY QueueAssumption DEF QInv, Typed, TypeOK, OneStarts, Starting, Threads, TaskReturn, At,
       Goto, pool
<1>6. Awake \subseteq Awake' /\ Pushing \subseteq Pushing'
    BY QueueAssumption DEF QInv, Typed, TypeOK, Awake, Pushing, PoolPhases, Threads, Conditions,
       TaskReturn, At, Goto, pool
<1>7. ItemsAwaited' /\ RoomAwaited'
    BY <1>6, StillAwaited, QueueAssumption DEF QInv, Typed, TypeOK, Conditions, TaskReturn, At,
       Goto, pool
<1> QED
    BY <1>1, <1>2, <1>3, <1>4, <1>5, <1>7 DEF QInv

(* ... and counts the latch down.                                          *)
LEMMA CountDownKeeps ==
    ASSUME QInv, NEW t \in Consumers, CountDown(t)
    PROVE  QInv'
<1>1. Typed' /\ TypeOK'
    BY QueueAssumption DEF QInv, Typed, TypeOK, Places, OneStarts, Starting, Threads, Conditions,
       CountDown, At, Goto, pool, NotifyAll
<1>2. InOrder'
    BY DEF QInv, InOrder, CountDown, At, Goto, pool, NotifyAll
<1>3. Sleepers'
    BY QueueAssumption DEF QInv, Typed, TypeOK, Sleepers, Limited, PoolPhases, Threads,
       Conditions, CountDown, At, Goto, pool, NotifyAll
<1>4. PoolPhases'
    BY QueueAssumption DEF QInv, Typed, TypeOK, PoolPhases, Stopped, Threads, CountDown, At, Goto,
       pool, NotifyAll
<1>5. OneStarts'
    BY QueueAssumption DEF QInv, Typed, TypeOK, OneStarts, Starting, Threads, CountDown, At, Goto,
       pool, NotifyAll
<1>6. Awake \subseteq Awake' /\ Pushing \subseteq Pushing'
    BY QueueAssumption DEF QInv, Typed, TypeOK, Awake, Pushing, PoolPhases, Threads, Conditions,
       CountDown, At, Goto, pool, NotifyAll
<1>7. ItemsAwaited' /\ RoomAwaited'
    BY <1>6, StillAwaited, QueueAssumption DEF QInv, Typed, TypeOK, Conditions, CountDown, At,
       Goto, pool, NotifyAll
<1> QED
    BY <1>1, <1>2, <1>3, <1>4, <1>5, <1>7 DEF QInv

(* start() begins.                                                         *)
LEMMA PoolStartKeeps ==
    ASSUME QInv, PoolStart
    PROVE  QInv'
<1>1. Typed' /\ TypeOK'
    BY QueueAssumption DEF QInv, Typed, TypeOK, Places, Threads, Conditions, PoolStart, At, Goto,
       pool
<1>2. InOrder'
    BY DEF QInv, InOrder, PoolStart, At, Goto, pool
<1>3. Sleepers'
    BY QueueAssumption DEF QInv, Typed, TypeOK, Sleepers, Limited, PoolPhases, Threads,
       Conditions, PoolStart, At, Goto, pool
<1>4. PoolPhases'
    BY QueueAssumption DEF QInv, Typed, TypeOK, PoolPhases, Stopped, Threads, PoolStart, At, Goto,
       pool
<1>5. OneStarts'
    BY QueueAssumption DEF QInv, Typed, TypeOK, OneStarts, Starting, Threads, PoolStart, At, Goto,
       pool
<1>6. Awake \subseteq Awake' /\ Pushing \subseteq Pushing'
    BY QueueAssumption DEF QInv, Typed, TypeOK, Awake, Pushing, PoolPhases, Threads, Conditions,
       PoolStart, At, Goto, pool
<1>7. ItemsAwaited' /\ RoomAwaited'
    BY <1>6, StillAwaited, QueueAssumption DEF QInv, Typed, TypeOK, Conditions, PoolStart, At,
       Goto, pool
<1> QED
    BY <1>1, <1>2, <1>3, <1>4, <1>5, <1>7 DEF QInv

(* start() returns.                                                        *)
LEMMA StartReturnKeeps ==
    ASSUME QInv, StartReturn
    PROVE  QInv'
<1>1. Typed' /\ TypeOK'
    BY QueueAssumption DEF QInv, Typed, TypeOK, Places, Threads, Conditions, StartReturn, At,
       Goto, pool
<1>2. InOrder'
    BY DEF QInv, InOrder, StartReturn, At, Goto, pool
<1>3. Sleepers'
    BY QueueAssumption DEF QInv, Typed, TypeOK, Sleepers, Limited, PoolPhases, Threads,
       Conditions, StartReturn, At, Goto, pool
<1>4. PoolPhases'
    BY QueueAssumption DEF QInv, Typed, TypeOK, PoolPhases, Stopped, Threads, StartReturn, At,
       Goto, pool
<1>5. OneStarts'
    BY QueueAssumption DEF QInv, Typed, TypeOK, OneStarts, Starting, Threads, StartReturn, At,
       Goto, pool
<1>6. Awake \subseteq Awake' /\ Pushing \subseteq Pushing'
    BY QueueAssumption DEF QInv, Typed, TypeOK, Awake, Pushing, PoolPhases, Threads, Conditions,
       StartReturn, At, Goto, pool
<1>7. ItemsAwaited' /\ RoomAwaited'
    BY <1>6, StillAwaited, QueueAssumption DEF QInv, Typed, TypeOK, Conditions, StartReturn, At,
       Goto, pool
<1> QED
    BY <1>1, <1>2, <1>3, <1>4, <1>5, <1>7 DEF QInv

(* stop() has joined all threads.                                          *)
LEMMA JoinKeeps ==
    ASSUME QInv, Join
    PROVE  QInv'
<1>1. Typed' /\ TypeOK'
    BY QueueAssumption DEF QInv, Typed, TypeOK, Places, Threads, Conditions, Join, At, Goto, pool
<1>2. InOrder'
    BY DEF QInv, InOrder, Join, At, Goto, pool
<1>3. Sleepers'
    BY QueueAssumption DEF QInv, Typed, TypeOK, Sleepers, Limited, PoolPhases, Threads,
       Conditions, Join, At, Goto, pool
<1>4. PoolPhases'
    BY QueueAssumption DEF QInv, Typed, TypeOK, PoolPhases, Stopped, Threads, Join, At, Goto, pool
<1>5. OneStarts'
    BY QueueAssumption DEF QInv, Typed, TypeOK, OneStarts, Starting, Threads, Join, At, Goto, pool
<1>6. Awake \subseteq Awake' /\ Pushing \subseteq Pushing'
    BY QueueAssumption DEF QInv, Typed, TypeOK, Awake, Pushing, PoolPhases, Threads, Conditions,
       Join, At, Goto, pool
<1>7. ItemsAwaited' /\ RoomAwaited'
    BY <1>6, StillAwaited, QueueAssumption DEF QInv, Typed, TypeOK, Conditions, Join, At, Goto, pool
<1> QED
    BY <1>1, <1>2, <1>3, <1>4, <1>5, <1>7 DEF QInv

(* Thread::start waits for the latch.                                      *)
LEMMA LatchWaitKeeps ==
    ASSUME QInv, LatchWait
    PROVE  QInv'
<1>1. Typed' /\ TypeOK'
    BY QueueAssumption DEF QInv, Typed, TypeOK, Places, Threads, Conditions, LatchWait, At, Goto,
       pool, Wait
<1>2. InOrder'
    BY DEF QInv, InOrder, LatchWait, At, Goto, pool, Wait
<1>3. Sleepers'
    BY QueueAssumption DEF QInv, Typed, TypeOK, Sleepers, Limited, PoolPhases, Threads,
       Conditions, LatchWait, At, Goto, pool, Wait
<1>4. PoolPhases'
    BY QueueAssumption DEF QInv, Typed, TypeOK, PoolPhases, Stopped, Threads, LatchWait, At, Goto,
       pool, Wait
<1>5. OneStarts'
    BY QueueAssumption DEF QInv, Typed, TypeOK, OneStarts, Starting, Threads, LatchWait, At, Goto,
       pool, Wait
<1>6. Awake \subseteq Awake' /\ Pushing \subseteq Pushing'
    BY QueueAssumption DEF QInv, Typed, TypeOK, Awake, Pushing, PoolPhases, Threads, Conditions,
       LatchWait, At, Goto, pool, Wait
<1>7. ItemsAwaited' /\ RoomAwaited'
    BY <1>6, StillAwaited, QueueAssumption DEF QInv, Typed, TypeOK, Conditions, LatchWait, At,
       Goto, pool, Wait
<1> QED
    BY <1>1, <1>2, <1>3, <1>4, <1>5, <1>7 DEF QInv

(* stop() tells the workers.                                               *)
LEMMA StopKeeps ==
    ASSUME QInv, Stop
    PROVE  QInv'
<1>1. Typed' /\ TypeOK'
    BY QueueAssumption, ZenonT(60) DEF QInv, Typed, TypeOK, Places, Threads, Conditions, Stop, At,
       Goto, pool, NotifyAll
<1>2. InOrder'
    BY DEF QInv, InOrder, Stop, At, Goto, pool, NotifyAll
<1>3. Sleepers'
    BY QueueAssumption DEF QInv, Typed, TypeOK, Sleepers, Limited, PoolPhases, Threads,
       Conditions, Stop, At, Goto, pool, NotifyAll
<1>4. PoolPhases'
    BY QueueAssumption DEF QInv, Typed, TypeOK, PoolPhases, Stopped, Threads, Stop, At, Goto,
       pool, NotifyAll
<1>5. OneStarts'
    BY QueueAssumption DEF QInv, Typed, TypeOK, OneStarts, Starting, Threads, Stop, At, Goto,
       pool, NotifyAll
<1>6. Awake \subseteq Awake' /\ Pushing \subseteq Pushing'
    BY QueueAssumption DEF QInv, Typed, TypeOK, Awake, Pushing, PoolPhases, Threads, Conditions,
       Stop, At, Goto, pool, NotifyAll
<1>7. ItemsAwaited' /\ RoomAwaited'
    BY <1>6, StillAwaited, QueueAssumption DEF QInv, Typed, TypeOK, Conditions, Stop, At, Goto,
       pool, NotifyAll
<1> QED
    BY <1>1, <1>2, <1>3, <1>4, <1>5, <1>7 DEF QInv

(* Thread::start makes a thread.                                           *)
LEMMA StartThreadKeeps ==
    ASSUME QInv, NEW t \in Consumers, StartThread(t)
    PROVE  QInv'
<1>1. Typed' /\ TypeOK'
  <2>1. t \in Threads /\ Main \in Threads /\ "created" \in Places /\ "started" \in Places
    BY DEF Threads, Places
  <2>2. pc' \in [Threads -> Places]
    BY <2>1 DEF QInv, Typed, StartThread
  <2> QED
    BY <2>2 DEF QInv, Typed, TypeOK, StartThread
<1>2. InOrder'
    BY DEF QInv, InOrder, StartThread, At, Goto, pool
<1>3. Sleepers'
    BY QueueAssumption DEF QInv, Typed, TypeOK, Sleepers, Limited, PoolPhases, Threads,
       Conditions, StartThread, At, Goto, pool
<1>4. PoolPhases'
    BY QueueAssumption, ZenonT(60) DEF QInv, Typed, TypeOK, PoolPhases, Stopped, Threads,
       StartThread, At, Goto, pool
<1>5. OneStarts'
    BY QueueAssumption DEF QInv, Typed, TypeOK, OneStarts, Starting, Threads, StartThread, At,
       Goto, pool
<1>6. Awake \subseteq Awake' /\ Pushing \subseteq Pushing'
    BY QueueAssumption DEF QInv, Typed, TypeOK, Awake, Pushing, PoolPhases, Threads, Conditions,
       StartThread, At, Goto, pool
<1>7. ItemsAwaited' /\ RoomAwaited'
    BY <1>6, StillAwaited, QueueAssumption DEF QInv, Typed, TypeOK, Conditions, StartThread, At,
       Goto, pool
<1> QED
    BY <1>1, <1>2, <1>3, <1>4, <1>5, <1>7 DEF QInv

(* A thread wakes up by itself.                                            *)
LEMMA SpuriousWakeupKeeps ==
    ASSUME QInv, NEW t \in Threads, SpuriousWakeup(t)
    PROVE  QInv'
<1>1. Typed' /\ TypeOK'
    BY QueueAssumption DEF QInv, Typed, TypeOK, Places, Threads, Conditions, SpuriousWakeup, pool
<1>2. InOrder'
    BY DEF QInv, InOrder, SpuriousWakeup, pool
<1>3. Sleepers'
    BY QueueAssumption DEF QInv, Typed, TypeOK, Sleepers, Limited, PoolPhases, Threads,
       Conditions, SpuriousWakeup, pool
<1>4. PoolPhases'
    BY QueueAssumption DEF QInv, Typed, TypeOK, PoolPhases, Stopped, Threads, SpuriousWakeup, pool
<1>5. OneStarts'
    BY QueueAssumption DEF QInv, Typed, TypeOK, OneStarts, Starting, Threads, SpuriousWakeup, pool
<1>6. Awake \subseteq Awake' /\ Pushing \subseteq Pushing'
    BY QueueAssumption DEF QInv, Typed, TypeOK, Awake, Pushing, PoolPhases, Threads, Conditions,
       SpuriousWakeup, pool
<1>7. ItemsAwaited' /\ RoomAwaited'
    BY <1>6, StillAwaited, QueueAssumption DEF QInv, Typed, TypeOK, Conditions, SpuriousWakeup, pool
<1> QED
    BY <1>1, <1>2, <1>3, <1>4, <1>5, <1>7 DEF QInv

(* A task that is called inline overtakes nothing: nothing is queued.      *)
LEMMA RunInlineKeeps ==
    ASSUME QInv, NEW p \in Producers, RunInline(p)
    PROVE  QInv'
<1>1. Item(p) \in Items
    BY DEF QInv, Typed, Item, Items
<1>2. Typed' /\ TypeOK'
  <2>1. accepted' \in Seq(Items) /\ taken' \in Seq(Items)
    BY <1>1, AppendProperties DEF QInv, Typed, RunInline
  <2> QED
    BY <2>1 DEF QInv, Typed, TypeOK, Places, Threads, RunInline, Goto, pool
<1>3. InOrder'
  <2>1. queue = <<>> /\ queue' = <<>>
    BY DEF QInv, PoolPhases, RunInline, At
  <2>2. taken \o <<>> = taken /\ taken' \o <<>> = taken'
    BY <1>2, ConcatEmptySeq DEF QInv, Typed
  <2> QED
    BY <2>1, <2>2 DEF QInv, InOrder, RunInline
<1>4. Sleepers' /\ PoolPhases' /\ OneStarts'
    BY QueueAssumption DEF QInv, Typed, TypeOK, Sleepers, Limited, PoolPhases, Stopped, OneStarts,
       Starting, Threads, RunInline, At, Goto, pool
<1>5. Awake \subseteq Awake' /\ Pushing \subseteq Pushing'
    BY QueueAssumption DEF QInv, Typed, Awake, Pushing, Threads, RunInline, At, Goto
<1>6. ItemsAwaited' /\ RoomAwaited'
    BY <1>5, StillAwaited DEF RunInline
<1> QED
    BY <1>2, <1>3, <1>4, <1>6 DEF QInv

-----------------------------------------------------------------------------
(* put(), run() and take(): falling asleep, and going on with a            *)
(* notification.                                                           *)

(* A producer sleeps only when there is no room left.                      *)
LEMMA PutWaits ==
    ASSUME QInv, NEW p \in Producers, At(p, "put"), Limited, Len(queue) >= capacity,
           Wait(p, "_not_full"),
           UNCHANGED <<class, capacity, queue, pc, count, pool, accepted, taken>>
    PROVE  QInv'
<1>1. Typed' /\ TypeOK'
    BY QueueAssumption DEF QInv, Typed, TypeOK, Threads, Conditions, Wait, pool
<1>2. InOrder' /\ PoolPhases' /\ OneStarts'
    BY DEF QInv, InOrder, PoolPhases, Stopped, OneStarts, Starting, pool
<1>3. Sleepers'
    BY DEF QInv, Typed, Sleepers, Limited, Conditions, Wait, At, pool
<1>4. Awake' = Awake /\ waiting'["_not_empty"] = waiting["_not_empty"]
    BY DEF QInv, Typed, Conditions, Awake, Wait
<1>5. ItemsAwaited'
    BY <1>4 DEF QInv, ItemsAwaited
<1>6. RoomAwaited'
  <2>1. Cardinality(Pushing') \in Nat
    <3>1. Pushing' \in SUBSET Producers
        BY DEF Pushing
    <3> QED
        BY <3>1, Subsets, QueueAssumption
  <2>2. Len(queue) \in Nat /\ capacity \in Nat
    BY LenProperties DEF QInv, Typed
  <2> QED
    BY <2>1, <2>2 DEF RoomAwaited
<1> QED
    BY <1>1, <1>2, <1>3, <1>5, <1>6 DEF QInv

(* The new item is for the consumer that is notified, and the producer     *)
(* that goes away has used up the place it was awake for.                  *)
LEMMA PutPushes ==
    ASSUME QInv, NEW p \in Producers, At(p, "put"), Limited => Len(queue) < capacity,
           queue' = Append(queue, Item(p)), accepted' = Append(accepted, Item(p)),
           Notify("_not_empty"), Goto(p, "idle"),
           UNCHANGED <<class, capacity, count, pool, taken>>
    PROVE  QInv'
<1>1. Item(p) \in Items /\ Len(queue) \in Nat /\ capacity \in Nat
    BY LenProperties DEF QInv, Typed, Item, Items
<1>2. /\ queue' \in Seq(Items) /\ accepted' \in Seq(Items) /\ InOrder'
      /\ Len(queue') = Len(queue) + 1
    BY <1>1, PutInOrder DEF QInv, Typed, InOrder
<1>3. /\ waiting' \in [Conditions -> SUBSET Threads]
      /\ waiting'["_not_empty"] \subseteq waiting["_not_empty"]
      /\ waiting'["_not_full"] = waiting["_not_full"] /\ waiting'["_latch"] = waiting["_latch"]
    BY DEF QInv, Typed, Conditions, Notify
<1>4. Typed'
    BY <1>2, <1>3 DEF QInv, Typed, Places, Threads, Goto, pool
<1>5. TypeOK'
    BY <1>1, <1>2, <1>3, <1>4 DEF QInv, Typed, TypeOK, Limited, pool
<1>6. Sleepers'
    BY <1>3, QueueAssumption DEF QInv, Typed, TypeOK, Sleepers, Limited, Threads, Conditions, Goto,
       At, Blocked, pool
<1>7. PoolPhases' /\ OneStarts'
    BY QueueAssumption DEF QInv, Typed, TypeOK, PoolPhases, Stopped, OneStarts, Starting, Threads,
       Goto, At, pool
<1>8. /\ Awake \in SUBSET Consumers /\ Awake' \in SUBSET Consumers
      /\ Pushing \in SUBSET Producers /\ Pushing' \in SUBSET Producers
    BY DEF Awake, Pushing
<1>9. ItemsAwaited'
  <2>1. CASE waiting["_not_empty"] = {}
    BY <2>1, <1>3 DEF ItemsAwaited
  <2>2. CASE waiting["_not_empty"] # {}
    <3>1. PICK t \in waiting["_not_empty"] :
              waiting' = [waiting EXCEPT !["_not_empty"] = @ \ {t}]
        BY <2>2 DEF Notify
    <3>2. t \in Consumers /\ t \notin Awake /\ Awake \cup {t} \subseteq Awake'
        BY <3>1, QueueAssumption DEF QInv, Typed, TypeOK, Sleepers, Awake, Threads, Conditions, Goto
    <3>3. Cardinality(Awake) + 1 <= Cardinality(Awake')
        BY <3>2, <1>8, Subsets, QueueAssumption
    <3>4. Cardinality(Awake) \in Nat /\ Cardinality(Awake') \in Nat
        BY <1>8, Subsets, QueueAssumption
    <3> QED
        <4>1. Len(queue) <= Cardinality(Awake)
            BY <2>2 DEF QInv, ItemsAwaited
        <4>2. Len(queue') <= Cardinality(Awake')
            BY <1>1, <1>2, <3>3, <3>4, <4>1
        <4> QED
            BY <4>2 DEF ItemsAwaited
  <2> QED
    BY <2>1, <2>2
<1>10. RoomAwaited'
  <2>1. Pushing \ {p} \subseteq Pushing'
    BY <1>3, QueueAssumption DEF QInv, Typed, Pushing, Threads, Goto
  <2>2. Cardinality(Pushing) - 1 <= Cardinality(Pushing')
    BY <2>1, <1>8, Subsets, QueueAssumption
  <2>3. Cardinality(Pushing) \in Nat /\ Cardinality(Pushing') \in Nat
    BY <1>8, Subsets, QueueAssumption
  <2> QED
    BY <2>2, <2>3, <1>1, <1>2, <1>3 DEF QInv, RoomAwaited
<1> QED
    BY <1>2, <1>4, <1>5, <1>6, <1>7, <1>9, <1>10 DEF QInv

(* A consumer sleeps only when there is no item, a worker only while the   *)
(* pool is running.                                                        *)
LEMMA TakeWaits ==
    ASSUME QInv, NEW t \in Consumers, At(t, "take"), queue = <<>>,
           class = "ThreadPool" => running, Wait(t, "_not_empty"),
           UNCHANGED <<class, capacity, queue, pc, count, pool, accepted, taken>>
    PROVE  QInv'
<1>1. Typed' /\ TypeOK'
    BY QueueAssumption DEF QInv, Typed, TypeOK, Threads, Conditions, Wait, pool
<1>2. InOrder' /\ PoolPhases' /\ OneStarts'
    BY DEF QInv, InOrder, PoolPhases, Stopped, OneStarts, Starting, pool
<1>3. Sleepers'
    BY DEF QInv, Typed, Sleepers, Limited, Conditions, Wait, At, pool
<1>4. Pushing' = Pushing /\ waiting'["_not_full"] = waiting["_not_full"]
    BY DEF QInv, Typed, Conditions, Pushing, Wait
<1>5. RoomAwaited'
    BY <1>4 DEF QInv, RoomAwaited
<1>6. ItemsAwaited'
  <2>1. Cardinality(Awake') \in Nat
    <3>1. Awake' \in SUBSET Consumers
        BY DEF Awake
    <3> QED
        BY <3>1, Subsets, QueueAssumption
  <2>2. Len(queue') = 0
    BY EmptySeq
  <2> QED
    BY <2>1, <2>2 DEF ItemsAwaited
<1> QED
    BY <1>1, <1>2, <1>3, <1>5, <1>6 DEF QInv

(* The place is for the producer that is notified, and the consumer has    *)
(* taken the item it was awake for.                                        *)
LEMMA TakePops ==
    ASSUME QInv, NEW t \in Consumers, NEW next \in {"take", "task"}, At(t, "take"),
           queue # <<>>, Pop, IF Limited THEN Notify("_not_full") ELSE UNCHANGED waiting,
           Goto(t, next), UNCHANGED <<class, capacity, count, pool, accepted>>
    PROVE  QInv'
<1>1. Len(queue) \in Nat /\ capacity \in Nat
    BY LenProperties DEF QInv, Typed
<1>2. /\ queue' \in Seq(Items) /\ taken' \in Seq(Items) /\ InOrder'
      /\ Len(queue') = Len(queue) - 1
    BY TakenInOrder, ZenonT(60) DEF QInv, Typed, InOrder, Pop
<1>3. /\ waiting' \in [Conditions -> SUBSET Threads]
      /\ waiting'["_not_full"] \subseteq waiting["_not_full"]
      /\ waiting'["_not_empty"] = waiting["_not_empty"] /\ waiting'["_latch"] = waiting["_latch"]
    BY DEF QInv, Typed, Conditions, Notify
<1>4. t \notin waiting["_not_empty"]
    BY DEF At, Blocked, Conditions
<1>5. Typed'
    BY <1>2, <1>3 DEF QInv, Typed, Places, Threads, Goto, pool
<1>6. TypeOK'
    BY <1>1, <1>2, <1>3, <1>5 DEF QInv, Typed, TypeOK, pool
<1>7. Sleepers'
    BY <1>3, <1>4, QueueAssumption DEF QInv, Typed, TypeOK, Sleepers, Limited, Threads, Goto, pool
<1>8. PoolPhases' /\ OneStarts'
    BY QueueAssumption DEF QInv, Typed, TypeOK, PoolPhases, Stopped, OneStarts, Starting, Threads,
       Goto, At, pool
<1>9. /\ Awake \in SUBSET Consumers /\ Awake' \in SUBSET Consumers
      /\ Pushing \in SUBSET Producers /\ Pushing' \in SUBSET Producers
    BY DEF Awake, Pushing
<1>10. ItemsAwaited'
  <2>1. Awake \ {t} \subseteq Awake'
    BY <1>3, QueueAssumption DEF QInv, Typed, Awake, Threads, Goto
  <2>2. Cardinality(Awake) - 1 <= Cardinality(Awake')
    BY <2>1, <1>9, Subsets, QueueAssumption
  <2>3. Cardinality(Awake) \in Nat /\ Cardinality(Awake') \in Nat
    BY <1>9, Subsets, QueueAssumption
  <2> QED
    BY <2>2, <2>3, <1>1, <1>2, <1>3 DEF QInv, ItemsAwaited
<1>11. RoomAwaited'
  <2>1. CASE waiting["_not_full"] = {}
    BY <2>1, <1>3 DEF RoomAwaited
  <2>2. CASE waiting["_not_full"] # {}
    <3>1. PICK p \in waiting["_not_full"] :
              waiting' = [waiting EXCEPT !["_not_full"] = @ \ {p}]
        BY <2>2 DEF QInv, Sleepers, Notify
    <3>2. p \in Producers /\ p \notin Pushing /\ Pushing \cup {p} \subseteq Pushing'
        BY <3>1, QueueAssumption DEF QInv, Typed, TypeOK, Sleepers, Pushing, Threads, Conditions,
           Goto
    <3>3. Cardinality(Pushing) + 1 <= Cardinality(Pushing')
        BY <3>2, <1>9, Subsets, QueueAssumption
    <3>4. Cardinality(Pushing) \in Nat /\ Cardinality(Pushing') \in Nat
        BY <1>9, Subsets, QueueAssumption
    <3> QED
        <4>1. capacity - Len(queue) <= Cardinality(Pushing)
            BY <2>2 DEF QInv, RoomAwaited
        <4>2. capacity - Len(queue') <= Cardinality(Pushing')
            BY <1>1, <1>2, <3>3, <3>4, <4>1
        <4> QED
            BY <4>2 DEF RoomAwaited
  <2> QED
    BY <2>1, <2>2
<1> QED
    BY <1>2, <1>5, <1>6, <1>7, <1>8, <1>10, <1>11 DEF QInv

(* A worker gives up only when the pool has stopped and no worker sleeps.  *)
LEMMA TakeGivesUp ==
    ASSUME QInv, NEW t \in Consumers, At(t, "take"), class = "ThreadPool", ~running,
           Goto(t, "loop"),
           UNCHANGED <<class, capacity, queue, waiting, count, pool, accepted, taken>>
    PROVE  QInv'
<1>1. Typed' /\ TypeOK'
    BY DEF QInv, Typed, TypeOK, Places, Threads, Goto, pool
<1>2. waiting["_not_empty"] = {}
    BY DEF QInv, Sleepers
<1>3. InOrder' /\ Sleepers'
    BY <1>2, QueueAssumption DEF QInv, Typed, TypeOK, InOrder, Sleepers, Limited, Threads, Goto,
       pool
<1>4. PoolPhases'
    BY QueueAssumption DEF QInv, Typed, TypeOK, PoolPhases, Stopped, Threads, Goto, At, pool
<1>5. OneStarts'
    BY QueueAssumption DEF QInv, Typed, TypeOK, OneStarts, Starting, Threads, Goto, At, pool
<1>6. ItemsAwaited'
    BY <1>2 DEF ItemsAwaited
<1>7. Pushing' = Pushing
    BY QueueAssumption DEF QInv, Typed, Pushing, Threads, Goto
<1>8. RoomAwaited'
    BY <1>7 DEF QInv, RoomAwaited
<1> QED
    BY <1>1, <1>3, <1>4, <1>5, <1>6, <1>8 DEF QInv

(* put() and run(), in all four classes, wait for room or push.            *)
LEMMA PutKeeps ==
    ASSUME QInv, NEW p \in Producers, Put(p)
    PROVE  QInv'
<1>1. Len(queue) \in Nat /\ capacity \in Nat
    BY LenProperties DEF QInv, Typed
<1>2. CASE RunInline(p)
    BY <1>2, RunInlineKeeps
<1>3. CASE BlockingQueuePut(p)
    BY <1>3, PutPushes DEF BlockingQueuePut, PutUnless, Limited, Bounded
<1>4. CASE BoundedPut(p) \/ BoundedStdPut(p)
  <2>1. Limited /\ Len(queue) <= capacity
    BY <1>4 DEF BoundedPut, BoundedStdPut, Limited, Bounded, QInv, TypeOK
  <2>2. /\ Len(queue) = capacity => Len(queue) >= capacity
        /\ Len(queue) # capacity => Len(queue) < capacity
    BY <1>1, <2>1
  <2>3. PutUnless(Len(queue) = capacity, p)
    BY <1>4 DEF BoundedPut, BoundedStdPut
  <2>4. CASE Len(queue) = capacity
    BY <2>1, <2>2, <2>3, <2>4, PutWaits DEF PutUnless
  <2>5. CASE Len(queue) # capacity
    BY <2>2, <2>3, <2>5, PutPushes DEF PutUnless
  <2> QED
    BY <2>4, <2>5
<1>5. CASE Run(p)
  <2>1. /\ IsFull => Limited /\ Len(queue) >= capacity
        /\ ~IsFull => (Limited => Len(queue) < capacity)
    BY <1>1, <1>5 DEF Run, IsFull, Limited, Bounded
  <2>2. CASE IsFull
    BY <1>5, <2>1, <2>2, PutWaits DEF Run, PutUnless
  <2>3. CASE ~IsFull
    BY <1>5, <2>1, <2>3, PutPushes DEF Run, PutUnless
  <2> QED
    BY <2>2, <2>3
<1> QED
    BY <1>2, <1>3, <1>4, <1>5 DEF Put

(* take() finds an item, waits for one, or gives up.                       *)
LEMMA TakeKeeps ==
    ASSUME QInv, NEW t \in Consumers, Take(t)
    PROVE  QInv'
<1>1. ASSUME NEW empty, NEW next \in {"take", "task"}, TakeUnless(empty, t, next),
             empty => queue = <<>> /\ (class = "ThreadPool" => running),
             ~empty /\ queue = <<>> => class = "ThreadPool" /\ ~running
      PROVE  QInv'
  <2>1. CASE empty
    BY <1>1, <2>1, TakeWaits DEF TakeUnless
  <2>2. CASE ~empty /\ queue # <<>>
    BY <1>1, <2>2, TakePops DEF TakeUnless, Limited
  <2>3. CASE ~empty /\ queue = <<>>
    BY <1>1, <2>3, TakeGivesUp DEF TakeUnless
  <2> QED
    BY <2>1, <2>2, <2>3
<1>2. CASE BlockingQueueTake(t) \/ BoundedTake(t) \/ BoundedStdTake(t)
    BY <1>1, <1>2, ZenonT(60) DEF BlockingQueueTake, BoundedTake, BoundedStdTake
<1>3. CASE PoolTake(t)
    BY <1>1, <1>3, ZenonT(60) DEF PoolTake
<1> QED
    BY <1>2, <1>3 DEF Take

-----------------------------------------------------------------------------
(* In every reachable state of the queues and of the pool, QInv holds.     *)
THEOREM QueueInvariant == Spec => []QInv
<1>1. Init => QInv
  <2> SUFFICES ASSUME Init PROVE QInv
    OBVIOUS
  <2>1. Typed
    BY QueueAssumption, EmptySeq, ZenonT(60) DEF Init, Typed, Places, Threads
  <2>2. TypeOK
    BY <2>1, EmptySeq DEF Init, TypeOK, Typed, Conditions
  <2>3. InOrder
    BY <2>1, ConcatEmptySeq DEF Init, InOrder, Typed
  <2>4. Sleepers /\ ItemsAwaited /\ RoomAwaited
    BY DEF Init, Sleepers, ItemsAwaited, RoomAwaited, Conditions
  <2>5. PoolPhases /\ OneStarts
    BY QueueAssumption DEF Init, PoolPhases, OneStarts, Starting, Stopped, Threads
  <2> QED
    BY <2>1, <2>2, <2>3, <2>4, <2>5 DEF QInv
<1>2. QInv /\ [Next]_vars => QInv'
  <2> SUFFICES ASSUME QInv, [Next]_vars PROVE QInv'
    OBVIOUS
  <2>1. ASSUME NEW p \in Producers, CallPut(p) \/ Put(p) PROVE QInv'
    BY <2>1, CallPutKeeps, PutKeeps
  <2>2. ASSUME NEW t \in Consumers, Take(t) \/ StartThread(t) PROVE QInv'
    BY <2>2, TakeKeeps, StartThreadKeeps
  <2>3. ASSUME NEW t \in Consumers, Worker(t) PROVE QInv'
    BY <2>3, SetTidKeeps, CountDownKeeps, WorkerLoopKeeps, TaskReturnKeeps DEF Worker
  <2>4. CASE PoolStart \/ LatchWait \/ StartReturn \/ Stop \/ Join
    BY <2>4, PoolStartKeeps, LatchWaitKeeps, StartReturnKeeps, StopKeeps, JoinKeeps
  <2>5. ASSUME NEW t \in Threads, SpuriousWakeup(t) PROVE QInv'
    BY <2>5, SpuriousWakeupKeeps
  <2>6. CASE UNCHANGED vars
    <3> USE <2>6 DEF vars, pool
    <3>1. Typed' /\ TypeOK' /\ InOrder'
        BY DEF QInv, Typed, TypeOK, InOrder
    <3>2. Sleepers'
        BY DEF QInv, Sleepers, Limited
    <3>3. PoolPhases'
        BY DEF QInv, PoolPhases, Stopped
    <3>4. OneStarts'
        BY DEF QInv, OneStarts, Starting
    <3>5. ItemsAwaited' /\ RoomAwaited'
        BY DEF QInv, ItemsAwaited, RoomAwaited, Awake, Pushing
    <3> QED
        BY <3>1, <3>2, <3>3, <3>4, <3>5 DEF QInv
  <2> QED
    BY <2>1, <2>2, <2>3, <2>4, <2>5, <2>6 DEF Next
<1> QED
    BY <1>1, <1>2, PTL DEF Spec

(* Nobody sleeps who could go on, items stay in order and within the       *)
(* capacity, and threads are started with their _tid set, for any number   *)
(* of threads and every capacity (BoundedBlockingQueue.h, ThreadPool.cc).  *)
THEOREM NobodySleepsIdle == Spec => []NobodyIdle
<1>1. QInv => NobodyIdle
  <2> SUFFICES ASSUME QInv PROVE NobodyIdle
    OBVIOUS
  <2>1. Awake = {t \in Consumers : At(t, "take")}
    BY QueueAssumption DEF QInv, TypeOK, Awake, At, Blocked, Conditions
  <2>2. Pushing = {p \in Producers : At(p, "put")}
    BY QueueAssumption DEF QInv, TypeOK, Pushing, At, Blocked, Conditions
  <2>3. NoIdleConsumer /\ NoIdleProducer
    BY <2>1, <2>2 DEF QInv, ItemsAwaited, RoomAwaited, NoIdleConsumer, NoIdleProducer
  <2>4. StopLeavesNoneAsleep
    BY DEF QInv, PoolPhases, Sleepers, Stopped, StopLeavesNoneAsleep
  <2>5. StartedHasTid
    BY DEF QInv, TypeOK, OneStarts, Starting, StartedHasTid
  <2> QED
    BY <2>3, <2>4, <2>5 DEF QInv, NobodyIdle
<1> QED
    BY <1>1, QueueInvariant, PTL
=============================================================================
