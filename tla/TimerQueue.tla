----------------------------- MODULE TimerQueue -----------------------------
(***************************************************************************)
(* muduo::net::TimerQueue, with Timer and TimerId: the timers of one       *)
(* EventLoop, kept sorted by expiration (timers_) and by address           *)
(* (activeTimers_), driven by one timerfd.                                 *)
(*                                                                         *)
(* Timers are heap objects: a pointer is free or points to a Timer, and    *)
(* new may reuse an address that delete has given back.  A TimerId is a    *)
(* pair <<pointer, sequence>>, an element of timers_ a pair                *)
(* <<expiration, pointer>>.  Time is counted in ticks; the 100us that      *)
(* howMuchTimeFromNow waits at least is less than a tick, so a timerfd set *)
(* to the past becomes readable within the current tick.                   *)
(*                                                                         *)
(* From the loop this module takes only what SerialExecutor promises:      *)
(* functors queued by other threads run in the loop thread, one at a time, *)
(* in order, and never in the middle of a callback.                        *)
(***************************************************************************)
EXTENDS Naturals, Sequences, FiniteSetsExt

CONSTANTS
    Threads,      \* the threads other than the loop's own
    Ptrs,         \* the addresses that new can return
    Free,         \* the content of an address with no Timer
    Disarmed,     \* the state of a timerfd that is not set
    Delays,       \* how far in the future a timer is set
    Intervals,    \* the intervals of timers, 0 for one that does not repeat
    MaxTimers,    \* how many timers are created (a bound)
    MaxTime       \* when the clock stops (a bound)

ASSUME TimerAssumption ==
    /\ Delays \subseteq Nat /\ Intervals \subseteq Nat
    /\ MaxTimers \in Nat /\ MaxTime \in Nat
    /\ Disarmed \notin Nat
    /\ Free \notin [expiration : Nat, interval : Intervals, sequence : 1..MaxTimers]

VARIABLES
    now,          \* Timestamp::now()
    heap,         \* what each address holds
    created,      \* Timer::s_numCreated_
    timers,       \* timers_
    activeTimers, \* activeTimers_
    canceling,    \* cancelingTimers_
    timerfd,      \* when the timerfd becomes readable, or Disarmed
    ready,        \* the timerfd is among the active channels of this iteration
    lpc,          \* the loop thread: "idle", "calling", "callback", "dead"
    expired,      \* the batch of handleRead
    torun,        \* the part of the batch whose callbacks have not started
    polled,       \* the time at which handleRead took the batch
    pending,      \* functors queued for the loop: addTimerInLoop, cancelInLoop
    tpc,          \* other threads: Idle, or the timer whose sequence is to be read
    ids,          \* history: TimerIds returned to the users
    fired,        \* history: sequences whose callback has started
    cancelled     \* history: sequences cancelInLoop found in the queue or the batch

heapVars == <<heap, created>>
queueVars == <<timers, activeTimers, canceling, timerfd>>
batchVars == <<expired, torun, polled>>
vars == <<now, heapVars, queueVars, ready, lpc, batchVars, pending, tpc,
          ids, fired, cancelled>>

Idle == <<>>
Seqs == 1..MaxTimers

Init ==
    /\ now = 0
    /\ heap = [p \in Ptrs |-> Free]
    /\ created = 0
    /\ timers = {}
    /\ activeTimers = {}
    /\ canceling = {}
    /\ timerfd = Disarmed
    /\ ready = FALSE
    /\ lpc = "idle"
    /\ expired = {} /\ torun = {} /\ polled = 0
    /\ pending = <<>>
    /\ tpc = [t \in Threads |-> Idle]
    /\ ids = {} /\ fired = {} /\ cancelled = {}

-----------------------------------------------------------------------------
(* Helpers.                                                                *)

Readable == timerfd # Disarmed /\ timerfd <= now
IdOf(h, p) == <<p, h[p].sequence>>
Earliest(ts) == Min({e[1] : e \in ts})

\* new Timer(cb, when, interval), at the address p.
NewTimer(p, when, interval) ==
    /\ heap[p] = Free
    /\ created < MaxTimers
    /\ created' = created + 1
    /\ heap' = [heap EXCEPT ![p] = [expiration |-> when, interval |-> interval,
                                    sequence |-> created + 1]]

\* Mutant: no minimal delay, so a time in the past disarms the timerfd.
ResetTimerfd_NoFloor(when) == IF when <= now THEN Disarmed ELSE when

\* resetTimerfd and howMuchTimeFromNow: never less than the minimal delay.
ResetTimerfd(when) == IF when < now THEN now ELSE when

\* addTimerInLoop and insert, with the heap h in which the timer p is found.
AddTimerInLoop(h, p) ==
    LET when == h[p].expiration
        earliestChanged == timers = {} \/ when < Earliest(timers)
    IN  /\ timers' = timers \cup {<<when, p>>}
        /\ activeTimers' = activeTimers \cup {IdOf(h, p)}
        /\ timerfd' = IF earliestChanged THEN ResetTimerfd(when) ELSE timerfd
        /\ UNCHANGED canceling

CancelInLoop(id) ==
    LET p == id[1]
    IN  \/ /\ id \in activeTimers
           /\ timers' = timers \ {<<heap[p].expiration, p>>}
           /\ activeTimers' = activeTimers \ {id}
           /\ heap' = [heap EXCEPT ![p] = Free]
           /\ cancelled' = cancelled \cup {id[2]}
           /\ UNCHANGED <<canceling, timerfd, created>>
        \/ /\ id \notin activeTimers
           /\ canceling' = IF lpc \in {"calling", "callback"} THEN canceling \cup {id}
                           ELSE canceling
           /\ cancelled' = IF \E e \in expired : IdOf(heap, e[2]) = id
                           THEN cancelled \cup {id[2]} ELSE cancelled
           /\ UNCHANGED <<timers, activeTimers, timerfd, heapVars>>

-----------------------------------------------------------------------------
(* addTimer and cancel in another thread.                                  *)

\* new Timer, and addTimerInLoop queued for the loop.
AddTimer(t) ==
    /\ lpc # "dead"
    /\ tpc[t] = Idle
    /\ \E p \in Ptrs, d \in Delays, i \in Intervals :
        /\ now + d <= MaxTime
        /\ NewTimer(p, now + d, i)
        /\ pending' = Append(pending, [op |-> "add", id |-> <<p, created'>>])
        /\ tpc' = [tpc EXCEPT ![t] = <<p, created'>>]
    /\ UNCHANGED <<now, queueVars, ready, lpc, batchVars, ids, fired, cancelled>>

\* return TimerId(timer, timer->sequence()): the timer is read after it was
\* handed over.  If it is gone by then, the read gives whatever is there.
AddTimerReturn(t) ==
    /\ tpc[t] # Idle
    /\ LET p == tpc[t][1]
       IN  \E s \in IF heap[p] = Free THEN Seqs ELSE {heap[p].sequence} :
               ids' = ids \cup {<<p, s>>}
    /\ tpc' = [tpc EXCEPT ![t] = Idle]
    /\ UNCHANGED <<now, heapVars, queueVars, ready, lpc, batchVars, pending,
                   fired, cancelled>>

Cancel(t) ==
    /\ lpc # "dead"
    /\ tpc[t] = Idle
    /\ Len(pending) < MaxTimers
    /\ \E id \in ids : pending' = Append(pending, [op |-> "cancel", id |-> id])
    /\ UNCHANGED <<now, heapVars, queueVars, ready, lpc, batchVars, tpc, ids,
                   fired, cancelled>>

-----------------------------------------------------------------------------
(* addTimer and cancel in user code of the loop thread: the callback of a  *)
(* timer, or of another channel or a functor.                              *)

InUserCode == lpc \in {"idle", "callback"}

OwnerAddTimer ==
    /\ InUserCode
    /\ \E p \in Ptrs, d \in Delays, i \in Intervals :
        /\ now + d <= MaxTime
        /\ NewTimer(p, now + d, i)
        /\ AddTimerInLoop(heap', p)
        /\ ids' = ids \cup {IdOf(heap', p)}
    /\ UNCHANGED <<now, ready, lpc, batchVars, pending, tpc, fired, cancelled>>

OwnerCancel ==
    /\ InUserCode
    /\ \E id \in ids : CancelInLoop(id)
    /\ UNCHANGED <<now, ready, lpc, batchVars, pending, tpc, ids, fired>>

-----------------------------------------------------------------------------
(* The loop.                                                               *)

\* A functor queued by AddTimer or Cancel.
RunFunctor ==
    /\ lpc = "idle" /\ ~ready
    /\ pending # <<>>
    /\ pending' = Tail(pending)
    /\ \/ /\ Head(pending).op = "add"
          /\ AddTimerInLoop(heap, Head(pending).id[1])
          /\ UNCHANGED <<heapVars, cancelled>>
       \/ /\ Head(pending).op = "cancel"
          /\ CancelInLoop(Head(pending).id)
    /\ UNCHANGED <<now, ready, lpc, batchVars, tpc, ids, fired>>

\* poll() finds the timerfd readable; the callbacks of other channels may run
\* before its own.
PollTimerfd ==
    /\ lpc = "idle" /\ ~ready
    /\ Readable
    /\ ready' = TRUE
    /\ UNCHANGED <<now, heapVars, queueVars, lpc, batchVars, pending, tpc, ids,
                   fired, cancelled>>

\* handleRead up to the callbacks: readTimerfd takes the expiration, if there
\* still is one, and getExpired takes the timers that are due.
HandleRead ==
    /\ lpc = "idle" /\ ready
    /\ LET due == {e \in timers : e[1] <= now}
       IN  /\ expired' = due
           /\ torun' = due
           /\ timers' = timers \ due
           /\ activeTimers' = activeTimers \ {IdOf(heap, e[2]) : e \in due}
    /\ polled' = now
    /\ timerfd' = IF Readable THEN Disarmed ELSE timerfd
    /\ canceling' = {}
    /\ ready' = FALSE
    /\ lpc' = "calling"
    /\ UNCHANGED <<now, heapVars, pending, tpc, ids, fired, cancelled>>

\* Timer::run, in the order of timers_; equal expirations are ordered by
\* address, which the program does not control.
RunTimer ==
    /\ lpc = "calling"
    /\ \E e \in torun :
        /\ e[1] = Earliest(torun)
        /\ torun' = torun \ {e}
        /\ fired' = fired \cup {heap[e[2]].sequence}
    /\ lpc' = "callback"
    /\ UNCHANGED <<now, heapVars, queueVars, ready, expired, polled, pending, tpc,
                   ids, cancelled>>

CallbackReturn ==
    /\ lpc = "callback"
    /\ lpc' = "calling"
    /\ UNCHANGED <<now, heapVars, queueVars, ready, batchVars, pending, tpc, ids,
                   fired, cancelled>>

\* Timer::restart of a timer that repeats.
Restart(timer, when) == [timer EXCEPT !.expiration = when + timer.interval]

\* reset, for a batch of which the timers in again are kept and those in gone
\* are deleted.
ResetBatch(again, gone) ==
    LET restarted == [p \in Ptrs |->
            CASE p \in again -> Restart(heap[p], polled)
              [] p \in gone -> Free
              [] OTHER -> heap[p]]
    IN  /\ heap' = restarted
        /\ timers' = timers \cup {<<restarted[p].expiration, p>> : p \in again}
        /\ activeTimers' = activeTimers \cup {IdOf(heap, p) : p \in again}
        /\ timerfd' = IF timers' = {} THEN timerfd ELSE ResetTimerfd(Earliest(timers'))
        /\ expired' = {} /\ polled' = 0
        /\ lpc' = "idle"
        /\ UNCHANGED <<now, created, canceling, ready, torun, pending, tpc, ids,
                       fired, cancelled>>

Repeats(p) == heap[p].interval > 0

\* Mutants: timers that do not repeat are inserted again; cancelingTimers_ is not
\* consulted.
Reset_RepeatAll ==
    /\ lpc = "calling" /\ torun = {}
    /\ ResetBatch({e[2] : e \in expired}, {})

Reset_KeepCanceled ==
    /\ lpc = "calling" /\ torun = {}
    /\ LET again == {e[2] : e \in {x \in expired : Repeats(x[2])}}
       IN  ResetBatch(again, {e[2] : e \in expired} \ again)

\* reset: a repeating timer that was not cancelled meanwhile is restarted and
\* inserted again, the others are deleted; the timerfd is set to the earliest.
Reset ==
    /\ lpc = "calling"
    /\ torun = {}
    /\ LET batch == {e[2] : e \in expired}
           again == {p \in batch : Repeats(p) /\ IdOf(heap, p) \notin canceling}
       IN  ResetBatch(again, batch \ again)

\* ~TimerQueue, in the destructor of the EventLoop.
Destroy ==
    /\ lpc = "idle" /\ ~ready
    /\ heap' = [p \in Ptrs |-> IF \E e \in timers : e[2] = p THEN Free ELSE heap[p]]
    /\ timers' = {} /\ activeTimers' = {}
    /\ timerfd' = Disarmed
    /\ lpc' = "dead"
    /\ UNCHANGED <<now, created, canceling, ready, batchVars, pending, tpc, ids,
                   fired, cancelled>>

Tick ==
    /\ now < MaxTime
    /\ now' = now + 1
    /\ UNCHANGED <<heapVars, queueVars, ready, lpc, batchVars, pending, tpc, ids,
                   fired, cancelled>>

-----------------------------------------------------------------------------
LoopStep == RunFunctor \/ PollTimerfd \/ HandleRead \/ RunTimer \/ CallbackReturn \/ Reset

Next ==
    \/ \E t \in Threads : AddTimer(t) \/ AddTimerReturn(t) \/ Cancel(t)
    \/ OwnerAddTimer \/ OwnerCancel
    \/ LoopStep
    \/ Destroy
    \/ Tick

Spec == Init /\ [][Next]_vars

\* Time passes, and the loop thread is scheduled and its callbacks return.
Fairness ==
    /\ WF_vars(Tick)
    /\ WF_vars(RunFunctor) /\ WF_vars(PollTimerfd) /\ WF_vars(HandleRead)
    /\ WF_vars(RunTimer) /\ WF_vars(CallbackReturn) /\ WF_vars(Reset)

FairSpec == Spec /\ Fairness

-----------------------------------------------------------------------------
(* Properties.                                                             *)

\* Every variable has its type.  The expiration in timers_ is a natural number
\* and every id in activeTimers_ names an address and a sequence.
TypeOK ==
    /\ now \in 0..MaxTime
    /\ heap \in [Ptrs -> {Free} \cup
                         [expiration : Nat, interval : Intervals, sequence : Seqs]]
    /\ created \in 0..MaxTimers
    /\ timers \subseteq (Nat \X Ptrs)
    /\ activeTimers \subseteq (Ptrs \X Seqs)
    /\ canceling \subseteq (Ptrs \X Seqs)
    /\ timerfd \in Nat \cup {Disarmed}
    /\ ready \in BOOLEAN
    /\ lpc \in {"idle", "calling", "callback", "dead"}
    /\ torun \subseteq expired /\ expired \subseteq (Nat \X Ptrs)
    /\ ids \subseteq (Ptrs \X Seqs)
    /\ fired \subseteq Seqs /\ cancelled \subseteq Seqs

\* The two containers describe the same timers: every entry of timers_ points to
\* a live Timer with that expiration, and activeTimers_ holds exactly their ids.
\* The asserts of cancelInLoop, getExpired and insert compare only the sizes.
SetsAgree ==
    /\ \A e \in timers : heap[e[2]] # Free /\ heap[e[2]].expiration = e[1]
    /\ activeTimers = {IdOf(heap, e[2]) : e \in timers}

Queued == {e[2] : e \in timers}
InBatch == {e[2] : e \in expired}
ToAdd == {i \in DOMAIN pending : pending[i].op = "add"}
InTransit == {pending[i].id[1] : i \in ToAdd}

\* Every live Timer has exactly one owner, who will delete it: an addTimerInLoop
\* functor that has not run, timers_, or the expired batch of handleRead.  So none
\* leaks, is deleted twice, or is run or read by the queue after its deletion.
OneOwner ==
    /\ {p \in Ptrs : heap[p] # Free} = Queued \cup InBatch \cup InTransit
    /\ Queued \cap InBatch = {}
    /\ Queued \cap InTransit = {}
    /\ InBatch \cap InTransit = {}
    /\ \A i, j \in ToAdd : pending[i].id[1] = pending[j].id[1] => i = j

\* Whenever handleRead is not at work, the timerfd becomes readable no later than
\* the earliest timer expires, or within this tick, or its event is to be handled.
TimerfdArmed ==
    lpc = "idle" /\ ~ready /\ timers # {} =>
        timerfd # Disarmed /\ (timerfd <= now \/ timerfd <= Earliest(timers))

\* A timer that cancelInLoop found, in the queue or among the timers being called,
\* is not in the queue afterwards: reset does not put it back, and no other Timer
\* at the same address inherits the cancellation.
CancelledStaysOut ==
    \A e \in timers : heap[e[2]].sequence \notin cancelled

CallbackStarts(e) == e \in torun /\ e \notin torun'

\* A callback starts only when its timer is due, and that of a timer that does not
\* repeat starts at most once, whatever is added and cancelled meanwhile.
RunsWhenDue ==
    [][\A e \in torun : CallbackStarts(e) =>
         /\ e[1] <= now
         /\ heap[e[2]].interval = 0 => heap[e[2]].sequence \notin fired]_vars

Live(s) == \E p \in Ptrs : heap[p] # Free /\ heap[p].sequence = s

\* Every timer is called eventually, unless somebody cancels a timer with its
\* sequence or the queue is destroyed.
TimerRuns ==
    \A s \in Seqs : Live(s) ~> (s \in fired \/ s \in cancelled \/ lpc = "dead")

\* The invariant of the queue, over all interleavings of additions, cancellations
\* and callbacks: containers in step, one owner per Timer, the timerfd armed, and
\* nothing that was cancelled queued again.
TimersSound == TypeOK /\ SetsAgree /\ OneOwner /\ TimerfdArmed /\ CancelledStaysOut
=============================================================================
