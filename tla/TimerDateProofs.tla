-------------------------- MODULE TimerDateProofs ---------------------------
(***************************************************************************)
(* Theorems about TimerQueue and about Date and TimeZone.  The two have    *)
(* nothing to do with each other.                                          *)
(***************************************************************************)
EXTENDS TimerQueue, Calendar, WellFoundedInduction, TLAPS

\* Leaves go to Zenon unless they name another prover.
USE ZenonT(60)

-----------------------------------------------------------------------------
(***************************************************************************)
(* TimerQueue, for any number of threads, timers, addresses and any length *)
(* of time: the containers, the owners of the Timers, the timerfd and the  *)
(* cancellations stay sound (TimersSound), and a callback starts only when *)
(* its timer is due, once if it does not repeat (RunsWhenDue).             *)
(***************************************************************************)
Timers == [expiration : Nat, interval : Intervals, sequence : Seqs]
Calls == [op : {"add", "cancel"}, id : Ptrs \X Seqs]
Living == {p \in Ptrs : heap[p] # Free}

\* What TypeOK leaves out: the functors, the threads and the time of the batch.
Typed ==
    /\ TypeOK
    /\ pending \in Seq(Calls)
    /\ tpc \in [Threads -> {Idle} \cup (Ptrs \X Seqs)]
    /\ polled \in Nat /\ polled <= now

\* The addresses of the timers that functors of q will add, and that no two
\* functors add the same.
Adds(q) == {i \in DOMAIN q : q[i].op = "add"}
Transit(q) == {q[i].id[1] : i \in Adds(q)}
AddsDiffer(q) == \A i, j \in Adds(q) : q[i].id[1] = q[j].id[1] => i = j

Owners ==
    /\ Living = Queued \cup InBatch \cup Transit(pending)
    /\ Queued \cap InBatch = {}
    /\ Queued \cap Transit(pending) = {}
    /\ InBatch \cap Transit(pending) = {}
    /\ AddsDiffer(pending)

\* Sequences are given out once, and the histories know only those given out.
SequencesOnce ==
    /\ \A p \in Living : heap[p].sequence <= created
    /\ \A p, q \in Living : heap[p].sequence = heap[q].sequence => p = q
    /\ \A s \in fired \cup cancelled : s <= created

\* The entries of the batch are those of live Timers that were due; the batch
\* exists only while handleRead is at work.
Batch ==
    /\ \A e \in expired : heap[e[2]].expiration = e[1] /\ e[1] <= polled
    /\ lpc \in {"idle", "dead"} => expired = {}

\* A live Timer whose cancellation was noted is in the batch, and cancelingTimers_
\* tells reset about it.
Cancellations ==
    \A p \in Living : heap[p].sequence \in cancelled =>
        p \in InBatch /\ IdOf(heap, p) \in canceling

\* A Timer that does not repeat and was called is in the batch, and not to be
\* called again.
CalledOnce ==
    \A p \in Living : heap[p].interval = 0 /\ heap[p].sequence \in fired =>
        p \in InBatch /\ \A e \in torun : e[2] # p

\* The inductive invariant.
TInv == Typed /\ SetsAgree /\ Owners /\ SequencesOnce /\ Batch /\ Cancellations /\ CalledOnce
            /\ TimerfdArmed

-----------------------------------------------------------------------------
(* What the operators compute.                                             *)

\* Among the expirations of a queue with timers there is an earliest one:
\* timers_.begin().
LEMMA EarliestIs ==
  ASSUME NEW ts, ts \subseteq (Nat \X Ptrs), ts # {}
  PROVE  /\ Earliest(ts) \in Nat
         /\ \E e \in ts : e[1] = Earliest(ts)
         /\ \A e \in ts : Earliest(ts) <= e[1]
<1> DEFINE T == {e[1] : e \in ts}
           less == {ss \in Nat \X Nat : ss[1] < ss[2]}
<1>1. T \subseteq Nat /\ T # {}
    OBVIOUS
<1>2. \E x \in T : \A y \in T : ~ (<<y, x>> \in less)
    <2>1. IsWellFoundedOn(less, Nat)
        BY NatLessThanWellFounded DEF OpToRel
    <2> HIDE DEF T, less
    <2> QED
        BY <1>1, <2>1, WFMin
<1>3. \E x \in T : \A y \in T : x <= y
    <2> PICK x \in T : \A y \in T : ~ (<<y, x>> \in less)
        BY <1>2
    <2> SUFFICES ASSUME NEW y \in T
                 PROVE  x <= y
        OBVIOUS
    <2> HIDE DEF T
    <2>1. x \in Nat /\ y \in Nat /\ <<y, x>> \notin less
        BY <1>1
    <2> QED
        BY <2>1, SMTT(60)
<1>4. Earliest(ts) \in T /\ \A y \in T : Earliest(ts) <= y
    BY <1>3 DEF Earliest, Min
<1> QED
    BY <1>1, <1>4

\* Queueing addTimerInLoop for a timer that no functor adds yet.
LEMMA AppendAdd ==
  ASSUME NEW q \in Seq(Calls), NEW f \in Calls, f.op = "add", AddsDiffer(q),
         f.id[1] \notin Transit(q)
  PROVE  /\ Transit(Append(q, f)) = Transit(q) \cup {f.id[1]}
         /\ AddsDiffer(Append(q, f))
<1> DEFINE r == Append(q, f)
           n == Len(q)
<1>1. n \in Nat /\ Len(r) = n + 1 /\ r[n + 1] = f /\ \A i \in 1..n : r[i] = q[i]
    BY SMTT(60)
<1>2. DOMAIN q = 1..n /\ DOMAIN r = 1..(n + 1)
    BY <1>1, SMTT(60)
<1> HIDE DEF r, n
<1>3. Adds(r) = Adds(q) \cup {n + 1} /\ (n + 1) \notin Adds(q)
    BY <1>1, <1>2, SMTT(60) DEF Adds
<1>4. \A i \in Adds(q) : r[i] = q[i]
    BY <1>1, <1>2 DEF Adds
<1>5. Transit(r) = Transit(q) \cup {f.id[1]}
    BY <1>1, <1>3, <1>4, SMTT(60) DEF Transit
<1>6. AddsDiffer(r)
    BY <1>1, <1>3, <1>4, SMTT(60) DEF Transit, AddsDiffer
<1> QED
    BY <1>5, <1>6 DEF r

\* Queueing cancelInLoop.
LEMMA AppendCancel ==
  ASSUME NEW q \in Seq(Calls), NEW f \in Calls, f.op = "cancel", AddsDiffer(q)
  PROVE  Transit(Append(q, f)) = Transit(q) /\ AddsDiffer(Append(q, f))
<1> DEFINE r == Append(q, f)
           n == Len(q)
<1>1. n \in Nat /\ Len(r) = n + 1 /\ r[n + 1] = f /\ \A i \in 1..n : r[i] = q[i]
    BY SMTT(60)
<1>2. DOMAIN q = 1..n /\ DOMAIN r = 1..(n + 1)
    BY <1>1, SMTT(60)
<1> HIDE DEF r, n
<1>3. Adds(r) = Adds(q)
    BY <1>1, <1>2, SMTT(60) DEF Adds
<1>4. \A i \in Adds(q) : r[i] = q[i]
    BY <1>1, <1>2 DEF Adds
<1>5. Transit(r) = Transit(q)
    BY <1>3, <1>4 DEF Transit
<1>6. AddsDiffer(r)
    BY <1>3, <1>4 DEF AddsDiffer
<1> QED
    BY <1>5, <1>6 DEF r

\* Running the first functor takes it off the queue.
LEMMA TailOfCalls ==
  ASSUME NEW q \in Seq(Calls), q # <<>>, AddsDiffer(q)
  PROVE  /\ Head(q) \in Calls /\ Tail(q) \in Seq(Calls)
         /\ AddsDiffer(Tail(q))
         /\ Head(q).op = "add" => /\ Head(q).id[1] \in Transit(q)
                                 /\ Transit(Tail(q)) = Transit(q) \ {Head(q).id[1]}
         /\ Head(q).op = "cancel" => Transit(Tail(q)) = Transit(q)
<1> DEFINE r == Tail(q)
           n == Len(q)
<1>1. /\ n \in Nat /\ n > 0 /\ r \in Seq(Calls) /\ Len(r) = n - 1 /\ Head(q) = q[1]
      /\ \A i \in 1..(n - 1) : r[i] = q[i + 1]
    BY SMTT(60)
<1>2. DOMAIN q = 1..n /\ DOMAIN r = 1..(n - 1)
    BY <1>1, SMTT(60)
<1>3. Head(q) \in Calls
    BY <1>1, SMTT(60)
<1> HIDE DEF r, n
<1>4. \A i \in Adds(r) : i + 1 \in Adds(q) /\ i + 1 # 1 /\ r[i] = q[i + 1]
    BY <1>1, <1>2, SMTT(60) DEF Adds
<1>5. \A j \in Adds(q) : j # 1 => j - 1 \in Adds(r) /\ r[j - 1] = q[j]
    BY <1>1, <1>2, SMTT(60) DEF Adds
<1>6. AddsDiffer(r)
    <2> SUFFICES ASSUME NEW i \in Adds(r), NEW j \in Adds(r), r[i].id[1] = r[j].id[1]
                 PROVE  i = j
        BY DEF AddsDiffer
    <2>1. i \in Nat /\ j \in Nat
        BY <1>1, <1>2, SMTT(60) DEF Adds
    <2>2. i + 1 = j + 1
        BY <1>4, SMTT(60) DEF AddsDiffer
    <2> QED
        BY <2>1, <2>2, SMTT(60)
<1>7. ASSUME q[1].op = "add"
      PROVE  q[1].id[1] \in Transit(q) /\ Transit(r) = Transit(q) \ {q[1].id[1]}
    <2>1. 1 \in Adds(q)
        BY <1>1, <1>2, <1>7, SMTT(60) DEF Adds
    <2>2. \A j \in Adds(q) : j # 1 => q[j].id[1] # q[1].id[1]
        BY <2>1 DEF AddsDiffer
    <2>3. Transit(r) \subseteq Transit(q) \ {q[1].id[1]}
        BY <1>4, <2>2, SMTT(60) DEF Transit
    <2>4. Transit(q) \ {q[1].id[1]} \subseteq Transit(r)
        BY <1>5, SMTT(60) DEF Transit
    <2>5. q[1].id[1] \in Transit(q)
        BY <2>1 DEF Transit
    <2> QED
        BY <2>3, <2>4, <2>5
<1>8. ASSUME q[1].op = "cancel"
      PROVE  Transit(r) = Transit(q)
    <2>1. 1 \notin Adds(q)
        BY <1>8 DEF Adds
    <2>2. Transit(r) \subseteq Transit(q)
        BY <1>4 DEF Transit
    <2>3. Transit(q) \subseteq Transit(r)
        BY <1>5, <2>1, SMTT(60) DEF Transit
    <2> QED
        BY <2>2, <2>3
<1> QED
    BY <1>1, <1>3, <1>6, <1>7, <1>8 DEF r

\* A timerfd set to fd at the time n wakes the loop in time for the queue ts.
Armed(ts, fd, n) == fd # Disarmed /\ (fd <= n \/ fd <= Earliest(ts))

\* insert and resetTimerfd: the timerfd is in time for the new timer too.
LEMMA ArmedAfterAdd ==
  ASSUME NEW ts, ts \subseteq (Nat \X Ptrs), NEW fd \in Nat \cup {Disarmed},
         NEW n \in Nat, NEW w \in Nat, NEW p \in Ptrs, NEW fd2,
         fd2 = IF ts = {} \/ w < Earliest(ts) THEN IF w < n THEN n ELSE w ELSE fd
  PROVE  /\ fd2 \in Nat \cup {Disarmed}
         /\ (ts = {} \/ Armed(ts, fd, n)) => Armed(ts \cup {<<w, p>>}, fd2, n)
<1> DEFINE us == ts \cup {<<w, p>>}
<1>0. Disarmed \notin Nat
    BY TimerAssumption
<1>1. us \subseteq (Nat \X Ptrs) /\ us # {} /\ <<w, p>> \in us
    <2>1. <<w, p>> \in Nat \X Ptrs
        OBVIOUS
    <2> QED
        BY <2>1
<1>2. /\ Earliest(us) \in Nat
      /\ \E e \in us : e[1] = Earliest(us)
      /\ \A e \in us : Earliest(us) <= e[1]
    <2> HIDE DEF us
    <2> QED
        BY <1>1, EarliestIs
<1>3. CASE ts = {}
    <2>1. Earliest(us) = w
        BY <1>2, <1>3, SMTT(60)
    <2> HIDE DEF us
    <2> QED
        BY <1>0, <1>3, <2>1, SMTT(60) DEF Armed, us
<1>4. CASE ts # {}
    <2>1. /\ Earliest(ts) \in Nat
          /\ \E e \in ts : e[1] = Earliest(ts)
          /\ \A e \in ts : Earliest(ts) <= e[1]
        BY <1>4, EarliestIs
    <2>2. Earliest(us) = IF w < Earliest(ts) THEN w ELSE Earliest(ts)
        <3>1. Earliest(us) <= w
            <4>1. Earliest(us) <= <<w, p>>[1]
                BY <1>1, <1>2
            <4> QED
                BY <4>1
        <3>2. \A e \in ts : Earliest(us) <= e[1]
            BY <1>2
        <3>3. Earliest(us) <= Earliest(ts)
            BY <2>1, <3>2
        <3>4. Earliest(us) = w \/ Earliest(us) \in {e[1] : e \in ts}
            BY <1>2, SMTT(60)
        <3>5. Earliest(us) = w \/ Earliest(ts) <= Earliest(us)
            BY <2>1, <3>4
        <3> HIDE DEF us
        <3> QED
            BY <1>2, <2>1, <3>1, <3>3, <3>5, SMTT(60)
    <2> HIDE DEF us
    <2> QED
        BY <1>0, <1>4, <2>1, <2>2, SMTT(60) DEF Armed, us
<1> QED
    BY <1>3, <1>4

\* A timer taken out of the queue leaves the timerfd in time for the others.
LEMMA ArmedAfterErase ==
  ASSUME NEW ts, ts \subseteq (Nat \X Ptrs), NEW fd \in Nat \cup {Disarmed}, NEW n \in Nat,
         NEW us, us \subseteq ts, us # {}, Armed(ts, fd, n)
  PROVE  Armed(us, fd, n)
<1>1. ts # {} /\ us \subseteq (Nat \X Ptrs)
    OBVIOUS
<1>2. /\ Earliest(us) \in Nat
      /\ \E e \in us : e[1] = Earliest(us)
    BY <1>1, EarliestIs
<1>3. /\ Earliest(ts) \in Nat
      /\ \A e \in ts : Earliest(ts) <= e[1]
    BY <1>1, EarliestIs
<1>4. Earliest(ts) <= Earliest(us)
    BY <1>2, <1>3
<1> QED
    BY <1>2, <1>3, <1>4, SMTT(60) DEF Armed

\* The content of a live address is a Timer.
LEMMA LivingTimers ==
  ASSUME Typed
  PROVE  /\ Free \notin Timers
         /\ \A p \in Living : /\ p \in Ptrs /\ heap[p] \in Timers
                             /\ heap[p].expiration \in Nat /\ heap[p].interval \in Nat
                             /\ heap[p].sequence \in Seqs /\ heap[p].sequence \in Nat
<1>0. Intervals \subseteq Nat
    BY TimerAssumption
<1>1. Free \notin Timers
    BY TimerAssumption DEF Timers, Seqs
<1>2. heap \in [Ptrs -> {Free} \cup Timers]
    BY DEF Typed, TypeOK, Timers
<1>3. \A p \in Living : p \in Ptrs /\ heap[p] \in Timers
    BY <1>2 DEF Living
<1>4. ASSUME NEW t \in Timers
      PROVE  t.expiration \in Nat /\ t.interval \in Intervals /\ t.sequence \in Seqs
    BY DEF Timers
<1>5. Seqs \subseteq Nat
    BY SMTT(60) DEF Seqs
<1> QED
    BY <1>0, <1>1, <1>3, <1>4, <1>5

\* The two containers from the addresses of the queued timers.
LEMMA QueueFromAddresses ==
  ASSUME Typed, SetsAgree
  PROVE  /\ Queued \subseteq Living
         /\ timers = {<<heap[p].expiration, p>> : p \in Queued}
         /\ activeTimers = {<<p, heap[p].sequence>> : p \in Queued}
<1>1. \A e \in timers : e[2] \in Ptrs /\ e = <<e[1], e[2]>>
    BY SMTT(60) DEF Typed, TypeOK
<1>2. Queued \subseteq Living
    BY <1>1 DEF SetsAgree, Queued, Living
<1>3. timers = {<<heap[p].expiration, p>> : p \in Queued}
    BY <1>1, SMTT(60) DEF SetsAgree, Queued
<1>4. activeTimers = {<<p, heap[p].sequence>> : p \in Queued}
    BY DEF SetsAgree, Queued, IdOf
<1> QED
    BY <1>2, <1>3, <1>4

\* The containers ts and at hold the timers at the addresses Q of the heap h, and
\* what SetsAgree says of them.
Holds(h, Q, ts, at) ==
    /\ \A p \in Q : h[p] # Free
    /\ ts = {<<h[p].expiration, p>> : p \in Q}
    /\ at = {<<p, h[p].sequence>> : p \in Q}
Agree(h, Q, ts, at) ==
    /\ \A e \in ts : h[e[2]] # Free /\ h[e[2]].expiration = e[1]
    /\ at = {IdOf(h, e[2]) : e \in ts}
    /\ {e[2] : e \in ts} = Q

\* And back: containers made from addresses of live Timers agree.
LEMMA QueueAgrees == ASSUME NEW h, NEW Q, NEW ts, NEW at, Holds(h, Q, ts, at) PROVE Agree(h, Q, ts, at)
<1> USE DEF Holds
<1>1. \A e \in ts : h[e[2]] # Free /\ h[e[2]].expiration = e[1]
    BY SMTT(60)
<1>2. {e[2] : e \in ts} = Q
    <2>1. \A e \in ts : e[2] \in Q
        BY SMTT(60)
    <2>2. \A p \in Q : <<h[p].expiration, p>> \in ts /\ <<h[p].expiration, p>>[2] = p
        OBVIOUS
    <2> QED
        BY <2>1, <2>2
<1>3. at = {IdOf(h, e[2]) : e \in ts}
    <2>1. \A e \in ts : <<e[2], h[e[2]].sequence>> \in at
        BY SMTT(60)
    <2>2. \A p \in Q : <<h[p].expiration, p>> \in ts /\ <<h[p].expiration, p>>[2] = p
        OBVIOUS
    <2>3. \A p \in Q : \E e \in ts : e[2] = p
        BY <2>2
    <2>4. ASSUME NEW a \in at
          PROVE  \E e \in ts : a = <<e[2], h[e[2]].sequence>>
        <3>1. PICK p \in Q : a = <<p, h[p].sequence>>
            OBVIOUS
        <3>2. PICK e \in ts : e[2] = p
            BY <2>3
        <3> QED
            BY <3>1, <3>2
    <2> QED
        BY <2>1, <2>4 DEF IdOf
<1> QED
    BY <1>1, <1>2, <1>3 DEF Agree

-----------------------------------------------------------------------------
(* The invariant at the start, and the steps that touch no timer.          *)

\* The invariant holds of an empty queue.
LEMMA InitTInv == Init => TInv
<1> SUFFICES ASSUME Init
             PROVE  TInv
    OBVIOUS
<1>1. DOMAIN pending = {} /\ Adds(pending) = {} /\ Transit(pending) = {}
    BY SMTT(60) DEF Init, Adds, Transit
<1>2. Living = {} /\ Queued = {} /\ InBatch = {}
    BY DEF Init, Living, Queued, InBatch
<1>3. TypeOK
    <2>1. MaxTime \in Nat /\ MaxTimers \in Nat
        BY TimerAssumption
    <2>2. heap \in [Ptrs -> {Free} \cup [expiration : Nat, interval : Intervals, sequence : Seqs]]
        BY DEF Init
    <2>3. now \in 0..MaxTime /\ created \in 0..MaxTimers
        BY <2>1, SMTT(60) DEF Init
    <2>4. ready \in BOOLEAN /\ lpc \in {"idle", "calling", "callback", "dead"}
        BY DEF Init
    <2>5. /\ timers \subseteq (Nat \X Ptrs) /\ activeTimers \subseteq (Ptrs \X Seqs)
          /\ canceling \subseteq (Ptrs \X Seqs) /\ timerfd \in Nat \cup {Disarmed}
        BY DEF Init
    <2>6. /\ torun \subseteq expired /\ expired \subseteq (Nat \X Ptrs)
          /\ ids \subseteq (Ptrs \X Seqs) /\ fired \subseteq Seqs /\ cancelled \subseteq Seqs
        BY DEF Init
    <2> QED
        BY <2>2, <2>3, <2>4, <2>5, <2>6 DEF TypeOK
<1>4. Typed
    BY <1>3, SMTT(60) DEF Init, Typed
<1>5. Owners
    BY <1>1, <1>2 DEF Owners, AddsDiffer
<1>6. SetsAgree /\ TimerfdArmed
    BY DEF Init, SetsAgree, TimerfdArmed
<1>7. SequencesOnce /\ Batch /\ Cancellations /\ CalledOnce
    BY <1>2 DEF Init, SequencesOnce, Batch, Cancellations, CalledOnce
<1> QED
    BY <1>4, <1>5, <1>6, <1>7 DEF TInv

\* A step that leaves the heap, the queue, the batch and the histories alone,
\* and changes neither the timers in transit nor whether handleRead is at work.
LEMMA StillKeeps ==
  ASSUME TInv, Typed',
         UNCHANGED <<heap, created, timers, activeTimers, canceling, timerfd,
                     expired, torun, polled, fired, cancelled>>,
         Transit(pending') = Transit(pending), AddsDiffer(pending'),
         lpc' = lpc \/ {lpc, lpc'} \subseteq {"calling", "callback"},
         ready' = ready \/ ready', now <= now'
  PROVE  TInv'
<1>1. Living' = Living /\ Queued' = Queued /\ InBatch' = InBatch
    BY DEF Living, Queued, InBatch
<1>2. Owners'
    BY <1>1 DEF TInv, Owners
<1>3. SetsAgree'
    BY DEF TInv, SetsAgree, IdOf
<1>4. SequencesOnce'
    BY <1>1 DEF TInv, SequencesOnce
<1>5. Batch'
    BY DEF TInv, Batch
<1>6. Cancellations'
    BY <1>1 DEF TInv, Cancellations, IdOf
<1>7. CalledOnce'
    BY <1>1 DEF TInv, CalledOnce
<1>8. TimerfdArmed'
    <2> SUFFICES ASSUME lpc' = "idle", ~ready', timers # {}
                 PROVE  timerfd # Disarmed /\ (timerfd <= now' \/ timerfd <= Earliest(timers))
        BY DEF TimerfdArmed, Earliest
    <2>1. timerfd # Disarmed /\ (timerfd <= now \/ timerfd <= Earliest(timers))
        BY DEF TInv, TimerfdArmed
    <2>2. now \in Nat /\ now' \in Nat /\ timerfd \in Nat
        BY <2>1, SMTT(60) DEF TInv, Typed, TypeOK
    <2> QED
        BY <2>1, <2>2, SMTT(60)
<1> QED
    BY <1>2, <1>3, <1>4, <1>5, <1>6, <1>7, <1>8 DEF TInv

\* addTimer of another thread returns, having read the Timer or what is there now.
LEMMA AddTimerReturnKeeps == ASSUME TInv, NEW t \in Threads, AddTimerReturn(t) PROVE TInv'
<1>1. Typed
    BY DEF TInv
<1>2. /\ UNCHANGED <<now, heap, created, timers, activeTimers, canceling, timerfd, ready, lpc,
                      expired, torun, polled, pending, fired, cancelled>>
      /\ tpc' = [tpc EXCEPT ![t] = Idle] /\ tpc[t] # Idle
    BY DEF AddTimerReturn, heapVars, queueVars, batchVars
<1>3. tpc[t] \in Ptrs \X Seqs
    BY <1>1, <1>2 DEF Typed
<1>4. ids' \subseteq Ptrs \X Seqs
    <2> DEFINE p == tpc[t][1]
    <2>1. PICK s \in IF heap[p] = Free THEN Seqs ELSE {heap[p].sequence} : ids' = ids \cup {<<p, s>>}
        BY DEF AddTimerReturn
    <2>2. p \in Ptrs
        BY <1>3
    <2>3. heap[p] # Free => heap[p].sequence \in Seqs
        BY <1>1, <2>2, LivingTimers DEF Living
    <2>4. s \in Seqs
        BY <2>1, <2>3
    <2>5. ids \subseteq Ptrs \X Seqs
        BY <1>1 DEF Typed, TypeOK
    <2> QED
        BY <2>1, <2>2, <2>4, <2>5, SMTT(60)
<1>5. Typed'
    BY <1>1, <1>2, <1>4 DEF Typed, TypeOK
<1>6. Transit(pending') = Transit(pending) /\ AddsDiffer(pending')
    BY <1>2 DEF TInv, Owners
<1>7. now \in Nat
    BY <1>1, SMTT(60) DEF Typed, TypeOK
<1> QED
    BY <1>2, <1>5, <1>6, <1>7, StillKeeps, SMTT(60)

\* cancel of another thread: it only queues cancelInLoop.
LEMMA CancelKeeps == ASSUME TInv, NEW t \in Threads, Cancel(t) PROVE TInv'
<1>1. Typed
    BY DEF TInv
<1>2. UNCHANGED <<now, heap, created, timers, activeTimers, canceling, timerfd, ready, lpc,
                  expired, torun, polled, tpc, ids, fired, cancelled>>
    BY DEF Cancel, heapVars, queueVars, batchVars
<1>3. PICK id \in ids : pending' = Append(pending, [op |-> "cancel", id |-> id])
    BY DEF Cancel
<1> DEFINE f == [op |-> "cancel", id |-> id]
<1>4. f \in Calls /\ f.op = "cancel"
    BY <1>1 DEF Typed, TypeOK, Calls
<1>5. pending \in Seq(Calls) /\ AddsDiffer(pending)
    BY DEF TInv, Typed, Owners
<1> HIDE DEF f
<1>6. Transit(pending') = Transit(pending) /\ AddsDiffer(pending')
    BY <1>3, <1>4, <1>5, AppendCancel DEF f
<1>7. pending' \in Seq(Calls)
    BY <1>3, <1>4, <1>5, SMTT(60) DEF f
<1>8. Typed'
    BY <1>1, <1>2, <1>7 DEF Typed, TypeOK
<1>9. now \in Nat
    BY <1>1, SMTT(60) DEF Typed, TypeOK
<1> QED
    BY <1>2, <1>6, <1>8, <1>9, StillKeeps, SMTT(60)

\* poll reports the timerfd.
LEMMA PollTimerfdKeeps == ASSUME TInv, PollTimerfd PROVE TInv'
<1>1. Typed
    BY DEF TInv
<1>2. /\ UNCHANGED <<now, heap, created, timers, activeTimers, canceling, timerfd, lpc,
                      expired, torun, polled, pending, tpc, ids, fired, cancelled>>
      /\ ready' = TRUE
    BY DEF PollTimerfd, heapVars, queueVars, batchVars
<1>3. Typed'
    BY <1>1, <1>2 DEF Typed, TypeOK
<1>4. Transit(pending') = Transit(pending) /\ AddsDiffer(pending')
    BY <1>2 DEF TInv, Owners
<1>5. now \in Nat
    BY <1>1, SMTT(60) DEF Typed, TypeOK
<1> QED
    BY <1>2, <1>3, <1>4, <1>5, StillKeeps, SMTT(60)

\* A callback returns to handleRead.
LEMMA CallbackReturnKeeps == ASSUME TInv, CallbackReturn PROVE TInv'
<1>1. Typed
    BY DEF TInv
<1>2. /\ UNCHANGED <<now, heap, created, timers, activeTimers, canceling, timerfd, ready,
                      expired, torun, polled, pending, tpc, ids, fired, cancelled>>
      /\ lpc = "callback" /\ lpc' = "calling"
    BY DEF CallbackReturn, heapVars, queueVars, batchVars
<1>3. Typed'
    BY <1>1, <1>2 DEF Typed, TypeOK
<1>4. Transit(pending') = Transit(pending) /\ AddsDiffer(pending')
    BY <1>2 DEF TInv, Owners
<1>5. now \in Nat
    BY <1>1, SMTT(60) DEF Typed, TypeOK
<1> QED
    BY <1>2, <1>3, <1>4, <1>5, StillKeeps, SMTT(60)

\* Time passes, and the timerfd may become readable.
LEMMA TickKeeps == ASSUME TInv, Tick PROVE TInv'
<1>1. Typed
    BY DEF TInv
<1>2. /\ UNCHANGED <<heap, created, timers, activeTimers, canceling, timerfd, ready, lpc,
                      expired, torun, polled, pending, tpc, ids, fired, cancelled>>
      /\ now < MaxTime /\ now' = now + 1
    BY DEF Tick, heapVars, queueVars, batchVars
<1>3. now \in Nat /\ now \in 0..MaxTime
    BY <1>1, SMTT(60) DEF Typed, TypeOK
<1>4. now' \in 0..MaxTime /\ (polled \in Nat /\ polled <= now => polled <= now')
    BY <1>2, <1>3, TimerAssumption, SMTT(60)
<1>5. Typed'
    BY <1>1, <1>2, <1>4 DEF Typed, TypeOK
<1>6. Transit(pending') = Transit(pending) /\ AddsDiffer(pending')
    BY <1>2 DEF TInv, Owners
<1> QED
    BY <1>2, <1>3, <1>5, <1>6, StillKeeps, SMTT(60)

-----------------------------------------------------------------------------
(* Adding a timer.                                                         *)

\* new Timer: one more live address, with a sequence nobody has seen.
LEMMA NewTimerFacts ==
  ASSUME TInv, NEW p \in Ptrs, NEW when \in Nat, NEW interval \in Intervals,
         NewTimer(p, when, interval)
  PROVE  /\ p \notin Living /\ Living' = Living \cup {p}
         /\ heap' \in [Ptrs -> {Free} \cup Timers] /\ created' \in 0..MaxTimers
         /\ created' = created + 1 /\ created' \in Seqs
         /\ heap'[p] = [expiration |-> when, interval |-> interval, sequence |-> created']
         /\ \A q \in Living : heap'[q] = heap[q]
         /\ \A q \in Living : heap[q].sequence # created'
         /\ created' \notin fired /\ created' \notin cancelled
         /\ \A q \in Living' : heap'[q].sequence <= created'
         /\ \A q, r \in Living' : heap'[q].sequence = heap'[r].sequence => q = r
         /\ \A s \in fired \cup cancelled : s <= created'
<1> DEFINE new == [expiration |-> when, interval |-> interval, sequence |-> created + 1]
<1>1. Typed
    BY DEF TInv
<1>2. /\ heap[p] = Free /\ created < MaxTimers /\ created' = created + 1
      /\ heap' = [heap EXCEPT ![p] = new]
    BY DEF NewTimer
<1>3. created \in Nat /\ MaxTimers \in Nat /\ fired \subseteq Nat /\ cancelled \subseteq Nat
    BY <1>1, TimerAssumption, SMTT(60) DEF Typed, TypeOK, Seqs
<1>4. created' \in Seqs /\ created' \in 0..MaxTimers /\ created' \in Nat
    BY <1>2, <1>3, SMTT(60) DEF Seqs
<1>5. new \in Timers
    BY <1>2, <1>4 DEF Timers
<1>6. heap \in [Ptrs -> {Free} \cup Timers]
    BY <1>1 DEF Typed, TypeOK, Timers
<1>7. Free \notin Timers
    BY <1>1, LivingTimers
<1>8. \A q \in Living : q \in Ptrs /\ heap[q].sequence \in Nat /\ heap[q].sequence <= created
    BY <1>1, LivingTimers DEF TInv, SequencesOnce
<1>9. heap'[p] = new /\ new.sequence = created'
    BY <1>2, <1>6
<1> HIDE DEF new
<1>10. p \notin Living
    BY <1>2 DEF Living
<1>11. heap' \in [Ptrs -> {Free} \cup Timers]
    BY <1>2, <1>5, <1>6
<1>12. \A q \in Ptrs : q # p => heap'[q] = heap[q]
    BY <1>2, <1>6
<1>13. Living' = Living \cup {p}
    BY <1>5, <1>7, <1>9, <1>12 DEF Living
<1>14. \A q \in Living : q # p /\ heap'[q] = heap[q]
    BY <1>8, <1>10, <1>12
<1>15. \A q \in Living : heap[q].sequence # created'
    BY <1>2, <1>3, <1>8, SMTT(60)
<1>16. created' \notin fired /\ created' \notin cancelled
    BY <1>2, <1>3, SMTT(60) DEF TInv, SequencesOnce
<1>17. \A q \in Living' : heap'[q].sequence <= created'
    BY <1>2, <1>3, <1>4, <1>8, <1>9, <1>13, <1>14, SMTT(60)
<1>18. \A q, r \in Living' : heap'[q].sequence = heap'[r].sequence => q = r
    <2>1. \A q, r \in Living : heap[q].sequence = heap[r].sequence => q = r
        BY DEF TInv, SequencesOnce
    <2> QED
        BY <1>9, <1>13, <1>14, <1>15, <2>1, SMTT(60)
<1>19. \A s \in fired \cup cancelled : s <= created'
    BY <1>2, <1>3, SMTT(60) DEF TInv, SequencesOnce
<1>20. heap'[p] = [expiration |-> when, interval |-> interval, sequence |-> created']
    BY <1>2, <1>9 DEF new
<1> QED
    BY <1>2, <1>4, <1>10, <1>11, <1>13, <1>14, <1>15, <1>16, <1>17, <1>18, <1>19, <1>20

\* addTimer of another thread: a new Timer, owned by the functor that will insert it.
LEMMA AddTimerKeeps == ASSUME TInv, NEW t \in Threads, AddTimer(t) PROVE TInv'
<1>1. Typed
    BY DEF TInv
<1>2. UNCHANGED <<now, timers, activeTimers, canceling, timerfd, ready, lpc,
                  expired, torun, polled, ids, fired, cancelled>>
    BY DEF AddTimer, queueVars, batchVars
<1>3. PICK p \in Ptrs, d \in Delays, i \in Intervals :
          /\ NewTimer(p, now + d, i)
          /\ pending' = Append(pending, [op |-> "add", id |-> <<p, created'>>])
          /\ tpc' = [tpc EXCEPT ![t] = <<p, created'>>]
    BY DEF AddTimer
<1> DEFINE f == [op |-> "add", id |-> <<p, created'>>]
<1>4. now + d \in Nat
    BY <1>1, TimerAssumption, SMTT(60) DEF Typed, TypeOK
<1>5. /\ p \notin Living /\ Living' = Living \cup {p}
      /\ heap' \in [Ptrs -> {Free} \cup Timers] /\ created' \in 0..MaxTimers
      /\ created' = created + 1 /\ created' \in Seqs
      /\ heap'[p] = [expiration |-> now + d, interval |-> i, sequence |-> created']
      /\ \A q \in Living : heap'[q] = heap[q]
      /\ \A q \in Living : heap[q].sequence # created'
      /\ created' \notin fired /\ created' \notin cancelled
      /\ \A q \in Living' : heap'[q].sequence <= created'
      /\ \A q, r \in Living' : heap'[q].sequence = heap'[r].sequence => q = r
      /\ \A s \in fired \cup cancelled : s <= created'
    BY <1>3, <1>4, NewTimerFacts
<1>6. f \in Calls /\ f.op = "add" /\ f.id[1] = p
    BY <1>5 DEF Calls
<1>7. pending \in Seq(Calls) /\ AddsDiffer(pending) /\ p \notin Transit(pending)
    BY <1>5 DEF TInv, Typed, Owners
<1>8. pending' = Append(pending, f)
    BY <1>3
<1> HIDE DEF f
<1>9. Transit(pending') = Transit(pending) \cup {p} /\ AddsDiffer(pending')
    BY <1>6, <1>7, <1>8, AppendAdd
<1>10. pending' \in Seq(Calls)
    BY <1>6, <1>7, <1>8, SMTT(60)
<1>11. tpc' \in [Threads -> {Idle} \cup (Ptrs \X Seqs)]
    BY <1>1, <1>3, <1>5 DEF Typed
<1>12. Typed'
    BY <1>1, <1>2, <1>5, <1>10, <1>11 DEF Typed, TypeOK, Timers
<1>13. Queued' = Queued /\ InBatch' = InBatch /\ Queued \subseteq Living /\ InBatch \subseteq Living
    BY <1>2 DEF Queued, InBatch, TInv, Owners
<1>14. Owners'
    BY <1>5, <1>9, <1>13, SMTT(60) DEF TInv, Owners
<1>15. SetsAgree'
    <2>1. \A e \in timers : heap'[e[2]] = heap[e[2]]
        BY <1>5, <1>13 DEF Queued
    <2> QED
        BY <1>2, <2>1 DEF TInv, SetsAgree, IdOf
<1>16. SequencesOnce'
    BY <1>2, <1>5 DEF SequencesOnce
<1>17. Batch'
    <2>1. \A e \in expired : heap'[e[2]] = heap[e[2]]
        BY <1>5, <1>13 DEF InBatch
    <2> QED
        BY <1>2, <2>1 DEF TInv, Batch
<1>18. heap'[p].sequence = created'
    BY <1>5, SMTT(60)
<1>19. Cancellations'
    BY <1>2, <1>5, <1>13, <1>18, SMTT(60) DEF TInv, Cancellations, IdOf
<1>20. CalledOnce'
    BY <1>2, <1>5, <1>13, <1>18, SMTT(60) DEF TInv, CalledOnce
<1>21. TimerfdArmed'
    BY <1>2 DEF TInv, TimerfdArmed
<1> QED
    BY <1>12, <1>14, <1>15, <1>16, <1>17, <1>19, <1>20, <1>21 DEF TInv

\* addTimerInLoop puts one more live address into both containers and keeps the
\* timerfd in time.
LEMMA InsertFacts ==
  ASSUME TInv, NEW p \in Ptrs, p \notin Queued, heap'[p] \in Timers,
         \A q \in Queued : heap'[q] = heap[q],
         timers' = timers \cup {<<heap'[p].expiration, p>>},
         activeTimers' = activeTimers \cup {<<p, heap'[p].sequence>>},
         timerfd' = IF timers = {} \/ heap'[p].expiration < Earliest(timers)
                    THEN ResetTimerfd(heap'[p].expiration) ELSE timerfd,
         UNCHANGED <<now, lpc, ready>>
  PROVE  /\ Queued' = Queued \cup {p} /\ SetsAgree' /\ TimerfdArmed'
         /\ timers' \subseteq Nat \X Ptrs /\ activeTimers' \subseteq Ptrs \X Seqs
         /\ timerfd' \in Nat \cup {Disarmed}
<1> DEFINE w == heap'[p].expiration
           s == heap'[p].sequence
           Q == Queued \cup {p}
<1>1. Typed /\ SetsAgree
    BY DEF TInv
<1>2. w \in Nat /\ s \in Seqs
    BY DEF Timers
<1>3. /\ Queued \subseteq Living
      /\ timers = {<<heap[q].expiration, q>> : q \in Queued}
      /\ activeTimers = {<<q, heap[q].sequence>> : q \in Queued}
    BY <1>1, QueueFromAddresses
<1>4. Free \notin Timers
    BY <1>1, LivingTimers
<1>5. \A q \in Queued : heap[q] # Free
    BY <1>3 DEF Living
<1>6. \A q \in Q : heap'[q] # Free
    BY <1>4, <1>5
<1>7. timers' = {<<heap'[q].expiration, q>> : q \in Q}
    BY <1>3
<1>8. activeTimers' = {<<q, heap'[q].sequence>> : q \in Q}
    BY <1>3
<1>9. /\ \A e \in timers' : heap'[e[2]] # Free /\ heap'[e[2]].expiration = e[1]
      /\ activeTimers' = {IdOf(heap', e[2]) : e \in timers'}
      /\ {e[2] : e \in timers'} = Q
    <2>1. Holds(heap', Q, timers', activeTimers')
        BY <1>6, <1>7, <1>8 DEF Holds
    <2>2. Agree(heap', Q, timers', activeTimers')
        BY <2>1, QueueAgrees
    <2> QED
        BY <2>2 DEF Agree
<1>10. SetsAgree' /\ Queued' = Q
    BY <1>9 DEF SetsAgree, Queued, IdOf
<1>11. timers \subseteq Nat \X Ptrs /\ activeTimers \subseteq Ptrs \X Seqs
    BY <1>1 DEF Typed, TypeOK
<1>12. timers' \subseteq Nat \X Ptrs
    BY <1>2, <1>11, SMTT(60)
<1>13. activeTimers' \subseteq Ptrs \X Seqs
    BY <1>2, <1>11, SMTT(60)
<1>14. now \in Nat /\ timerfd \in Nat \cup {Disarmed}
    BY <1>1, SMTT(60) DEF Typed, TypeOK
<1>15. timerfd' = IF timers = {} \/ w < Earliest(timers) THEN IF w < now THEN now ELSE w ELSE timerfd
    BY DEF ResetTimerfd
<1> HIDE DEF w
<1>16. /\ timerfd' \in Nat \cup {Disarmed}
       /\ (timers = {} \/ Armed(timers, timerfd, now)) => Armed(timers', timerfd', now)
    <2> DEFINE fd == timerfd'
    <2>1. timers' = timers \cup {<<w, p>>}
        BY DEF w
    <2> HIDE DEF fd
    <2>2. fd = IF timers = {} \/ w < Earliest(timers) THEN IF w < now THEN now ELSE w ELSE timerfd
        BY <1>15 DEF fd
    <2>3. /\ fd \in Nat \cup {Disarmed}
          /\ (timers = {} \/ Armed(timers, timerfd, now)) => Armed(timers \cup {<<w, p>>}, fd, now)
        BY <1>2, <1>11, <1>14, <2>2, ArmedAfterAdd
    <2> QED
        BY <2>1, <2>3 DEF fd
<1>17. TimerfdArmed'
    <2> SUFFICES ASSUME lpc = "idle", ~ready
                 PROVE  Armed(timers', timerfd', now)
        BY DEF TimerfdArmed, Armed, Earliest
    <2>1. timers = {} \/ Armed(timers, timerfd, now)
        BY DEF TInv, TimerfdArmed, Armed
    <2> QED
        BY <1>16, <2>1
<1> QED
    BY <1>10, <1>12, <1>13, <1>16, <1>17

\* addTimer in the loop thread inserts at once, and re-arms the timerfd if need be.
LEMMA OwnerAddTimerKeeps == ASSUME TInv, OwnerAddTimer PROVE TInv'
<1>1. Typed
    BY DEF TInv
<1>2. UNCHANGED <<now, ready, lpc, expired, torun, polled, pending, tpc, fired, cancelled>>
    BY DEF OwnerAddTimer, batchVars
<1>3. PICK p \in Ptrs, d \in Delays, i \in Intervals :
          /\ NewTimer(p, now + d, i)
          /\ AddTimerInLoop(heap', p)
          /\ ids' = ids \cup {IdOf(heap', p)}
    BY DEF OwnerAddTimer
<1>4. now + d \in Nat
    BY <1>1, TimerAssumption, SMTT(60) DEF Typed, TypeOK
<1>5. /\ p \notin Living /\ Living' = Living \cup {p}
      /\ heap' \in [Ptrs -> {Free} \cup Timers] /\ created' \in 0..MaxTimers
      /\ created' = created + 1 /\ created' \in Seqs
      /\ heap'[p] = [expiration |-> now + d, interval |-> i, sequence |-> created']
      /\ \A q \in Living : heap'[q] = heap[q]
      /\ \A q \in Living : heap[q].sequence # created'
      /\ created' \notin fired /\ created' \notin cancelled
      /\ \A q \in Living' : heap'[q].sequence <= created'
      /\ \A q, r \in Living' : heap'[q].sequence = heap'[r].sequence => q = r
      /\ \A s \in fired \cup cancelled : s <= created'
    BY <1>3, <1>4, NewTimerFacts
<1>6. heap'[p] \in Timers /\ heap'[p].sequence = created'
    BY <1>4, <1>5, SMTT(60) DEF Timers
<1>7. /\ timers' = timers \cup {<<heap'[p].expiration, p>>}
      /\ activeTimers' = activeTimers \cup {<<p, heap'[p].sequence>>}
      /\ timerfd' = IF timers = {} \/ heap'[p].expiration < Earliest(timers)
                    THEN ResetTimerfd(heap'[p].expiration) ELSE timerfd
      /\ canceling' = canceling
    BY <1>3 DEF AddTimerInLoop, IdOf
<1>8. Queued \subseteq Living /\ InBatch \subseteq Living /\ Transit(pending) \subseteq Living
    BY DEF TInv, Owners
<1>9. p \notin Queued /\ \A q \in Queued : heap'[q] = heap[q]
    BY <1>5, <1>8
<1>10. /\ Queued' = Queued \cup {p} /\ SetsAgree' /\ TimerfdArmed'
       /\ timers' \subseteq Nat \X Ptrs /\ activeTimers' \subseteq Ptrs \X Seqs
       /\ timerfd' \in Nat \cup {Disarmed}
    BY <1>2, <1>6, <1>7, <1>9, InsertFacts
<1>11. ids' \subseteq Ptrs \X Seqs
    <2>1. ids' = ids \cup {<<p, created'>>} /\ ids \subseteq Ptrs \X Seqs
        BY <1>1, <1>3, <1>6 DEF IdOf, Typed, TypeOK
    <2> QED
        BY <1>5, <2>1, SMTT(60)
<1>12. Typed'
    BY <1>1, <1>2, <1>5, <1>7, <1>10, <1>11 DEF Typed, TypeOK, Timers
<1>13. InBatch' = InBatch
    BY <1>2 DEF InBatch
<1>14. Owners'
    BY <1>2, <1>5, <1>8, <1>10, <1>13, SMTT(60) DEF TInv, Owners
<1>15. SequencesOnce'
    BY <1>2, <1>5 DEF SequencesOnce
<1>16. Batch'
    <2>1. \A e \in expired : heap'[e[2]] = heap[e[2]]
        BY <1>5, <1>8 DEF InBatch
    <2> QED
        BY <1>2, <2>1 DEF TInv, Batch
<1>17. Cancellations'
    BY <1>2, <1>5, <1>6, <1>7, <1>13 DEF TInv, Cancellations, IdOf
<1>18. CalledOnce'
    BY <1>2, <1>5, <1>6, <1>13, SMTT(60) DEF TInv, CalledOnce
<1> QED
    BY <1>10, <1>12, <1>14, <1>15, <1>16, <1>17, <1>18 DEF TInv

\* The functor that adds a timer: from the functor's hands into the queue's.
LEMMA RunAddKeeps ==
  ASSUME TInv, RunFunctor, Head(pending).op = "add", UNCHANGED <<heap, created, cancelled>>,
         AddTimerInLoop(heap, Head(pending).id[1])
  PROVE  TInv'
<1> DEFINE p == Head(pending).id[1]
<1>1. Typed
    BY DEF TInv
<1>2. /\ UNCHANGED <<now, ready, lpc, expired, torun, polled, tpc, ids, fired>>
      /\ pending # <<>> /\ pending' = Tail(pending)
    BY DEF RunFunctor, batchVars
<1>3. pending \in Seq(Calls) /\ AddsDiffer(pending)
    BY DEF TInv, Typed, Owners
<1>4. /\ pending' \in Seq(Calls) /\ AddsDiffer(pending') /\ p \in Transit(pending)
      /\ Transit(pending') = Transit(pending) \ {p}
    BY <1>2, <1>3, TailOfCalls
<1>5. /\ timers' = timers \cup {<<heap[p].expiration, p>>}
      /\ activeTimers' = activeTimers \cup {<<p, heap[p].sequence>>}
      /\ timerfd' = IF timers = {} \/ heap[p].expiration < Earliest(timers)
                    THEN ResetTimerfd(heap[p].expiration) ELSE timerfd
      /\ canceling' = canceling
    BY DEF AddTimerInLoop, IdOf
<1> HIDE DEF p
<1>6. p \in Living /\ p \notin Queued /\ p \notin InBatch
    BY <1>4 DEF TInv, Owners
<1>7. p \in Ptrs /\ heap'[p] \in Timers
    BY <1>1, <1>6, LivingTimers
<1>8. /\ Queued' = Queued \cup {p} /\ SetsAgree' /\ TimerfdArmed'
      /\ timers' \subseteq Nat \X Ptrs /\ activeTimers' \subseteq Ptrs \X Seqs
      /\ timerfd' \in Nat \cup {Disarmed}
    <2>1. \A q \in Queued : heap'[q] = heap[q]
        OBVIOUS
    <2>2. /\ timers' = timers \cup {<<heap'[p].expiration, p>>}
          /\ activeTimers' = activeTimers \cup {<<p, heap'[p].sequence>>}
          /\ timerfd' = IF timers = {} \/ heap'[p].expiration < Earliest(timers)
                        THEN ResetTimerfd(heap'[p].expiration) ELSE timerfd
        BY <1>5
    <2> QED
        BY <1>2, <1>6, <1>7, <2>1, <2>2, InsertFacts
<1>9. Typed'
    BY <1>1, <1>2, <1>4, <1>5, <1>8 DEF Typed, TypeOK
<1>10. InBatch' = InBatch /\ Living' = Living
    BY <1>2 DEF InBatch, Living
<1>11. Owners'
    BY <1>4, <1>6, <1>8, <1>10 DEF TInv, Owners
<1>12. SequencesOnce' /\ Batch'
    BY <1>2, <1>10 DEF TInv, SequencesOnce, Batch
<1>13. Cancellations'
    BY <1>5, <1>10 DEF TInv, Cancellations, IdOf
<1>14. CalledOnce'
    BY <1>2, <1>10 DEF TInv, CalledOnce
<1> QED
    BY <1>8, <1>9, <1>11, <1>12, <1>13, <1>14 DEF TInv

-----------------------------------------------------------------------------
(* Cancelling a timer.                                                     *)

\* delete leaves a heap.
LEMMA DeleteFrom ==
  ASSUME NEW h \in [Ptrs -> {Free} \cup Timers], NEW p \in Ptrs
  PROVE  [h EXCEPT ![p] = Free] \in [Ptrs -> {Free} \cup Timers]
OBVIOUS

\* cancelInLoop of a timer in the queue: it leaves both containers and is deleted.
LEMMA EraseKeeps ==
  ASSUME TInv, NEW id, id \in activeTimers,
         timers' = timers \ {<<heap[id[1]].expiration, id[1]>>},
         activeTimers' = activeTimers \ {id},
         heap' = [heap EXCEPT ![id[1]] = Free],
         cancelled' = cancelled \cup {id[2]},
         UNCHANGED <<canceling, timerfd, created, now, ready, lpc, expired, torun, polled, ids,
                     fired, tpc>>,
         pending' \in Seq(Calls), AddsDiffer(pending'), Transit(pending') = Transit(pending)
  PROVE  TInv'
<1> DEFINE p == id[1]
           Q == Queued \ {p}
<1>1. Typed /\ SetsAgree
    BY DEF TInv
<1>2. /\ Queued \subseteq Living
      /\ timers = {<<heap[q].expiration, q>> : q \in Queued}
      /\ activeTimers = {<<q, heap[q].sequence>> : q \in Queued}
    BY <1>1, QueueFromAddresses
<1>3. p \in Queued /\ id = <<p, heap[p].sequence>> /\ id[2] = heap[p].sequence
    BY <1>2, SMTT(60)
<1>4. /\ Free \notin Timers
      /\ \A q \in Living : q \in Ptrs /\ heap[q] \in Timers /\ heap[q].sequence \in Seqs
    BY <1>1, LivingTimers
<1>5. heap \in [Ptrs -> {Free} \cup Timers]
    BY <1>1 DEF Typed, TypeOK, Timers
<1> HIDE DEF p
<1>6. heap' = [heap EXCEPT ![p] = Free] /\ p \in Ptrs /\ p \in Living
    BY <1>2, <1>3, <1>4 DEF p
<1>7. /\ heap' \in [Ptrs -> {Free} \cup Timers]
      /\ heap'[p] = Free /\ \A q \in Ptrs : q # p => heap'[q] = heap[q]
    <2>1. heap' \in [Ptrs -> {Free} \cup Timers]
        BY <1>5, <1>6, DeleteFrom
    <2>2. heap'[p] = Free
        BY <1>5, <1>6
    <2>3. \A q \in Ptrs : q # p => heap'[q] = heap[q]
        BY <1>5, <1>6
    <2> QED
        BY <2>1, <2>2, <2>3
<1>8. Living' = Living \ {p}
    BY <1>7 DEF Living
<1>9. \A q \in Living' : q \in Living /\ q # p /\ heap'[q] = heap[q]
    BY <1>4, <1>7, <1>8
<1>10. timers' = {<<heap'[q].expiration, q>> : q \in Q}
    <2>1. timers' = timers \ {<<heap[p].expiration, p>>}
        BY DEF p
    <2>2. timers' = {<<heap[q].expiration, q>> : q \in Q}
        BY <1>2, <2>1
    <2>3. \A q \in Q : heap'[q] = heap[q]
        BY <1>2, <1>4, <1>7
    <2> QED
        BY <2>2, <2>3
<1>11. activeTimers' = {<<q, heap'[q].sequence>> : q \in Q}
    <2>1. activeTimers' = activeTimers \ {<<p, heap[p].sequence>>}
        BY <1>3
    <2>2. activeTimers' = {<<q, heap[q].sequence>> : q \in Q}
        BY <1>2, <2>1
    <2>3. \A q \in Q : heap'[q] = heap[q]
        BY <1>2, <1>4, <1>7
    <2> QED
        BY <2>2, <2>3
<1>12. \A q \in Q : heap'[q] # Free
    BY <1>2, <1>4, <1>7, SMTT(60)
<1>13. SetsAgree' /\ Queued' = Q
    <2>1. Holds(heap', Q, timers', activeTimers')
        BY <1>10, <1>11, <1>12 DEF Holds
    <2>2. Agree(heap', Q, timers', activeTimers')
        BY <2>1, QueueAgrees
    <2> QED
        BY <2>2 DEF Agree, SetsAgree, Queued, IdOf
<1>14. Typed'
    <2>1. timers' \subseteq Nat \X Ptrs /\ activeTimers' \subseteq Ptrs \X Seqs
        BY <1>1 DEF Typed, TypeOK
    <2>2. cancelled' \subseteq Seqs
        BY <1>1, <1>3, <1>4, <1>6, SMTT(60) DEF Typed, TypeOK
    <2> QED
        BY <1>1, <1>7, <2>1, <2>2 DEF Typed, TypeOK, Timers
<1>15. InBatch' = InBatch /\ p \notin InBatch /\ p \notin Transit(pending)
    BY <1>3 DEF InBatch, TInv, Owners
<1>16. Owners'
    BY <1>8, <1>13, <1>15 DEF TInv, Owners
<1>17. SequencesOnce'
    BY <1>3, <1>6, <1>9, SMTT(60) DEF TInv, SequencesOnce
<1>18. Batch'
    <2>1. \A e \in expired : heap'[e[2]] = heap[e[2]]
        BY <1>4, <1>7, <1>15, SMTT(60) DEF InBatch, TInv, Owners
    <2> QED
        BY <2>1 DEF TInv, Batch
<1>19. Cancellations'
    <2>1. \A q \in Living' : heap[q].sequence # id[2]
        BY <1>3, <1>6, <1>9 DEF TInv, SequencesOnce
    <2> QED
        BY <1>9, <1>15, <2>1, SMTT(60) DEF TInv, Cancellations, IdOf
<1>20. CalledOnce'
    BY <1>9, <1>15, SMTT(60) DEF TInv, CalledOnce
<1>21. TimerfdArmed'
    <2> SUFFICES ASSUME lpc = "idle", ~ready, timers' # {}
                 PROVE  Armed(timers', timerfd, now)
        BY DEF TimerfdArmed, Armed, Earliest
    <2>1. timers' \subseteq timers /\ timers # {}
        OBVIOUS
    <2>2. Armed(timers, timerfd, now)
        BY <2>1 DEF TInv, TimerfdArmed, Armed
    <2>3. now \in Nat /\ timerfd \in Nat \cup {Disarmed} /\ timers \subseteq Nat \X Ptrs
        BY <1>1, SMTT(60) DEF Typed, TypeOK
    <2> QED
        BY <2>1, <2>2, <2>3, ArmedAfterErase
<1> QED
    BY <1>13, <1>14, <1>16, <1>17, <1>18, <1>19, <1>20, <1>21 DEF TInv

\* cancelInLoop of a timer that is not in the queue: noted if it is being called.
LEMMA NoteCancelKeeps ==
  ASSUME TInv, NEW id \in Ptrs \X Seqs,
         canceling' = IF lpc \in {"calling", "callback"} THEN canceling \cup {id} ELSE canceling,
         cancelled' = IF \E e \in expired : IdOf(heap, e[2]) = id
                      THEN cancelled \cup {id[2]} ELSE cancelled,
         UNCHANGED <<heap, created, timers, activeTimers, timerfd, now, ready, lpc, expired, torun,
                     polled, ids, fired, tpc>>,
         pending' \in Seq(Calls), AddsDiffer(pending'), Transit(pending') = Transit(pending)
  PROVE  TInv'
<1>1. Typed
    BY DEF TInv
<1>2. Living' = Living /\ Queued' = Queued /\ InBatch' = InBatch
    BY DEF Living, Queued, InBatch
<1>3. \A q \in Living : heap[q].sequence \in Seqs
    BY <1>1, LivingTimers
<1>4. InBatch \subseteq Living
    BY DEF TInv, Owners
<1>5. Typed'
    <2>1. canceling' \subseteq Ptrs \X Seqs
        BY <1>1 DEF Typed, TypeOK
    <2>2. cancelled' \subseteq Seqs
        BY <1>1 DEF Typed, TypeOK
    <2> QED
        BY <1>1, <2>1, <2>2 DEF Typed, TypeOK
<1>6. Owners' /\ SetsAgree'
    BY <1>2 DEF TInv, Owners, SetsAgree, IdOf
<1>7. cancelled' = cancelled \/ \E p \in InBatch : /\ id = <<p, heap[p].sequence>>
                                              /\ cancelled' = cancelled \cup {heap[p].sequence}
    BY SMTT(60) DEF InBatch, IdOf
<1>8. SequencesOnce'
    BY <1>2, <1>4, <1>7, SMTT(60) DEF TInv, SequencesOnce
<1>9. Batch'
    BY DEF TInv, Batch
<1>10. Cancellations'
    <2>1. CASE cancelled' = cancelled
        <3>1. canceling \subseteq canceling'
            OBVIOUS
        <3> QED
            BY <1>2, <2>1, <3>1 DEF TInv, Cancellations, IdOf
    <2>2. ASSUME NEW p \in InBatch, id = <<p, heap[p].sequence>>,
                 cancelled' = cancelled \cup {heap[p].sequence}
          PROVE  Cancellations'
        <3>1. expired # {}
            BY DEF InBatch
        <3>2. lpc \in {"calling", "callback"}
            BY <1>1, <3>1 DEF TInv, Batch, Typed, TypeOK
        <3>3. canceling' = canceling \cup {<<p, heap[p].sequence>>}
            BY <2>2, <3>2
        <3>4. \A q \in Living : heap[q].sequence = heap[p].sequence => q = p
            BY <1>4 DEF TInv, SequencesOnce
        <3> QED
            BY <1>2, <2>2, <3>3, <3>4 DEF TInv, Cancellations, IdOf
    <2> QED
        BY <1>7, <2>1, <2>2
<1>11. CalledOnce'
    BY <1>2 DEF TInv, CalledOnce
<1>12. TimerfdArmed'
    BY DEF TInv, TimerfdArmed
<1> QED
    BY <1>5, <1>6, <1>8, <1>9, <1>10, <1>11, <1>12 DEF TInv

\* cancelInLoop, whoever calls it.
LEMMA CancelInLoopKeeps ==
  ASSUME TInv, NEW id \in Ptrs \X Seqs, CancelInLoop(id),
         UNCHANGED <<now, ready, lpc, expired, torun, polled, ids, fired, tpc>>,
         pending' \in Seq(Calls), AddsDiffer(pending'), Transit(pending') = Transit(pending)
  PROVE  TInv'
<1>1. CASE id \in activeTimers
    <2>1. /\ timers' = timers \ {<<heap[id[1]].expiration, id[1]>>}
          /\ activeTimers' = activeTimers \ {id}
          /\ heap' = [heap EXCEPT ![id[1]] = Free]
          /\ cancelled' = cancelled \cup {id[2]}
          /\ UNCHANGED <<canceling, timerfd, created>>
        BY <1>1 DEF CancelInLoop
    <2> QED
        BY <1>1, <2>1, EraseKeeps
<1>2. CASE id \notin activeTimers
    <2>1. /\ canceling' = IF lpc \in {"calling", "callback"} THEN canceling \cup {id} ELSE canceling
          /\ cancelled' = IF \E e \in expired : IdOf(heap, e[2]) = id
                          THEN cancelled \cup {id[2]} ELSE cancelled
          /\ UNCHANGED <<timers, activeTimers, timerfd, heap, created>>
        BY <1>2 DEF CancelInLoop, heapVars
    <2> QED
        BY <2>1, NoteCancelKeeps
<1> QED
    BY <1>1, <1>2

\* cancel in the loop thread.
LEMMA OwnerCancelKeeps == ASSUME TInv, OwnerCancel PROVE TInv'
<1>1. UNCHANGED <<now, ready, lpc, expired, torun, polled, pending, ids, fired, tpc>>
    BY DEF OwnerCancel, batchVars
<1>2. PICK id \in ids : CancelInLoop(id)
    BY DEF OwnerCancel
<1>3. id \in Ptrs \X Seqs
    BY DEF TInv, Typed, TypeOK
<1>4. pending' \in Seq(Calls) /\ AddsDiffer(pending') /\ Transit(pending') = Transit(pending)
    BY <1>1 DEF TInv, Typed, Owners
<1> QED
    BY <1>1, <1>2, <1>3, <1>4, CancelInLoopKeeps

\* addTimerInLoop or cancelInLoop, run for another thread.
LEMMA RunFunctorKeeps == ASSUME TInv, RunFunctor PROVE TInv'
<1>1. CASE /\ Head(pending).op = "add"
           /\ AddTimerInLoop(heap, Head(pending).id[1])
           /\ UNCHANGED <<heapVars, cancelled>>
    <2>1. UNCHANGED <<heap, created, cancelled>>
        BY <1>1 DEF heapVars
    <2> QED
        BY <1>1, <2>1, RunAddKeeps
<1>2. CASE Head(pending).op = "cancel" /\ CancelInLoop(Head(pending).id)
    <2>1. /\ UNCHANGED <<now, ready, lpc, expired, torun, polled, tpc, ids, fired>>
          /\ pending # <<>> /\ pending' = Tail(pending)
        BY DEF RunFunctor, batchVars
    <2>2. pending \in Seq(Calls) /\ AddsDiffer(pending)
        BY DEF TInv, Typed, Owners
    <2>3. /\ pending' \in Seq(Calls) /\ AddsDiffer(pending') /\ Head(pending) \in Calls
          /\ Transit(pending') = Transit(pending)
        BY <1>2, <2>1, <2>2, TailOfCalls
    <2>4. Head(pending).id \in Ptrs \X Seqs
        BY <2>3 DEF Calls
    <2> QED
        BY <1>2, <2>1, <2>3, <2>4, CancelInLoopKeeps
<1> QED
    BY <1>1, <1>2 DEF RunFunctor

-----------------------------------------------------------------------------
(* handleRead and the end of the queue.                                    *)

\* getExpired: the timers that are due move from the queue to the batch.
LEMMA HandleReadKeeps == ASSUME TInv, HandleRead PROVE TInv'
<1> DEFINE due == {e \in timers : e[1] <= now}
           D == {q \in Queued : heap[q].expiration <= now}
           Q == {q \in Queued : ~ (heap[q].expiration <= now)}
<1>1. Typed /\ SetsAgree
    BY DEF TInv
<1>2. /\ UNCHANGED <<now, heap, created, pending, tpc, ids, fired, cancelled>>
      /\ lpc = "idle" /\ lpc' = "calling" /\ polled' = now /\ canceling' = {}
      /\ expired' = due /\ torun' = due /\ timers' = timers \ due
      /\ activeTimers' = activeTimers \ {<<e[2], heap[e[2]].sequence>> : e \in due}
    BY DEF HandleRead, heapVars, IdOf
<1>3. ready' = FALSE /\ timerfd' \in {timerfd, Disarmed}
    BY DEF HandleRead
<1>4. /\ Queued \subseteq Living
      /\ timers = {<<heap[q].expiration, q>> : q \in Queued}
      /\ activeTimers = {<<q, heap[q].sequence>> : q \in Queued}
    BY <1>1, QueueFromAddresses
<1>5. due = {<<heap[q].expiration, q>> : q \in D}
    BY <1>4, SMTT(60)
<1> DEFINE dueIds == {<<q, heap[q].sequence>> : q \in D}
<1>6. timers' = {<<heap[q].expiration, q>> : q \in Q}
    BY <1>2, <1>4, SMTT(60)
<1>7. Agree(heap, D, due, dueIds)
    <2>1. \A q \in D : heap[q] # Free
        BY <1>4 DEF Living
    <2> HIDE DEF D, due
    <2>2. Holds(heap, D, due, dueIds)
        BY <1>5, <2>1 DEF Holds
    <2> HIDE DEF dueIds
    <2> QED
        BY <2>2, QueueAgrees
<1>8. activeTimers' = {<<q, heap[q].sequence>> : q \in Q}
    <2>1. {<<e[2], heap[e[2]].sequence>> : e \in due} = dueIds
        <3> HIDE DEF due, D, dueIds
        <3> QED
            BY <1>7 DEF Agree, IdOf
    <2>2. activeTimers' = activeTimers \ dueIds
        BY <1>2, <2>1
    <2>3. \A q \in Queued : q \in Q <=> q \notin D
        OBVIOUS
    <2>4. Q \subseteq Queued /\ D \subseteq Queued
        OBVIOUS
    <2> HIDE DEF Q, D
    <2> QED
        BY <1>4, <2>2, <2>3, <2>4, SMTT(60)
<1>9. \A q \in Q : heap[q] # Free
    BY <1>4 DEF Living
<1>10. Agree(heap, Q, timers', activeTimers')
    <2>1. Holds(heap, Q, timers', activeTimers')
        BY <1>6, <1>8, <1>9 DEF Holds
    <2> HIDE DEF Q
    <2> QED
        BY <2>1, QueueAgrees
<1>11. SetsAgree' /\ Queued' = Q
    BY <1>2, <1>10 DEF Agree, SetsAgree, Queued, IdOf
<1>12. InBatch' = D
    <2> HIDE DEF due, D, dueIds
    <2> QED
        BY <1>2, <1>7 DEF Agree, InBatch
<1>13. InBatch = {} /\ expired = {}
    BY <1>2 DEF TInv, Batch, InBatch
<1>14. Living' = Living
    BY <1>2 DEF Living
<1>15. Queued = Q \cup D /\ Q \cap D = {}
    OBVIOUS
<1> HIDE DEF Q, D
<1>16. Owners'
    BY <1>2, <1>11, <1>12, <1>13, <1>14, <1>15 DEF TInv, Owners
<1>17. Typed'
    <2>1. /\ timers' \subseteq Nat \X Ptrs /\ activeTimers' \subseteq Ptrs \X Seqs
          /\ expired' \subseteq Nat \X Ptrs /\ torun' \subseteq expired'
        BY <1>1, <1>2 DEF Typed, TypeOK
    <2>2. timerfd' \in Nat \cup {Disarmed} /\ polled' \in Nat /\ polled' <= now
        BY <1>1, <1>2, <1>3, SMTT(60) DEF Typed, TypeOK
    <2>3. canceling' \subseteq Ptrs \X Seqs /\ ready' \in BOOLEAN
        BY <1>2, <1>3
    <2>4. lpc' \in {"idle", "calling", "callback", "dead"}
        BY <1>2
    <2> HIDE DEF due
    <2> QED
        BY <1>1, <1>2, <2>1, <2>2, <2>3, <2>4 DEF Typed, TypeOK
<1>18. SequencesOnce'
    BY <1>2, <1>14 DEF TInv, SequencesOnce
<1>19. Batch'
    BY <1>1, <1>2 DEF Batch, SetsAgree
<1>20. Cancellations'
    BY <1>2, <1>13, <1>14 DEF TInv, Cancellations
<1>21. CalledOnce'
    BY <1>2, <1>13, <1>14 DEF TInv, CalledOnce
<1>22. TimerfdArmed'
    BY <1>2 DEF TimerfdArmed
<1> QED
    BY <1>11, <1>16, <1>17, <1>18, <1>19, <1>20, <1>21, <1>22 DEF TInv

\* The callback of a timer of the batch starts.
LEMMA RunTimerKeeps == ASSUME TInv, RunTimer PROVE TInv'
<1>1. Typed
    BY DEF TInv
<1>2. /\ UNCHANGED <<now, heap, created, timers, activeTimers, canceling, timerfd, ready,
                      expired, polled, pending, tpc, ids, cancelled>>
      /\ lpc = "calling" /\ lpc' = "callback"
    BY DEF RunTimer, heapVars, queueVars
<1>3. PICK e \in torun : torun' = torun \ {e} /\ fired' = fired \cup {heap[e[2]].sequence}
    BY DEF RunTimer
<1>4. Living' = Living /\ Queued' = Queued /\ InBatch' = InBatch
    BY <1>2 DEF Living, Queued, InBatch
<1>5. torun \subseteq expired /\ \A x \in expired : x = <<x[1], x[2]>>
    BY <1>1, SMTT(60) DEF Typed, TypeOK
<1>6. e[2] \in InBatch /\ e[2] \in Living
    BY <1>5 DEF InBatch, TInv, Owners
<1>7. heap[e[2]].sequence \in Seqs
    BY <1>1, <1>6, LivingTimers
<1>8. Typed'
    <2>1. torun' \subseteq expired' /\ fired' \subseteq Seqs
        BY <1>1, <1>2, <1>3, <1>7 DEF Typed, TypeOK
    <2> QED
        BY <1>1, <1>2, <2>1 DEF Typed, TypeOK
<1>9. Owners' /\ SetsAgree'
    BY <1>2, <1>4 DEF TInv, Owners, SetsAgree, IdOf
<1>10. SequencesOnce'
    BY <1>2, <1>3, <1>4, <1>6 DEF TInv, SequencesOnce
<1>11. Batch'
    BY <1>2 DEF TInv, Batch
<1>12. Cancellations'
    BY <1>2, <1>4 DEF TInv, Cancellations, IdOf
<1>13. CalledOnce'
    <2> SUFFICES ASSUME NEW p \in Living, heap[p].interval = 0, heap[p].sequence \in fired'
                 PROVE  p \in InBatch /\ \A x \in torun' : x[2] # p
        BY <1>2, <1>4 DEF CalledOnce
    <2>1. CASE heap[p].sequence \in fired
        BY <1>3, <2>1 DEF TInv, CalledOnce
    <2>2. CASE heap[p].sequence = heap[e[2]].sequence
        <3>1. p = e[2]
            BY <1>6, <2>2 DEF TInv, SequencesOnce
        <3>2. \A x \in torun : x[2] = p => x[1] = e[1]
            BY <1>5, <3>1, SMTT(60) DEF TInv, Batch
        <3>3. \A x \in torun : x[2] = p => x = e
            BY <1>5, <3>1, <3>2
        <3> QED
            BY <1>3, <1>6, <3>1, <3>3
    <2> QED
        BY <1>3, <2>1, <2>2
<1>14. TimerfdArmed'
    BY <1>2 DEF TimerfdArmed
<1> QED
    BY <1>8, <1>9, <1>10, <1>11, <1>12, <1>13, <1>14 DEF TInv

\* reset: the repeating timers of the batch that were not cancelled go back into
\* the queue with their next expiration, the others are deleted.
LEMMA ResetKeeps == ASSUME TInv, Reset PROVE TInv'
<1> DEFINE again == {p \in InBatch : Repeats(p) /\ IdOf(heap, p) \notin canceling}
           gone == InBatch \ again
           restarted == [p \in Ptrs |-> CASE p \in again -> Restart(heap[p], polled)
                                          [] p \in gone -> Free
                                          [] OTHER -> heap[p]]
           Q == Queued \cup again
<1>1. Typed /\ SetsAgree
    BY DEF TInv
<1>2. /\ lpc = "calling" /\ torun = {}
      /\ heap' = restarted
      /\ timers' = timers \cup {<<restarted[p].expiration, p>> : p \in again}
      /\ activeTimers' = activeTimers \cup {<<p, heap[p].sequence>> : p \in again}
      /\ timerfd' = IF timers' = {} THEN timerfd ELSE ResetTimerfd(Earliest(timers'))
      /\ expired' = {} /\ polled' = 0 /\ lpc' = "idle"
      /\ UNCHANGED <<now, created, canceling, ready, torun, pending, tpc, ids, fired, cancelled>>
    BY DEF Reset, ResetBatch, InBatch, IdOf
<1>3. /\ Free \notin Timers
      /\ \A p \in Living : p \in Ptrs /\ heap[p] \in Timers /\ heap[p].interval \in Nat
    BY <1>1, LivingTimers
<1>4. heap \in [Ptrs -> {Free} \cup Timers] /\ polled \in Nat /\ now \in Nat
    BY <1>1, SMTT(60) DEF Typed, TypeOK, Timers
<1>5. /\ InBatch \subseteq Living /\ Queued \subseteq Living /\ Transit(pending) \subseteq Living
      /\ Queued \cap InBatch = {} /\ InBatch \cap Transit(pending) = {}
    BY DEF TInv, Owners
<1>6. again \subseteq InBatch /\ gone \subseteq InBatch /\ again \cap gone = {}
      /\ again \cup gone = InBatch
    OBVIOUS
<1>7. \A p \in again : heap[p].interval # 0 /\ <<p, heap[p].sequence>> \notin canceling
    BY SMTT(60) DEF Repeats, IdOf
<1> HIDE DEF again, gone
<1>8. /\ \A p \in again : heap'[p] = Restart(heap[p], polled)
      /\ \A p \in gone : heap'[p] = Free
      /\ \A p \in Ptrs : p \notin InBatch => heap'[p] = heap[p]
    BY <1>2, <1>3, <1>5, <1>6
<1>9. \A p \in again : /\ heap'[p] \in Timers /\ heap'[p].sequence = heap[p].sequence
                       /\ heap'[p].interval = heap[p].interval
    <2> SUFFICES ASSUME NEW p \in again
                 PROVE  /\ heap'[p] \in Timers /\ heap'[p].sequence = heap[p].sequence
                        /\ heap'[p].interval = heap[p].interval
        OBVIOUS
    <2>1. heap[p] \in Timers /\ heap[p].interval \in Nat
        BY <1>3, <1>5, <1>6
    <2>2. heap'[p] = [heap[p] EXCEPT !.expiration = polled + heap[p].interval]
        BY <1>8 DEF Restart
    <2> QED
        BY <1>4, <2>1, <2>2, SMTT(60) DEF Timers
<1>10. heap' \in [Ptrs -> {Free} \cup Timers]
    <2>1. DOMAIN heap' = Ptrs /\ heap' = [p \in Ptrs |-> heap'[p]]
        BY <1>2, SMTT(60)
    <2>2. \A p \in Ptrs : heap'[p] \in {Free} \cup Timers
        BY <1>4, <1>6, <1>8, <1>9
    <2> HIDE DEF restarted
    <2> QED
        BY <2>1, <2>2
<1>11. Living' = Living \ gone
    <2>1. \A p \in Ptrs : heap'[p] # Free <=> heap[p] # Free /\ p \notin gone
        BY <1>3, <1>5, <1>6, <1>8, <1>9, SMTT(60) DEF Living
    <2> QED
        BY <2>1 DEF Living
<1>12. \A p \in Living' : /\ p \in Living /\ heap'[p].sequence = heap[p].sequence
                          /\ heap'[p].interval = heap[p].interval
    BY <1>3, <1>6, <1>8, <1>9, <1>11
<1>13. \A p \in Queued : heap'[p] = heap[p]
    BY <1>3, <1>5, <1>8
<1>14. /\ timers = {<<heap[q].expiration, q>> : q \in Queued}
       /\ activeTimers = {<<q, heap[q].sequence>> : q \in Queued}
    BY <1>1, QueueFromAddresses
<1>15. timers' = {<<heap'[q].expiration, q>> : q \in Q}
    <2>1. timers' = timers \cup {<<heap'[p].expiration, p>> : p \in again}
        BY <1>2
    <2>2. timers = {<<heap'[q].expiration, q>> : q \in Queued}
        BY <1>13, <1>14
    <2> QED
        BY <2>1, <2>2
<1>16. activeTimers' = {<<q, heap'[q].sequence>> : q \in Q}
    <2>1. activeTimers' = activeTimers \cup {<<p, heap[p].sequence>> : p \in again}
        BY <1>2
    <2>2. {<<p, heap[p].sequence>> : p \in again} = {<<p, heap'[p].sequence>> : p \in again}
        BY <1>9
    <2>3. activeTimers = {<<q, heap'[q].sequence>> : q \in Queued}
        BY <1>13, <1>14
    <2> QED
        BY <2>1, <2>2, <2>3
<1>17. \A q \in Q : q \in Ptrs /\ heap'[q] \in Timers /\ heap'[q] # Free
    <2>1. \A q \in Queued : q \in Ptrs /\ heap'[q] \in Timers
        BY <1>3, <1>5, <1>13
    <2>2. \A q \in again : q \in Ptrs /\ heap'[q] \in Timers
        BY <1>3, <1>5, <1>6, <1>9
    <2> QED
        BY <1>3, <2>1, <2>2
<1>18. SetsAgree' /\ Queued' = Q
    <2>1. Holds(heap', Q, timers', activeTimers')
        BY <1>15, <1>16, <1>17 DEF Holds
    <2> HIDE DEF Q
    <2>2. Agree(heap', Q, timers', activeTimers')
        BY <2>1, QueueAgrees
    <2> QED
        BY <2>2 DEF Agree, SetsAgree, Queued, IdOf
<1>19. InBatch' = {}
    BY <1>2 DEF InBatch
<1>20. Owners'
    BY <1>2, <1>5, <1>6, <1>11, <1>18, <1>19 DEF TInv, Owners
<1>21. timers' \subseteq Nat \X Ptrs /\ activeTimers' \subseteq Ptrs \X Seqs
    <2>1. \A q \in Q : q \in Ptrs /\ heap'[q].expiration \in Nat /\ heap'[q].sequence \in Seqs
        BY <1>17 DEF Timers
    <2> HIDE DEF Q
    <2> QED
        BY <1>15, <1>16, <2>1, SMTT(60)
<1>22. timerfd' \in Nat \cup {Disarmed} /\ (timers' # {} => Armed(timers', timerfd', now))
    <2>1. timerfd \in Nat \cup {Disarmed} /\ Disarmed \notin Nat
        BY <1>1, TimerAssumption DEF Typed, TypeOK
    <2>2. CASE timers' = {}
        BY <1>2, <2>1, <2>2
    <2>3. CASE timers' # {}
        <3>1. Earliest(timers') \in Nat
            BY <1>21, <2>3, EarliestIs
        <3>2. timerfd' = IF Earliest(timers') < now THEN now ELSE Earliest(timers')
            BY <1>2, <2>3 DEF ResetTimerfd
        <3> QED
            BY <1>4, <2>1, <3>1, <3>2, SMTT(60) DEF Armed
    <2> QED
        BY <2>2, <2>3
<1>23. Typed'
    <2>1. /\ UNCHANGED <<now, created, canceling, ready, pending, tpc, ids, fired, cancelled>>
          /\ torun' = {} /\ expired' = {} /\ polled' = 0 /\ lpc' = "idle"
        BY <1>2
    <2> QED
        BY <1>1, <1>4, <1>10, <1>21, <1>22, <2>1, SMTT(60) DEF Typed, TypeOK, Timers
<1>24. SequencesOnce'
    <2>1. UNCHANGED <<created, fired, cancelled>>
        BY <1>2
    <2>2. \A p \in Living' : p \in Living /\ heap'[p].sequence = heap[p].sequence
        BY <1>12
    <2> QED
        BY <2>1, <2>2 DEF TInv, SequencesOnce
<1>25. Batch'
    BY <1>2 DEF Batch
<1>26. Cancellations'
    <2>1. \A p \in Living' : heap[p].sequence \notin cancelled
        <3>1. \A p \in Living : heap[p].sequence \in cancelled =>
                  p \in InBatch /\ <<p, heap[p].sequence>> \in canceling
            BY DEF TInv, Cancellations, IdOf
        <3>2. \A p \in Living : heap[p].sequence \in cancelled => p \in gone
            BY <1>6, <1>7, <3>1
        <3> QED
            BY <1>11, <3>2
    <2>2. cancelled' = cancelled
        BY <1>2
    <2> QED
        BY <1>12, <2>1, <2>2 DEF Cancellations
<1>27. CalledOnce'
    <2>1. \A p \in InBatch : heap[p].interval = 0 => p \in gone
        BY <1>6, <1>7
    <2>2. \A p \in Living' : ~ (heap[p].interval = 0 /\ heap[p].sequence \in fired)
        BY <1>11, <2>1 DEF TInv, CalledOnce
    <2>3. fired' = fired
        BY <1>2
    <2> QED
        BY <1>12, <2>2, <2>3 DEF CalledOnce
<1>28. TimerfdArmed'
    BY <1>2, <1>22 DEF TimerfdArmed, Armed, Earliest
<1> QED
    BY <1>18, <1>20, <1>23, <1>24, <1>25, <1>26, <1>27, <1>28 DEF TInv

\* ~TimerQueue deletes the queued timers.
LEMMA DestroyKeeps == ASSUME TInv, Destroy PROVE TInv'
<1>1. Typed
    BY DEF TInv
<1>2. /\ lpc = "idle" /\ lpc' = "dead" /\ timers' = {} /\ activeTimers' = {} /\ timerfd' = Disarmed
      /\ UNCHANGED <<now, created, canceling, ready, expired, torun, polled, pending, tpc, ids,
                     fired, cancelled>>
      /\ heap' = [p \in Ptrs |-> IF p \in Queued THEN Free ELSE heap[p]]
    BY DEF Destroy, batchVars, Queued
<1>3. expired = {} /\ InBatch = {} /\ InBatch' = {} /\ Queued' = {}
    BY <1>2 DEF TInv, Batch, InBatch, Queued
<1>4. heap \in [Ptrs -> {Free} \cup Timers]
    BY <1>1 DEF Typed, TypeOK, Timers
<1>5. heap' \in [Ptrs -> {Free} \cup Timers]
    BY <1>2, <1>4
<1>6. Living' = Living \ Queued
    BY <1>2 DEF Living
<1>7. \A p \in Living' : p \in Living /\ heap'[p] = heap[p]
    BY <1>2, <1>6 DEF Living
<1>8. Typed'
    BY <1>1, <1>2, <1>5 DEF Typed, TypeOK, Timers
<1>9. Owners'
    BY <1>2, <1>3, <1>6 DEF TInv, Owners
<1>10. SetsAgree' /\ TimerfdArmed'
    BY <1>2 DEF SetsAgree, TimerfdArmed
<1>11. SequencesOnce' /\ Batch'
    BY <1>2, <1>3, <1>7, SMTT(60) DEF TInv, SequencesOnce, Batch
<1>12. Cancellations'
    BY <1>2, <1>3, <1>7, SMTT(60) DEF TInv, Cancellations
<1>13. CalledOnce'
    BY <1>2, <1>3, <1>7, SMTT(60) DEF TInv, CalledOnce
<1> QED
    BY <1>8, <1>9, <1>10, <1>11, <1>12, <1>13 DEF TInv

-----------------------------------------------------------------------------
(* The theorems.                                                           *)

\* Every step keeps the invariant.
LEMMA NextTInv == TInv /\ [Next]_vars => TInv'
<1> SUFFICES ASSUME TInv, [Next]_vars
             PROVE  TInv'
    OBVIOUS
<1>1. ASSUME NEW t \in Threads, AddTimer(t) \/ AddTimerReturn(t) \/ Cancel(t)
      PROVE  TInv'
    BY <1>1, AddTimerKeeps, AddTimerReturnKeeps, CancelKeeps
<1>2. CASE OwnerAddTimer \/ OwnerCancel
    BY <1>2, OwnerAddTimerKeeps, OwnerCancelKeeps
<1>3. CASE LoopStep
    BY <1>3, RunFunctorKeeps, PollTimerfdKeeps, HandleReadKeeps, RunTimerKeeps,
       CallbackReturnKeeps, ResetKeeps DEF LoopStep
<1>4. CASE Destroy
    BY <1>4, DestroyKeeps
<1>5. CASE Tick
    BY <1>5, TickKeeps
<1>6. CASE UNCHANGED vars
    <2>1. UNCHANGED <<now, heap, created, timers, activeTimers, canceling, timerfd, ready, lpc,
                      expired, torun, polled, pending, tpc, ids, fired, cancelled>>
        BY <1>6 DEF vars, heapVars, queueVars, batchVars
    <2>2. Typed'
        BY <2>1 DEF TInv, Typed, TypeOK
    <2>3. Transit(pending') = Transit(pending) /\ AddsDiffer(pending') /\ now \in Nat
        BY <2>1, SMTT(60) DEF TInv, Owners, Typed, TypeOK
    <2> QED
        BY <2>1, <2>2, <2>3, StillKeeps, SMTT(60)
<1> QED
    BY <1>1, <1>2, <1>3, <1>4, <1>5, <1>6 DEF Next

\* So it always holds.
LEMMA Invariance == Spec => []TInv
BY InitTInv, NextTInv, PTL DEF Spec

\* Whatever threads add and cancel, and whenever callbacks run, add and cancel
\* themselves: both containers hold the same timers, every Timer has one owner who
\* deletes it, the timerfd wakes the loop in time for the earliest timer, and a
\* timer that cancelInLoop found is not in the queue again.
THEOREM TimersStaySound == Spec => []TimersSound
<1>1. TInv => TimersSound
    <2> SUFFICES ASSUME TInv
                 PROVE  TimersSound
        OBVIOUS
    <2>1. OneOwner
        BY DEF TInv, Owners, OneOwner, Living, InTransit, ToAdd, Transit, Adds, AddsDiffer
    <2>2. CancelledStaysOut
        <3>1. \A e \in timers : e[2] \in Living /\ e[2] \notin InBatch
            BY DEF TInv, Owners, Queued
        <3> QED
            BY <3>1 DEF TInv, Cancellations, CancelledStaysOut
    <2> QED
        BY <2>1, <2>2 DEF TInv, Typed, TimersSound
<1> QED
    BY <1>1, Invariance, PTL

\* handleRead starts a callback only when its timer is due, and that of a timer
\* that does not repeat only once.
THEOREM CallbacksRunWhenDue == Spec => RunsWhenDue
<1>1. ASSUME TInv, NEW e \in torun
      PROVE  e[1] <= now /\ (heap[e[2]].interval = 0 => heap[e[2]].sequence \notin fired)
    <2>1. /\ torun \subseteq expired /\ expired \subseteq Nat \X Ptrs
          /\ polled \in Nat /\ now \in Nat /\ polled <= now
        BY <1>1, SMTT(60) DEF TInv, Typed, TypeOK
    <2>2. e[1] <= polled /\ e[1] \in Nat
        BY <1>1, <2>1 DEF TInv, Batch
    <2>3. e[2] \in Living
        BY <1>1, <2>1 DEF TInv, Owners, InBatch
    <2>4. ~ (heap[e[2]].interval = 0 /\ heap[e[2]].sequence \in fired)
        BY <1>1, <2>3 DEF TInv, CalledOnce
    <2> QED
        BY <2>1, <2>2, <2>4, SMTT(60)
<1>2. TInv /\ [Next]_vars =>
        [\A e \in torun : CallbackStarts(e) =>
            /\ e[1] <= now
            /\ heap[e[2]].interval = 0 => heap[e[2]].sequence \notin fired]_vars
    BY <1>1
<1> QED
    BY <1>2, Invariance, PTL DEF Spec, RunsWhenDue

-----------------------------------------------------------------------------
(***************************************************************************)
(* Date and UTC, for every year from 1900 on.                              *)
(***************************************************************************)
(* The number of a day as Date.cc computes it, with the year that starts   *)
(* in March made explicit.                                                 *)
MarchYear(y) == 365 * y + y \div 4 - y \div 100 + y \div 400
MarchDays(m) == (153 * m + 2) \div 5

(* getJulianDayNumber counts the months and years from March, so that the  *)
(* leap day is the last of its year.                                       *)
LEMMA NumberOf ==
    ASSUME NEW y \in Nat, NEW m \in 1 .. 12, NEW d \in Int
    PROVE  getJulianDayNumber(y, m, d) =
             IF m <= 2 THEN d + MarchDays(m + 9) + MarchYear(y + 4799) - 32045
             ELSE d + MarchDays(m - 3) + MarchYear(y + 4800) - 32045
<1>1. CASE m <= 2
  <2>1. (14 - m) \div 12 = 1
    BY <1>1, SMTT(60)
  <2> QED
    BY <1>1, <2>1, SMTT(60) DEF getJulianDayNumber, MarchYear, MarchDays
<1>2. CASE m > 2
  <2>1. (14 - m) \div 12 = 0
    BY <1>2, SMTT(60)
  <2> QED
    BY <1>2, <2>1, SMTT(60) DEF getJulianDayNumber, MarchYear, MarchDays
<1> QED
    BY <1>1, <1>2, SMTT(60)

(* The days of the years before year 100 * b + r, by century.              *)
Centuries(b) == 36524 * b + b \div 4
Years(r) == 365 * r + r \div 4

(* The days of the years before year y, by century.                        *)
LEMMA YearsByCentury ==
    ASSUME NEW y \in Nat
    PROVE  /\ y \div 100 \in Nat /\ y % 100 \in 0 .. 99
           /\ MarchYear(y) = Centuries(y \div 100) + Years(y % 100)
  BY SMTT(60) DEF MarchYear, Centuries, Years

(* A year before a leap year ends a group of four, and of four centuries.  *)
LEMMA LeapBefore ==
    ASSUME NEW y \in Nat, IsLeap(y + 1)
    PROVE  /\ (y % 100) % 4 = 3
           /\ y % 100 = 99 => (y \div 100) % 4 = 3
  BY SMTT(60) DEF IsLeap


(* Day d of month mm of year 100 * b + r, with months and years counted    *)
(* from March, and what the last lines of getYearMonthDay make of it.      *)
MarchDate(b, r, mm, d) ==
    /\ b \in Nat /\ r \in 0 .. 99 /\ mm \in 0 .. 11 /\ d \in 1 .. 31
    /\ mm \in {1, 3, 6, 8} => d <= 30
    /\ mm = 11 => d <= 29
    /\ mm = 11 /\ d = 29 => r % 4 = 3 /\ (r = 99 => b % 4 = 3)

DateOf(b, r, mm, e) ==
    [year |-> b * 100 + r - 4800 + (mm \div 10), month |-> mm + 3 - 12 * (mm \div 10),
     day |-> e - ((153 * mm + 2) \div 5) + 1]

NumberFrom(b, r, mm, d) == d + MarchDays(mm) + Centuries(b) + Years(r) - 32045

(* The divisions of getYearMonthDay, one after the other.                  *)
ByCentury(j, a, b, c) ==
    /\ a \in Int /\ b \in Int /\ c \in Int /\ j \in Int
    /\ a = j + 32044 /\ b = (4 * a + 3) \div 146097 /\ c = a - ((b * 146097) \div 4)

ByYear(c, r, e, mm) ==
    /\ r \in Int /\ e \in Int /\ mm \in Int
    /\ r = (4 * c + 3) \div 1461 /\ e = c - ((1461 * r) \div 4)
    /\ mm = (5 * e + 2) \div 153

(* getYearMonthDay returns what its divisions give.                        *)
LEMMA Divisions ==
    ASSUME NEW j, NEW a, NEW b, NEW c, NEW r, NEW e, NEW mm,
           ByCentury(j, a, b, c), ByYear(c, r, e, mm)
    PROVE  getYearMonthDay(j) = DateOf(b, r, mm, e)
<1>1. getYearMonthDay(j) = yearMonthDay(b, c)
    BY SMTT(60) DEF ByCentury, getYearMonthDay
<1>2. yearMonthDay(b, c) = DateOf(b, r, mm, e)
    BY SMTT(60) DEF ByYear, yearMonthDay, DateOf
<1> QED
    BY <1>1, <1>2

(* From the number of a date getYearMonthDay finds the century, the year   *)
(* in it, the month and the day.                                           *)
LEMMA FromNumber ==
    ASSUME NEW b, NEW r, NEW mm, NEW d, MarchDate(b, r, mm, d),
           NEW j, j = NumberFrom(b, r, mm, d)
    PROVE  getYearMonthDay(j) = DateOf(b, r, mm, d + MarchDays(mm) - 1)
<1>1. PICK e : e = d + MarchDays(mm) - 1
    OBVIOUS
<1>2. PICK c : c = Years(r) + e
    OBVIOUS
<1>3. PICK a : a = Centuries(b) + c
    OBVIOUS
<1>4. /\ e \in Nat /\ e <= 365 /\ mm \in Int
      /\ mm = (5 * e + 2) \div 153
      /\ e = 365 => r % 4 = 3 /\ (r = 99 => b % 4 = 3)
    BY <1>1, SMTT(60) DEF MarchDays, MarchDate
<1>5. b \in Nat /\ r \in 0 .. 99 /\ d \in Int
    BY SMTT(60) DEF MarchDate
<1>6. ByCentury(j, a, b, c)
  <2>1. a = j + 32044 /\ j \in Int /\ a \in Int /\ c \in Int
    <3>1. Centuries(b) \in Int /\ Years(r) \in Int /\ MarchDays(mm) \in Int
      BY <1>4, <1>5, SMTT(60) DEF Centuries, Years, MarchDays
    <3> QED
      BY <1>1, <1>2, <1>3, <1>5, <3>1, SMTT(60) DEF NumberFrom
  <2> QED
    BY <1>2, <1>3, <1>4, <1>5, <2>1, SMTT(60) DEF ByCentury, Centuries, Years
<1>7. ByYear(c, r, e, mm)
    BY <1>2, <1>4, <1>5, SMTT(60) DEF ByYear, Years
<1>8. getYearMonthDay(j) = DateOf(b, r, mm, e)
    BY <1>6, <1>7, Divisions
<1> QED
    BY <1>1, <1>8

(* getYearMonthDay undoes getJulianDayNumber on every date there is.       *)
LEMMA LeadsBack ==
    ASSUME NEW y \in Nat, NEW m \in 1 .. 12, NEW d \in 1 .. DaysIn(y, m)
    PROVE  getYearMonthDay(getJulianDayNumber(y, m, d)) = [year |-> y, month |-> m, day |-> d]
<1>1. d \in 1 .. 31 /\ (m \in {4, 6, 9, 11} => d <= 30) /\ (m = 2 => d <= 29)
      /\ (m = 2 /\ d = 29 => IsLeap(y))
    BY SMTT(60) DEF DaysIn
<1>2. PICK mm, yy : IF m > 2 THEN mm = m - 3 /\ yy = y + 4800 ELSE mm = m + 9 /\ yy = y + 4799
    BY SMTT(60)
<1>3. mm \in 0 .. 11 /\ yy \in Nat /\ (mm \in {1, 3, 6, 8} => d <= 30)
      /\ (mm = 11 => d <= 29) /\ (mm = 11 => m = 2)
    BY <1>1, <1>2, SMTT(60)
<1>4. mm = 11 /\ d = 29 => IsLeap(yy + 1)
  <2>1. IsLeap(y) => IsLeap(y + 4800)
    BY SMTT(60) DEF IsLeap
  <2>2. m = 2 => yy + 1 = y + 4800
    BY <1>2, SMTT(60)
  <2> QED
    BY <1>1, <1>3, <2>1, <2>2, SMTT(60)
<1>5. PICK b, r : b = yy \div 100 /\ r = yy % 100
    BY SMTT(60)
<1>6. /\ b \in Nat /\ r \in 0 .. 99
      /\ MarchYear(yy) = Centuries(b) + Years(r)
    BY <1>3, <1>5, YearsByCentury, SMTT(60)
<1>7. mm = 11 /\ d = 29 => r % 4 = 3 /\ (r = 99 => b % 4 = 3)
    BY <1>3, <1>4, <1>5, LeapBefore, SMTT(60)
<1>8. MarchDate(b, r, mm, d)
    BY <1>1, <1>3, <1>6, <1>7, SMTT(60) DEF MarchDate
<1>9. getJulianDayNumber(y, m, d) = NumberFrom(b, r, mm, d)
  <2>1. getJulianDayNumber(y, m, d) = d + MarchDays(mm) + MarchYear(yy) - 32045
    BY <1>1, <1>2, NumberOf, SMTT(60)
  <2>2. Centuries(b) \in Int /\ Years(r) \in Int /\ MarchDays(mm) \in Int
    BY <1>3, <1>6, SMTT(60) DEF Centuries, Years, MarchDays
  <2> QED
    BY <1>1, <1>6, <2>1, <2>2, SMTT(60) DEF NumberFrom
<1>10. getYearMonthDay(getJulianDayNumber(y, m, d)) = DateOf(b, r, mm, d + MarchDays(mm) - 1)
    BY <1>8, <1>9, FromNumber, SMTT(60)
<1>11. b * 100 + r - 4800 + (mm \div 10) = y /\ mm + 3 - 12 * (mm \div 10) = m
    BY <1>2, <1>3, <1>5, SMTT(60)
<1>12. d + MarchDays(mm) - 1 - ((153 * mm + 2) \div 5) + 1 = d
    BY <1>1, <1>3, SMTT(60) DEF MarchDays
<1> QED
  <2>1. DateOf(b, r, mm, d + MarchDays(mm) - 1) =
          [year |-> b * 100 + r - 4800 + (mm \div 10), month |-> mm + 3 - 12 * (mm \div 10),
           day |-> d + MarchDays(mm) - 1 - ((153 * mm + 2) \div 5) + 1]
    BY <1>1, <1>3, <1>6, SMTT(60) DEF DateOf, MarchDays
  <2>2. DateOf(b, r, mm, d + MarchDays(mm) - 1) = [year |-> y, month |-> m, day |-> d]
    BY <1>11, <1>12, <2>1, SMTT(60)
  <2> QED
    BY <1>10, <2>2, SMTT(60)

(* The number of the first of a month is that of the month before and its  *)
(* days.                                                                   *)
LEMMA NextMonth ==
    ASSUME NEW y \in Nat, NEW m \in 1 .. 11
    PROVE  getJulianDayNumber(y, m + 1, 1) = getJulianDayNumber(y, m, 1) + DaysIn(y, m)
<1>1. getJulianDayNumber(y, m, 1) =
        IF m <= 2 THEN 1 + MarchDays(m + 9) + MarchYear(y + 4799) - 32045
        ELSE 1 + MarchDays(m - 3) + MarchYear(y + 4800) - 32045
    BY NumberOf, SMTT(60)
<1>2. getJulianDayNumber(y, m + 1, 1) =
        IF m <= 1 THEN 1 + MarchDays(m + 10) + MarchYear(y + 4799) - 32045
        ELSE 1 + MarchDays(m - 2) + MarchYear(y + 4800) - 32045
    BY NumberOf, SMTT(60)
<1>3. MarchYear(y + 4799) \in Int /\ MarchYear(y + 4800) \in Int
    BY SMTT(60) DEF MarchYear
<1>4. MarchYear(y + 4800) = MarchYear(y + 4799) + (IF IsLeap(y) THEN 366 ELSE 365)
    BY SMTT(60) DEF MarchYear, IsLeap
<1> QED
    BY <1>1, <1>2, <1>3, <1>4, SMTT(60) DEF MarchDays, DaysIn

(* The first of January comes 31 days after the first of December.         *)
LEMMA NextYear ==
    ASSUME NEW y \in Nat
    PROVE  getJulianDayNumber(y + 1, 1, 1) = getJulianDayNumber(y, 12, 1) + 31
  BY SMTT(60) DEF getJulianDayNumber

(* The days of a month have consecutive numbers.                           *)
LEMMA DaysFollow ==
    ASSUME NEW y \in Nat, NEW m \in 1 .. 12, NEW d \in Int
    PROVE  /\ getJulianDayNumber(y, m, d) \in Int
           /\ getJulianDayNumber(y, m, d) = getJulianDayNumber(y, m, 1) + d - 1
<1>1. /\ MarchYear(y + 4799) \in Int /\ MarchYear(y + 4800) \in Int
      /\ MarchDays(m + 9) \in Int /\ MarchDays(m - 3) \in Int
    BY SMTT(60) DEF MarchYear, MarchDays
<1>2. 1 \in Int
    BY SMTT(60)
<1>3. getJulianDayNumber(y, m, 1) =
        IF m <= 2 THEN 1 + MarchDays(m + 9) + MarchYear(y + 4799) - 32045
        ELSE 1 + MarchDays(m - 3) + MarchYear(y + 4800) - 32045
    BY <1>2, NumberOf, SMTT(60)
<1>4. getJulianDayNumber(y, m, d) =
        IF m <= 2 THEN d + MarchDays(m + 9) + MarchYear(y + 4799) - 32045
        ELSE d + MarchDays(m - 3) + MarchYear(y + 4800) - 32045
    BY NumberOf, SMTT(60)
<1> QED
    BY <1>1, <1>3, <1>4, SMTT(60)


(* The number of the first of a month is a number.                         *)
LEMMA FirstTyped ==
    ASSUME NEW y \in Nat, NEW m \in 1 .. 12
    PROVE  getJulianDayNumber(y, m, 1) \in Int
  BY SMTT(60) DEF getJulianDayNumber

(* The inductive invariant: the calendar's first day has the number of the *)
(* first of the month, and so have its day of the week and of the year.    *)
Numbered(p) ==
    LET number == getJulianDayNumber(p.year, p.month, 1)
    IN /\ p.year \in Nat /\ p.month \in 1 .. 12
       /\ p.first = number
       /\ p.weekday = (number + 1) % 7
       /\ p.yday = number - getJulianDayNumber(p.year, 1, 1)

MonthNumbered == Numbered(month)

(* The invariant after a step is about the calendar after it.              *)
LEMMA NumberedNext == MonthNumbered' <=> Numbered(month')
  BY SMTT(60) DEF MonthNumbered, Numbered, getJulianDayNumber

(* 1 January 1900 has the number that the code computes, and was a         *)
(* Monday.                                                                 *)
LEMMA MonthAtFirst == CalendarInit => MonthNumbered
<1>1. getJulianDayNumber(1900, 1, 1) = 2415021
    BY SMTT(60) DEF getJulianDayNumber
<1>2. (2415021 + 1) % 7 = 1 /\ 2415021 - 2415021 = 0 /\ 1900 \in Nat /\ 1 \in 1 .. 12
    BY SMTT(60)
<1> SUFFICES ASSUME CalendarInit PROVE MonthNumbered
    OBVIOUS
<1>3. month.year = 1900 /\ month.month = 1 /\ month.first = 2415021
      /\ month.weekday = 1 /\ month.yday = 0
    BY CalendarAssumption, SMTT(60) DEF CalendarInit, DayOf1900_01_01
<1> QED
    BY <1>1, <1>2, <1>3, SMTT(60) DEF MonthNumbered, Numbered

(* Turning the page keeps the invariant: a month is as long as the         *)
(* numbers of the code say.                                                *)
LEMMA MonthKept == MonthNumbered /\ [CalendarNext]_calendarVars => MonthNumbered'
<1> SUFFICES ASSUME MonthNumbered, [CalendarNext]_calendarVars PROVE MonthNumbered'
    OBVIOUS
<1>1. CASE UNCHANGED month
    BY <1>1, NumberedNext DEF MonthNumbered
<1>2. CASE TurnPage
  <2>1. PICK y, m, n : y = month.year /\ m = month.month /\ n = DaysIn(y, m)
    OBVIOUS
  <2>2. PICK f : f = getJulianDayNumber(y, m, 1)
    OBVIOUS
  <2>3. y \in Nat /\ m \in 1 .. 12 /\ month.first = f /\ month.weekday = (f + 1) % 7
        /\ month.yday = f - getJulianDayNumber(y, 1, 1)
    BY <2>1, <2>2 DEF MonthNumbered, Numbered
  <2>4. n \in Nat /\ (m = 12 => n = 31)
    BY <2>1, <2>3, SMTT(60) DEF DaysIn
  <2>5. f \in Int /\ getJulianDayNumber(y, 1, 1) \in Int
    BY <2>2, <2>3, FirstTyped, SMTT(60)
  <2>6. /\ month'.year = (IF m = 12 THEN y + 1 ELSE y)
        /\ month'.month = (IF m = 12 THEN 1 ELSE m + 1)
        /\ month'.first = f + n /\ month'.weekday = (((f + 1) % 7) + n) % 7
        /\ month'.yday = (IF m = 12 THEN 0 ELSE f - getJulianDayNumber(y, 1, 1) + n)
    BY <1>2, <2>1, <2>3 DEF TurnPage
  <2>7. (((f + 1) % 7) + n) % 7 = (f + n + 1) % 7
    BY <2>4, <2>5, SMTT(60)
  <2>8. CASE m = 12
    <3>1. getJulianDayNumber(y + 1, 1, 1) = f + n
      BY <2>2, <2>3, <2>4, <2>8, NextYear, SMTT(60)
    <3>2. y + 1 \in Nat /\ 1 \in 1 .. 12 /\ f + n - (f + n) = 0
      BY <2>3, <2>4, <2>5, SMTT(60)
    <3>3. /\ month'.year = y + 1 /\ month'.month = 1 /\ month'.first = f + n
          /\ month'.weekday = (f + n + 1) % 7 /\ month'.yday = 0
      BY <2>6, <2>7, <2>8, SMTT(60)
    <3>4. Numbered(month')
      BY <2>4, <2>5, <3>1, <3>2, <3>3, SMTT(60) DEF Numbered
    <3> QED
      BY <3>4, NumberedNext
  <2>9. CASE m # 12
    <3>1. m \in 1 .. 11 /\ m + 1 \in 1 .. 12
      BY <2>3, <2>9, SMTT(60)
    <3>2. getJulianDayNumber(y, m + 1, 1) = f + n
      BY <2>1, <2>2, <2>3, <3>1, NextMonth
    <3>3. f - getJulianDayNumber(y, 1, 1) + n = f + n - getJulianDayNumber(y, 1, 1)
      BY <2>4, <2>5, SMTT(60)
    <3>4. /\ month'.year = y /\ month'.month = m + 1 /\ month'.first = f + n
          /\ month'.weekday = (f + n + 1) % 7
          /\ month'.yday = f - getJulianDayNumber(y, 1, 1) + n
      BY <2>6, <2>7, <2>9, SMTT(60)
    <3>5. Numbered(month')
      BY <2>3, <2>4, <2>5, <3>1, <3>2, <3>3, <3>4, SMTT(60) DEF Numbered
    <3> QED
      BY <3>5, NumberedNext
  <2> QED
    BY <2>8, <2>9
<1> QED
    BY <1>1, <1>2 DEF CalendarNext, TimePasses, calendarVars

(* Every day of the month has the calendar's number, and the number leads  *)
(* back to it.                                                             *)
LEMMA NumbersAgree == MonthNumbered => DaysNumbered
<1> SUFFICES ASSUME MonthNumbered, NEW d \in 1 .. DaysIn(month.year, month.month)
             PROVE  /\ getJulianDayNumber(month.year, month.month, d) = month.first + d - 1
                    /\ getYearMonthDay(month.first + d - 1) =
                          [year |-> month.year, month |-> month.month, day |-> d]
    BY DEF DaysNumbered
<1>1. month.year \in Nat /\ month.month \in 1 .. 12
      /\ month.first = getJulianDayNumber(month.year, month.month, 1)
    BY DEF MonthNumbered, Numbered
<1>2. d \in Int
    BY <1>1, SMTT(60) DEF DaysIn
<1>3. getJulianDayNumber(month.year, month.month, d) = month.first + d - 1
    BY <1>1, <1>2, DaysFollow
<1>4. getYearMonthDay(getJulianDayNumber(month.year, month.month, d)) =
         [year |-> month.year, month |-> month.month, day |-> d]
    BY <1>1, LeadsBack
<1> QED
    BY <1>3, <1>4


(* Seconds are split into a day and the seconds of it, also before 1970,   *)
(* where the division of C++ rounds up.                                    *)
LEMMA DaySplit ==
    ASSUME NEW day \in Int, NEW s \in Nat, s < 86400
    PROVE  DayAndSeconds(day * kSecondsPerDay + s) = [days |-> day, seconds |-> s]
<1>1. kSecondsPerDay = 86400
    BY SMTT(60) DEF kSecondsPerDay
<1>2. PICK t : t = day * 86400 + s
    BY SMTT(60)
<1>3. t \in Int
    BY <1>2, SMTT(60)
<1>4. CASE t >= 0
  <2>1. Quot(t, 86400) = day /\ Rem(t, 86400) = s
    BY <1>2, <1>3, <1>4, SMTT(60) DEF Quot, Rem
  <2> QED
    BY <1>1, <1>2, <2>1, SMTT(60) DEF DayAndSeconds
<1>5. CASE t < 0 /\ s = 0
  <2>1. Quot(t, 86400) = day /\ Rem(t, 86400) = s
    BY <1>2, <1>3, <1>5, SMTT(60) DEF Quot, Rem
  <2> QED
    BY <1>1, <1>2, <2>1, SMTT(60) DEF DayAndSeconds
<1>6. CASE t < 0 /\ s # 0
  <2>1. Quot(t, 86400) = day + 1 /\ Rem(t, 86400) = s - 86400
    BY <1>2, <1>3, <1>6, SMTT(60) DEF Quot, Rem
  <2> QED
    BY <1>1, <1>2, <2>1, SMTT(60) DEF DayAndSeconds
<1> QED
    BY <1>3, <1>4, <1>5, <1>6, SMTT(60)

(* toUtcTime of second s of a day whose date, weekday and day of the year  *)
(* are known.                                                              *)
LEMMA UtcOf ==
    ASSUME NEW j \in Int, NEW s \in Nat, s < 86400, NEW y, NEW m,
           getYearMonthDay(j) = [year |-> y, month |-> m, day |-> 1]
    PROVE  toUtcTime((j - 2440588) * kSecondsPerDay + s) =
             [date |-> [year |-> y, month |-> m, day |-> 1],
              hour |-> (s \div 60) \div 60, min |-> (s \div 60) % 60, sec |-> s % 60,
              wday |-> weekDay(j), yday |-> j - getJulianDayNumber(y, 1, 1)]
<1>1. PICK day : day = j - 2440588
    BY SMTT(60)
<1>2. day \in Int /\ day + kJulianDayOf1970_01_01 = j
    BY <1>1, SMTT(60) DEF kJulianDayOf1970_01_01, getJulianDayNumber
<1>3. PICK t : t = day * kSecondsPerDay + s
    BY SMTT(60)
<1>4. DayAndSeconds(t) = [days |-> day, seconds |-> s]
    BY <1>2, <1>3, DaySplit, SMTT(60)
<1>5. DayAndSeconds(t).days = day /\ DayAndSeconds(t).seconds = s
    BY <1>4, SMTT(60)
<1>6. toUtcTime(t) =
        [date |-> getYearMonthDay(j), hour |-> (s \div 60) \div 60, min |-> (s \div 60) % 60,
         sec |-> s % 60, wday |-> weekDay(j),
         yday |-> j - getJulianDayNumber(getYearMonthDay(j).year, 1, 1)]
    BY <1>2, <1>5, SMTT(60) DEF toUtcTime
<1>7. getYearMonthDay(j).year = y
    BY SMTT(60)
<1> QED
    BY <1>1, <1>3, <1>6, <1>7, SMTT(60)


(* Every second of the first day of a month becomes its date and time of   *)
(* day and leads back.                                                     *)
LEMMA SecondsAgree ==
    ASSUME MonthNumbered, DaysNumbered, NEW s \in Nat, s < 86400
    PROVE  LET t == (month.first - 2440588) * kSecondsPerDay + s IN Agrees(t, toUtcTime(t))
<1>1. PICK j, y, m : j = month.first /\ y = month.year /\ m = month.month
    BY SMTT(60)
<1>2. /\ j \in Int /\ y \in Nat /\ m \in 1 .. 12
      /\ j = getJulianDayNumber(y, m, 1)
      /\ month.weekday = (j + 1) % 7
      /\ month.yday = j - getJulianDayNumber(y, 1, 1)
  <2>1. /\ y \in Nat /\ m \in 1 .. 12
        /\ j = getJulianDayNumber(y, m, 1)
        /\ month.weekday = (j + 1) % 7
        /\ month.yday = j - getJulianDayNumber(y, 1, 1)
    BY <1>1, SMTT(60) DEF MonthNumbered, Numbered
  <2>2. j \in Int
    BY <2>1, FirstTyped, SMTT(60)
  <2> QED
    BY <2>1, <2>2, SMTT(60)
<1>3. getYearMonthDay(j) = [year |-> y, month |-> m, day |-> 1]
  <2>1. 1 \in 1 .. DaysIn(y, m)
    BY <1>2, SMTT(60) DEF DaysIn
  <2> QED
    BY <1>2, <2>1, LeadsBack, SMTT(60)
<1>4. PICK t : t = (j - 2440588) * kSecondsPerDay + s
    BY SMTT(60)
<1>5. PICK tm : tm = toUtcTime(t)
    BY SMTT(60)
<1>6. tm = [date |-> [year |-> y, month |-> m, day |-> 1],
            hour |-> (s \div 60) \div 60, min |-> (s \div 60) % 60, sec |-> s % 60,
            wday |-> weekDay(j), yday |-> j - getJulianDayNumber(y, 1, 1)]
    BY <1>2, <1>3, <1>4, <1>5, UtcOf, SMTT(60)
<1>7. /\ tm.date = [year |-> y, month |-> m, day |-> 1]
      /\ tm.hour = (s \div 60) \div 60 /\ tm.min = (s \div 60) % 60 /\ tm.sec = s % 60
      /\ tm.wday = weekDay(j) /\ tm.yday = j - getJulianDayNumber(y, 1, 1)
    BY <1>6, SMTT(60)
<1>8. ClockTime(tm)
    BY <1>7, SMTT(60) DEF ClockTime
<1>9. fromUtcTime(tm) = t
  <2>1. tm.date.year = y /\ tm.date.month = m /\ tm.date.day = 1
    BY <1>7, SMTT(60)
  <2>2. fromUtcTime(tm) = (j - kJulianDayOf1970_01_01) * kSecondsPerDay
                            + tm.hour * 3600 + tm.min * 60 + tm.sec
    BY <1>2, <2>1, SMTT(60) DEF fromUtcTime
  <2>3. PICK p : p = (j - kJulianDayOf1970_01_01) * kSecondsPerDay
    BY SMTT(60)
  <2>4. p \in Int /\ t = p + s
    BY <1>2, <1>4, <2>3, SMTT(60) DEF kJulianDayOf1970_01_01, getJulianDayNumber, kSecondsPerDay
  <2> QED
    BY <1>7, <2>2, <2>3, <2>4, SMTT(60)
<1>10. Agrees(t, tm)
    BY <1>1, <1>2, <1>7, <1>8, <1>9, SMTT(60) DEF Agrees, weekDay
<1> QED
    BY <1>1, <1>4, <1>5, <1>10, SMTT(60)

(* The invariant gives DatesAgree.                                         *)
LEMMA DatesFollow == MonthNumbered => DatesAgree
<1> SUFFICES ASSUME MonthNumbered PROVE DatesAgree
    BY SMTT(60)
<1>1. DaysNumbered
    BY NumbersAgree, SMTT(60)
<1>2. ASSUME NEW s \in {0, 1, 59, 3600, kSecondsPerDay - 1}
      PROVE  s \in Nat /\ s < 86400
    BY SMTT(60) DEF kSecondsPerDay
<1>3. UtcAgrees
    BY <1>1, <1>2, SecondsAgree, SMTT(60) DEF UtcAgrees
<1> QED
    BY <1>1, <1>3 DEF DatesAgree

(* Every date has the number the calendar gives it and every number its    *)
(* date, in every year from 1900 on, and UTC times lead to their date, day *)
(* of the week and day of the year and back (Date.cc, TimeZone.cc).        *)
THEOREM DatesAlwaysAgree == CalendarSpec => []DatesAgree
<1>1. CalendarSpec => []MonthNumbered
    BY MonthAtFirst, MonthKept, PTL DEF CalendarSpec
<1> QED
    BY <1>1, DatesFollow, PTL


-----------------------------------------------------------------------------
(* TimeZone.  A zone of standard time o without changes, or with summer    *)
(* time from a, standard time from b and summer time again from c.         *)
Standard(o) == [gmtOffset |-> o, isDst |-> FALSE]
Summer(o) == [gmtOffset |-> o + Unit, isDst |-> TRUE]

(* The local time at s, where the changes are at a, b and c.               *)
InForce(o, a, b, c, s) == IF s < a \/ (b <= s /\ s < c) THEN Standard(o) ELSE Summer(o)

Steady(data, o) ==
    /\ o \in Int
    /\ data.transitions = <<>> /\ data.localtimes[1] = Standard(o)

Changing(data, o, a, b, c) ==
    /\ o \in Int /\ a \in Int /\ b \in Int /\ c \in Int
    /\ a + 3 * Unit <= b /\ b + 3 * Unit <= c
    /\ data.localtimes[1] = Standard(o) /\ data.localtimes[2] = Summer(o)
    /\ DOMAIN data.transitions = 1 .. 3 /\ Len(data.transitions) = 3
    /\ data.transitions # <<>>
    /\ data.transitions[1] = [gmttime |-> a, localtime |-> a + (o + Unit), localtimeIdx |-> 2]
    /\ data.transitions[2] = [gmttime |-> b, localtime |-> b + o, localtimeIdx |-> 1]
    /\ data.transitions[3] = [gmttime |-> c, localtime |-> c + (o + Unit), localtimeIdx |-> 2]

AZone(data) ==
    \/ \E o : Steady(data, o)
    \/ \E o, a, b, c : Changing(data, o, a, b, c)

(* What readTimeZoneFile returns is such a zone.                           *)
LEMMA ReadZone ==
    ASSUME NEW offset \in StandardOffsets, NEW times \in Changes
    PROVE  AZone(readTimeZoneFile(offset, times))
<1>1. PICK data : data = readTimeZoneFile(offset, times)
    BY SMTT(60)
<1>2. offset \in Int /\ Unit \in Int
    BY CalendarAssumption, SMTT(60)
<1>3. /\ data.localtimes = <<Standard(offset), Summer(offset)>>
      /\ data.localtimes[1] = Standard(offset) /\ data.localtimes[2] = Summer(offset)
  <2>1. data.localtimes = <<Standard(offset), Summer(offset)>>
    BY <1>1 DEF readTimeZoneFile, Standard, Summer
  <2> QED
    BY <2>1, SMTT(60)
<1>4. data.transitions = [i \in DOMAIN times |->
          [gmttime |-> times[i],
           localtime |-> times[i] + data.localtimes[IF i % 2 = 1 THEN 2 ELSE 1].gmtOffset,
           localtimeIdx |-> IF i % 2 = 1 THEN 2 ELSE 1]]
    BY <1>1 DEF readTimeZoneFile
<1>5. CASE times = <<>>
  <2>1. data.transitions = <<>>
    BY <1>4, <1>5, SMTT(60)
  <2> QED
    BY <1>1, <1>2, <1>3, <2>1 DEF AZone, Steady
<1>6. CASE times # <<>>
  <2>1. PICK a, b, c : a = times[1] /\ b = times[2] /\ c = times[3]
    BY SMTT(60)
  <2>2. /\ a \in Int /\ b \in Int /\ c \in Int /\ DOMAIN times = 1 .. 3
        /\ a + 3 * Unit <= b /\ b + 3 * Unit <= c
    BY <1>6, <2>1, CalendarAssumption, SMTT(60) DEF Changes
  <2>3. /\ DOMAIN data.transitions = 1 .. 3
        /\ Len(data.transitions) = 3 /\ data.transitions # <<>>
    BY <1>4, <2>2, SMTT(60)
  <2>4. /\ data.localtimes[1].gmtOffset = offset
        /\ data.localtimes[2].gmtOffset = offset + Unit
    BY <1>3, SMTT(60) DEF Standard, Summer
  <2>5. data.transitions[1] =
          [gmttime |-> a, localtime |-> a + (offset + Unit), localtimeIdx |-> 2]
    BY <1>4, <2>1, <2>2, <2>4, SMTT(60)
  <2>6. data.transitions[2] = [gmttime |-> b, localtime |-> b + offset, localtimeIdx |-> 1]
    BY <1>4, <2>1, <2>2, <2>4, SMTT(60)
  <2>7. data.transitions[3] =
          [gmttime |-> c, localtime |-> c + (offset + Unit), localtimeIdx |-> 2]
    BY <1>4, <2>1, <2>2, <2>4, SMTT(60)
  <2>8. Changing(data, offset, a, b, c)
    BY <1>2, <1>3, <2>2, <2>3, <2>5, <2>6, <2>7 DEF Changing
  <2> QED
    BY <1>1, <2>8 DEF AZone
<1> QED
    BY <1>5, <1>6


(* The least of a set of numbers, as CHOOSE finds it.                      *)
LEMMA LeastFound ==
    ASSUME NEW F, NEW k \in F, F \subseteq Int, \A j \in F : k <= j
    PROVE  (CHOOSE x \in F : \A j \in F : x <= j) = k
<1>1. PICK l : l = CHOOSE x \in F : \A j \in F : x <= j
    BY SMTT(60)
<1>2. l \in F /\ \A j \in F : l <= j
    BY <1>1
<1> QED
    BY <1>1, <1>2, SMTT(60)

(* The binary search finds the last transition until s, where the keys     *)
(* are k1 < k2 < k3.                                                       *)
Found(local, data, s, k1, k2, k3) ==
    /\ s < k1 => local = data.localtimes[1]
    /\ k1 <= s /\ s < k2 => local = data.localtimes[data.transitions[1].localtimeIdx]
    /\ k2 <= s /\ s < k3 => local = data.localtimes[data.transitions[2].localtimeIdx]
    /\ k3 <= s => local = data.localtimes[data.transitions[3].localtimeIdx]

(* findLocaltime finds the last transition until s.                        *)
LEMMA Searched ==
    ASSUME NEW data, NEW g, NEW s \in Int, NEW k1 \in Int, NEW k2 \in Int, NEW k3 \in Int,
           k1 < k2, k2 < k3,
           DOMAIN data.transitions = 1 .. 3, Len(data.transitions) = 3,
           data.transitions # <<>>,
           Key(data.transitions[1], g) = k1, Key(data.transitions[2], g) = k2,
           Key(data.transitions[3], g) = k3
    PROVE  Found(findLocaltime(data, s, g), data, s, k1, k2, k3)
<1> DEFINE trs == data.transitions
           from == {n \in DOMAIN trs : Key(trs[n], g) >= s}
           lower == CHOOSE k \in from : \A j \in from : k <= j
           i == IF from = {} THEN Len(trs)
                ELSE IF Key(trs[lower], g) = s THEN lower ELSE lower - 1
<1>1. findLocaltime(data, s, g) =
        IF trs = <<>> \/ s < Key(trs[1], g) THEN data.localtimes[1]
        ELSE data.localtimes[trs[i].localtimeIdx]
    BY DEF findLocaltime
<1>2. lower = CHOOSE k \in from : \A j \in from : k <= j
    BY SMTT(60)
<1>3. i = IF from = {} THEN 3 ELSE IF Key(trs[lower], g) = s THEN lower ELSE lower - 1
  <2> HIDE DEF from, lower
  <2> QED
    BY SMTT(60)
<1>4. findLocaltime(data, s, g) =
        IF s < k1 THEN data.localtimes[1] ELSE data.localtimes[trs[i].localtimeIdx]
  <2> HIDE DEF i
  <2> QED
    BY <1>1
<1>5. from \subseteq Int /\ from \subseteq 1 .. 3
    BY SMTT(60)
<1>6. /\ 1 \in from <=> k1 >= s
      /\ 2 \in from <=> k2 >= s
      /\ 3 \in from <=> k3 >= s
    BY SMTT(60)
<1> HIDE DEF from, lower, i
<1>7. s > k3 => i = 3
  <2>1. s > k3 => from = {}
    BY <1>5, <1>6, SMTT(60)
  <2> QED
    BY <1>3, <2>1, SMTT(60)
<1>8. ASSUME NEW n \in from, \A j \in from : n <= j PROVE lower = n
    BY <1>2, <1>5, <1>8, LeastFound
<1>9. k2 < s /\ s <= k3 => i = IF s = k3 THEN 3 ELSE 2
  <2> SUFFICES ASSUME k2 < s, s <= k3 PROVE i = IF s = k3 THEN 3 ELSE 2
    BY SMTT(60)
  <2>1. 3 \in from /\ \A j \in from : 3 <= j
    BY <1>5, <1>6, SMTT(60)
  <2>2. lower = 3 /\ from # {}
    BY <1>8, <2>1
  <2> QED
    BY <1>3, <2>2, SMTT(60)
<1>10. k1 < s /\ s <= k2 => i = IF s = k2 THEN 2 ELSE 1
  <2> SUFFICES ASSUME k1 < s, s <= k2 PROVE i = IF s = k2 THEN 2 ELSE 1
    BY SMTT(60)
  <2>1. 2 \in from /\ \A j \in from : 2 <= j
    BY <1>5, <1>6, SMTT(60)
  <2>2. lower = 2 /\ from # {}
    BY <1>8, <2>1
  <2> QED
    BY <1>3, <2>2, SMTT(60)
<1>11. s = k1 => i = 1
  <2> SUFFICES ASSUME s = k1 PROVE i = 1
    BY SMTT(60)
  <2>1. 1 \in from /\ \A j \in from : 1 <= j
    BY <1>5, <1>6, SMTT(60)
  <2>2. lower = 1 /\ from # {}
    BY <1>8, <2>1
  <2> QED
    BY <1>3, <2>2, SMTT(60)
<1>12. /\ k1 <= s /\ s < k2 => ~(s < k1) /\ i = 1
       /\ k2 <= s /\ s < k3 => ~(s < k1) /\ i = 2
       /\ k3 <= s => ~(s < k1) /\ i = 3
    BY <1>7, <1>9, <1>10, <1>11, SMTT(60)
<1> QED
    BY <1>4, <1>12 DEF Found

(* The local time in force at UTC time s, and the one findLocaltime finds  *)
(* for the local time s.                                                   *)
ByGmt(data, o, a, b, c, s) == findLocaltime(data, s, TRUE) = InForce(o, a, b, c, s)
ByLocal(data, o, a, b, c, s) ==
    findLocaltime(data, s, FALSE) = InForce(o, a + o + Unit, b + o, c + o + Unit, s)

(* By UTC times, findLocaltime finds the time that is in force.            *)
LEMMA FoundByGmt ==
    ASSUME NEW data, NEW o, NEW a, NEW b, NEW c, Changing(data, o, a, b, c), NEW s \in Int
    PROVE  ByGmt(data, o, a, b, c, s)
<1>1. /\ a \in Int /\ b \in Int /\ c \in Int /\ a < b /\ b < c
      /\ DOMAIN data.transitions = 1 .. 3 /\ Len(data.transitions) = 3
      /\ data.transitions # <<>>
    BY CalendarAssumption, SMTT(60) DEF Changing
<1>2. /\ Key(data.transitions[1], TRUE) = a /\ Key(data.transitions[2], TRUE) = b
      /\ Key(data.transitions[3], TRUE) = c
    BY SMTT(60) DEF Changing, Key
<1>3. Found(findLocaltime(data, s, TRUE), data, s, a, b, c)
    BY <1>1, <1>2, Searched
<1>4. /\ data.transitions[1].localtimeIdx = 2 /\ data.transitions[2].localtimeIdx = 1
      /\ data.transitions[3].localtimeIdx = 2
      /\ data.localtimes[1] = Standard(o) /\ data.localtimes[2] = Summer(o)
    BY SMTT(60) DEF Changing
<1>5. /\ s < a => findLocaltime(data, s, TRUE) = Standard(o)
      /\ a <= s /\ s < b => findLocaltime(data, s, TRUE) = Summer(o)
      /\ b <= s /\ s < c => findLocaltime(data, s, TRUE) = Standard(o)
      /\ c <= s => findLocaltime(data, s, TRUE) = Summer(o)
    BY <1>3, <1>4 DEF Found
<1>6. s < a \/ (a <= s /\ s < b /\ ~(s < a) /\ ~(b <= s)) \/ (b <= s /\ s < c)
      \/ (c <= s /\ ~(s < a) /\ ~(s < c))
    BY <1>1, SMTT(60)
<1> QED
    BY <1>5, <1>6 DEF InForce, ByGmt

(* By local times it finds it too, with the changes at the local times     *)
(* after them.                                                             *)
LEMMA FoundByLocal ==
    ASSUME NEW data, NEW o, NEW a, NEW b, NEW c, Changing(data, o, a, b, c), NEW s \in Int
    PROVE  ByLocal(data, o, a, b, c, s)
<1>1. PICK k1, k2, k3 : k1 = a + (o + Unit) /\ k2 = b + o /\ k3 = c + (o + Unit)
    OBVIOUS
<1>2. /\ k1 \in Int /\ k2 \in Int /\ k3 \in Int /\ k1 < k2 /\ k2 < k3
      /\ o \in Int /\ a \in Int /\ b \in Int /\ c \in Int /\ Unit \in Int
    BY <1>1, CalendarAssumption, SMTT(60) DEF Changing
<1>3. /\ DOMAIN data.transitions = 1 .. 3 /\ Len(data.transitions) = 3
      /\ data.transitions # <<>>
    BY DEF Changing
<1>4. /\ Key(data.transitions[1], FALSE) = k1 /\ Key(data.transitions[2], FALSE) = k2
      /\ Key(data.transitions[3], FALSE) = k3
    BY <1>1, SMTT(60) DEF Changing, Key
<1>5. Found(findLocaltime(data, s, FALSE), data, s, k1, k2, k3)
    BY <1>2, <1>3, <1>4, Searched
<1>6. /\ data.transitions[1].localtimeIdx = 2 /\ data.transitions[2].localtimeIdx = 1
      /\ data.transitions[3].localtimeIdx = 2
      /\ data.localtimes[1] = Standard(o) /\ data.localtimes[2] = Summer(o)
    BY SMTT(60) DEF Changing
<1>7. k1 = a + o + Unit /\ k3 = c + o + Unit
    BY <1>1, <1>2, SMTT(60)
<1>8. /\ s < k1 => findLocaltime(data, s, FALSE) = Standard(o)
      /\ k1 <= s /\ s < k2 => findLocaltime(data, s, FALSE) = Summer(o)
      /\ k2 <= s /\ s < k3 => findLocaltime(data, s, FALSE) = Standard(o)
      /\ k3 <= s => findLocaltime(data, s, FALSE) = Summer(o)
    BY <1>5, <1>6 DEF Found
<1>9. s < k1 \/ (k1 <= s /\ s < k2 /\ ~(s < k1) /\ ~(k2 <= s)) \/ (k2 <= s /\ s < k3)
      \/ (k3 <= s /\ ~(s < k1) /\ ~(s < k3))
    BY <1>2, SMTT(60)
<1> QED
    BY <1>1, <1>7, <1>8, <1>9 DEF InForce, ByLocal


(* The last change until a moment decides, in a zone that changes.         *)
LEMMA LastCounts ==
    ASSUME NEW o, NEW a, NEW b, NEW c, Changing(tz, o, a, b, c), moment \in Int
    PROVE  LastChangeCounts
<1> DEFINE past == {i \in DOMAIN tz.transitions : tz.transitions[i].gmttime <= moment}
           latest == CHOOSE k \in past : \A j \in past : j <= k
<1>1. /\ a \in Int /\ b \in Int /\ c \in Int /\ a < b /\ b < c
      /\ DOMAIN tz.transitions = 1 .. 3
      /\ tz.transitions[1].gmttime = a /\ tz.transitions[2].gmttime = b
      /\ tz.transitions[3].gmttime = c
    BY CalendarAssumption, SMTT(60) DEF Changing
<1>2. /\ tz.transitions[1].localtimeIdx = 2 /\ tz.transitions[2].localtimeIdx = 1
      /\ tz.transitions[3].localtimeIdx = 2
    BY SMTT(60) DEF Changing
<1>3. /\ past \subseteq 1 .. 3
      /\ 1 \in past <=> a <= moment
      /\ 2 \in past <=> b <= moment
      /\ 3 \in past <=> c <= moment
    BY <1>1, SMTT(60)
<1>4. toLocalTime(tz, moment).isDst = findLocaltime(tz, moment, TRUE).isDst
    BY DEF toLocalTime
<1>5. Standard(o).isDst = FALSE /\ Summer(o).isDst = TRUE
    BY DEF Standard, Summer
<1>6. findLocaltime(tz, moment, TRUE) = InForce(o, a, b, c, moment)
  <2>1. ByGmt(tz, o, a, b, c, moment)
    BY FoundByGmt
  <2> QED
    BY <2>1 DEF ByGmt
<1>7. LastChangeCounts <=>
        (toLocalTime(tz, moment).isDst = (past # {} /\ tz.transitions[latest].localtimeIdx = 2))
    BY DEF LastChangeCounts
<1>8. latest = CHOOSE k \in past : \A j \in past : j <= k
    BY SMTT(60)
<1>9. past # {} <=> a <= moment
    BY <1>1, <1>3, SMTT(60)
<1> HIDE DEF past, latest
<1>10. past # {} => latest = IF c <= moment THEN 3 ELSE IF b <= moment THEN 2 ELSE 1
  <2> SUFFICES ASSUME past # {}
               PROVE  latest = IF c <= moment THEN 3 ELSE IF b <= moment THEN 2 ELSE 1
    OBVIOUS
  <2>1. PICK n \in past : \A j \in past : j <= n
    <3>1. c <= moment => 3 \in past /\ \A j \in past : j <= 3
      BY <1>3, SMTT(60)
    <3>2. b <= moment /\ ~(c <= moment) => 2 \in past /\ \A j \in past : j <= 2
      BY <1>3, SMTT(60)
    <3>3. ~(b <= moment) => 1 \in past /\ \A j \in past : j <= 1
      <4>1. a <= moment
        BY <1>9
      <4>2. ~(b <= moment) => ~(c <= moment)
        BY <1>1, SMTT(60)
      <4>3. ~(b <= moment) => \A j \in past : j = 1
        BY <1>3, <4>2, SMTT(60)
      <4> QED
        BY <1>3, <4>1, <4>3, SMTT(60)
    <3> QED
      BY <3>1, <3>2, <3>3
  <2>2. latest \in past /\ \A j \in past : j <= latest
    BY <1>8, <2>1
  <2> QED
    BY <1>1, <1>3, <2>2, SMTT(60)
<1>11. past # {} /\ tz.transitions[latest].localtimeIdx = 2
         <=> ~(moment < a \/ (b <= moment /\ moment < c))
    BY <1>1, <1>2, <1>9, <1>10, SMTT(60)
<1> QED
    BY <1>4, <1>5, <1>6, <1>7, <1>11 DEF InForce


(* Every local time leads back, in a zone that changes: the hour before a  *)
(* change to standard time is found as standard time, and corrected.       *)
LEMMA LocalBack ==
    ASSUME NEW o, NEW a, NEW b, NEW c, Changing(tz, o, a, b, c), moment \in Int
    PROVE  LocalLeadsBack
<1>1. PICK s : s = moment
    OBVIOUS
<1>2. /\ s \in Int /\ o \in Int /\ a \in Int /\ b \in Int /\ c \in Int
      /\ Unit \in Int /\ Unit > 0 /\ a + 3 * Unit <= b /\ b + 3 * Unit <= c
    BY <1>1, CalendarAssumption, SMTT(60) DEF Changing
<1>3. /\ Standard(o).gmtOffset = o /\ Standard(o).isDst = FALSE
      /\ Summer(o).gmtOffset = o + Unit /\ Summer(o).isDst = TRUE
    BY DEF Standard, Summer
<1>4. ASSUME NEW x \in Int
      PROVE  /\ findLocaltime(tz, x, TRUE) = InForce(o, a, b, c, x)
             /\ findLocaltime(tz, x, FALSE) = InForce(o, a + o + Unit, b + o, c + o + Unit, x)
  <2>1. ByGmt(tz, o, a, b, c, x) /\ ByLocal(tz, o, a, b, c, x)
    BY FoundByGmt, FoundByLocal
  <2> QED
    BY <2>1 DEF ByGmt, ByLocal
<1>5. CASE s < a \/ (b <= s /\ s < c)
  <2>1. PICK x : x = s + o
    OBVIOUS
  <2>2. x \in Int /\ x - o = s /\ (x < a + o + Unit \/ (b + o <= x /\ x < c + o + Unit))
    BY <1>2, <1>5, <2>1, SMTT(60)
  <2>3. findLocaltime(tz, s, TRUE) = Standard(o) /\ findLocaltime(tz, x, FALSE) = Standard(o)
    BY <1>2, <1>4, <1>5, <2>2 DEF InForce
  <2>4. toLocalTime(tz, s) = [time |-> x, isDst |-> FALSE]
    BY <1>3, <2>1, <2>3 DEF toLocalTime
  <2>5. fromLocalTime(tz, [time |-> x, isDst |-> FALSE]) = x - o
    BY <1>3, <2>3 DEF fromLocalTime
  <2> QED
    BY <1>1, <2>2, <2>4, <2>5 DEF LocalLeadsBack
<1>6. CASE ~(s < a \/ (b <= s /\ s < c))
  <2>1. PICK x : x = s + (o + Unit)
    OBVIOUS
  <2>2. x \in Int /\ x - (o + Unit) = s
    BY <1>2, <2>1, SMTT(60)
  <2>3. findLocaltime(tz, s, TRUE) = Summer(o)
    BY <1>2, <1>4, <1>6 DEF InForce
  <2>4. toLocalTime(tz, s) = [time |-> x, isDst |-> TRUE]
    BY <1>3, <2>1, <2>3 DEF toLocalTime
  <2>5. CASE x < a + o + Unit \/ (b + o <= x /\ x < c + o + Unit)
    <3>1. findLocaltime(tz, x, FALSE) = Standard(o)
      BY <1>4, <2>2, <2>5 DEF InForce
    <3>2. x - o \in Int /\ b <= x - o /\ x - o < c /\ x - o + o = x /\ x - Unit - o = s
      BY <1>2, <1>6, <2>1, <2>5, SMTT(60)
    <3>3. findLocaltime(tz, x - o, TRUE) = Standard(o)
      BY <1>4, <3>2 DEF InForce
    <3>4. toLocalTime(tz, x - o) = [time |-> x, isDst |-> FALSE]
      BY <1>3, <3>2, <3>3 DEF toLocalTime
    <3>5. fromLocalTime(tz, [time |-> x, isDst |-> TRUE]) = x - Unit - o
      <4>1. PICK tm, try : /\ tm = [time |-> x, isDst |-> TRUE]
                           /\ try = [time |-> x, isDst |-> FALSE]
        OBVIOUS
      <4>2. tm.time = x /\ tm.isDst = TRUE /\ try.time = x /\ try.isDst = FALSE
        BY <4>1, SMTT(60)
      <4>3. findLocaltime(tz, tm.time, FALSE) = Standard(o)
        BY <3>1, <4>2
      <4>4. tm.time - findLocaltime(tz, tm.time, FALSE).gmtOffset = x - o
        BY <1>3, <4>2, <4>3
      <4>5. toLocalTime(tz, tm.time - findLocaltime(tz, tm.time, FALSE).gmtOffset) = try
        BY <3>4, <4>1, <4>4
      <4>6. fromLocalTime(tz, tm) = x - Unit - o
        BY <1>3, <4>2, <4>3, <4>5 DEF fromLocalTime
      <4> QED
        BY <4>1, <4>6
    <3> QED
      BY <1>1, <2>4, <3>2, <3>5 DEF LocalLeadsBack
  <2>6. CASE ~(x < a + o + Unit \/ (b + o <= x /\ x < c + o + Unit))
    <3>1. findLocaltime(tz, x, FALSE) = Summer(o)
      BY <1>4, <2>2, <2>6 DEF InForce
    <3>2. toLocalTime(tz, x - (o + Unit)).isDst = TRUE
      <4>1. toLocalTime(tz, x - (o + Unit)) = [time |-> x, isDst |-> TRUE]
        BY <2>2, <2>4
      <4> QED
        BY <4>1, SMTT(60)
    <3>3. fromLocalTime(tz, [time |-> x, isDst |-> TRUE]) = x - (o + Unit)
      BY <1>3, <3>1, <3>2 DEF fromLocalTime
    <3> QED
      BY <1>1, <2>2, <2>4, <3>3 DEF LocalLeadsBack
  <2> QED
    BY <2>5, <2>6
<1> QED
    BY <1>5, <1>6


(* A zone without changes keeps standard time.                             *)
LEMMA SteadyAgrees ==
    ASSUME NEW o, Steady(tz, o), moment \in Int
    PROVE  LocalTimesAgree
<1>1. tz.transitions = <<>> /\ tz.localtimes[1] = Standard(o) /\ o \in Int
    BY DEF Steady
<1>2. Standard(o).gmtOffset = o /\ Standard(o).isDst = FALSE
    BY DEF Standard
<1>3. ASSUME NEW x, NEW g PROVE findLocaltime(tz, x, g) = Standard(o)
    BY <1>1 DEF findLocaltime
<1>4. findLocaltime(tz, moment, TRUE) = Standard(o)
    BY <1>3
<1>5. toLocalTime(tz, moment) = [time |-> moment + o, isDst |-> FALSE]
    BY <1>2, <1>4 DEF toLocalTime
<1>6. LastChangeCounts
  <2>1. {i \in DOMAIN tz.transitions : tz.transitions[i].gmttime <= moment} = {}
    BY <1>1, SMTT(60)
  <2>2. toLocalTime(tz, moment).isDst = FALSE
    BY <1>5, SMTT(60)
  <2> QED
    BY <2>1, <2>2 DEF LastChangeCounts
<1>7. LocalLeadsBack
  <2>1. PICK x : x = moment + o
    OBVIOUS
  <2>2. x - o = moment
    BY <1>1, <2>1, SMTT(60)
  <2>3. findLocaltime(tz, x, FALSE) = Standard(o)
    BY <1>3
  <2>4. fromLocalTime(tz, [time |-> x, isDst |-> FALSE]) = x - o
    BY <1>2, <2>3 DEF fromLocalTime
  <2> QED
    BY <1>5, <2>1, <2>2, <2>4 DEF LocalLeadsBack
<1> QED
    BY <1>6, <1>7 DEF LocalTimesAgree

(* The zone is one that readTimeZoneFile returned; the moment is a number. *)
ZoneRead == AZone(tz) /\ moment \in Int

(* The zone after a step is the one that the invariant is about then.      *)
LEMMA ZoneNext == ZoneRead' <=> AZone(tz') /\ moment' \in Int
  BY DEF ZoneRead, AZone, Steady, Changing, Standard, Summer

(* Local times agree with the changes of every zone and lead back to UTC,  *)
(* also in the hour that occurs twice (TimeZone.cc:308).                   *)
THEOREM LocalTimesAlwaysAgree == CalendarSpec => []LocalTimesAgree
<1>1. CalendarInit => ZoneRead
  <2> SUFFICES ASSUME CalendarInit PROVE ZoneRead
    OBVIOUS
  <2>1. moment \in Int
    BY SMTT(60) DEF CalendarInit
  <2>2. AZone(tz)
    BY ReadZone DEF CalendarInit
  <2> QED
    BY <2>1, <2>2 DEF ZoneRead
<1>2. ZoneRead /\ [CalendarNext]_calendarVars => ZoneRead'
  <2> SUFFICES ASSUME ZoneRead, [CalendarNext]_calendarVars PROVE ZoneRead'
    OBVIOUS
  <2>1. tz' = tz /\ (moment' = moment \/ moment' = moment + 1)
    BY DEF CalendarNext, TurnPage, TimePasses, calendarVars
  <2>2. moment' \in Int
    BY <2>1, SMTT(60) DEF ZoneRead
  <2> QED
    BY <2>1, <2>2, ZoneNext DEF ZoneRead
<1>3. ZoneRead => LocalTimesAgree
    BY SteadyAgrees, LastCounts, LocalBack DEF ZoneRead, AZone, LocalTimesAgree
<1>4. CalendarSpec => []ZoneRead
    BY <1>1, <1>2, PTL DEF CalendarSpec
<1> QED
    BY <1>3, <1>4, PTL
=============================================================================
