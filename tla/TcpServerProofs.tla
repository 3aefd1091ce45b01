-------------------------- MODULE TcpServerProofs --------------------------
(***************************************************************************)
(* Every connection of a TcpServer is accounted for (ConnectionsAccounted),*)
(* for any number of threads, peers and descriptors.                       *)
(*                                                                         *)
(* The functors of a loop matter as a set, with two facts about the queue  *)
(* that the loops take them from: no functor is queued twice, and          *)
(* connectDestroyed never stands before connectEstablished of the same     *)
(* connection.  The inductive invariant ties the functors that are queued  *)
(* for a connection to its state, to the server's map and to the phase of  *)
(* the server; the loads of the pool to its next loop; and the free        *)
(* descriptors to the connections that are not destroyed.                  *)
(***************************************************************************)
EXTENDS TcpServer, FiniteSetTheorems, TLAPS

\* Leaves go to Zenon unless they name another prover.
USE ZenonT(60)

Calls == {"connectEstablished", "connectDestroyed", "removeConnectionInLoop"}
Fn == [call : Calls, conn : Nat]
Ats == {"none", "poll", "functors", "exited"}
Loop == [at : Ats, quit : BOOLEAN, pending : Seq(Fn), batch : Seq(Fn)]
Conn == [loop : Nat, state : States, destroyed : Nat]

Est(c) == Functor("connectEstablished", c)
Des(c) == Functor("connectDestroyed", c)
Rem(c) == Functor("removeConnectionInLoop", c)

(* f may be queued before g, and the functors of q are in such an order.   *)
Before(f, g) == f # g /\ ~(f.call = "connectDestroyed" /\ g = Est(f.conn))
Fine(q) == \A i, j \in 1 .. Len(q) : i < j => Before(q[i], q[j])

(* The functors of a loop r: all of them, and what holds of their order.   *)
All(r) == Range(r.batch) \cup Range(r.pending)
Good(r) ==
    /\ r \in Loop
    /\ Fine(r.batch) /\ Fine(r.pending)
    /\ \A f \in Range(r.batch), g \in Range(r.pending) : Before(f, g)
    /\ r.at # "functors" => r.batch = <<>>

AllGood(ls) == ls \in [DOMAIN ls -> Loop] /\ \A l \in DOMAIN ls : Good(ls[l])

(* A functor is queued in the loop it must run in, for a connection that   *)
(* exists.                                                                 *)
Owned(f, l) ==
    /\ f.conn \in DOMAIN conns
    /\ f.call = "removeConnectionInLoop" => l = Base
    /\ f.call # "removeConnectionInLoop" => conns[f.conn].loop = l
Own == \A l \in Loops : \A f \in All(loops[l]) : Owned(f, l)

(* Whether the functors of connection c are queued.                        *)
HasEst(c) == Est(c) \in All(loops[conns[c].loop])
HasDes(c) == Des(c) \in All(loops[conns[c].loop])
HasRem(c) == Rem(c) \in All(loops[Base])

Stage(c) ==
    /\ conns[c].destroyed \in {0, 1}
    /\ HasEst(c) => conns[c].state = "kConnecting"
    /\ conns[c].loop = Base => conns[c].state # "kConnecting"
    /\ conns[c].destroyed = 1 =>
           conns[c].state = "kDisconnected" /\ c \notin connections /\ ~HasDes(c)
    /\ HasDes(c) => c \notin connections
    /\ HasRem(c) => conns[c].state = "kDisconnected" /\ conns[c].loop # Base
    /\ \/ c \in connections \/ conns[c].destroyed = 1 \/ HasDes(c)
       \/ loops[conns[c].loop].at = "exited"
    /\ server.phase = "started" =>
           (c \in connections <=> HasRem(c) \/ conns[c].state # "kDisconnected")

Stages == \A c \in DOMAIN conns : Stage(c)

(* The connections that still have a descriptor.                           *)
Open == {c \in DOMAIN conns : conns[c].destroyed = 0}
DescriptorsKept == free \in Nat /\ free + Cardinality(Open) = Descriptors

(* The loops before the next one have one connection more than the others. *)
Turns ==
    \E m \in Nat : \A l \in PoolLoops : Load(l) = IF l < pool.next THEN m + 1 ELSE m

PoolTyped ==
    /\ pool.loops = <<>> \/ pool.loops = [i \in PoolLoops |-> i]
    /\ server.phase = "started" => pool.loops = [i \in PoolLoops |-> i]
    /\ server.phase = "constructed" => pool.loops = <<>> /\ conns = <<>>
    /\ pool = [loops |-> pool.loops, next |-> pool.next]
    /\ pool.next \in 1 .. Len(pool.loops) + 1
    /\ pool.loops # <<>> => pool.next \in PoolLoops

ServerTyped ==
    /\ numThreads \in Nat
    /\ server \in [phase : Phases, joins : 1 .. numThreads + 1]
    /\ server.phase \in {"destructing", "destroyed"} => connections = {}

ConnsTyped ==
    /\ conns \in Seq(Conn)
    /\ connections \subseteq DOMAIN conns
    /\ \A c \in DOMAIN conns : conns[c].loop \in Loops

LoopsTyped == DOMAIN loops = Loops /\ AllGood(loops)

SInv ==
    /\ ServerTyped /\ PoolTyped /\ ConnsTyped /\ LoopsTyped
    /\ Own /\ Stages /\ DescriptorsKept /\ Turns

-----------------------------------------------------------------------------
(* Queues of functors.                                                     *)

(* What Append does to a queue.                                            *)
LEMMA AppendFine ==
    ASSUME NEW q \in Seq(Fn), NEW f \in Fn, Fine(q), \A g \in Range(q) : Before(g, f)
    PROVE  /\ Append(q, f) \in Seq(Fn) /\ Fine(Append(q, f))
           /\ Range(Append(q, f)) = Range(q) \cup {f}
<1> DEFINE p == Append(q, f)
<1>1. /\ p \in Seq(Fn) /\ Len(p) = Len(q) + 1 /\ Len(q) \in Nat
      /\ DOMAIN p = 1 .. Len(q) + 1 /\ DOMAIN q = 1 .. Len(q)
      /\ p[Len(q) + 1] = f /\ \A i \in 1 .. Len(q) : p[i] = q[i]
    BY SMTT(60)
<1>2. ASSUME NEW i \in 1 .. Len(p), NEW j \in 1 .. Len(p), i < j
      PROVE  Before(p[i], p[j])
  <2>1. CASE j \in 1 .. Len(q)
    <3>1. i \in 1 .. Len(q) /\ p[i] = q[i] /\ p[j] = q[j]
        BY <1>1, <1>2, <2>1, SMTT(60)
    <3> QED
        BY <1>2, <2>1, <3>1 DEF Fine
  <2>2. CASE j \notin 1 .. Len(q)
    <3>1. i \in DOMAIN q /\ p[i] = q[i] /\ p[j] = f
        BY <1>1, <1>2, <2>2, SMTT(60)
    <3>2. q[i] \in Range(q)
        BY <3>1 DEF Range
    <3> QED
        BY <3>1, <3>2
  <2> QED
      BY <2>1, <2>2
<1>3. Range(p) = Range(q) \cup {f}
    BY <1>1, SMTT(60) DEF Range
<1> QED
    BY <1>1, <1>2, <1>3 DEF Fine

(* What taking the first functor from a queue does.                        *)
LEMMA TailFine ==
    ASSUME NEW q \in Seq(Fn), q # <<>>, Fine(q)
    PROVE  /\ Tail(q) \in Seq(Fn) /\ Fine(Tail(q))
           /\ Head(q) \in Fn /\ Head(q) \in Range(q)
           /\ Range(Tail(q)) = Range(q) \ {Head(q)}
           /\ \A g \in Range(Tail(q)) : Before(Head(q), g)
<1> DEFINE p == Tail(q)
<1>1. /\ p \in Seq(Fn) /\ Len(p) = Len(q) - 1 /\ Len(q) \in Nat /\ Len(q) > 0
      /\ DOMAIN p = 1 .. Len(q) - 1 /\ DOMAIN q = 1 .. Len(q)
      /\ Head(q) = q[1] /\ \A i \in 1 .. Len(q) - 1 : p[i] = q[i + 1]
      /\ 1 \in DOMAIN q /\ q[1] \in Fn
    BY SMTT(60)
<1>2. ASSUME NEW i \in 1 .. Len(p), NEW j \in 1 .. Len(p), i < j
      PROVE  Before(p[i], p[j])
  <2>1. i + 1 \in 1 .. Len(q) /\ j + 1 \in 1 .. Len(q) /\ i + 1 < j + 1
      BY <1>1, <1>2, SMTT(60)
  <2>2. p[i] = q[i + 1] /\ p[j] = q[j + 1]
      BY <1>1, SMTT(60)
  <2> QED
      BY <2>1, <2>2 DEF Fine
<1>3. \A g \in Range(p) : Before(q[1], g)
  <2> SUFFICES ASSUME NEW i \in 1 .. Len(q) - 1
               PROVE  Before(q[1], p[i])
      BY <1>1 DEF Range
  <2>1. 1 \in 1 .. Len(q) /\ i + 1 \in 1 .. Len(q) /\ 1 < i + 1 /\ p[i] = q[i + 1]
      BY <1>1, SMTT(60)
  <2> QED
      BY <2>1 DEF Fine
<1>4. Range(q) = Range(p) \cup {q[1]}
  <2>1. \A i \in DOMAIN p : i + 1 \in DOMAIN q /\ p[i] = q[i + 1]
      BY <1>1, SMTT(60)
  <2>2. \A i \in DOMAIN q : i = 1 \/ (i - 1 \in DOMAIN p /\ p[i - 1] = q[i])
      BY <1>1, SMTT(60)
  <2>3. ASSUME NEW x \in Range(q) PROVE x \in Range(p) \cup {q[1]}
    <3>1. PICK i \in DOMAIN q : x = q[i]
        BY <2>3 DEF Range
    <3> QED
        BY <2>2, <3>1 DEF Range
  <2>4. ASSUME NEW x \in Range(p) PROVE x \in Range(q)
    <3>1. PICK i \in DOMAIN p : x = p[i]
        BY <2>4 DEF Range
    <3> QED
        BY <2>1, <3>1 DEF Range
  <2>5. q[1] \in Range(q)
      BY <1>1 DEF Range
  <2> QED
      BY <2>3, <2>4, <2>5
<1>5. q[1] \notin Range(p)
    BY <1>3 DEF Before
<1>6. q[1] \in Range(q)
    BY <1>4
<1>7. Range(p) = Range(q) \ {q[1]}
    BY <1>4, <1>5
<1> QED
    BY <1>1, <1>2, <1>3, <1>6, <1>7 DEF Fine

(* What joining a queue and a sequence of other functors does.             *)
LEMMA ConcatFine ==
    ASSUME NEW q \in Seq(Fn), NEW s \in Seq(Fn), Fine(q), Fine(s),
           \A f \in Range(q), g \in Range(s) : Before(f, g)
    PROVE  /\ q \o s \in Seq(Fn) /\ Fine(q \o s)
           /\ Range(q \o s) = Range(q) \cup Range(s)
<1> DEFINE p == q \o s
<1>1. /\ p \in Seq(Fn) /\ Len(p) = Len(q) + Len(s) /\ Len(q) \in Nat /\ Len(s) \in Nat
      /\ DOMAIN p = 1 .. Len(q) + Len(s) /\ DOMAIN q = 1 .. Len(q) /\ DOMAIN s = 1 .. Len(s)
      /\ \A i \in 1 .. Len(q) : p[i] = q[i]
      /\ \A i \in 1 .. Len(p) : i > Len(q) => p[i] = s[i - Len(q)]
    BY SMTT(60)
<1>2. ASSUME NEW i \in 1 .. Len(p), NEW j \in 1 .. Len(p), i < j
      PROVE  Before(p[i], p[j])
  <2>1. CASE j \in 1 .. Len(q)
    <3>1. i \in 1 .. Len(q) /\ p[i] = q[i] /\ p[j] = q[j]
        BY <1>1, <1>2, <2>1, SMTT(60)
    <3> QED
        BY <1>2, <2>1, <3>1 DEF Fine
  <2>2. CASE i \in 1 .. Len(q) /\ j \notin 1 .. Len(q)
    <3>1. i \in DOMAIN q /\ p[i] = q[i] /\ j - Len(q) \in DOMAIN s /\ p[j] = s[j - Len(q)]
        BY <1>1, <1>2, <2>2, SMTT(60)
    <3>2. q[i] \in Range(q) /\ s[j - Len(q)] \in Range(s)
        BY <3>1 DEF Range
    <3> QED
        BY <3>1, <3>2
  <2>3. CASE i \notin 1 .. Len(q) /\ j \notin 1 .. Len(q)
    <3>1. /\ i - Len(q) \in 1 .. Len(s) /\ p[i] = s[i - Len(q)]
          /\ j - Len(q) \in 1 .. Len(s) /\ p[j] = s[j - Len(q)]
          /\ i - Len(q) < j - Len(q)
        BY <1>1, <1>2, <2>3, SMTT(60)
    <3> QED
        BY <3>1 DEF Fine
  <2> QED
      BY <2>1, <2>2, <2>3
<1>3. Range(p) = Range(q) \cup Range(s)
  <2>1. \A i \in 1 .. Len(s) : i + Len(q) \in DOMAIN p /\ p[i + Len(q)] = s[i]
      BY <1>1, SMTT(60)
  <2>2. \A i \in DOMAIN p : \/ i \in DOMAIN q /\ p[i] = q[i]
                            \/ i - Len(q) \in DOMAIN s /\ p[i] = s[i - Len(q)]
      BY <1>1, SMTT(60)
  <2>3. \A i \in DOMAIN q : i \in DOMAIN p /\ p[i] = q[i]
      BY <1>1, SMTT(60)
  <2>4. ASSUME NEW x \in Range(p) PROVE x \in Range(q) \cup Range(s)
    <3>1. PICK i \in DOMAIN p : x = p[i]
        BY <2>4 DEF Range
    <3> QED
        BY <2>2, <3>1 DEF Range
  <2>5. ASSUME NEW x \in Range(q) PROVE x \in Range(p)
    <3>1. PICK i \in DOMAIN q : x = q[i]
        BY <2>5 DEF Range
    <3> QED
        BY <2>3, <3>1 DEF Range
  <2>6. ASSUME NEW x \in Range(s) PROVE x \in Range(p)
    <3>1. PICK i \in DOMAIN s : x = s[i]
        BY <2>6 DEF Range
    <3>2. i + Len(q) \in DOMAIN p /\ p[i + Len(q)] = s[i]
        BY <1>1, <2>1, <3>1
    <3> QED
        BY <3>1, <3>2 DEF Range
  <2> QED
      BY <2>4, <2>5, <2>6
<1> QED
    BY <1>1, <1>2, <1>3 DEF Fine

(* Sequenced lists the members of a finite set once each.                  *)
LEMMA ListOf ==
    ASSUME NEW S, IsFiniteSet(S)
    PROVE  /\ Sequenced(S) \in Seq(S)
           /\ \A i, j \in 1 .. Len(Sequenced(S)) : i < j => Sequenced(S)[i] # Sequenced(S)[j]
           /\ Range(Sequenced(S)) = S
<1> DEFINE n == Cardinality(S)
           s == Sequenced(S)
<1>1. n \in Nat /\ ExistsBijection(1 .. n, S)
    BY FS_CardinalityType
<1>2. PICK b \in Bijection(1 .. n, S) : TRUE
    BY <1>1 DEF ExistsBijection
<1>3. b \in [1 .. n -> S] /\ IsInjective(b)
    BY <1>2 DEF Bijection, Injection
<1>4. s \in [1 .. n -> S] /\ IsInjective(s)
    BY <1>3 DEF Sequenced
<1>5. s \in Seq(S) /\ Len(s) = n /\ DOMAIN s = 1 .. n
    BY <1>1, <1>4, SMTT(60)
<1>6. \A i, j \in 1 .. Len(s) : i < j => s[i] # s[j]
    BY <1>1, <1>4, <1>5, SMTT(60) DEF IsInjective
<1>7. Range(s) = S
  <2>1. Range(s) \subseteq S
      BY <1>4, <1>5 DEF Range
  <2>2. s \in Surjection(1 .. n, Range(s))
      BY <1>4, <1>5 DEF Surjection, Range
  <2>3. s \in Injection(1 .. n, Range(s))
      BY <1>4, <1>5 DEF Injection, Range
  <2>4. ExistsBijection(1 .. n, Range(s))
      BY <2>2, <2>3 DEF ExistsBijection, Bijection
  <2>5. Cardinality(Range(s)) = n
      BY <1>1, <2>4, FS_CountingElements
  <2> QED
      BY <2>1, <2>5, FS_Subset
<1> QED
    BY <1>5, <1>6, <1>7

-----------------------------------------------------------------------------
(* The loops.                                                              *)

(* ls2 has the loops of ls with f queued in loop l as well.                *)
Adds(ls2, ls, l, f) ==
    /\ AllGood(ls2) /\ DOMAIN ls2 = DOMAIN ls
    /\ \A k \in DOMAIN ls : ls2[k].at = ls[k].at
    /\ All(ls2[l]) = All(ls[l]) \cup {f}
    /\ \A k \in DOMAIN ls \ {l} : All(ls2[k]) = All(ls[k])

(* ls2 has the loops of ls with the functor f gone from loop l, and none   *)
(* is left there that had to come before f.                                *)
Drops(ls2, ls, l, f) ==
    /\ AllGood(ls2) /\ DOMAIN ls2 = DOMAIN ls
    /\ \A k \in DOMAIN ls : ls2[k].at = ls[k].at
    /\ f \in Fn /\ f \in All(ls[l])
    /\ \A g \in All(ls2[l]) : Before(f, g)
    /\ All(ls2[l]) = All(ls[l]) \ {f}
    /\ \A k \in DOMAIN ls \ {l} : All(ls2[k]) = All(ls[k])

(* ls2 has the functors of ls, and no loop that has exited runs again.     *)
Moves(ls2, ls) ==
    /\ AllGood(ls2) /\ DOMAIN ls2 = DOMAIN ls
    /\ \A k \in DOMAIN ls : All(ls2[k]) = All(ls[k])
    /\ \A k \in DOMAIN ls : ls[k].at = "exited" => ls2[k].at = "exited"

(* The fields of a loop.                                                   *)
LEMMA LoopFields ==
    ASSUME NEW r \in Loop
    PROVE  /\ r.batch \in Seq(Fn) /\ r.pending \in Seq(Fn)
           /\ r.at \in Ats /\ r.quit \in BOOLEAN
  BY SMTT(60) DEF Loop

(* A loop is made of its fields.                                           *)
LEMMA LoopOf ==
    ASSUME NEW a \in Ats, NEW q \in BOOLEAN, NEW p \in Seq(Fn), NEW b \in Seq(Fn)
    PROVE  [at |-> a, quit |-> q, pending |-> p, batch |-> b] \in Loop
  BY SMTT(60) DEF Loop

(* What EXCEPT does to the flags of a loop.                                *)
LEMMA FlagExcept ==
    ASSUME NEW r \in Loop, NEW a \in Ats, NEW q \in BOOLEAN
    PROVE  /\ [r EXCEPT !.at = a] =
                  [at |-> a, quit |-> r.quit, pending |-> r.pending, batch |-> r.batch]
           /\ [r EXCEPT !.quit = q] =
                  [at |-> r.at, quit |-> q, pending |-> r.pending, batch |-> r.batch]
  BY SMTT(60) DEF Loop

(* What EXCEPT does to a queue of a loop.                                  *)
LEMMA LoopExcept ==
    ASSUME NEW r \in Loop, NEW q \in Seq(Fn)
    PROVE  /\ [r EXCEPT !.pending = q] =
                  [at |-> r.at, quit |-> r.quit, pending |-> q, batch |-> r.batch]
           /\ [r EXCEPT !.batch = q] =
                  [at |-> r.at, quit |-> r.quit, pending |-> r.pending, batch |-> q]
  BY SMTT(60) DEF Loop

(* Replacing one good loop by another.                                     *)
Replaces(t, ls, l, s) ==
    AllGood(t) /\ DOMAIN t = DOMAIN ls /\ t[l] = s /\ \A k \in DOMAIN ls : k # l => t[k] = ls[k]

(* EXCEPT does that.                                                       *)
LEMMA LoopReplaced ==
    ASSUME NEW ls, AllGood(ls), NEW l \in DOMAIN ls, NEW s, Good(s)
    PROVE  Replaces([ls EXCEPT ![l] = s], ls, l, s)
  BY DEF Replaces, AllGood, Good

(* One with a functor more.                                                *)
LEMMA ReplacedAdds ==
    ASSUME NEW ls, AllGood(ls), NEW l \in DOMAIN ls, NEW f, NEW s, Good(s),
           s.at = ls[l].at, All(s) = All(ls[l]) \cup {f}
    PROVE  Adds([ls EXCEPT ![l] = s], ls, l, f)
<1> DEFINE t == [ls EXCEPT ![l] = s]
<1>1. Replaces(t, ls, l, s)
    BY LoopReplaced
<1> HIDE DEF t
<1>2. Adds(t, ls, l, f)
    BY <1>1 DEF Adds, Replaces
<1> QED
    BY <1>2 DEF t

(* One with a functor less.                                                *)
LEMMA ReplacedDrops ==
    ASSUME NEW ls, AllGood(ls), NEW l \in DOMAIN ls, NEW f \in Fn, NEW s, Good(s),
           s.at = ls[l].at, f \in All(ls[l]), All(s) = All(ls[l]) \ {f},
           \A g \in All(s) : Before(f, g)
    PROVE  Drops([ls EXCEPT ![l] = s], ls, l, f)
<1> DEFINE t == [ls EXCEPT ![l] = s]
<1>1. Replaces(t, ls, l, s)
    BY LoopReplaced
<1> HIDE DEF t
<1>2. Drops(t, ls, l, f)
    BY <1>1 DEF Drops, Replaces
<1> QED
    BY <1>2 DEF t

(* One with the same functors.                                             *)
LEMMA ReplacedMoves ==
    ASSUME NEW ls, AllGood(ls), NEW l \in DOMAIN ls, NEW s, Good(s),
           All(s) = All(ls[l]), ls[l].at = "exited" => s.at = "exited"
    PROVE  Moves([ls EXCEPT ![l] = s], ls)
<1> DEFINE t == [ls EXCEPT ![l] = s]
<1>1. Replaces(t, ls, l, s)
    BY LoopReplaced
<1> HIDE DEF t
<1>2. Moves(t, ls)
    BY <1>1 DEF Moves, Replaces
<1> QED
    BY <1>2 DEF t

(* EventLoop::queueInLoop.                                                 *)
LEMMA PushAdds ==
    ASSUME NEW ls, AllGood(ls), NEW l \in DOMAIN ls, NEW f \in Fn,
           \A g \in All(ls[l]) : Before(g, f)
    PROVE  Adds(Push(ls, l, f), ls, l, f)
<1> DEFINE r == ls[l]
           p == Append(r.pending, f)
           s == [at |-> r.at, quit |-> r.quit, pending |-> p, batch |-> r.batch]
<1>1. Good(r) /\ r \in Loop /\ ls \in [DOMAIN ls -> Loop]
    BY DEF AllGood
<1>2. r.batch \in Seq(Fn) /\ r.pending \in Seq(Fn) /\ r.at \in Ats /\ r.quit \in BOOLEAN
    BY <1>1, LoopFields
<1>3. p \in Seq(Fn) /\ Fine(p) /\ Range(p) = Range(r.pending) \cup {f}
  <2>1. Fine(r.pending) /\ \A g \in Range(r.pending) : Before(g, f)
      BY <1>1 DEF Good, All
  <2> QED
      BY <1>2, <2>1, AppendFine
<1>4. s \in Loop
    BY <1>2, <1>3, LoopOf
<1>5. \A g \in Range(r.batch), h \in Range(p) : Before(g, h)
    BY <1>1, <1>3 DEF Good, All
<1>6. Good(s)
    BY <1>1, <1>3, <1>4, <1>5 DEF Good
<1>7. [r EXCEPT !.pending = p] = s
    BY <1>1, <1>3, LoopExcept
<1>8. Push(ls, l, f) = [ls EXCEPT ![l] = s]
    BY <1>7 DEF Push
<1>9. All(s) = All(r) \cup {f}
    BY <1>3 DEF All
<1>10. s.at = r.at
    OBVIOUS
<1> HIDE DEF s
<1>11. Adds([ls EXCEPT ![l] = s], ls, l, f)
    BY <1>6, <1>9, <1>10, ReplacedAdds
<1> QED
    BY <1>8, <1>11

(* EventLoop::doPendingFunctors takes the first functor of its batch.      *)
LEMMA PopDrops ==
    ASSUME AllGood(loops), NEW l \in DOMAIN loops,
           loops[l].at = "functors", loops[l].batch # <<>>
    PROVE  Drops(Popped(l), loops, l, Head(loops[l].batch))
<1> DEFINE r == loops[l]
           f == Head(r.batch)
           b == Tail(r.batch)
           s == [at |-> r.at, quit |-> r.quit, pending |-> r.pending, batch |-> b]
<1>1. Good(r) /\ r \in Loop /\ loops \in [DOMAIN loops -> Loop]
    BY DEF AllGood
<1>2. r.batch \in Seq(Fn) /\ r.pending \in Seq(Fn) /\ r.at \in Ats /\ r.quit \in BOOLEAN
    BY <1>1, LoopFields
<1>3. /\ b \in Seq(Fn) /\ Fine(b)
      /\ f \in Fn /\ f \in Range(r.batch)
      /\ Range(b) = Range(r.batch) \ {f}
      /\ \A g \in Range(b) : Before(f, g)
  <2>1. Fine(r.batch)
      BY <1>1 DEF Good
  <2> QED
      BY <1>2, <2>1, TailFine
<1>4. s \in Loop
    BY <1>2, <1>3, LoopOf
<1>5. \A g \in Range(b), h \in Range(r.pending) : Before(g, h)
    BY <1>1, <1>3 DEF Good
<1>6. Good(s)
    BY <1>1, <1>3, <1>4, <1>5 DEF Good
<1>7. [r EXCEPT !.batch = b] = s
    BY <1>1, <1>3, LoopExcept
<1>8. Popped(l) = [loops EXCEPT ![l] = s]
    BY <1>7 DEF Popped
<1>9. \A g \in Range(r.pending) : Before(f, g)
    BY <1>1, <1>3 DEF Good
<1>10. f \notin Range(r.pending)
    BY <1>9 DEF Before
<1>11. All(s) = All(r) \ {f} /\ f \in All(r)
    BY <1>3, <1>10 DEF All
<1>12. \A g \in All(s) : Before(f, g)
    BY <1>3, <1>9 DEF All
<1>13. s.at = r.at
    OBVIOUS
<1> HIDE DEF s
<1>14. Drops([loops EXCEPT ![l] = s], loops, l, f)
    BY <1>3, <1>6, <1>11, <1>12, <1>13, ReplacedDrops
<1> QED
    BY <1>8, <1>14

(* A loop with other flags but the same queues.                            *)
LEMMA FlagsMove ==
    ASSUME AllGood(loops), NEW l \in DOMAIN loops, NEW a \in Ats, NEW q \in BOOLEAN,
           a # "functors" => loops[l].batch = <<>>, loops[l].at = "exited" => a = "exited"
    PROVE  Moves([loops EXCEPT ![l] = [at |-> a, quit |-> q, pending |-> loops[l].pending,
                                       batch |-> loops[l].batch]], loops)
<1> DEFINE r == loops[l]
           s == [at |-> a, quit |-> q, pending |-> r.pending, batch |-> r.batch]
<1>1. Good(r) /\ r \in Loop
    BY DEF AllGood
<1>2. r.batch \in Seq(Fn) /\ r.pending \in Seq(Fn)
    BY <1>1, LoopFields
<1>3. s \in Loop
    BY <1>2, LoopOf
<1>4. Good(s)
    BY <1>1, <1>3 DEF Good
<1>5. All(s) = All(r)
    BY DEF All
<1>6. s.at = a
    OBVIOUS
<1> HIDE DEF s
<1>7. Moves([loops EXCEPT ![l] = s], loops)
    BY <1>4, <1>5, <1>6, ReplacedMoves
<1> QED
    BY <1>7 DEF s

(* The queued functors become the batch.                                   *)
LEMMA TakeMoves ==
    ASSUME AllGood(loops), NEW l \in DOMAIN loops, loops[l].at = "poll"
    PROVE  Moves([loops EXCEPT ![l] = [at |-> "functors", quit |-> loops[l].quit,
                                       pending |-> <<>>, batch |-> loops[l].pending]], loops)
<1> DEFINE r == loops[l]
           s == [at |-> "functors", quit |-> r.quit, pending |-> <<>>, batch |-> r.pending]
<1>1. Good(r) /\ r \in Loop /\ r.batch = <<>>
    BY DEF AllGood, Good
<1>2. r.pending \in Seq(Fn) /\ r.quit \in BOOLEAN
    BY <1>1, LoopFields
<1>3. <<>> \in Seq(Fn) /\ Fine(<<>>) /\ Range(<<>>) = {}
    BY SMTT(60) DEF Fine, Range
<1>4. s \in Loop
    BY <1>2, <1>3, LoopOf DEF Ats
<1>5. Good(s)
    BY <1>1, <1>3, <1>4 DEF Good
<1>6. All(s) = All(r)
    BY <1>1, <1>3 DEF All
<1> HIDE DEF s
<1>7. Moves([loops EXCEPT ![l] = s], loops)
    BY <1>5, <1>6, ReplacedMoves
<1> QED
    BY <1>7 DEF s

-----------------------------------------------------------------------------
(* What most steps leave alone.                                            *)

(* cs2 has the connections of cs, in the loops they were in.               *)
SameLoops(cs2, cs) ==
    /\ cs2 \in Seq(Conn) /\ DOMAIN cs2 = DOMAIN cs
    /\ \A c \in DOMAIN cs : cs2[c].loop = cs[c].loop

(* cs2 has K for connection c and is cs otherwise.                         *)
Recasts(cs2, cs, c, K) ==
    /\ SameLoops(cs2, cs)
    /\ cs2[c] = K /\ \A d \in DOMAIN cs : d # c => cs2[d] = cs[d]

Frame == ServerTyped /\ PoolTyped /\ ConnsTyped /\ LoopsTyped /\ Turns

(* The fields of a connection.                                             *)
LEMMA ConnFields ==
    ASSUME NEW k \in Conn
    PROVE  k.loop \in Nat /\ k.state \in States /\ k.destroyed \in Nat
  BY SMTT(60) DEF Conn

(* What EXCEPT does to one connection.                                     *)
LEMMA ConnReplaced ==
    ASSUME NEW cs \in Seq(Conn), NEW c \in DOMAIN cs, NEW K \in Conn, K.loop = cs[c].loop
    PROVE  Recasts([cs EXCEPT ![c] = K], cs, c, K)
<1> DEFINE t == [cs EXCEPT ![c] = K]
<1>1. t \in Seq(Conn) /\ DOMAIN t = DOMAIN cs
    BY SMTT(60)
<1>2. t[c] = K /\ \A d \in DOMAIN cs : d # c => t[d] = cs[d]
    BY SMTT(60)
<1> HIDE DEF t
<1>3. \A d \in DOMAIN cs : t[d].loop = cs[d].loop
    BY <1>2
<1>4. Recasts(t, cs, c, K)
    BY <1>1, <1>2, <1>3 DEF Recasts, SameLoops
<1> QED
    BY <1>4 DEF t

(* The loads are the same while no connection is made.                     *)
LEMMA LoadsSame ==
    ASSUME SameLoops(conns', conns), numThreads' = numThreads, pool'.next = pool.next, Turns
    PROVE  Turns'
<1>1. \A l : Load(l)' = Load(l)
  <2> TAKE l
  <2>1. {c \in DOMAIN conns : conns[c].loop = l}' = {c \in DOMAIN conns : conns[c].loop = l}
      BY DEF SameLoops
  <2> QED
      BY <2>1 DEF Load
<1>2. PICK m \in Nat : \A l \in PoolLoops : Load(l) = IF l < pool.next THEN m + 1 ELSE m
    BY DEF Turns
<1>3. PoolLoops' = PoolLoops
    BY DEF PoolLoops
<1>4. \A l \in PoolLoops' : Load(l)' = IF l < pool'.next THEN m + 1 ELSE m
    BY <1>1, <1>2, <1>3
<1> QED
    BY <1>4 DEF Turns

(* A step that leaves the server and its pool alone keeps their part.      *)
LEMMA FrameKept ==
    ASSUME SInv, UNCHANGED <<numThreads, server, pool>>,
           SameLoops(conns', conns), connections' \subseteq connections,
           AllGood(loops'), DOMAIN loops' = DOMAIN loops
    PROVE  Frame'
<1>1. Loops' = Loops /\ PoolLoops' = PoolLoops
    BY DEF Loops, PoolLoops
<1>2. ServerTyped'
    BY DEF SInv, ServerTyped
<1>3. conns = <<>> => conns' = <<>>
    BY SMTT(60) DEF SameLoops
<1>4. PoolTyped'
    BY <1>1, <1>3 DEF SInv, PoolTyped
<1>5. ConnsTyped'
    BY <1>1 DEF SInv, ConnsTyped, SameLoops
<1>6. LoopsTyped'
    BY <1>1 DEF SInv, LoopsTyped
<1>7. Turns'
    BY LoadsSame DEF SInv
<1> QED
    BY <1>2, <1>4, <1>5, <1>6, <1>7 DEF Frame

(* The descriptors are accounted for while no connection is destroyed.     *)
LEMMA OpenSame ==
    ASSUME DescriptorsKept, free' = free, DOMAIN conns' = DOMAIN conns,
           \A c \in DOMAIN conns : conns'[c].destroyed = conns[c].destroyed
    PROVE  DescriptorsKept'
<1>1. Open' = Open
    BY DEF Open
<1> QED
    BY <1>1 DEF DescriptorsKept

(* The functors of connection c are queued as they were.                   *)
SameQueued(c) ==
    /\ HasEst(c)' <=> HasEst(c)
    /\ HasDes(c)' <=> HasDes(c)
    /\ HasRem(c)' <=> HasRem(c)

(* A connection that a step leaves alone is in the stage it was in.        *)
LEMMA StageSame ==
    ASSUME NEW c, Stage(c), conns'[c] = conns[c], c \in connections' <=> c \in connections,
           SameQueued(c), server'.phase = "started" => server.phase = "started",
           loops[conns[c].loop].at = "exited" => loops'[conns[c].loop].at = "exited"
    PROVE  Stage(c)'
  BY DEF Stage, SameQueued, Base

(* Steps that only move functors within a loop, and the ones of peers.     *)
LEMMA QuietKeeps ==
    ASSUME SInv, UNCHANGED <<numThreads, server, pool, connections, conns, free>>,
           Moves(loops', loops)
    PROVE  SInv'
<1>1. conns \in Seq(Conn)
    BY DEF SInv, ConnsTyped
<1>2. SameLoops(conns', conns)
    BY <1>1 DEF SameLoops
<1>3. /\ AllGood(loops') /\ DOMAIN loops' = DOMAIN loops
      /\ DOMAIN loops = Loops
    BY DEF SInv, LoopsTyped, Moves
<1>4. Frame'
    BY <1>2, <1>3, FrameKept
<1>5. Loops' = Loops /\ Base \in Loops
    BY DEF Loops, PoolLoops
<1>6. \A l \in Loops : All(loops'[l]) = All(loops[l])
    BY <1>3 DEF Moves
<1>7. Own'
    BY <1>5, <1>6 DEF SInv, Own, Owned
<1>8. ASSUME NEW c \in DOMAIN conns PROVE Stage(c)'
  <2>1. conns[c].loop \in Loops /\ Stage(c)
      BY DEF SInv, ConnsTyped, Stages
  <2>2. SameQueued(c)
      BY <1>5, <1>6, <2>1 DEF SameQueued, HasEst, HasDes, HasRem
  <2>3. loops[conns[c].loop].at = "exited" => loops'[conns[c].loop].at = "exited"
      BY <1>3, <2>1 DEF Moves
  <2> QED
      BY <2>1, <2>2, <2>3, StageSame
<1>9. Stages'
    BY <1>8 DEF Stages
<1>10. DescriptorsKept'
    BY OpenSame DEF SInv
<1> QED
    BY <1>4, <1>7, <1>9, <1>10 DEF SInv, Frame

-----------------------------------------------------------------------------
(* Steps about one connection.                                             *)

(* ls2 differs from ls in the functors of connection c only.               *)
OnlyFor(ls2, ls, c) ==
    /\ DOMAIN ls2 = DOMAIN ls
    /\ \A k \in DOMAIN ls : ls2[k].at = ls[k].at
    /\ \A k \in DOMAIN ls : \A f : f.conn # c => (f \in All(ls2[k]) <=> f \in All(ls[k]))

(* A functor that is queued is about one connection,                       *)
LEMMA AddsOnly ==
    ASSUME NEW ls, NEW ls2, NEW l \in DOMAIN ls, NEW f, Adds(ls2, ls, l, f)
    PROVE  OnlyFor(ls2, ls, f.conn)
<1>1. ASSUME NEW k \in DOMAIN ls, NEW g, g.conn # f.conn
      PROVE  g \in All(ls2[k]) <=> g \in All(ls[k])
  <2>1. CASE k = l
      BY <1>1, <2>1 DEF Adds
  <2>2. CASE k # l
      BY <2>2 DEF Adds
  <2> QED
      BY <2>1, <2>2
<1> QED
    BY <1>1 DEF Adds, OnlyFor

(* and so is one that is taken.                                            *)
LEMMA DropsOnly ==
    ASSUME NEW ls, NEW ls2, NEW l \in DOMAIN ls, NEW f, Drops(ls2, ls, l, f)
    PROVE  OnlyFor(ls2, ls, f.conn)
<1>1. ASSUME NEW k \in DOMAIN ls, NEW g, g.conn # f.conn
      PROVE  g \in All(ls2[k]) <=> g \in All(ls[k])
  <2>1. CASE k = l
      BY <1>1, <2>1 DEF Drops
  <2>2. CASE k # l
      BY <2>2 DEF Drops
  <2> QED
      BY <2>1, <2>2
<1> QED
    BY <1>1 DEF Drops, OnlyFor

(* Two changes about the same connection.                                  *)
LEMMA OnlyTwice ==
    ASSUME NEW a, NEW b, NEW d, NEW c, OnlyFor(b, a, c), OnlyFor(d, b, c)
    PROVE  OnlyFor(d, a, c)
  BY DEF OnlyFor

(* Functors are told apart by what they call and for whom.                 *)
LEMMA FunctorsDiffer ==
    /\ \A c : Est(c).conn = c /\ Des(c).conn = c /\ Rem(c).conn = c
    /\ \A c : Est(c).call = "connectEstablished" /\ Des(c).call = "connectDestroyed"
              /\ Rem(c).call = "removeConnectionInLoop"
    /\ \A c \in Nat : Est(c) \in Fn /\ Des(c) \in Fn /\ Rem(c) \in Fn
  BY SMTT(60) DEF Est, Des, Rem, Functor, Fn, Calls

(* A functor is made of its call and its connection.                       *)
LEMMA FunctorIs ==
    ASSUME NEW f \in Fn
    PROVE  /\ f.call = "connectEstablished" => f = Est(f.conn)
           /\ f.call = "connectDestroyed" => f = Des(f.conn)
           /\ f.call = "removeConnectionInLoop" => f = Rem(f.conn)
           /\ f.conn \in Nat
  BY SMTT(60) DEF Est, Des, Rem, Functor, Fn

(* The functors of the other connections are queued as they were.          *)
LEMMA OthersSame ==
    ASSUME NEW c, NEW d \in DOMAIN conns, d # c, OnlyFor(loops', loops, c),
           DOMAIN loops = Loops, conns[d].loop \in Loops, conns'[d].loop = conns[d].loop
    PROVE  SameQueued(d)
<1>1. Base \in Loops
    BY DEF Loops
<1>2. Est(d).conn # c /\ Des(d).conn # c /\ Rem(d).conn # c
    BY FunctorsDiffer, SMTT(60)
<1>3. Est(d) \in All(loops'[conns[d].loop]) <=> Est(d) \in All(loops[conns[d].loop])
    BY <1>2 DEF OnlyFor
<1>4. Des(d) \in All(loops'[conns[d].loop]) <=> Des(d) \in All(loops[conns[d].loop])
    BY <1>2 DEF OnlyFor
<1>5. Rem(d) \in All(loops'[Base]) <=> Rem(d) \in All(loops[Base])
    BY <1>1, <1>2 DEF OnlyFor
<1>6. Base' = Base
    BY DEF Base
<1> QED
    BY <1>3, <1>4, <1>5, <1>6 DEF SameQueued, HasEst, HasDes, HasRem

(* The frame of a step about connection c.                                 *)
About(c) ==
    /\ UNCHANGED <<numThreads, server, pool>>
    /\ SameLoops(conns', conns) /\ \A d \in DOMAIN conns : d # c => conns'[d] = conns[d]
    /\ connections' \subseteq connections
    /\ \A d \in DOMAIN conns : d # c => (d \in connections' <=> d \in connections)
    /\ AllGood(loops') /\ OnlyFor(loops', loops, c)
    /\ \A l \in Loops : \A f \in All(loops'[l]) : f \in All(loops[l]) \/ Owned(f, l)

(* A step about connection c has to be looked at for c only.               *)
LEMMA AboutKeeps ==
    ASSUME SInv, NEW c \in DOMAIN conns, About(c), Stage(c)', DescriptorsKept'
    PROVE  SInv'
<1>1. DOMAIN loops = Loops
    BY DEF SInv, LoopsTyped
<1>2. Frame'
    BY FrameKept DEF About, OnlyFor
<1>3. Loops' = Loops
    BY DEF About, Loops, PoolLoops
<1>4. SameLoops(conns', conns)
    BY DEF About
<1>5. Own'
  <2> SUFFICES ASSUME NEW l \in Loops, NEW f \in All(loops'[l])
               PROVE  Owned(f, l)'
      BY <1>3 DEF Own
  <2>1. Owned(f, l)
      BY DEF About, SInv, Own
  <2> QED
      BY <1>4, <2>1 DEF Owned, SameLoops, Base
<1>6. ASSUME NEW d \in DOMAIN conns, d # c PROVE Stage(d)'
  <2>1. conns[d].loop \in Loops /\ Stage(d)
      BY DEF SInv, ConnsTyped, Stages
  <2>2. conns'[d] = conns[d] /\ (d \in connections' <=> d \in connections)
      BY <1>6 DEF About
  <2>3. SameQueued(d)
      BY <1>1, <1>6, <2>1, <2>2, OthersSame DEF About
  <2>4. loops'[conns[d].loop].at = loops[conns[d].loop].at
      BY <1>1, <2>1 DEF About, OnlyFor
  <2>5. server'.phase = server.phase
      BY DEF About
  <2> QED
      BY <2>1, <2>2, <2>3, <2>4, <2>5, StageSame
<1>7. Stages'
    BY <1>4, <1>6 DEF Stages, SameLoops
<1> QED
    BY <1>2, <1>5, <1>7 DEF SInv, Frame

-----------------------------------------------------------------------------
(* The functor at the head of a batch, and what running it does.           *)
LEMMA RunsHead ==
    ASSUME SInv, NEW l \in Loops, NEW f, Runs(l, f)
    PROVE  /\ Drops(Popped(l), loops, l, Head(loops[l].batch))
           /\ Head(loops[l].batch).call = f
           /\ Head(loops[l].batch) \in All(loops[l])
           /\ Head(loops[l].batch) \in Fn
           /\ Owned(Head(loops[l].batch), l)
           /\ Head(loops[l].batch).conn \in DOMAIN conns
           /\ Stage(Head(loops[l].batch).conn)
           /\ conns[Head(loops[l].batch).conn] \in Conn
<1> DEFINE h == Head(loops[l].batch)
<1>1. AllGood(loops) /\ l \in DOMAIN loops
    BY DEF SInv, LoopsTyped
<1>2. loops[l].at = "functors" /\ loops[l].batch # <<>> /\ h.call = f
    BY DEF Runs
<1>3. Drops(Popped(l), loops, l, h)
    BY <1>1, <1>2, PopDrops
<1> HIDE DEF h
<1>4. h \in All(loops[l]) /\ h \in Fn
    BY <1>3 DEF Drops
<1>5. Owned(h, l)
    BY <1>4 DEF SInv, Own
<1>6. h.conn \in DOMAIN conns
    BY <1>5 DEF Owned
<1>7. Stage(h.conn)
    BY <1>6 DEF SInv, Stages
<1>8. conns[h.conn] \in Conn
    BY <1>6, SMTT(60) DEF SInv, ConnsTyped
<1> QED
    BY <1>2, <1>3, <1>4, <1>5, <1>6, <1>7, <1>8 DEF h

(* What connectEstablished, connectDestroyed and handleClose make of a     *)
(* connection.                                                             *)
LEMMA ConnsBecome ==
    ASSUME NEW k \in Conn
    PROVE  /\ Established(k) \in Conn /\ Established(k).loop = k.loop
           /\ Established(k).state = "kConnected" /\ Established(k).destroyed = k.destroyed
           /\ Close(k) \in Conn /\ Close(k).loop = k.loop
           /\ Close(k).state = "kDisconnected" /\ Close(k).destroyed = k.destroyed + 1
           /\ [k EXCEPT !.state = "kDisconnected"] \in Conn
           /\ [k EXCEPT !.state = "kDisconnected"].loop = k.loop
           /\ [k EXCEPT !.state = "kDisconnected"].state = "kDisconnected"
           /\ [k EXCEPT !.state = "kDisconnected"].destroyed = k.destroyed
  BY SMTT(60) DEF Established, Close, Conn, States

(* A functor taken from a queue leaves no trouble behind.                  *)
LEMMA DropsAbout ==
    ASSUME SInv, NEW l \in Loops, NEW f, Drops(loops', loops, l, f),
           UNCHANGED <<numThreads, server, pool, connections>>,
           NEW K, Recasts(conns', conns, f.conn, K)
    PROVE  About(f.conn)
<1>1. DOMAIN loops = Loops
    BY DEF SInv, LoopsTyped
<1>2. OnlyFor(loops', loops, f.conn)
    BY <1>1, DropsOnly
<1>3. \A k \in Loops : \A g \in All(loops'[k]) : g \in All(loops[k])
    BY <1>1 DEF Drops
<1>4. AllGood(loops')
    BY DEF Drops
<1> QED
    BY <1>2, <1>3, <1>4 DEF About, Recasts

(* TcpConnection::connectEstablished.                                      *)
LEMMA EstablishedStep ==
    ASSUME SInv, NEW l \in Loops, FunctorEstablished(l)
    PROVE  SInv'
<1>1. Runs(l, "connectEstablished")
    BY DEF FunctorEstablished
<1>2. PICK h : h = Head(loops[l].batch)
    OBVIOUS
<1> DEFINE c == h.conn
<1>3. /\ Drops(Popped(l), loops, l, h) /\ h.call = "connectEstablished"
      /\ h \in All(loops[l]) /\ h \in Fn /\ Owned(h, l)
      /\ c \in DOMAIN conns /\ Stage(c) /\ conns[c] \in Conn
    BY <1>1, <1>2, RunsHead
<1>4. /\ conns' = [conns EXCEPT ![c] = Established(conns[c])]
      /\ loops' = Popped(l)
      /\ UNCHANGED <<numThreads, server, pool, connections, free>>
    BY <1>2 DEF FunctorEstablished, acceptor
<1> HIDE DEF c
<1>5. h = Est(c)
    BY <1>3, FunctorIs DEF c
<1>6. conns[c].loop = l
    BY <1>3 DEF Owned, c
<1>7. /\ Established(conns[c]) \in Conn /\ Established(conns[c]).loop = conns[c].loop
      /\ Established(conns[c]).state = "kConnected"
      /\ Established(conns[c]).destroyed = conns[c].destroyed
    BY <1>3, ConnsBecome
<1>8. Recasts(conns', conns, c, Established(conns[c]))
    BY <1>3, <1>4, <1>7, ConnReplaced DEF SInv, ConnsTyped
<1>9. Drops(loops', loops, l, h)
    BY <1>3, <1>4
<1>10. About(c)
    BY <1>4, <1>8, <1>9, DropsAbout DEF c
<1>11. /\ conns'[c].loop = l /\ conns'[c].state = "kConnected"
       /\ conns'[c].destroyed = conns[c].destroyed
    BY <1>6, <1>7, <1>8 DEF Recasts
<1>12. HasEst(c)
    BY <1>3, <1>5, <1>6 DEF HasEst
<1>13. conns[c].state = "kConnecting" /\ conns[c].destroyed = 0 /\ ~HasRem(c)
    BY <1>3, <1>12 DEF Stage
<1>14. DOMAIN loops = Loops /\ Base \in Loops
    BY DEF SInv, LoopsTyped, Loops
<1>15. ~HasEst(c)'
    BY <1>5, <1>9, <1>11 DEF HasEst, Drops
<1>16. HasDes(c)' <=> HasDes(c)
  <2>1. Des(c) # h
      BY <1>3, FunctorsDiffer
  <2> QED
      BY <1>6, <1>9, <1>11, <2>1 DEF HasDes, Drops
<1>17. ~HasRem(c)'
    BY <1>9, <1>13, <1>14 DEF HasRem, Drops, Base
<1>18. loops'[l].at = loops[l].at
    BY <1>9, <1>14 DEF Drops
<1>19. Stage(c)'
    BY <1>3, <1>4, <1>6, <1>11, <1>13, <1>15, <1>16, <1>17, <1>18 DEF Stage
<1>20. DescriptorsKept'
  <2>1. DOMAIN conns' = DOMAIN conns
      BY <1>8 DEF Recasts, SameLoops
  <2>2. \A d \in DOMAIN conns : conns'[d].destroyed = conns[d].destroyed
      BY <1>8, <1>11 DEF Recasts
  <2> QED
      BY <1>4, <2>1, <2>2, OpenSame DEF SInv
<1> QED
    BY <1>3, <1>10, <1>19, <1>20, AboutKeeps

(* The connections that are open are finitely many.                        *)
LEMMA OpenFinite ==
    ASSUME conns \in Seq(Conn)
    PROVE  IsFiniteSet(DOMAIN conns) /\ IsFiniteSet(Open) /\ Cardinality(Open) \in Nat
<1>1. Len(conns) \in Nat /\ DOMAIN conns = 1 .. Len(conns)
    BY SMTT(60)
<1>2. IsFiniteSet(1 .. Len(conns))
    BY <1>1, FS_Interval, SMTT(60)
<1>3. Open \in SUBSET DOMAIN conns
    BY DEF Open
<1>4. IsFiniteSet(Open)
    BY <1>1, <1>2, <1>3, FS_Subset
<1> QED
    BY <1>1, <1>2, <1>4, FS_CardinalityType

(* TcpConnection::connectDestroyed.                                        *)
LEMMA DestroyedStep ==
    ASSUME SInv, NEW l \in Loops, FunctorDestroyed(l)
    PROVE  SInv'
<1>1. Runs(l, "connectDestroyed")
    BY DEF FunctorDestroyed
<1>2. PICK h : h = Head(loops[l].batch)
    OBVIOUS
<1> DEFINE c == h.conn
<1>3. /\ Drops(Popped(l), loops, l, h) /\ h.call = "connectDestroyed"
      /\ h \in All(loops[l]) /\ h \in Fn /\ Owned(h, l)
      /\ c \in DOMAIN conns /\ Stage(c) /\ conns[c] \in Conn
    BY <1>1, <1>2, RunsHead
<1>4. /\ conns' = [conns EXCEPT ![c] = Close(conns[c])]
      /\ loops' = Popped(l) /\ free' = free + 1
      /\ UNCHANGED <<numThreads, server, pool, connections>>
    BY <1>2 DEF FunctorDestroyed
<1>5. /\ h = Des(c) /\ conns[c].loop = l
      /\ \A g \in All(loops'[l]) : g # Est(c)
  <2>1. \A g \in All(loops'[l]) : Before(h, g)
      BY <1>3, <1>4 DEF Drops
  <2>2. \A g \in All(loops'[l]) : g # Est(c)
      BY <1>3, <2>1 DEF Before
  <2>3. h = Des(c)
      BY <1>3, FunctorIs
  <2>4. conns[c].loop = l
      BY <1>3 DEF Owned
  <2> QED
      BY <2>2, <2>3, <2>4
<1>6. Drops(loops', loops, l, h)
    BY <1>3, <1>4
<1>7. /\ Close(conns[c]) \in Conn /\ Close(conns[c]).loop = conns[c].loop
      /\ Close(conns[c]).state = "kDisconnected"
      /\ Close(conns[c]).destroyed = conns[c].destroyed + 1
    BY <1>3, ConnsBecome
<1>8. Recasts(conns', conns, c, Close(conns[c]))
    BY <1>3, <1>4, <1>7, ConnReplaced DEF SInv, ConnsTyped
<1>9. About(c)
    BY <1>4, <1>6, <1>8, DropsAbout
<1> HIDE DEF c
<1>10. HasDes(c)
    BY <1>3, <1>5 DEF HasDes
<1>11. conns[c].destroyed = 0 /\ c \notin connections
    BY <1>3, <1>10 DEF Stage
<1>12. 0 + 1 = 1
    BY SMTT(60)
<1>13. conns'[c].loop = l /\ conns'[c].state = "kDisconnected" /\ conns'[c].destroyed = 1
    BY <1>5, <1>7, <1>8, <1>11, <1>12 DEF Recasts
<1>14. DOMAIN loops = Loops /\ Base \in Loops
    BY DEF SInv, LoopsTyped, Loops
<1>15. ~HasEst(c)' /\ ~HasDes(c)'
    BY <1>5, <1>6, <1>13 DEF HasEst, HasDes, Drops
<1>16. HasRem(c)' <=> HasRem(c)
  <2>1. Rem(c) # h
      BY <1>3, FunctorsDiffer
  <2> QED
      BY <1>6, <1>14, <2>1 DEF HasRem, Drops, Base
<1>17. Stage(c)'
    BY <1>3, <1>4, <1>5, <1>11, <1>13, <1>15, <1>16 DEF Stage
<1>18. DescriptorsKept'
  <2>1. Open' = Open \ {c} /\ c \in Open
    <3>1. c \in Open
        BY <1>3, <1>11 DEF Open
    <3>2. c \notin Open'
        BY <1>13, SMTT(60) DEF Open
    <3>3. \A d \in DOMAIN conns : d # c => conns'[d] = conns[d]
        BY <1>8 DEF Recasts
    <3>4. DOMAIN conns' = DOMAIN conns
        BY <1>8 DEF Recasts, SameLoops
    <3> QED
        BY <3>1, <3>2, <3>3, <3>4 DEF Open
  <2>2. conns \in Seq(Conn)
      BY DEF SInv, ConnsTyped
  <2>3. IsFiniteSet(Open) /\ Cardinality(Open) \in Nat
      BY <2>2, OpenFinite
  <2>4. Cardinality(Open') = Cardinality(Open) - 1
      BY <2>1, <2>3, FS_RemoveElement
  <2>5. free \in Nat /\ free + Cardinality(Open) = Descriptors
      BY DEF SInv, DescriptorsKept
  <2>6. free' \in Nat /\ free' + Cardinality(Open') = Descriptors
      BY <1>4, <2>3, <2>4, <2>5, SMTT(60)
  <2> QED
      BY <2>6 DEF DescriptorsKept
<1> QED
    BY <1>3, <1>9, <1>17, <1>18, AboutKeeps

(* connectDestroyed and removeConnectionInLoop may be queued behind any    *)
(* other functor.                                                          *)
LEMMA MayFollow ==
    ASSUME NEW g, NEW c
    PROVE  /\ g # Des(c) => Before(g, Des(c))
           /\ g # Rem(c) => Before(g, Rem(c))
<1>1. Des(c) # Est(g.conn) /\ Rem(c) # Est(g.conn)
  <2>1. /\ Des(c).call = "connectDestroyed" /\ Rem(c).call = "removeConnectionInLoop"
        /\ Est(g.conn).call = "connectEstablished"
      BY FunctorsDiffer
  <2> QED
      BY <2>1
<1> QED
    BY <1>1 DEF Before

(* A functor queued for connection c in the loop it belongs to.            *)
LEMMA AddsAbout ==
    ASSUME SInv, NEW l \in Loops, NEW f, Adds(loops', loops, l, f), Owned(f, l),
           UNCHANGED <<numThreads, server, pool>>,
           connections' \subseteq connections,
           \A d \in DOMAIN conns : d # f.conn => (d \in connections' <=> d \in connections),
           NEW K, Recasts(conns', conns, f.conn, K)
    PROVE  About(f.conn)
<1>1. DOMAIN loops = Loops
    BY DEF SInv, LoopsTyped
<1>2. OnlyFor(loops', loops, f.conn)
    BY <1>1, AddsOnly
<1>3. \A k \in Loops : \A g \in All(loops'[k]) : g \in All(loops[k]) \/ Owned(g, k)
  <2> TAKE k \in Loops
  <2>1. CASE k = l
      BY <2>1 DEF Adds
  <2>2. CASE k # l
      BY <1>1, <2>2 DEF Adds
  <2> QED
      BY <2>1, <2>2
<1>4. AllGood(loops')
    BY DEF Adds
<1> QED
    BY <1>2, <1>3, <1>4 DEF About, Recasts

(* TcpConnection::handleClose.                                             *)
LEMMA CloseStep ==
    ASSUME SInv, NEW c \in DOMAIN conns, HandleClose(c)
    PROVE  SInv'
<1> DEFINE K == [conns[c] EXCEPT !.state = "kDisconnected"]
<1>1. conns \in Seq(Conn) /\ conns[c].loop \in Loops /\ Stage(c) /\ c \in Nat
    BY SMTT(60) DEF SInv, ConnsTyped, Stages
<1>2. conns[c] \in Conn
    BY <1>1, SMTT(60)
<1>3. /\ conns' = [conns EXCEPT ![c] = K]
      /\ UNCHANGED <<numThreads, server, pool, free>>
      /\ conns[c].state = "kConnected" /\ Handles(conns[c].loop)
    BY DEF HandleClose, acceptor
<1>4. /\ K \in Conn /\ K.loop = conns[c].loop /\ K.state = "kDisconnected"
      /\ K.destroyed = conns[c].destroyed
    BY <1>2, ConnsBecome
<1>5. Recasts(conns', conns, c, K)
    BY <1>1, <1>3, <1>4, ConnReplaced
<1>6. /\ conns'[c].loop = conns[c].loop /\ conns'[c].state = "kDisconnected"
      /\ conns'[c].destroyed = conns[c].destroyed
    BY <1>4, <1>5 DEF Recasts
<1> HIDE DEF K
<1>7. DescriptorsKept'
  <2>1. DOMAIN conns' = DOMAIN conns
      BY <1>5 DEF Recasts, SameLoops
  <2>2. \A d \in DOMAIN conns : conns'[d].destroyed = conns[d].destroyed
      BY <1>5, <1>6 DEF Recasts
  <2> QED
      BY <1>3, <2>1, <2>2, OpenSame DEF SInv
<1>8. conns[c].destroyed = 0 /\ ~HasEst(c) /\ ~HasRem(c)
    BY <1>1, <1>3 DEF Stage
<1>9. DOMAIN loops = Loops /\ Base \in Loops /\ AllGood(loops)
    BY DEF SInv, LoopsTyped, Loops
<1>10. /\ Est(c).conn = c /\ Des(c).conn = c /\ Rem(c).conn = c
       /\ Est(c) # Des(c) /\ Est(c) # Rem(c) /\ Des(c) # Rem(c)
       /\ Des(c) \in Fn /\ Rem(c) \in Fn
       /\ Des(c).call = "connectDestroyed" /\ Rem(c).call = "removeConnectionInLoop"
    BY <1>1, FunctorsDiffer, SMTT(60)
<1>11. CASE conns[c].loop = Base
  <2>1. /\ connections' = connections \ {c}
        /\ loops' = Push(loops, Base, Des(c))
      BY <1>11 DEF HandleClose, RemoveConnectionInLoop, Des
  <2>2. server.phase = "started"
      BY <1>3, <1>11 DEF Handles
  <2>3. c \in connections /\ ~HasDes(c)
      BY <1>1, <1>3, <2>2 DEF Stage
  <2>4. \A g \in All(loops[Base]) : Before(g, Des(c))
      BY <1>11, <2>3, MayFollow DEF HasDes
  <2>5. Adds(loops', loops, Base, Des(c))
      BY <1>9, <1>10, <2>1, <2>4, PushAdds
  <2>6. Owned(Des(c), Base)
      BY <1>10, <1>11 DEF Owned
  <2>7. About(c)
      BY <1>3, <1>5, <1>9, <1>10, <2>1, <2>5, <2>6, AddsAbout
  <2>8. ~HasEst(c)' /\ HasDes(c)' /\ ~HasRem(c)'
      BY <1>6, <1>8, <1>10, <1>11, <2>5 DEF HasEst, HasDes, HasRem, Adds, Base
  <2>9. 0 # 1
      BY SMTT(60)
  <2>10. Stage(c)'
      BY <1>3, <1>6, <1>8, <2>1, <2>8, <2>9 DEF Stage
  <2> QED
      BY <1>7, <2>7, <2>10, AboutKeeps
<1>12. CASE conns[c].loop # Base
  <2>1. /\ connections' = connections
        /\ loops' = Push(loops, Base, Rem(c))
      BY <1>12 DEF HandleClose, Rem
  <2>2. \A g \in All(loops[Base]) : Before(g, Rem(c))
      BY <1>8, MayFollow DEF HasRem
  <2>3. Adds(loops', loops, Base, Rem(c))
      BY <1>9, <1>10, <2>1, <2>2, PushAdds
  <2>4. Owned(Rem(c), Base)
      BY <1>10 DEF Owned
  <2>5. About(c)
      BY <1>3, <1>5, <1>9, <1>10, <2>1, <2>3, <2>4, AddsAbout
  <2>6. All(loops'[conns[c].loop]) = All(loops[conns[c].loop])
      BY <1>1, <1>9, <1>12, <2>3 DEF Adds
  <2>7. ~HasEst(c)' /\ (HasDes(c)' <=> HasDes(c))
      BY <1>6, <1>8, <2>6 DEF HasEst, HasDes
  <2>8. loops'[conns[c].loop].at = loops[conns[c].loop].at
      BY <1>1, <1>9, <2>3 DEF Adds
  <2>9. server.phase = "started" => HasRem(c)' /\ c \in connections
      BY <1>1, <1>3, <2>3 DEF Stage, HasRem, Adds, Base
  <2>10. Stage(c)'
      BY <1>1, <1>3, <1>6, <1>8, <1>12, <2>1, <2>7, <2>8, <2>9 DEF Stage, Base
  <2> QED
      BY <1>7, <2>5, <2>10, AboutKeeps
<1> QED
    BY <1>11, <1>12

(* TcpServer::removeConnectionInLoop, run by the base loop.                *)
LEMMA RemoveStep ==
    ASSUME SInv, FunctorRemove
    PROVE  SInv'
<1>1. Runs(Base, "removeConnectionInLoop")
    BY DEF FunctorRemove
<1>2. PICK h : h = Head(loops[Base].batch)
    OBVIOUS
<1>3. PICK c : c = h.conn
    OBVIOUS
<1>4. PICK p : p = Popped(Base)
    OBVIOUS
<1>5. DOMAIN loops = Loops /\ Base \in Loops /\ Base' = Base
    BY DEF SInv, LoopsTyped, Loops, Base
<1>6. /\ Drops(p, loops, Base, h) /\ h.call = "removeConnectionInLoop"
      /\ h \in All(loops[Base]) /\ h \in Fn
      /\ c \in DOMAIN conns /\ Stage(c) /\ conns[c] \in Conn
    BY <1>1, <1>2, <1>3, <1>4, <1>5, RunsHead
<1>7. conns' = conns /\ UNCHANGED <<numThreads, server, pool, free>>
    BY DEF FunctorRemove, acceptor
<1>8. h = Rem(c) /\ c \in Nat
    BY <1>3, <1>6, FunctorIs
<1>9. HasRem(c)
    BY <1>6, <1>8 DEF HasRem
<1>10. conns[c].state = "kDisconnected" /\ conns[c].loop # Base /\ ~HasEst(c)
    BY <1>6, <1>9 DEF Stage
<1>11. conns \in Seq(Conn) /\ conns[c].loop \in Loops
    BY <1>6 DEF SInv, ConnsTyped
<1>12. Recasts(conns', conns, c, conns[c])
    BY <1>7, <1>11 DEF Recasts, SameLoops
<1>13. DescriptorsKept'
    BY <1>7, OpenSame DEF SInv
<1>14. All(p[conns[c].loop]) = All(loops[conns[c].loop])
    BY <1>5, <1>6, <1>10, <1>11 DEF Drops
<1>15. /\ Est(c).conn = c /\ Des(c).conn = c /\ Rem(c).conn = c
       /\ Est(c) # Des(c) /\ Est(c) # Rem(c) /\ Des(c) # Rem(c)
       /\ Des(c) \in Fn /\ Des(c).call = "connectDestroyed"
    BY <1>8, FunctorsDiffer, SMTT(60)
<1>16. CASE server.phase = "destroyed"
  <2>1. loops' = p /\ connections' = connections
      BY <1>4, <1>16 DEF FunctorRemove
  <2>2. About(c)
      BY <1>3, <1>5, <1>6, <1>7, <1>12, <2>1, DropsAbout
  <2>3. ~HasEst(c)' /\ (HasDes(c)' <=> HasDes(c))
      BY <1>7, <1>10, <1>14, <2>1 DEF HasEst, HasDes
  <2>4. loops'[conns[c].loop].at = loops[conns[c].loop].at
      BY <1>5, <1>6, <1>11, <2>1 DEF Drops
  <2>5. server'.phase # "started"
      BY <1>7, <1>16
  <2>6. Stage(c)'
      BY <1>5, <1>6, <1>7, <1>10, <2>1, <2>3, <2>4, <2>5 DEF Stage
  <2> QED
      BY <1>6, <1>13, <2>2, <2>6, AboutKeeps
<1>17. CASE server.phase # "destroyed"
  <2>1. /\ connections' = connections \ {c}
        /\ loops' = Push(p, conns[c].loop, Des(c))
      BY <1>2, <1>3, <1>4, <1>17 DEF FunctorRemove, RemoveConnectionInLoop, Des
  <2>2. server.phase = "started"
    <3>1. server.phase \in Phases
        BY SMTT(60) DEF SInv, ServerTyped
    <3>2. server.phase # "destructing"
        BY <1>1 DEF Runs
    <3>3. conns # <<>>
        BY <1>6, SMTT(60)
    <3> QED
        BY <1>17, <3>1, <3>2, <3>3 DEF Phases, SInv, PoolTyped
  <2>3. c \in connections /\ ~HasDes(c) /\ conns[c].destroyed = 0
      BY <1>6, <1>9, <2>2 DEF Stage
  <2>4. \A g \in All(p[conns[c].loop]) : Before(g, Des(c))
      BY <1>14, <2>3, MayFollow DEF HasDes
  <2>5. AllGood(p) /\ DOMAIN p = Loops
      BY <1>5, <1>6 DEF Drops
  <2>6. Adds(loops', p, conns[c].loop, Des(c))
      BY <1>11, <1>15, <2>1, <2>4, <2>5, PushAdds
  <2>7. OnlyFor(loops', loops, c)
    <3>1. OnlyFor(p, loops, c)
        BY <1>3, <1>5, <1>6, DropsOnly
    <3>2. OnlyFor(loops', p, c)
        BY <1>11, <1>15, <2>5, <2>6, AddsOnly
    <3> QED
        BY <3>1, <3>2, OnlyTwice
  <2>8. Owned(Des(c), conns[c].loop)
      BY <1>6, <1>15 DEF Owned
  <2>9. \A k \in Loops : \A g \in All(loops'[k]) : g \in All(loops[k]) \/ Owned(g, k)
    <3>1. \A k \in Loops : \A g \in All(p[k]) : g \in All(loops[k])
        BY <1>5, <1>6 DEF Drops
    <3> TAKE k \in Loops
    <3>2. CASE k = conns[c].loop
        BY <2>6, <2>8, <3>1, <3>2 DEF Adds
    <3>3. CASE k # conns[c].loop
        BY <2>5, <2>6, <3>1, <3>3 DEF Adds
    <3> QED
        BY <3>2, <3>3
  <2>10. AllGood(loops')
      BY <2>6 DEF Adds
  <2>11. About(c)
      BY <1>7, <1>12, <2>1, <2>7, <2>9, <2>10 DEF About, Recasts
  <2>12. ~HasEst(c)' /\ HasDes(c)'
    <3>1. All(loops'[conns[c].loop]) = All(loops[conns[c].loop]) \cup {Des(c)}
        BY <1>14, <2>6 DEF Adds
    <3> QED
        BY <1>7, <1>10, <1>15, <3>1 DEF HasEst, HasDes
  <2>13. ~HasRem(c)'
    <3>1. All(loops'[Base]) = All(p[Base])
        BY <1>5, <1>10, <2>5, <2>6 DEF Adds
    <3>2. Rem(c) \notin All(p[Base])
        BY <1>6, <1>8 DEF Drops
    <3> QED
        BY <1>5, <3>1, <3>2 DEF HasRem
  <2>14. 0 # 1
      BY SMTT(60)
  <2>15. Stage(c)'
      BY <1>7, <1>10, <2>1, <2>3, <2>12, <2>13, <2>14 DEF Stage
  <2> QED
      BY <1>6, <1>13, <2>11, <2>15, AboutKeeps
<1> QED
    BY <1>16, <1>17

-----------------------------------------------------------------------------
(* Steps that concern no single connection.                                *)

(* The pool has as many loops as threads, or none yet.                     *)
LEMMA PoolLength ==
    ASSUME SInv
    PROVE  /\ numThreads \in Nat
           /\ Len(pool.loops) \in {0, numThreads}
           /\ pool.loops # <<>> => Len(pool.loops) = numThreads /\ numThreads > 0
           /\ server.phase = "started" => Len(pool.loops) = numThreads
<1>1. numThreads \in Nat
    BY DEF SInv, ServerTyped
<1>2. /\ Len([i \in 1 .. numThreads |-> i]) = numThreads
      /\ numThreads = 0 => [i \in 1 .. numThreads |-> i] = <<>>
    BY <1>1, SMTT(60)
<1>3. Len(<<>>) = 0
    BY SMTT(60)
<1>4. numThreads # 0 => numThreads > 0
    BY <1>1, SMTT(60)
<1> QED
    BY <1>1, <1>2, <1>3, <1>4 DEF SInv, PoolTyped, PoolLoops

(* Stuttering, too, moves the functors within the loops.                   *)
LEMMA StillMoves ==
    ASSUME AllGood(loops), loops' = loops
    PROVE  Moves(loops', loops)
  BY DEF Moves

(* EventLoop::doPendingFunctors takes the queue,                           *)
LEMMA TakeStep ==
    ASSUME SInv, NEW l \in Loops, TakeBatch(l)
    PROVE  SInv'
<1>1. AllGood(loops) /\ l \in DOMAIN loops
    BY DEF SInv, LoopsTyped
<1>2. Moves(loops', loops)
    BY <1>1, TakeMoves DEF TakeBatch
<1> QED
    BY <1>2, QuietKeeps DEF TakeBatch, acceptor

(* loop() goes on to its next iteration or ends,                           *)
LEMMA EndStep ==
    ASSUME SInv, NEW l \in Loops, EndIteration(l)
    PROVE  SInv'
<1>1. AllGood(loops) /\ l \in DOMAIN loops
    BY DEF SInv, LoopsTyped
<1>2. PICK a \in Ats : a = IF loops[l].quit THEN "exited" ELSE "poll"
    BY DEF Ats
<1>3. loops[l] \in Loop /\ loops[l].quit \in BOOLEAN
    BY <1>1, LoopFields DEF AllGood
<1>4. [loops[l] EXCEPT !.at = a] = [at |-> a, quit |-> loops[l].quit,
             pending |-> loops[l].pending, batch |-> loops[l].batch]
    BY <1>3, FlagExcept
<1>5. loops' = [loops EXCEPT ![l] = [loops[l] EXCEPT !.at = a]]
    BY <1>2 DEF EndIteration
<1>6. loops[l].batch = <<>> /\ loops[l].at # "exited"
    BY DEF EndIteration
<1>7. Moves(loops', loops)
    BY <1>1, <1>3, <1>4, <1>5, <1>6, FlagsMove
<1> QED
    BY <1>7, QuietKeeps DEF EndIteration, acceptor

(* and ~EventLoopThread tells it to.                                       *)
LEMMA QuitStep ==
    ASSUME SInv, Quit
    PROVE  SInv'
<1>1. PICK l : l = server.joins
    OBVIOUS
<1>2. l \in Loops
  <2>1. server.joins \in 1 .. numThreads + 1 /\ server.joins <= Len(pool.loops)
      BY SMTT(60) DEF SInv, ServerTyped, Quit
  <2> QED
      BY <1>1, <2>1, PoolLength, SMTT(60) DEF Loops, PoolLoops
<1>3. AllGood(loops) /\ l \in DOMAIN loops
    BY <1>2 DEF SInv, LoopsTyped
<1>4. /\ loops[l] \in Loop /\ loops[l].at \in Ats
      /\ loops[l].at # "functors" => loops[l].batch = <<>>
    BY <1>3, LoopFields DEF AllGood, Good
<1>5. [loops[l] EXCEPT !.quit = TRUE] = [at |-> loops[l].at, quit |-> TRUE,
             pending |-> loops[l].pending, batch |-> loops[l].batch]
    BY <1>4, FlagExcept
<1>6. loops' = [loops EXCEPT ![l] = [loops[l] EXCEPT !.quit = TRUE]]
    BY <1>1 DEF Quit
<1>7. Moves(loops', loops)
    BY <1>3, <1>4, <1>5, <1>6, FlagsMove
<1> QED
    BY <1>7, QuietKeeps DEF Quit, acceptor

(* A peer that connects, or that is turned away.                           *)
LEMMA PeerStep ==
    ASSUME SInv, PeerConnects \/ HandleReadFull
    PROVE  SInv'
<1>1. UNCHANGED <<numThreads, server, pool, connections, conns, free, loops>>
    BY DEF PeerConnects, HandleReadFull
<1>2. Moves(loops', loops)
    BY <1>1, StillMoves DEF SInv, LoopsTyped
<1> QED
    BY <1>1, <1>2, QuietKeeps

(* ~EventLoopThread joins one thread after the other.                      *)
LEMMA JoinedStep ==
    ASSUME SInv, Joined
    PROVE  SInv'
<1>1. /\ UNCHANGED <<numThreads, pool, connections, conns, free, loops>>
      /\ server.phase = "destructing"
    BY DEF Joined, acceptor
<1>2. server \in [phase : Phases, joins : 1 .. numThreads + 1] /\ connections = {}
    BY <1>1 DEF SInv, ServerTyped
<1>3. /\ server' \in [phase : Phases, joins : 1 .. numThreads + 1]
      /\ server'.phase \in {"destructing", "destroyed"}
  <2>1. CASE server.joins <= Len(pool.loops)
    <3>1. server.joins + 1 \in 1 .. numThreads + 1
        BY <1>2, <2>1, PoolLength, SMTT(60)
    <3>2. server' = [server EXCEPT !.joins = server.joins + 1]
        BY <2>1 DEF Joined
    <3> QED
        BY <1>1, <1>2, <3>1, <3>2, SMTT(60)
  <2>2. CASE ~(server.joins <= Len(pool.loops))
    <3>1. server' = [server EXCEPT !.phase = "destroyed"]
        BY <2>2 DEF Joined
    <3> QED
        BY <1>2, <3>1, SMTT(60) DEF Phases
  <2> QED
      BY <2>1, <2>2
<1>4. ServerTyped'
    BY <1>1, <1>2, <1>3 DEF SInv, ServerTyped
<1>5. Loops' = Loops /\ PoolLoops' = PoolLoops /\ Base' = Base
    BY <1>1 DEF Loops, PoolLoops, Base
<1>6. PoolTyped'
    BY <1>1, <1>3, <1>5 DEF SInv, PoolTyped
<1>7. ConnsTyped' /\ LoopsTyped' /\ Own' /\ DescriptorsKept'
    BY <1>1, <1>5 DEF SInv, ConnsTyped, LoopsTyped, Own, Owned, DescriptorsKept, Open
<1>8. Turns'
  <2>1. conns \in Seq(Conn)
      BY DEF SInv, ConnsTyped
  <2>2. SameLoops(conns', conns)
      BY <1>1, <2>1 DEF SameLoops
  <2> QED
      BY <1>1, <2>2, LoadsSame DEF SInv
<1>9. ASSUME NEW c \in DOMAIN conns PROVE Stage(c)'
  <2>1. SameQueued(c)
      BY <1>1, <1>5 DEF SameQueued, HasEst, HasDes, HasRem
  <2>2. Stage(c)
      BY DEF SInv, Stages
  <2> QED
      BY <1>1, <1>3, <2>1, <2>2, StageSame
<1>10. Stages'
    BY <1>1, <1>9 DEF Stages
<1> QED
    BY <1>4, <1>6, <1>7, <1>8, <1>10 DEF SInv

(* A queue without functors is empty.                                      *)
LEMMA NoneQueued ==
    ASSUME NEW q \in Seq(Fn), Range(q) = {}
    PROVE  q = <<>>
<1>1. \A i \in DOMAIN q : q[i] \in Range(q)
    BY DEF Range
<1>2. 1 \notin DOMAIN q
    BY <1>1
<1>3. Len(q) \in Nat /\ DOMAIN q = 1 .. Len(q)
    BY SMTT(60)
<1>4. Len(q) = 0
    BY <1>2, <1>3, SMTT(60)
<1> QED
    BY <1>4, SMTT(60)

(* TcpServer::start.                                                       *)
LEMMA StartStep ==
    ASSUME SInv, Start
    PROVE  SInv'
<1>1. /\ UNCHANGED <<numThreads, connections, conns, free>>
      /\ server.phase = "constructed"
      /\ server' = [server EXCEPT !.phase = "started"]
      /\ pool' = [pool EXCEPT !.loops = [i \in PoolLoops |-> i]]
      /\ loops' = [l \in Loops |-> [loops[l] EXCEPT !.at = "poll"]]
    BY DEF Start, StartPool, acceptor
<1>2. /\ conns = <<>> /\ pool.loops = <<>> /\ numThreads \in Nat
      /\ pool = [loops |-> pool.loops, next |-> pool.next]
      /\ pool.next \in 1 .. Len(pool.loops) + 1
    BY <1>1 DEF SInv, PoolTyped, ServerTyped
<1>3. DOMAIN conns = {} /\ pool.next = 1
    BY <1>2, SMTT(60)
<1>4. DOMAIN loops = Loops /\ AllGood(loops)
    BY DEF SInv, LoopsTyped
<1>5. \A l \in Loops : All(loops[l]) = {}
    BY <1>3 DEF SInv, Own, Owned
<1>6. ASSUME NEW l \in Loops
      PROVE  Good(loops'[l]) /\ All(loops'[l]) = {} /\ loops'[l] \in Loop
  <2>1. PICK r : r = loops[l]
      OBVIOUS
  <2>2. r \in Loop /\ Good(r) /\ All(r) = {}
      BY <1>4, <1>5, <2>1 DEF AllGood
  <2>3. r.batch \in Seq(Fn) /\ r.pending \in Seq(Fn) /\ r.quit \in BOOLEAN /\ "poll" \in Ats
      BY <2>2, LoopFields DEF Ats
  <2>4. Range(r.batch) = {}
      BY <2>2 DEF All
  <2>5. r.batch = <<>>
      BY <2>3, <2>4, NoneQueued
  <2>6. PICK t : t = [at |-> "poll", quit |-> r.quit, pending |-> r.pending, batch |-> r.batch]
      OBVIOUS
  <2>7. loops'[l] = t
      BY <1>1, <2>1, <2>2, <2>3, <2>6, FlagExcept
  <2>8. t \in Loop
      BY <2>3, <2>6, LoopOf
  <2>9. t.batch = r.batch /\ t.pending = r.pending /\ t.at = "poll"
      BY <2>6
  <2>10. Good(t)
      BY <2>2, <2>5, <2>8, <2>9 DEF Good
  <2>11. All(t) = {}
      BY <2>2, <2>9 DEF All
  <2> QED
      BY <2>7, <2>8, <2>10, <2>11
<1>7. /\ Loops' = Loops /\ PoolLoops' = PoolLoops /\ DOMAIN loops' = Loops
      /\ loops' \in [Loops -> Loop]
    BY <1>1, <1>6 DEF Loops, PoolLoops
<1>8. LoopsTyped'
    BY <1>6, <1>7 DEF LoopsTyped, AllGood
<1>9. Own'
    BY <1>6, <1>7 DEF Own
<1>10. Stages' /\ ConnsTyped'
    BY <1>1, <1>3 DEF Stages, ConnsTyped, SInv
<1>11. DescriptorsKept'
    BY <1>1, OpenSame DEF SInv
<1>12. /\ server' \in [phase : Phases, joins : 1 .. numThreads + 1]
       /\ server'.phase = "started"
    BY <1>1, SMTT(60) DEF SInv, ServerTyped, Phases
<1>13. ServerTyped'
    BY <1>1, <1>2, <1>12 DEF ServerTyped
<1>14. pool' = [loops |-> [i \in PoolLoops |-> i], next |-> 1]
    BY <1>1, <1>2, <1>3, SMTT(60)
<1>15. pool'.loops = [i \in PoolLoops |-> i] /\ pool'.next = 1
    BY <1>14
<1>16. /\ 1 \in 1 .. Len([i \in PoolLoops |-> i]) + 1
       /\ [i \in PoolLoops |-> i] # <<>> => 1 \in PoolLoops
    BY <1>2, SMTT(60) DEF PoolLoops
<1>17. PoolTyped'
    BY <1>7, <1>12, <1>14, <1>15, <1>16 DEF PoolTyped
<1>18. Turns'
  <2>1. SameLoops(conns', conns)
      BY <1>1 DEF SameLoops, SInv, ConnsTyped
  <2> QED
      BY <1>1, <1>3, <1>15, <2>1, LoadsSame DEF SInv
<1> QED
    BY <1>8, <1>9, <1>10, <1>11, <1>13, <1>17, <1>18 DEF SInv

(* A server that is new.                                                   *)
LEMMA InitSInv == Init => SInv
<1> SUFFICES ASSUME Init PROVE SInv
    OBVIOUS
<1>1. /\ numThreads \in Nat /\ Descriptors \in Nat
      /\ server = [phase |-> "constructed", joins |-> 1]
      /\ pool = [loops |-> <<>>, next |-> 1]
      /\ connections = {} /\ conns = <<>> /\ free = Descriptors
      /\ loops = [l \in Loops |-> [at |-> IF l = Base THEN "poll" ELSE "none", quit |-> FALSE,
                                   pending |-> <<>>, batch |-> <<>>]]
    BY ServerAssumption DEF Init
<1>2. DOMAIN conns = {} /\ <<>> \in Seq(Conn) /\ <<>> \in Seq(Fn)
    BY <1>1, SMTT(60)
<1>3. Fine(<<>>) /\ Range(<<>>) = {}
    BY SMTT(60) DEF Fine, Range
<1>4. ASSUME NEW l \in Loops
      PROVE  loops[l] \in Loop /\ Good(loops[l]) /\ All(loops[l]) = {}
  <2>1. PICK a : a = IF l = Base THEN "poll" ELSE "none"
      OBVIOUS
  <2>2. a \in Ats /\ a # "functors" /\ FALSE \in BOOLEAN
      BY <2>1 DEF Ats
  <2>3. PICK r : r = [at |-> a, quit |-> FALSE, pending |-> <<>>, batch |-> <<>>]
      OBVIOUS
  <2>4. r \in Loop
      BY <1>2, <2>2, <2>3, LoopOf
  <2>5. r.at = a /\ r.pending = <<>> /\ r.batch = <<>>
      BY <2>3
  <2>6. Good(r)
      BY <1>3, <2>2, <2>4, <2>5 DEF Good
  <2>7. All(r) = {}
      BY <1>3, <2>5 DEF All
  <2>8. loops[l] = r
      BY <1>1, <2>1, <2>3
  <2> QED
      BY <2>4, <2>6, <2>7, <2>8
<1>5. DOMAIN loops = Loops /\ loops \in [Loops -> Loop]
    BY <1>1, <1>4
<1>6. LoopsTyped /\ Own
    BY <1>4, <1>5 DEF LoopsTyped, AllGood, Own
<1>7. Stages /\ ConnsTyped
    BY <1>1, <1>2 DEF Stages, ConnsTyped
<1>8. server \in [phase : Phases, joins : 1 .. numThreads + 1] /\ server.phase = "constructed"
    BY <1>1, SMTT(60) DEF Phases
<1>9. ServerTyped
    BY <1>1, <1>8 DEF ServerTyped
<1>10. pool.loops = <<>> /\ pool.next = 1 /\ 1 \in 1 .. Len(<<>>) + 1
    BY <1>1, SMTT(60)
<1>11. PoolTyped
    BY <1>1, <1>8, <1>10 DEF PoolTyped
<1>12. Open = {} /\ \A l : {c \in DOMAIN conns : conns[c].loop = l} = {}
    BY <1>2 DEF Open
<1>13. Cardinality({}) = 0
    BY FS_EmptySet
<1>14. DescriptorsKept
    BY <1>1, <1>12, <1>13, SMTT(60) DEF DescriptorsKept
<1>15. \A l \in PoolLoops : Load(l) = IF l < pool.next THEN 0 + 1 ELSE 0
  <2>1. \A l : Load(l) = 0
      BY <1>12, <1>13 DEF Load
  <2>2. \A l \in PoolLoops : ~(l < 1)
      BY <1>1, SMTT(60) DEF PoolLoops
  <2> QED
      BY <1>10, <2>1, <2>2
<1>16. 0 \in Nat
    BY SMTT(60)
<1>17. Turns
    BY <1>15, <1>16 DEF Turns
<1> QED
    BY <1>6, <1>7, <1>9, <1>11, <1>14, <1>17 DEF SInv

-----------------------------------------------------------------------------
(* A new connection.                                                       *)

(* cs2 has the connections of cs and K as connection n.                    *)
Grows(cs2, cs, n, K) ==
    /\ cs2 \in Seq(Conn) /\ K \in Conn
    /\ n \in Nat /\ n \notin DOMAIN cs /\ DOMAIN cs2 = DOMAIN cs \cup {n}
    /\ cs2[n] = K /\ \A d \in DOMAIN cs : cs2[d] = cs[d]

(* What Append does to the connections.                                    *)
LEMMA ConnAppended ==
    ASSUME NEW cs \in Seq(Conn), NEW K \in Conn
    PROVE  Grows(Append(cs, K), cs, Len(cs) + 1, K)
<1>1. /\ Append(cs, K) \in Seq(Conn)
      /\ DOMAIN Append(cs, K) = 1 .. Len(cs) + 1 /\ DOMAIN cs = 1 .. Len(cs) /\ Len(cs) \in Nat
      /\ Append(cs, K)[Len(cs) + 1] = K
      /\ \A d \in 1 .. Len(cs) : Append(cs, K)[d] = cs[d]
    BY SMTT(60)
<1>2. /\ Len(cs) + 1 \in Nat /\ Len(cs) + 1 \notin 1 .. Len(cs)
      /\ 1 .. Len(cs) + 1 = 1 .. Len(cs) \cup {Len(cs) + 1}
    BY <1>1, SMTT(60)
<1> QED
    BY <1>1, <1>2 DEF Grows

(* The loop of the new connection has one more to carry.                   *)
LEMMA LoadGrows ==
    ASSUME conns \in Seq(Conn), NEW n, NEW K, Grows(conns', conns, n, K), NEW l
    PROVE  /\ Load(l) \in Nat
           /\ Load(l)' = IF K.loop = l THEN Load(l) + 1 ELSE Load(l)
<1> DEFINE S == {c \in DOMAIN conns : conns[c].loop = l}
           T == {c \in DOMAIN conns' : conns'[c].loop = l}
<1>1. S \in SUBSET DOMAIN conns /\ n \notin S
    BY DEF Grows
<1>2. IsFiniteSet(S) /\ Cardinality(S) \in Nat
  <2>1. IsFiniteSet(DOMAIN conns)
      BY OpenFinite
  <2>2. IsFiniteSet(S)
      BY <1>1, <2>1, FS_Subset
  <2> QED
      BY <2>2, FS_CardinalityType
<1>3. Load(l) = Cardinality(S) /\ Load(l)' = Cardinality(T)
    BY DEF Load
<1>4. CASE K.loop = l
  <2>1. T = S \cup {n}
      BY <1>4 DEF Grows
  <2>2. Cardinality(T) = Cardinality(S) + 1
      BY <1>1, <1>2, <2>1, FS_AddElement
  <2> QED
      BY <1>2, <1>3, <1>4, <2>2
<1>5. CASE K.loop # l
  <2>1. T = S
      BY <1>5 DEF Grows
  <2> QED
      BY <1>2, <1>3, <1>5, <2>1
<1> QED
    BY <1>4, <1>5

(* No functor of a connection that does not exist is queued.               *)
LEMMA NotQueuedYet ==
    ASSUME SInv, NEW n, n \notin DOMAIN conns, NEW l \in Loops, NEW f \in All(loops[l])
    PROVE  f.conn # n /\ f # Est(n) /\ f # Des(n) /\ f # Rem(n)
<1>1. f.conn # n
    BY DEF SInv, Own, Owned
<1>2. Est(n).conn = n /\ Des(n).conn = n /\ Rem(n).conn = n
    BY FunctorsDiffer
<1> QED
    BY <1>1, <1>2

(* What does not depend on the loop that the connection is given to.       *)
LEMMA NewKeeps ==
    ASSUME SInv, NEW n, NEW K, Grows(conns', conns, n, K), K.loop \in Loops,
           UNCHANGED <<numThreads, server>>, connections' = connections \cup {n},
           K.destroyed = 0, free > 0, free' = free - 1,
           AllGood(loops'), OnlyFor(loops', loops, n),
           \A l \in Loops : \A f \in All(loops'[l]) :
               f \in All(loops[l]) \/ (f = Est(n) /\ l = K.loop),
           Stage(n)', server.phase = "started"
    PROVE  ServerTyped' /\ ConnsTyped' /\ LoopsTyped' /\ Own' /\ Stages' /\ DescriptorsKept'
<1>1. /\ Loops' = Loops /\ DOMAIN loops = Loops /\ Base' = Base
      /\ DOMAIN loops' = Loops
    BY DEF SInv, LoopsTyped, Loops, PoolLoops, Base, OnlyFor
<1>2. ServerTyped'
    BY DEF SInv, ServerTyped
<1>3. ConnsTyped'
  <2>1. connections' \subseteq DOMAIN conns'
      BY DEF Grows, SInv, ConnsTyped
  <2>2. \A c \in DOMAIN conns' : conns'[c].loop \in Loops
      BY DEF Grows, SInv, ConnsTyped
  <2> QED
      BY <1>1, <2>1, <2>2 DEF ConnsTyped, Grows
<1>4. LoopsTyped'
    BY <1>1 DEF LoopsTyped
<1>5. Own'
  <2> SUFFICES ASSUME NEW l \in Loops, NEW f \in All(loops'[l])
               PROVE  Owned(f, l)'
      BY <1>1 DEF Own
  <2>1. CASE f \in All(loops[l])
    <3>1. Owned(f, l)
        BY <2>1 DEF SInv, Own
    <3> QED
        BY <1>1, <3>1 DEF Owned, Grows
  <2>2. CASE f = Est(n) /\ l = K.loop
    <3>1. f.conn = n /\ f.call = "connectEstablished"
        BY <2>2, FunctorsDiffer
    <3> QED
        BY <2>2, <3>1 DEF Owned, Grows
  <2> QED
      BY <2>1, <2>2
<1>6. ASSUME NEW d \in DOMAIN conns PROVE Stage(d)'
  <2>1. conns[d].loop \in Loops /\ Stage(d)
      BY DEF SInv, ConnsTyped, Stages
  <2>2. d # n /\ conns'[d] = conns[d] /\ (d \in connections' <=> d \in connections)
      BY DEF Grows
  <2>3. SameQueued(d)
      BY <1>1, <2>1, <2>2, OthersSame
  <2>4. loops'[conns[d].loop].at = loops[conns[d].loop].at
      BY <1>1, <2>1 DEF OnlyFor
  <2> QED
      BY <2>1, <2>2, <2>3, <2>4, StageSame
<1>7. Stages'
    BY <1>6 DEF Stages, Grows
<1>8. DescriptorsKept'
  <2>1. Open' = Open \cup {n} /\ n \notin Open
      BY DEF Open, Grows
  <2>2. conns \in Seq(Conn)
      BY DEF SInv, ConnsTyped
  <2>3. IsFiniteSet(Open) /\ Cardinality(Open) \in Nat
      BY <2>2, OpenFinite
  <2>4. Cardinality(Open') = Cardinality(Open) + 1
      BY <2>1, <2>3, FS_AddElement
  <2>5. free \in Nat /\ free + Cardinality(Open) = Descriptors
      BY DEF SInv, DescriptorsKept
  <2>6. free' \in Nat /\ free' + Cardinality(Open') = Descriptors
      BY <2>3, <2>4, <2>5, SMTT(60)
  <2> QED
      BY <2>6 DEF DescriptorsKept
<1> QED
    BY <1>2, <1>3, <1>4, <1>5, <1>7, <1>8

(* The next loop of the pool gets the connection, and the turn goes on.    *)
LEMMA TurnsGoOn ==
    ASSUME SInv, NEW n, NEW K, Grows(conns', conns, n, K), numThreads' = numThreads,
           pool.loops # <<>>, K.loop = pool.next, pool'.next = Advance(pool.next)
    PROVE  Turns' /\ pool'.next \in PoolLoops
<1>1. conns \in Seq(Conn) /\ pool.next \in PoolLoops /\ PoolLoops' = PoolLoops
    BY DEF SInv, ConnsTyped, PoolTyped, PoolLoops
<1>2. numThreads \in Nat /\ Len(pool.loops) = numThreads /\ numThreads > 0
    BY PoolLength
<1>3. PICK m \in Nat : \A l \in PoolLoops : Load(l) = IF l < pool.next THEN m + 1 ELSE m
    BY DEF SInv, Turns
<1>4. \A l : Load(l)' = IF pool.next = l THEN Load(l) + 1 ELSE Load(l)
    BY <1>1, LoadGrows
<1>5. \A l \in PoolLoops : Load(l)' =
          IF pool.next = l THEN m + 1 ELSE IF l < pool.next THEN m + 1 ELSE m
  <2> TAKE l \in PoolLoops
  <2>1. CASE l = pool.next
    <3>1. ~(l < pool.next)
        BY <1>1, <2>1, SMTT(60) DEF PoolLoops
    <3> QED
        BY <1>3, <1>4, <2>1, <3>1
  <2>2. CASE l # pool.next
      BY <1>3, <1>4, <2>2
  <2> QED
      BY <2>1, <2>2
<1>6. CASE pool.next + 1 > numThreads
  <2>1. pool'.next = 1 /\ 1 \in PoolLoops
      BY <1>1, <1>2, <1>6, SMTT(60) DEF Advance, PoolLoops
  <2>2. \A l \in PoolLoops : (l = pool.next \/ l < pool.next) /\ ~(l < 1)
      BY <1>1, <1>2, <1>6, SMTT(60) DEF PoolLoops
  <2>3. m + 1 \in Nat
      BY SMTT(60)
  <2>4. \A l \in PoolLoops : Load(l)' = IF l < pool'.next THEN (m + 1) + 1 ELSE m + 1
      BY <1>5, <2>1, <2>2
  <2> QED
      BY <1>1, <2>1, <2>3, <2>4 DEF Turns
<1>7. CASE ~(pool.next + 1 > numThreads)
  <2>1. pool'.next = pool.next + 1 /\ pool.next + 1 \in PoolLoops
      BY <1>1, <1>2, <1>7, SMTT(60) DEF Advance, PoolLoops
  <2>2. \A l \in PoolLoops : (l < pool.next + 1 <=> l = pool.next \/ l < pool.next)
      BY <1>1, <1>2, SMTT(60) DEF PoolLoops
  <2>3. \A l \in PoolLoops : Load(l)' = IF l < pool'.next THEN m + 1 ELSE m
      BY <1>5, <2>1, <2>2
  <2> QED
      BY <1>1, <2>1, <2>3 DEF Turns
<1> QED
    BY <1>6, <1>7

(* Acceptor::handleRead with TcpServer::newConnection.                     *)
LEMMA AcceptStep ==
    ASSUME SInv, HandleRead
    PROVE  SInv'
<1>1. PICK n : n = Len(conns) + 1
    OBVIOUS
<1>2. PICK io : io = GetNextLoop
    OBVIOUS
<1>3. PICK k : k = [loop |-> io, state |-> "kConnecting", destroyed |-> 0]
    OBVIOUS
<1>4. /\ UNCHANGED <<numThreads, server>> /\ server.phase = "started"
      /\ free > 0 /\ free' = free - 1
    BY DEF HandleRead, Handles
<1>5. /\ connections' = connections \cup {n}
      /\ io = Base => conns' = Append(conns, Established(k)) /\ loops' = loops
      /\ io # Base => conns' = Append(conns, k) /\ loops' = Push(loops, io, Est(n))
      /\ pool' = IF pool.loops = <<>> THEN pool ELSE [pool EXCEPT !.next = Advance(pool.next)]
    BY <1>1, <1>2, <1>3 DEF HandleRead, NewConnection, Est
<1>6. /\ conns \in Seq(Conn) /\ DOMAIN loops = Loops /\ AllGood(loops)
      /\ Base \in Loops /\ Base' = Base /\ numThreads \in Nat
      /\ PoolLoops' = PoolLoops /\ pool.loops = [i \in PoolLoops |-> i]
      /\ pool = [loops |-> pool.loops, next |-> pool.next]
      /\ pool.next \in 1 .. Len(pool.loops) + 1
    BY <1>4 DEF SInv, ConnsTyped, LoopsTyped, Loops, Base, ServerTyped, PoolTyped, PoolLoops
<1>7. 0 # 1
    BY SMTT(60)
<1>8. CASE pool.loops = <<>>
  <2>1. io = Base
      BY <1>2, <1>8 DEF GetNextLoop
  <2>2. PICK K : K = Established(k)
      OBVIOUS
  <2>3. k \in Conn /\ k.loop = Base /\ k.destroyed = 0
      BY <1>3, <2>1, SMTT(60) DEF Conn, States, Base
  <2>4. /\ K \in Conn /\ K.loop = Base /\ K.state = "kConnected" /\ K.destroyed = 0
      BY <2>2, <2>3, ConnsBecome
  <2>5. Grows(conns', conns, n, K)
      BY <1>1, <1>5, <1>6, <2>1, <2>2, <2>4, ConnAppended
  <2>6. AllGood(loops') /\ OnlyFor(loops', loops, n) /\ loops' = loops
      BY <1>5, <1>6, <2>1 DEF OnlyFor
  <2>7. n \notin DOMAIN conns /\ conns'[n] = K
      BY <2>5 DEF Grows
  <2>8. ~HasEst(n)' /\ ~HasDes(n)' /\ ~HasRem(n)'
      BY <1>6, <2>4, <2>6, <2>7, NotQueuedYet DEF HasEst, HasDes, HasRem
  <2>9. Stage(n)'
      BY <1>4, <1>5, <1>7, <2>4, <2>7, <2>8 DEF Stage
  <2>10. ServerTyped' /\ ConnsTyped' /\ LoopsTyped' /\ Own' /\ Stages' /\ DescriptorsKept'
      BY <1>4, <1>5, <1>6, <2>4, <2>5, <2>6, <2>9, NewKeeps
  <2>11. numThreads = 0
      BY <1>6, <1>8, SMTT(60) DEF PoolLoops
  <2>12. PoolLoops = {} /\ 0 \in Nat
      BY <2>11, SMTT(60) DEF PoolLoops
  <2>13. Turns'
      BY <1>6, <2>12 DEF Turns
  <2>14. PoolTyped'
      BY <1>4, <1>5, <1>6, <1>8 DEF PoolTyped
  <2> QED
      BY <2>10, <2>13, <2>14 DEF SInv
<1>9. CASE pool.loops # <<>>
  <2>1. pool.next \in PoolLoops
      BY <1>9 DEF SInv, PoolTyped
  <2>2. io = pool.next /\ io \in Loops
      BY <1>2, <1>6, <1>9, <2>1 DEF GetNextLoop, Loops
  <2>3. io # Base /\ io \in Nat
      BY <1>6, <2>1, <2>2, SMTT(60) DEF Base, PoolLoops
  <2>4. /\ k \in Conn /\ k.loop = io /\ k.state = "kConnecting" /\ k.destroyed = 0
      BY <1>3, <2>3, SMTT(60) DEF Conn, States
  <2>5. Grows(conns', conns, n, k)
      BY <1>1, <1>5, <1>6, <2>3, <2>4, ConnAppended
  <2>6. n \notin DOMAIN conns /\ conns'[n] = k /\ n \in Nat
      BY <2>5 DEF Grows
  <2>7. Est(n) \in Fn /\ Est(n).conn = n /\ Est(n) # Des(n) /\ Est(n) # Rem(n)
      BY <2>6, FunctorsDiffer, SMTT(60)
  <2>8. \A g \in All(loops[io]) : Before(g, Est(n))
    <3> TAKE g \in All(loops[io])
    <3>1. g.conn # n /\ g # Est(n)
        BY <2>2, <2>6, NotQueuedYet
    <3>2. Est(g.conn) # Est(n)
        BY <2>7, <3>1, FunctorsDiffer
    <3> QED
        BY <3>1, <3>2 DEF Before
  <2>9. Adds(loops', loops, io, Est(n))
    <3>1. io \in DOMAIN loops /\ Est(n) \in Fn
        BY <1>6, <2>2, <2>7
    <3>2. Adds(Push(loops, io, Est(n)), loops, io, Est(n))
        BY <1>6, <2>8, <3>1, PushAdds
    <3>3. loops' = Push(loops, io, Est(n))
        BY <1>5, <2>3
    <3> QED
        BY <3>2, <3>3
  <2>10. OnlyFor(loops', loops, n)
    <3>1. io \in DOMAIN loops
        BY <1>6, <2>2
    <3>2. OnlyFor(loops', loops, Est(n).conn)
        BY <2>9, <3>1, AddsOnly
    <3> QED
        BY <2>7, <3>2
  <2>11. AllGood(loops')
      BY <2>9 DEF Adds
  <2>12. \A l \in Loops : \A f \in All(loops'[l]) :
             f \in All(loops[l]) \/ (f = Est(n) /\ l = k.loop)
    <3> TAKE l \in Loops
    <3>1. CASE l = io
        BY <2>4, <2>9, <3>1 DEF Adds
    <3>2. CASE l # io
        BY <1>6, <2>9, <3>2 DEF Adds
    <3> QED
        BY <3>1, <3>2
  <2>13. ~HasDes(n)' /\ ~HasRem(n)'
      BY <1>6, <2>2, <2>4, <2>6, <2>7, <2>12, NotQueuedYet DEF HasDes, HasRem
  <2>14. Stage(n)'
      BY <1>4, <1>5, <1>6, <1>7, <2>3, <2>4, <2>6, <2>13 DEF Stage
  <2>15. ServerTyped' /\ ConnsTyped' /\ LoopsTyped' /\ Own' /\ Stages' /\ DescriptorsKept'
      BY <1>4, <1>5, <2>2, <2>4, <2>5, <2>10, <2>11, <2>12, <2>14, NewKeeps
  <2>16. /\ pool' = [loops |-> pool.loops, next |-> Advance(pool.next)]
         /\ pool'.next = Advance(pool.next) /\ pool'.loops = pool.loops
    <3>1. pool' = [pool EXCEPT !.next = Advance(pool.next)]
        BY <1>5, <1>9
    <3>2. \A a, b, d : [[loops |-> a, next |-> b] EXCEPT !.next = d] = [loops |-> a, next |-> d]
        BY SMTT(60)
    <3>3. pool' = [loops |-> pool.loops, next |-> Advance(pool.next)]
        BY <1>6, <3>1, <3>2
    <3> QED
        BY <3>3
  <2>17. Turns' /\ pool'.next \in PoolLoops
      BY <1>4, <1>9, <2>2, <2>4, <2>5, <2>16, TurnsGoOn
  <2>18. pool'.next \in 1 .. Len(pool.loops) + 1
    <3>1. Len(pool.loops) = numThreads
        BY <1>4, PoolLength
    <3> QED
        BY <1>6, <2>17, <3>1, SMTT(60) DEF PoolLoops
  <2>19. PoolTyped'
      BY <1>4, <1>6, <2>16, <2>17, <2>18 DEF PoolTyped
  <2> QED
      BY <2>15, <2>17, <2>19 DEF SInv
<1> QED
    BY <1>8, <1>9

-----------------------------------------------------------------------------
(* ~TcpServer.                                                             *)

(* connectDestroyed queued for several connections behind what is queued.  *)
LEMMA QueueSwept ==
    ASSUME NEW r, Good(r), NEW S, IsFiniteSet(S), S \subseteq Fn, S \cap All(r) = {},
           \A f \in S : f = Des(f.conn),
           NEW t, t = [r EXCEPT !.pending = @ \o Sequenced(S)]
    PROVE  Good(t) /\ All(t) = All(r) \cup S /\ t.at = r.at
<1>1. PICK s : s = Sequenced(S)
    OBVIOUS
<1>2. /\ s \in Seq(S) /\ Range(s) = S
      /\ \A i, j \in 1 .. Len(s) : i < j => s[i] # s[j]
    BY <1>1, ListOf
<1>3. s \in Seq(Fn) /\ \A i \in 1 .. Len(s) : s[i] \in S
    BY <1>2, SMTT(60)
<1>4. Fine(s)
  <2> SUFFICES ASSUME NEW i \in 1 .. Len(s), NEW j \in 1 .. Len(s), i < j
               PROVE  Before(s[i], s[j])
      BY DEF Fine
  <2>1. s[i] # s[j] /\ s[j] = Des(s[j].conn)
      BY <1>2, <1>3
  <2> QED
      BY <2>1, MayFollow
<1>5. r \in Loop /\ Fine(r.pending)
    BY DEF Good
<1>6. r.batch \in Seq(Fn) /\ r.pending \in Seq(Fn) /\ r.at \in Ats /\ r.quit \in BOOLEAN
    BY <1>5, LoopFields
<1>7. \A f \in All(r), g \in S : Before(f, g)
    BY MayFollow
<1>8. \A f \in Range(r.pending), g \in Range(s) : Before(f, g)
    BY <1>2, <1>7 DEF All
<1>9. PICK q : q = r.pending \o s
    OBVIOUS
<1>10. q \in Seq(Fn) /\ Fine(q) /\ Range(q) = Range(r.pending) \cup S
    BY <1>2, <1>3, <1>4, <1>5, <1>6, <1>8, <1>9, ConcatFine
<1>11. PICK u : u = [at |-> r.at, quit |-> r.quit, pending |-> q, batch |-> r.batch]
    OBVIOUS
<1>12. u \in Loop
    BY <1>6, <1>10, <1>11, LoopOf
<1>13. u.at = r.at /\ u.pending = q /\ u.batch = r.batch
    BY <1>11, SMTT(60)
<1>14. \A f \in Range(r.batch), g \in Range(q) : Before(f, g)
    BY <1>7, <1>10 DEF Good, All
<1>15. Good(u)
    BY <1>10, <1>12, <1>13, <1>14 DEF Good
<1>16. All(u) = All(r) \cup S
    BY <1>10, <1>13 DEF All
<1>17. t = u
  <2>1. t = [r EXCEPT !.pending = q]
      BY <1>1, <1>9
  <2> QED
      BY <1>5, <1>10, <1>11, <2>1, LoopExcept
<1> QED
    BY <1>13, <1>15, <1>16, <1>17

(* The functors that the destructor queues in loop l.                      *)
Sweep(l) == IF l = Base THEN {} ELSE {Des(c) : c \in {d \in connections : conns[d].loop = l}}

(* What the destructor does to loop l.                                     *)
LEMMA LoopsSwept ==
    ASSUME SInv, Dtor, NEW l \in Loops
    PROVE  /\ Good(loops'[l]) /\ All(loops'[l]) = All(loops[l]) \cup Sweep(l)
           /\ loops'[l].at = loops[l].at
<1>1. Good(loops[l])
    BY DEF SInv, LoopsTyped, AllGood
<1>2. CASE l = Base
  <2>1. loops'[l] = loops[l] /\ Sweep(l) = {}
      BY <1>2 DEF Dtor, Sweep
  <2> QED
      BY <1>1, <2>1
<1>3. CASE l # Base
  <2>1. PICK D : D = {d \in connections : conns[d].loop = l}
      OBVIOUS
  <2>2. PICK S : S = {Des(c) : c \in D}
      OBVIOUS
  <2>3. Sweep(l) = S
      BY <1>3, <2>1, <2>2 DEF Sweep
  <2>4. loops'[l] = [loops[l] EXCEPT !.pending = @ \o Sequenced(S)]
      BY <1>3, <2>1, <2>2 DEF Dtor, Swept, Des
  <2>5. conns \in Seq(Conn) /\ connections \subseteq DOMAIN conns
      BY DEF SInv, ConnsTyped
  <2>6. IsFiniteSet(D) /\ D \subseteq Nat
    <3>1. IsFiniteSet(DOMAIN conns)
        BY <2>5, OpenFinite
    <3>2. D \in SUBSET DOMAIN conns /\ DOMAIN conns \subseteq Nat
        BY <2>1, <2>5, SMTT(60)
    <3> QED
        BY <3>1, <3>2, FS_Subset
  <2>7. IsFiniteSet(S)
    <3>1. PICK F : F = [c \in D |-> Des(c)]
        OBVIOUS
    <3>2. F \in Surjection(D, S)
        BY <2>2, <3>1 DEF Surjection
    <3> QED
        BY <2>6, <3>2, FS_Surjection
  <2>8. S \subseteq Fn /\ \A f \in S : f = Des(f.conn)
    <3> SUFFICES ASSUME NEW c \in D PROVE Des(c) \in Fn /\ Des(c).conn = c
        BY <2>2
    <3> QED
        BY <2>6, FunctorsDiffer
  <2>9. S \cap All(loops[l]) = {}
    <3> SUFFICES ASSUME NEW c \in D PROVE Des(c) \notin All(loops[l])
        BY <2>2
    <3>1. c \in connections /\ conns[c].loop = l /\ Stage(c)
        BY <2>1, <2>5 DEF SInv, Stages
    <3> QED
        BY <3>1 DEF Stage, HasDes
  <2>10. PICK r, t : r = loops[l] /\ t = loops'[l]
      OBVIOUS
  <2>11. Good(r) /\ S \cap All(r) = {} /\ t = [r EXCEPT !.pending = @ \o Sequenced(S)]
      BY <1>1, <2>4, <2>9, <2>10
  <2>12. Good(t) /\ All(t) = All(r) \cup S /\ t.at = r.at
      BY <2>7, <2>8, <2>11, QueueSwept
  <2> QED
      BY <2>3, <2>10, <2>12
<1> QED
    BY <1>2, <1>3

(* What becomes of the connections: those of the base loop that are in the *)
(* map are closed.                                                         *)
LEMMA ConnsSwept ==
    ASSUME SInv, Dtor
    PROVE  /\ SameLoops(conns', conns)
           /\ \A c \in connections : conns[c].loop = Base => conns'[c] = Close(conns[c])
           /\ \A c \in DOMAIN conns :
                  c \notin connections \/ conns[c].loop # Base => conns'[c] = conns[c]
<1>1. conns \in Seq(Conn) /\ connections \subseteq DOMAIN conns
    BY DEF SInv, ConnsTyped
<1>2. \A c \in DOMAIN conns : conns[c] \in Conn
    BY <1>1, SMTT(60)
<1>3. PICK F : F = [c \in DOMAIN conns |-> IF c \in connections /\ conns[c].loop = Base
                                           THEN Close(conns[c]) ELSE conns[c]]
    OBVIOUS
<1>4. conns' = F
    BY <1>3 DEF Dtor, Swept
<1>5. DOMAIN F = DOMAIN conns
    BY <1>3
<1>6. ASSUME NEW c \in DOMAIN conns PROVE F[c] \in Conn /\ F[c].loop = conns[c].loop
  <2>1. CASE c \in connections /\ conns[c].loop = Base
    <3>1. F[c] = Close(conns[c])
        BY <1>3, <2>1
    <3> QED
        BY <1>2, <3>1, ConnsBecome
  <2>2. CASE ~(c \in connections /\ conns[c].loop = Base)
    <3>1. F[c] = conns[c]
        BY <1>3, <2>2
    <3> QED
        BY <1>2, <3>1
  <2> QED
      BY <2>1, <2>2
<1>7. F = [c \in DOMAIN F |-> F[c]]
    BY <1>3
<1>8. F \in Seq(Conn)
  <2>1. Len(conns) \in Nat /\ DOMAIN conns = 1 .. Len(conns)
      BY <1>1, SMTT(60)
  <2>2. F \in [1 .. Len(conns) -> Conn]
      BY <1>5, <1>6, <1>7, <2>1
  <2> QED
      BY <2>1, <2>2, SMTT(60)
<1>9. SameLoops(conns', conns)
    BY <1>4, <1>5, <1>6, <1>8 DEF SameLoops
<1>10. \A c \in connections : conns[c].loop = Base => F[c] = Close(conns[c])
    BY <1>1, <1>3
<1>11. \A c \in DOMAIN conns : c \notin connections \/ conns[c].loop # Base => F[c] = conns[c]
    BY <1>3
<1> QED
    BY <1>4, <1>9, <1>10, <1>11

(* What is queued for connection c when the destructor has begun.          *)
LEMMA QueuedSwept ==
    ASSUME SInv, Dtor, NEW c \in DOMAIN conns
    PROVE  /\ HasEst(c)' <=> HasEst(c)
           /\ HasRem(c)' <=> HasRem(c)
           /\ HasDes(c)' <=> HasDes(c) \/ (c \in connections /\ conns[c].loop # Base)
<1>1. conns'[c].loop = conns[c].loop
    BY ConnsSwept DEF SameLoops
<1>2. PICK l : l = conns[c].loop
    OBVIOUS
<1>3. l \in Loops /\ Base \in Loops
    BY <1>2 DEF SInv, ConnsTyped, Loops
<1>4. /\ All(loops'[l]) = All(loops[l]) \cup Sweep(l)
      /\ All(loops'[Base]) = All(loops[Base]) \cup Sweep(Base)
    BY <1>3, LoopsSwept
<1>5. Sweep(Base) = {} /\ Base' = Base
    BY DEF Sweep, Base
<1>6. \A f \in Sweep(l) : f.call = "connectDestroyed"
    BY FunctorsDiffer DEF Sweep
<1>7. Est(c).call # "connectDestroyed"
    BY FunctorsDiffer
<1>8. Des(c) \in Sweep(l) <=> c \in connections /\ l # Base
  <2>1. ASSUME c \in connections, l # Base PROVE Des(c) \in Sweep(l)
      BY <1>2, <2>1 DEF Sweep
  <2>2. ASSUME Des(c) \in Sweep(l) PROVE c \in connections /\ l # Base
    <3>1. PICK d \in connections : Des(c) = Des(d) /\ l # Base
        BY <2>2 DEF Sweep
    <3>2. Des(c).conn = c /\ Des(d).conn = d
        BY FunctorsDiffer
    <3>3. c = d
        BY <3>1, <3>2
    <3> QED
        BY <3>1, <3>3
  <2> QED
      BY <2>1, <2>2
<1>9. HasEst(c)' <=> HasEst(c)
    BY <1>1, <1>2, <1>4, <1>6, <1>7 DEF HasEst
<1>10. HasRem(c)' <=> HasRem(c)
    BY <1>4, <1>5 DEF HasRem
<1>11. HasDes(c)' <=> HasDes(c) \/ (c \in connections /\ conns[c].loop # Base)
    BY <1>1, <1>2, <1>4, <1>8 DEF HasDes
<1> QED
    BY <1>9, <1>10, <1>11

(* Every connection is where its stage says when the destructor has begun. *)
LEMMA StageSwept ==
    ASSUME SInv, Dtor, NEW c \in DOMAIN conns
    PROVE  Stage(c)'
<1>1. Stage(c)
    BY DEF SInv, Stages
<1>2. connections' = {} /\ server'.phase = "destructing" /\ server'.phase # "started"
  <2>1. server \in [phase : Phases, joins : 1 .. numThreads + 1]
      BY DEF SInv, ServerTyped
  <2>2. server' = [server EXCEPT !.phase = "destructing"]
      BY DEF Dtor
  <2>3. server'.phase = "destructing"
      BY <2>1, <2>2
  <2> QED
      BY <2>3 DEF Dtor
<1>3. conns'[c].loop = conns[c].loop /\ Base' = Base
    BY ConnsSwept DEF SameLoops, Base
<1>4. conns[c].loop \in Loops
    BY DEF SInv, ConnsTyped
<1>5. loops'[conns[c].loop].at = loops[conns[c].loop].at
    BY <1>4, LoopsSwept
<1>6. CASE c \in connections /\ conns[c].loop = Base
  <2>1. conns'[c] = Close(conns[c]) /\ conns[c] \in Conn
    <3>1. conns[c] \in Conn
        BY SMTT(60) DEF SInv, ConnsTyped
    <3> QED
        BY <1>6, <3>1, ConnsSwept
  <2>2. conns'[c].state = "kDisconnected" /\ conns'[c].destroyed = conns[c].destroyed + 1
    <3>1. /\ Close(conns[c]).state = "kDisconnected"
          /\ Close(conns[c]).destroyed = conns[c].destroyed + 1
        BY <2>1, ConnsBecome
    <3> QED
        BY <2>1, <3>1
  <2>3. conns[c].destroyed = 0 /\ ~HasEst(c) /\ ~HasDes(c) /\ ~HasRem(c)
      BY <1>1, <1>6 DEF Stage
  <2>4. conns'[c].destroyed = 1
      BY <2>2, <2>3, SMTT(60)
  <2>5. ~HasEst(c)' /\ ~HasDes(c)' /\ ~HasRem(c)'
      BY <1>6, <2>3, QueuedSwept
  <2> QED
      BY <1>2, <2>2, <2>4, <2>5 DEF Stage
<1>7. CASE c \in connections /\ conns[c].loop # Base
  <2>1. conns'[c] = conns[c]
      BY <1>7, ConnsSwept
  <2>2. conns[c].destroyed = 0 /\ HasDes(c)'
      BY <1>1, <1>7, QueuedSwept DEF Stage
  <2>3. (HasEst(c)' <=> HasEst(c)) /\ (HasRem(c)' <=> HasRem(c))
      BY QueuedSwept
  <2>4. 0 # 1
      BY SMTT(60)
  <2> QED
      BY <1>1, <1>2, <1>3, <2>1, <2>2, <2>3, <2>4 DEF Stage
<1>8. CASE c \notin connections
  <2>1. conns'[c] = conns[c]
      BY <1>8, ConnsSwept
  <2>2. SameQueued(c)
      BY <1>8, QueuedSwept DEF SameQueued
  <2> QED
      BY <1>1, <1>2, <1>5, <1>8, <2>1, <2>2, StageSame
<1> QED
    BY <1>6, <1>7, <1>8

(* The destructor gives back the descriptors of the connections it closes. *)
LEMMA DescriptorsSwept ==
    ASSUME SInv, Dtor
    PROVE  DescriptorsKept'
<1>1. PICK B : B = {c \in connections : conns[c].loop = Base}
    OBVIOUS
<1>2. free' = free + Cardinality(B)
    BY <1>1 DEF Dtor, Swept
<1>3. conns \in Seq(Conn) /\ connections \subseteq DOMAIN conns
    BY DEF SInv, ConnsTyped
<1>4. IsFiniteSet(Open) /\ Cardinality(Open) \in Nat
    BY <1>3, OpenFinite
<1>5. ASSUME NEW c \in DOMAIN conns, c \in B
      PROVE  conns[c].destroyed = 0 /\ conns'[c].destroyed = 1
  <2>1. Stage(c) /\ c \in connections /\ conns[c].loop = Base
      BY <1>1, <1>5 DEF SInv, Stages
  <2>2. conns[c].destroyed = 0
      BY <2>1 DEF Stage
  <2>3. conns[c] \in Conn
      BY <1>3, SMTT(60)
  <2>4. conns'[c].destroyed = conns[c].destroyed + 1
    <3>1. Close(conns[c]).destroyed = conns[c].destroyed + 1
        BY <2>3, ConnsBecome
    <3>2. conns'[c] = Close(conns[c])
        BY <2>1, ConnsSwept
    <3> QED
        BY <3>1, <3>2
  <2>5. conns'[c].destroyed = 1
      BY <2>2, <2>4, SMTT(60)
  <2> QED
      BY <2>2, <2>5
<1>6. \A c \in DOMAIN conns : c \notin B => conns'[c] = conns[c]
    BY <1>1, ConnsSwept
<1>7. B \subseteq Open
    BY <1>1, <1>3, <1>5 DEF Open
<1>8. Open' = Open \ B
  <2>1. DOMAIN conns' = DOMAIN conns
      BY ConnsSwept DEF SameLoops
  <2>2. 0 # 1
      BY SMTT(60)
  <2>3. \A c \in DOMAIN conns : conns'[c].destroyed = 0 <=> (conns[c].destroyed = 0 /\ c \notin B)
      BY <1>5, <1>6, <2>2
  <2> QED
      BY <2>1, <2>3 DEF Open
<1>9. /\ Cardinality(Open \ B) = Cardinality(Open) - Cardinality(Open \cap B)
      /\ Cardinality(Open \cap B) \in Nat /\ Cardinality(Open \ B) \in Nat
  <2>1. IsFiniteSet(Open \cap B) /\ IsFiniteSet(Open \ B)
      BY <1>4, FS_Subset
  <2> QED
      BY <1>4, <2>1, FS_Difference, FS_CardinalityType
<1>10. Open \cap B = B
    BY <1>7
<1>11. free \in Nat /\ free + Cardinality(Open) = Descriptors
    BY DEF SInv, DescriptorsKept
<1>12. Cardinality(Open') = Cardinality(Open) - Cardinality(B) /\ Cardinality(B) \in Nat
    BY <1>8, <1>9, <1>10
<1>13. free' \in Nat /\ free' + Cardinality(Open') = Descriptors
    BY <1>2, <1>4, <1>11, <1>12, SMTT(60)
<1> QED
    BY <1>13 DEF DescriptorsKept

(* ~TcpServer, which sweeps the map and leaves no connection behind.       *)
LEMMA DtorStep ==
    ASSUME SInv, Dtor
    PROVE  SInv'
<1>1. SameLoops(conns', conns)
    BY ConnsSwept
<1>2. UNCHANGED <<numThreads, pool>> /\ connections' = {}
    BY DEF Dtor
<1>3. Loops' = Loops /\ PoolLoops' = PoolLoops /\ Base' = Base
    BY <1>2 DEF Loops, PoolLoops, Base
<1>4. ServerTyped' /\ server'.phase = "destructing"
  <2>1. server \in [phase : Phases, joins : 1 .. numThreads + 1]
      BY DEF SInv, ServerTyped
  <2>2. server' = [server EXCEPT !.phase = "destructing"]
      BY DEF Dtor
  <2>3. server' \in [phase : Phases, joins : 1 .. numThreads + 1] /\ server'.phase = "destructing"
      BY <2>1, <2>2, SMTT(60) DEF Phases
  <2> QED
      BY <1>2, <2>3 DEF SInv, ServerTyped
<1>5. PoolTyped'
    BY <1>2, <1>3, <1>4 DEF SInv, PoolTyped
<1>6. ConnsTyped'
    BY <1>1, <1>2, <1>3 DEF SInv, ConnsTyped, SameLoops
<1>7. LoopsTyped'
  <2>1. DOMAIN loops' = Loops
      BY DEF Dtor
  <2>2. \A l \in Loops : Good(loops'[l])
      BY LoopsSwept
  <2>3. loops' = [l \in DOMAIN loops' |-> loops'[l]]
      BY DEF Dtor
  <2>4. loops' \in [DOMAIN loops' -> Loop]
      BY <2>1, <2>2, <2>3 DEF Good
  <2> QED
      BY <1>3, <2>1, <2>2, <2>4 DEF LoopsTyped, AllGood
<1>8. Own'
  <2> SUFFICES ASSUME NEW l \in Loops, NEW f \in All(loops'[l])
               PROVE  Owned(f, l)'
      BY <1>3 DEF Own
  <2>1. CASE f \in All(loops[l])
    <3>1. Owned(f, l)
        BY <2>1 DEF SInv, Own
    <3> QED
        BY <1>1, <1>3, <3>1 DEF Owned, SameLoops
  <2>2. CASE f \in Sweep(l)
    <3>1. PICK c \in connections : f = Des(c) /\ conns[c].loop = l
        BY <2>2 DEF Sweep
    <3>2. f.conn = c /\ f.call = "connectDestroyed"
        BY <3>1, FunctorsDiffer
    <3>3. c \in DOMAIN conns' /\ conns'[c].loop = l
        BY <1>1, <3>1 DEF SInv, ConnsTyped, SameLoops
    <3> QED
        BY <3>2, <3>3 DEF Owned
  <2> QED
      BY <2>1, <2>2, LoopsSwept
<1>9. Stages'
    BY <1>1, StageSwept DEF Stages, SameLoops
<1>10. DescriptorsKept'
    BY DescriptorsSwept
<1>11. Turns'
    BY <1>1, <1>2, LoadsSame DEF SInv
<1> QED
    BY <1>4, <1>5, <1>6, <1>7, <1>8, <1>9, <1>10, <1>11 DEF SInv

-----------------------------------------------------------------------------
(* Every step, and what the invariant says.                                *)

(* No step of the server, of its acceptor, of a loop or of a connection    *)
(* leaves the invariant.                                                   *)
LEMMA NextStep ==
    ASSUME SInv, [Next]_vars
    PROVE  SInv'
<1>1. CASE Start
    BY <1>1, StartStep
<1>2. CASE PeerConnects
    BY <1>2, PeerStep
<1>3. CASE Accept
    BY <1>3, AcceptStep, PeerStep DEF Accept
<1>4. CASE FunctorRemove
    BY <1>4, RemoveStep
<1>5. CASE Dtor
    BY <1>5, DtorStep
<1>6. CASE Destruct
    BY <1>6, QuitStep, JoinedStep DEF Destruct
<1>7. ASSUME NEW l \in Loops, LoopStep(l) PROVE SInv'
    BY <1>7, TakeStep, EndStep, EstablishedStep, DestroyedStep DEF LoopStep
<1>8. ASSUME NEW c \in DOMAIN conns, HandleClose(c) PROVE SInv'
    BY <1>8, CloseStep
<1>9. CASE UNCHANGED vars
  <2>1. UNCHANGED <<numThreads, server, pool, connections, conns, free, loops>>
      BY <1>9 DEF vars
  <2>2. Moves(loops', loops)
      BY <2>1, StillMoves DEF SInv, LoopsTyped
  <2> QED
      BY <2>1, <2>2, QuietKeeps
<1> QED
    BY <1>1, <1>2, <1>3, <1>4, <1>5, <1>6, <1>7, <1>8, <1>9 DEF Next

(* The counts of a server that gives its connections to the loops in turn  *)
(* differ by one at most.                                                  *)
LEMMA TurnsBalance == Turns => Balanced
<1> SUFFICES ASSUME Turns, NEW k \in PoolLoops, NEW l \in PoolLoops
             PROVE  Load(k) <= Load(l) + 1
    BY DEF Balanced
<1>1. PICK m \in Nat : \A j \in PoolLoops : Load(j) = IF j < pool.next THEN m + 1 ELSE m
    BY DEF Turns
<1>2. Load(k) \in {m, m + 1} /\ Load(l) \in {m, m + 1}
    BY <1>1
<1> QED
    BY <1>1, <1>2, SMTT(60)

(* The invariant gives what is said of the connections.                    *)
LEMMA SInvImplies == SInv => ConnectionsAccounted
<1> SUFFICES ASSUME SInv PROVE ConnectionsAccounted
    OBVIOUS
<1>1. /\ conns \in Seq(Conn) /\ connections \subseteq DOMAIN conns
      /\ \A c \in DOMAIN conns : conns[c].loop \in Loops
    BY DEF SInv, ConnsTyped
<1>2. ASSUME NEW c \in DOMAIN conns PROVE conns[c].state \in States
  <2>1. conns[c] \in Conn
      BY <1>1, SMTT(60)
  <2> QED
      BY <2>1, ConnFields
<1>3. TypeOK
  <2>1. server.phase \in Phases /\ server.joins \in 1 .. numThreads + 1
      BY DEF SInv, ServerTyped
  <2>2. pool.next \in 1 .. Len(pool.loops) + 1
      BY DEF SInv, PoolTyped
  <2>3. pool.loops # <<>> => pool.next \in DOMAIN pool.loops
    <3> SUFFICES ASSUME pool.loops # <<>> PROVE pool.next \in DOMAIN pool.loops
        OBVIOUS
    <3>1. pool.next \in PoolLoops /\ pool.loops = [i \in PoolLoops |-> i]
        BY DEF SInv, PoolTyped
    <3> QED
        BY <3>1
  <2>4. free \in 0 .. Descriptors
    <3>1. Cardinality(Open) \in Nat
        BY <1>1, OpenFinite
    <3>2. free \in Nat /\ free + Cardinality(Open) = Descriptors
        BY DEF SInv, DescriptorsKept
    <3> QED
        BY <3>1, <3>2, SMTT(60)
  <2> QED
      BY <1>1, <1>2, <2>1, <2>2, <2>3, <2>4 DEF TypeOK
<1>4. ASSUME NEW c \in DOMAIN conns
      PROVE  /\ Stage(c)
             /\ Functor("connectEstablished", c) \in Queued(conns[c].loop) <=> HasEst(c)
             /\ Functor("connectDestroyed", c) \in Queued(conns[c].loop) <=> HasDes(c)
             /\ Functor("removeConnectionInLoop", c) \in Queued(Base) <=> HasRem(c)
    BY DEF SInv, Stages, Queued, All, HasEst, HasDes, HasRem, Est, Des, Rem
<1>5. ErasedOnce
  <2> SUFFICES ASSUME server.phase = "started"
               PROVE  /\ Leaving \subseteq connections
                      /\ \A c \in DOMAIN conns : c \in connections <=>
                             c \in Leaving \/ conns[c].state # "kDisconnected"
      BY DEF ErasedOnce
  <2>1. ASSUME NEW c \in DOMAIN conns
        PROVE  c \in connections <=> c \in Leaving \/ conns[c].state # "kDisconnected"
      BY <1>4 DEF Stage, Leaving
  <2>2. Leaving \subseteq DOMAIN conns
      BY DEF Leaving
  <2> QED
      BY <2>1, <2>2
<1>6. InTurn
  <2> SUFFICES ASSUME NEW c \in DOMAIN conns
               PROVE  /\ conns[c].destroyed <= 1
                      /\ conns[c].destroyed = 1 => conns[c].state = "kDisconnected"
                      /\ Functor("connectEstablished", c) \in Queued(conns[c].loop) =>
                             conns[c].state = "kConnecting"
      BY DEF InTurn
  <2>1. conns[c].destroyed \in {0, 1}
      BY <1>4 DEF Stage
  <2>2. conns[c].destroyed <= 1
      BY <2>1, SMTT(60)
  <2> QED
      BY <1>4, <2>2 DEF Stage
<1>7. Balanced
    BY TurnsBalance DEF SInv
<1>8. DtorForgetsNone
  <2> SUFFICES ASSUME server.phase \in {"destructing", "destroyed"}, NEW c \in DOMAIN conns
               PROVE  \/ conns[c].destroyed = 1
                      \/ Functor("connectDestroyed", c) \in Queued(conns[c].loop)
                      \/ loops[conns[c].loop].at = "exited"
      BY DEF DtorForgetsNone
  <2>1. c \notin connections
      BY DEF SInv, ServerTyped
  <2> QED
      BY <1>4, <2>1 DEF Stage
<1> QED
    BY <1>3, <1>5, <1>6, <1>7, <1>8 DEF ConnectionsAccounted

(* Whatever the loops, the peers and a dying server do, and however many   *)
(* there are of each: every connection is in the map until it is erased,   *)
(* once, then in the queue of its loop until it is destroyed, once, and    *)
(* the loops of the pool get their connections in turn.                    *)
THEOREM ConnectionsAlwaysAccounted == Spec => []ConnectionsAccounted
<1>1. Init => SInv
    BY InitSInv
<1>2. SInv /\ [Next]_vars => SInv'
    BY NextStep
<1>3. SInv => ConnectionsAccounted
    BY SInvImplies
<1> QED
    BY <1>1, <1>2, <1>3, PTL DEF Spec

=============================================================================
