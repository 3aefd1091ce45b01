--------------------------- MODULE SerialExecutor ---------------------------
(***************************************************************************)
(* What an EventLoop promises to the callers of queueInloop and runInLoop: *)
(* one thread executes the functors, those that went through the queue in  *)
(* the order in which they were queued, each of them at most once, and a   *)
(* functor passed to runInLoop by the loop's own thread at once.           *)
(***************************************************************************)
EXTENDS Sequences, Functions

CONSTANT Functors     \* the callbacks, each submitted at most once

VARIABLES
    queue,    \* functors accepted and not yet started, in order of acceptance
    ran       \* functors started so far, in order of execution

vars == <<queue, ran>>

Fresh(f) == f \notin Range(queue) \cup Range(ran)

Init ==
    /\ queue = <<>>
    /\ ran = <<>>

Queue(f) ==
    /\ Fresh(f)
    /\ queue' = Append(queue, f)
    /\ UNCHANGED ran

Execute ==
    /\ queue # <<>>
    /\ ran' = Append(ran, Head(queue))
    /\ queue' = Tail(queue)

RunNow(f) ==
    /\ Fresh(f)
    /\ ran' = Append(ran, f)
    /\ UNCHANGED queue

Next == \/ \E f \in Functors : Queue(f) \/ RunNow(f)
        \/ Execute

Spec == Init /\ [][Next]_vars
=============================================================================
