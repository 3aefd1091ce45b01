----------------------------- MODULE OwnedLoop -----------------------------
(***************************************************************************)
(* The EventLoop of an EventLoopThread, seen as an EventLoop: the module   *)
(* EventLoopThread over the variables of EventLoop, so that the two can be *)
(* compared.  The one other thread of the loop is the owner, "main".       *)
(***************************************************************************)
EXTENDS EventLoop

VARIABLES published, thread, main    \* as in EventLoopThread

OwnLoop == INSTANCE EventLoopThread

ThreadSpec == OwnLoop!FairSpec

\* Whatever the interleaving of startLoop, threadFunc and the destructor, _loop
\* never dangles and every variable keeps its type.
LoopPublished == OwnLoop!LoopPublished

\* startLoop and, once its quit has reached loop(), the destructor return.
OwnerReturns == OwnLoop!OwnerReturns
=============================================================================
