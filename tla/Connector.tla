----------------------------- MODULE Connector -----------------------------
(***************************************************************************)
(* muduo::net::Connector, the part of a client that opens a non-blocking   *)
(* connection and tries again, later and later, when that fails, together  *)
(* with the loop that runs its functors, its channel and its timers.       *)
(*                                                                         *)
(* connector is the object; each of its member functions is an operator    *)
(* from the object before to the set of objects there may be afterwards.   *)
(***************************************************************************)
EXTENDS Naturals, Sequences, FiniteSetsExt

CONSTANTS
    kInitRetryDelayMs,
    kMaxRetryDelayMs

ASSUME DelayAssumption ==
    /\ kInitRetryDelayMs \in Nat /\ kMaxRetryDelayMs \in Nat
    /\ kInitRetryDelayMs <= kMaxRetryDelayMs

VARIABLES
    connector,  \* connect_, state_, channel_, retryDelayMs_ and its armed timers
    pending,    \* pendingFunctors_ of the loop
    batch       \* the functors doPendingFunctors is running

States == {"kDisconnected", "kConnecting", "kConnected"}
Channels == {"none", "added", "removed"}

ConnectorInit ==
    /\ connector = [connect |-> FALSE, state |-> "kDisconnected", channel |-> "none",
                    delay |-> kInitRetryDelayMs, timers |-> 0, gaveUp |-> FALSE]
    /\ pending = <<>> /\ batch = <<>>

Call(f) == [call |-> f, conn |-> 0]
Queued == Range(batch) \cup Range(pending)
QueueInLoop(f) == pending' = Append(pending, f)

-----------------------------------------------------------------------------
(* Closing the socket loses the attempt; whether there is another one is   *)
(* decided by connect_, and the delay before it is doubled up to a limit.  *)

Retry_NoTimer(c) == [c EXCEPT !.state = "kDisconnected"]

Retry(c) ==
    IF c.connect
    THEN [c EXCEPT !.state = "kDisconnected", !.timers = @ + 1,
                   !.delay = Min({@ * 2, kMaxRetryDelayMs})]
    ELSE [c EXCEPT !.state = "kDisconnected"]

Connecting(c) == [c EXCEPT !.state = "kConnecting", !.channel = "added"]

(* connect(2) may be in progress, fail in a way that is worth another try, *)
(* or fail for good.                                                       *)
ConnectSocket(c) == {Connecting(c), Retry(c), [c EXCEPT !.gaveUp = TRUE]}

StartInLoop(c) == IF c.connect THEN ConnectSocket(c) ELSE {c}

Restart(c) ==
    StartInLoop([c EXCEPT !.state = "kDisconnected", !.delay = kInitRetryDelayMs,
                          !.connect = TRUE])

(* The functor that frees the channel is queued by the caller.             *)
RemoveAndResetChannel(c) == [c EXCEPT !.channel = "removed"]

StopInLoop(c) == Retry(RemoveAndResetChannel([c EXCEPT !.state = "kDisconnected"]))

-----------------------------------------------------------------------------
(* The loop: events are handled between batches of functors.               *)

BetweenBatches == batch = <<>>

(* A timer armed in this iteration does not expire in it, as delays are    *)
(* longer than what is left of it; and functors that other threads queue   *)
(* meanwhile make no difference to a timer, so timers wait for none.       *)
TimersExpire == BetweenBatches /\ pending = <<>>

TakeBatch ==
    /\ BetweenBatches /\ pending # <<>>
    /\ batch' = pending
    /\ pending' = <<>>
    /\ UNCHANGED connector

(* Takes the next functor of the batch, which is a call of f.              *)
Run(f) ==
    /\ batch # <<>> /\ Head(batch).call = f
    /\ batch' = Tail(batch)

FunctorStart ==
    /\ Run("startInLoop")
    /\ connector' \in StartInLoop(connector)
    /\ UNCHANGED pending

FunctorStop ==
    /\ Run("stopInLoop")
    /\ IF connector.state = "kConnecting"
       THEN connector' = StopInLoop(connector) /\ QueueInLoop(Call("resetChannel"))
       ELSE UNCHANGED <<connector, pending>>

FunctorReset ==
    /\ Run("resetChannel")
    /\ connector' = [connector EXCEPT !.channel = "none"]
    /\ UNCHANGED pending

RetryTimer ==
    /\ TimersExpire /\ connector.timers > 0
    /\ connector' \in StartInLoop([connector EXCEPT !.timers = @ - 1])
    /\ UNCHANGED <<pending, batch>>

AttemptFails_NoReset ==
    /\ BetweenBatches /\ connector.channel = "added"
    /\ connector' = Retry(RemoveAndResetChannel(connector))
    /\ UNCHANGED <<pending, batch>>

(* The channel is reported: the attempt failed, with an error or because   *)
(* the socket is connected to itself.  handleWrite, and handleError before *)
(* it, do the same.                                                        *)
AttemptFails ==
    /\ BetweenBatches /\ connector.channel = "added"
    /\ connector.state = "kConnecting"
    /\ connector' = Retry(RemoveAndResetChannel(connector))
    /\ QueueInLoop(Call("resetChannel"))
    /\ UNCHANGED batch

(* The attempt succeeded; the caller says what newConnectionCallback_ does. *)
AttemptSucceeds ==
    /\ BetweenBatches /\ connector.channel = "added"
    /\ connector.state = "kConnecting"
    /\ connector' = [RemoveAndResetChannel(connector) EXCEPT !.state = "kConnected"]
    /\ QueueInLoop(Call("resetChannel"))
    /\ UNCHANGED batch
=============================================================================
