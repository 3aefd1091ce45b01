----------------------------- MODULE WebServer -----------------------------
(***************************************************************************)
(* The web server: Server over ContextParse, TimerWheel and a TcpServer.   *)
(*                                                                         *)
(* The base loop runs the ticks of the wheel and the insertions that other *)
(* threads queue; a connection's callbacks run in its own loop, which is   *)
(* the base loop when there are no other threads.  A connection has one    *)
(* TimeWheelEntry, named like it, to which the wheel, the queued           *)
(* insertions and, for a moment, its own loop hold references.             *)
(*                                                                         *)
(* Of a connection this module keeps its state and how many half lines     *)
(* have come, so that a read may end inside a line.  TcpConnection models  *)
(* the rest.                                                               *)
(***************************************************************************)
EXTENDS TimeWheel, ContextParse

CONSTANTS
    MaxLines,   \* lines a peer sends (a bound)
    PlainLines, \* numbers of the lines it sends when there is no timer
    TimedLines  \* and when there is one (bounds)

VARIABLES
    mode,       \* [timer, threads]: use_timer_, and whether there are other loops
    state,      \* TcpConnection::state_
    sent,       \* the lines a peer began to send
    came,       \* half lines that came
    read,       \* half lines read into the input buffer
    used,       \* lines retrieved from it
    context,    \* the ContextParse of a connection
    pc,         \* where its loop is in onRequest
    functors,   \* insertions queued in the base loop
    replies     \* responses sent

conns == <<state, sent, came, read, used, context, pc, replies>>
vars == <<mode, functors, conns, wheelVars>>

Line == <<
    <<"GET", "/hello", "HTTP/1.1">>,
    <<"GET", "/", "HTTP/1.0">>,
    <<"Connection:", "close">>,
    <<"Connection:", "Keep-Alive">>,
    <<>>,
    <<"GET", "/none", "HTTP/1.1">>,
    <<"GET", "/hello", "HTTP/2">>,
    <<"PATCH", "/hello", "HTTP/1.1">>,
    <<"Host:", "h">> >>

(* The arguments of main; without the timer no loop but the connection's   *)
(* is of interest.                                                         *)
Modes == {m \in [timer : BOOLEAN, threads : BOOLEAN] : m.threads => m.timer}

TypeOK ==
    /\ mode \in Modes
    /\ state \in [Entries -> {"connecting", "connected", "disconnecting", "disconnected"}]
    /\ \A c \in Entries :
          /\ Len(sent[c]) <= MaxLines /\ came[c] <= 2 * Len(sent[c])
          /\ read[c] <= came[c] /\ 2 * used[c] <= read[c]
          /\ context[c].state \in {"ExceptRequestLine", "ExceptHeader"}
    /\ pc \in [Entries -> {"loop", "locked", "insert"}]
    /\ next_second \in Slots /\ wheel \in [Slots -> SUBSET Entries]

Init ==
    /\ WheelInit
    /\ mode \in Modes
    /\ state = [c \in Entries |-> "connecting"]
    /\ sent = [c \in Entries |-> <<>>]
    /\ came = [c \in Entries |-> 0]
    /\ read = [c \in Entries |-> 0]
    /\ used = [c \in Entries |-> 0]
    /\ context = [c \in Entries |-> NewContext]
    /\ pc = [c \in Entries |-> "loop"]
    /\ functors = <<>>
    /\ replies = [c \in Entries |-> <<>>]

Complete(c) == SubSeq(sent[c], 1, came[c] \div 2)
Buffered(c) == SubSeq(sent[c], used[c] + 1, read[c] \div 2)

-----------------------------------------------------------------------------
(* References to entries, and what the last one's end does.                *)

Referenced_Wheel(c, w, fs) == \E s \in Slots : c \in w[s]

Referenced(c, w, fs) ==
    \/ \E s \in Slots : c \in w[s]
    \/ \E i \in DOMAIN fs : fs[i] = c

Shut(s) == IF s = "connected" THEN "disconnecting" ELSE s

(* ~TimeWheelEntry, for the entries that were referenced only by what this *)
(* step dropped.                                                           *)
Destroyed_Quiet(dropped) == UNCHANGED state

Destroyed(dropped) ==
    state' = [c \in Entries |-> IF c \in dropped THEN Shut(state[c]) ELSE state[c]]

(* runInLoop of the base loop: at once, or queued.                         *)
insertEntry(c) ==
    IF mode.threads THEN /\ functors' = Append(functors, c)
                         /\ UNCHANGED wheelVars
    ELSE /\ insertEntryInLoop(c)
         /\ UNCHANGED functors

-----------------------------------------------------------------------------
(* The base loop.                                                          *)

BaseLoopFree == mode.threads \/ \A c \in Entries : pc[c] = "loop"

Tick ==
    /\ mode.timer /\ BaseLoopFree
    /\ onTimer
    /\ Destroyed({c \in wheel[next_second] :
                    ~Referenced(c, wheel', functors) /\ pc[c] # "locked"})
    /\ UNCHANGED <<mode, functors, sent, came, read, used, context, pc, replies>>

RunFunctor ==
    /\ BaseLoopFree /\ functors # <<>>
    /\ insertEntryInLoop(Head(functors))
    /\ functors' = Tail(functors)
    /\ UNCHANGED <<mode, conns>>

-----------------------------------------------------------------------------
(* A connection's loop.                                                    *)

onConnection(c) ==
    /\ state[c] = "connecting" /\ BaseLoopFree
    /\ state' = [state EXCEPT ![c] = "connected"]
    /\ IF mode.timer THEN insertEntry(c) ELSE UNCHANGED <<functors, wheelVars>>
    /\ UNCHANGED <<mode, sent, came, read, used, context, pc, replies>>

(* What send and shutdown make of a response, and what comes next.         *)
Respond_Always(c, resp) ==
    /\ replies' = [replies EXCEPT ![c] = Append(@, resp)]
    /\ state' = IF resp.close THEN [state EXCEPT ![c] = Shut(@)] ELSE state

Respond(c, resp) ==
    /\ replies' = IF state[c] = "connected" THEN [replies EXCEPT ![c] = Append(@, resp)]
                  ELSE replies
    /\ state' = IF resp.close THEN [state EXCEPT ![c] = Shut(@)] ELSE state

(* Whether the first lock() of onRequest finds the entry.                  *)
Locks(c, resp) == mode.timer /\ ~resp.close /\ Referenced(c, wheel, functors)

(* All that came is read and parsed; at most one request is answered.  The *)
(* rejected line stays in the buffer.                                      *)
onMessage(c) ==
    LET lines == SubSeq(sent[c], used[c] + 1, came[c] \div 2)
        p == parseRequest(context[c], lines)
        resp == appendToBuffer(HttpRequest(p.ctx.request))
    IN /\ state[c] \in {"connected", "disconnecting"} /\ pc[c] = "loop" /\ BaseLoopFree
       /\ read[c] < came[c]
       /\ read' = [read EXCEPT ![c] = came[c]]
       /\ used' = [used EXCEPT ![c] = @ + Len(lines) - Len(p.left)]
       /\ context' = [context EXCEPT ![c] = IF gotAll(p.ctx) THEN reset(p.ctx) ELSE p.ctx]
       /\ \/ /\ ~p.ok
             /\ Respond(c, BadRequest)
             /\ UNCHANGED pc
          \/ /\ p.ok /\ gotAll(p.ctx)
             /\ Respond(c, resp)
             /\ pc' = [pc EXCEPT ![c] = IF Locks(c, resp) THEN "locked" ELSE @]
          \/ /\ p.ok /\ ~gotAll(p.ctx)
             /\ UNCHANGED <<state, replies, pc>>
       /\ UNCHANGED <<mode, sent, came, functors, wheelVars>>

(* The end of the temporary in the condition, then the second lock(), which*)
(* may find the entry gone and put an empty pointer in the wheel.          *)
EndLock(c) ==
    /\ pc[c] = "locked"
    /\ pc' = [pc EXCEPT ![c] = "insert"]
    /\ Destroyed(IF Referenced(c, wheel, functors) THEN {} ELSE {c})
    /\ UNCHANGED <<mode, sent, came, read, used, context, functors, replies, wheelVars>>

LockAgain(c) ==
    /\ pc[c] = "insert"
    /\ pc' = [pc EXCEPT ![c] = "loop"]
    /\ IF Referenced(c, wheel, functors) THEN insertEntry(c)
       ELSE UNCHANGED <<functors, wheelVars>>
    /\ UNCHANGED <<mode, state, sent, came, read, used, context, replies>>

(* handleRead reads 0: the peer has closed, and all it sent was read.      *)
handleClose(c) ==
    /\ state[c] \in {"connected", "disconnecting"} /\ pc[c] = "loop" /\ BaseLoopFree
    /\ read[c] = came[c]
    /\ state' = [state EXCEPT ![c] = "disconnected"]
    /\ UNCHANGED <<mode, functors, sent, came, read, used, context, pc, replies, wheelVars>>

-----------------------------------------------------------------------------
(* Half a line comes.                                                      *)
Arrive(c) ==
    /\ state[c] \in {"connected", "disconnecting"}
    /\ came' = [came EXCEPT ![c] = @ + 1]
    /\ IF came[c] % 2 = 0
       THEN /\ Len(sent[c]) < MaxLines
            /\ \E n \in IF mode.timer THEN TimedLines ELSE PlainLines :
                  sent' = [sent EXCEPT ![c] = Append(@, Line[n])]
       ELSE UNCHANGED sent
    /\ UNCHANGED <<mode, functors, state, read, used, context, pc, replies, wheelVars>>

Loop(c) == onMessage(c) \/ EndLock(c) \/ LockAgain(c)

Next ==
    \/ Tick \/ RunFunctor
    \/ \E c \in Entries : onConnection(c) \/ Loop(c) \/ handleClose(c) \/ Arrive(c)

(* The loops go on and the timer ticks; nothing is asked of the peers.     *)
Fairness ==
    /\ WF_vars(Tick) /\ WF_vars(RunFunctor)
    /\ \A c \in Entries : WF_vars(Loop(c))

Spec == Init /\ [][Next]_vars /\ Fairness

-----------------------------------------------------------------------------
(* The reference for the parser.                                           *)

(* The replies that lines ask for, one request after the other, however    *)
(* they were cut: a request ends at the first line without a colon, the    *)
(* last header of a name counts, and nothing follows a reply that closes.  *)
RECURSIVE Asked(_)
Asked(lines) ==
    LET ends == {i \in 2 .. Len(lines) : ~IsHeader(lines[i])}
        end == CHOOSE i \in ends : \A j \in ends : i <= j
        Settings == {i \in 2 .. end - 1 : lines[i][1] = "Connection:"}
        setting == IF Settings = {} THEN "none"
                   ELSE lines[CHOOSE i \in Settings : \A j \in Settings : j <= i][2]
        found == lines[1][2] \in {"/", "/image.jpg", "/hello"}
        close == ~found \/ setting = "close"
                 \/ (lines[1][3] = "HTTP/1.0" /\ setting # "Keep-Alive")
        reply == [status |-> IF found THEN 200 ELSE 404, close |-> close]
    IN CASE lines = <<>> -> <<>>
         [] lines # <<>> /\ ~(\E p \in {"/", "/image.jpg", "/hello", "/none"},
                                 v \in {"HTTP/1.0", "HTTP/1.1"} : lines[1] = <<"GET", p, v>>) ->
              <<[status |-> 400, close |-> TRUE]>>
         [] OTHER -> IF ends = {} THEN <<>>
                     ELSE <<reply>> \o (IF close THEN <<>>
                                        ELSE Asked(SubSeq(lines, end + 1, Len(lines))))

Told(c) == [i \in DOMAIN replies[c] |->
              [status |-> replies[c][i].status, close |-> replies[c][i].close]]

(* However the lines are cut into reads and whatever the wheel does, a     *)
(* peer is told what the lines retrieved so far ask for, in order, and     *)
(* as long as the connection is not shut down it has been told all of it:  *)
(* no header of one request is left for the next.                          *)
RepliesAsAsked ==
    TypeOK /\ \A c \in Entries :
        LET refused == \E i \in DOMAIN replies[c] : replies[c][i].status = 400
            asked == Asked(SubSeq(sent[c], 1, IF refused THEN used[c] + 1 ELSE used[c]))
        IN IF state[c] = "connected" THEN Told(c) = asked
           ELSE Len(Told(c)) <= Len(asked) /\ Told(c) = SubSeq(asked, 1, Len(Told(c)))

(* The wheel shuts a connection down, with the last reference to its       *)
(* entry, only when what was promised to it has passed and no insertion    *)
(* is on its way.                                                          *)
ShutWhenIdle ==
    [][\A c \in Entries :
          state[c] = "connected" /\ state'[c] = "disconnecting" /\ replies'[c] = replies[c]
             => life'[c] = 0 /\ ~\E i \in DOMAIN functors : functors[i] = c]_vars

(* With the timer, a connection that is not used is shut down in the end:  *)
(* no reference to its entry is left behind.                               *)
IdleIsShut == \A c \in Entries : (state[c] = "connected" /\ mode.timer) ~> state[c] # "connected"

(* Every read answers a request if what came completes one: the next in    *)
(* order, unless the connection was shut down.  A request that was         *)
(* complete when an earlier one was answered waits for more input.  And    *)
(* nothing follows a reply that closes, also when the peer goes on sending *)
(* (Server.cc:101 and 119).                                                *)
InputAnswered ==
    [][\A c \in Entries :
          /\ read'[c] # read[c] /\ state[c] = "connected"
                 /\ Len(Asked(Complete(c))) > Len(replies[c])
               => Len(replies'[c]) = Len(replies[c]) + 1
          /\ (\E i \in DOMAIN replies[c] : replies[c][i].close)
               => replies'[c] = replies[c]]_vars
=============================================================================
