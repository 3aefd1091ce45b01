------------------------------- MODULE Poller -------------------------------
(***************************************************************************)
(* muduo::net::Poller with its two implementations, EPollPoller and        *)
(* PollPoller, the registration side of Channel, and the part of EventLoop *)
(* that polls and walks through the active channels.                       *)
(*                                                                         *)
(* Everything here happens in the loop thread.  User code (functors and    *)
(* callbacks) creates channels, changes their events, removes and destroys *)
(* them, in any order the contracts of the code allow.  A descriptor that  *)
(* was closed may be reused by the next channel.                           *)
(***************************************************************************)
EXTENDS Integers, Sequences, FiniteSets, Functions

CONSTANTS
    Channels,             \* Channel objects
    Fds,                  \* file descriptors, natural numbers
    Events,               \* what a channel may ask for
    kInitEventListSize,   \* the first size of EPollPoller::events_
    NoChannel             \* the null Channel*

ASSUME PollerAssumption == Fds \subseteq Nat /\ IsFiniteSet(Fds)

VARIABLES
    kind,      \* the class newDefaultPoller chose
    ch,        \* the Channel objects
    channels,  \* channels_, from descriptors to channels
    epoll,     \* the kernel's epoll set: descriptor to events and data.ptr
    failed,    \* an epoll_ctl(2) call has failed
    size,      \* EPollPoller::events_.size()
    pollfds,   \* PollPoller::pollfds_
    ready,     \* descriptors with something to report
    pc,        \* "functors", "poll", "handle", or "callback" of current
    active,    \* _active_channels
    todo,      \* those of them not handled yet
    current    \* _current_active_channel

poller == <<channels, epoll, failed, size, pollfds>>
loop == <<pc, active, todo, current>>
vars == <<kind, ch, poller, ready, loop>>

kNew == -1
kAdded == 1
kDeleted == 2

\* life: no object, constructed, in the poller (addedToLoop_), or removed.
Object(life, fd, events, index) == [life |-> life, fd |-> fd, events |-> events, index |-> index]
NoObject == Object("none", -1, {}, kNew)

Init ==
    /\ kind \in {"epoll", "poll"}
    /\ ch = [c \in Channels |-> NoObject]
    /\ channels = <<>> /\ epoll = <<>> /\ failed = FALSE /\ pollfds = <<>>
    /\ size = kInitEventListSize
    /\ ready = {}
    /\ pc = "functors" /\ active = {} /\ todo = {} /\ current = NoChannel

InUserCode == pc \in {"functors", "callback"}

\* m[fd] = v
Insert(m, fd, v) == [x \in DOMAIN m \cup {fd} |-> IF x = fd THEN v ELSE m[x]]

\* channels_.erase(fd)
Erase(fd) == Restrict(channels, DOMAIN channels \ {fd})

-----------------------------------------------------------------------------
(* EPollPoller.                                                            *)

\* EPollPoller::update: ADD fails on a descriptor that is in the set, MOD and
\* DEL on one that is not.
Ctl(op, fd, entry) ==
    LET ok == (op = "ADD") # (fd \in DOMAIN epoll) IN
    /\ failed' = (failed \/ ~ok)
    /\ epoll' = IF ~ok THEN epoll
                ELSE IF op = "DEL" THEN Restrict(epoll, DOMAIN epoll \ {fd})
                ELSE Insert(epoll, fd, entry)

IndexAfter(op) == IF op = "DEL" THEN kDeleted ELSE kAdded

EPollUpdateChannel(c, events) ==
    LET fd == ch[c].fd
        new == ch[c].index \in {kNew, kDeleted}
        op == IF new THEN "ADD" ELSE IF events = {} THEN "DEL" ELSE "MOD"
    IN
    /\ channels' = IF ch[c].index = kNew THEN Insert(channels, fd, c) ELSE channels
    /\ Ctl(op, fd, [events |-> events, ptr |-> c])
    /\ ch' = [ch EXCEPT ![c] = Object("added", fd, events, IndexAfter(op))]
    /\ UNCHANGED <<size, pollfds>>

EPollRemoveChannel(c) ==
    /\ channels' = Erase(ch[c].fd)
    /\ IF ch[c].index = kAdded THEN Ctl("DEL", ch[c].fd, <<>>)
                               ELSE UNCHANGED <<epoll, failed>>
    /\ ch' = [ch EXCEPT ![c] = Object("removed", ch[c].fd, ch[c].events, kNew)]
    /\ UNCHANGED <<size, pollfds>>

\* Mutant: the event list keeps its size.
Resize_Never(numEvents) == UNCHANGED size

\* The end of EPollPoller::poll: a full event list is doubled.
Resize(numEvents) == size' = IF numEvents = size THEN 2 * size ELSE size

-----------------------------------------------------------------------------
(* PollPoller: index is the place in pollfds_, counted from 0.             *)

Ignored(fd) == -fd - 1

PollUpdateChannel(c, events) ==
    LET fd == ch[c].fd
        new == ch[c].index < 0
        pfd == [fd |-> IF events = {} /\ ~new THEN Ignored(fd) ELSE fd, events |-> events]
    IN
    /\ channels' = IF new THEN Insert(channels, fd, c) ELSE channels
    /\ pollfds' = IF new THEN Append(pollfds, pfd)
                         ELSE [pollfds EXCEPT ![ch[c].index + 1] = pfd]
    /\ ch' = [ch EXCEPT ![c] =
                 Object("added", fd, events, IF new THEN Len(pollfds) ELSE ch[c].index)]
    /\ UNCHANGED <<epoll, failed, size>>

\* Mutant: the last descriptor is taken as it is stored.
Moved_Undecoded(c) ==
    LET last == pollfds[Len(pollfds)].fd IN
    IF last \in DOMAIN channels
    THEN [ch EXCEPT ![channels[last]].index = ch[c].index] ELSE ch

\* The last channel, whose entry takes the place of the removed one, learns
\* its new index; an ignored descriptor is decoded first.
Moved(c) ==
    LET last == pollfds[Len(pollfds)].fd
        fd == IF last < 0 THEN Ignored(last) ELSE last
    IN [ch EXCEPT ![channels[fd]].index = ch[c].index]

PollRemoveChannel(c) ==
    LET idx == ch[c].index + 1
        n == Len(pollfds)
    IN
    /\ channels' = Erase(ch[c].fd)
    /\ pollfds' = SubSeq([pollfds EXCEPT ![idx] = pollfds[n]], 1, n - 1)
    /\ ch' = [(IF idx = n THEN ch ELSE Moved(c)) EXCEPT ![c].life = "removed"]
    /\ UNCHANGED <<epoll, failed, size>>

-----------------------------------------------------------------------------
(* Channel, called by user code in the loop thread.                        *)

\* An owner opens a descriptor and constructs a channel for it.
NewChannel(c, fd) ==
    /\ InUserCode
    /\ ch[c].life = "none"
    /\ \A d \in Channels : ch[d].fd # fd
    /\ ch' = [ch EXCEPT ![c] = Object("new", fd, {}, kNew)]
    /\ UNCHANGED <<kind, poller, ready, loop>>

UpdateChannel(c, events) ==
    IF kind = "epoll" THEN EPollUpdateChannel(c, events) ELSE PollUpdateChannel(c, events)

\* enableReading, disableWriting and so on, and disableAll.
Update(c) ==
    /\ InUserCode
    /\ ch[c].life \in {"new", "added"}
    /\ \E e \in Events :
        \E events \in {ch[c].events \cup {e}, ch[c].events \ {e}, {}} : UpdateChannel(c, events)
    /\ UNCHANGED <<kind, ready, loop>>

\* The assert of EventLoop::removeChannel.
Removable(c) == pc = "callback" => current = c \/ c \notin active

\* Channel::remove and EventLoop::removeChannel, whose asserts its callers keep.
Remove(c) ==
    /\ InUserCode
    /\ ch[c].life = "added"
    /\ ch[c].events = {}
    /\ Removable(c)
    /\ IF kind = "epoll" THEN EPollRemoveChannel(c) ELSE PollRemoveChannel(c)
    /\ UNCHANGED <<kind, ready, loop>>

\* ~Channel (its asserts: not in its own callback, not in the loop); the owner
\* closes the descriptor, and the kernel drops it from the epoll set.
Destroy(c) ==
    /\ InUserCode
    /\ ch[c].life \in {"new", "removed"}
    /\ current # c
    /\ ch' = [ch EXCEPT ![c] = NoObject]
    /\ epoll' = Restrict(epoll, DOMAIN epoll \ {ch[c].fd})
    /\ ready' = ready \ {ch[c].fd}
    /\ UNCHANGED <<kind, channels, failed, size, pollfds, loop>>

-----------------------------------------------------------------------------
(* EventLoop::loop, and poll of the two classes.                           *)

\* What the kernel holds about descriptors: the channel each one leads to
\* (data.ptr, or the lookup in channels_) and the events asked for.
Entries ==
    IF kind = "epoll"
    THEN {[c |-> epoll[fd].ptr, fd |-> fd, events |-> epoll[fd].events] : fd \in DOMAIN epoll}
    ELSE {[c |-> channels[p.fd], fd |-> p.fd, events |-> p.events] :
             p \in {q \in Range(pollfds) : q.fd >= 0}}

\* A ready descriptor is reported whatever its entry asks for: POLLHUP and
\* POLLERR need not be asked for.
Reportable == {e.c : e \in {x \in Entries : x.fd \in ready}}

\* Descriptors become ready, or cease to be, as their peers please.
Outside(fd) ==
    /\ \E c \in Channels : ch[c].fd = fd
    /\ ready' = IF fd \in ready THEN ready \ {fd} ELSE ready \cup {fd}
    /\ UNCHANGED <<kind, ch, poller, loop>>

EnterPoll ==
    /\ pc = "functors"
    /\ pc' = "poll"
    /\ UNCHANGED <<kind, ch, poller, ready, active, todo, current>>

\* epoll_wait reports no more than fit into the event list.
PollReady ==
    /\ pc = "poll"
    /\ Reportable # {}
    /\ \E S \in SUBSET Reportable :
        /\ IF kind = "poll" THEN S = Reportable /\ UNCHANGED size
           ELSE /\ Cardinality(S) = IF Cardinality(Reportable) < size
                                    THEN Cardinality(Reportable) ELSE size
                /\ Resize(Cardinality(S))
        /\ active' = S
        /\ todo' = S
    /\ pc' = "handle"
    /\ UNCHANGED <<kind, ch, channels, epoll, failed, pollfds, ready, current>>

\* Nothing ready until the timeout, or EINTR.
PollNothing ==
    /\ pc = "poll"
    /\ active' = {}
    /\ todo' = {}
    /\ pc' = "handle"
    /\ UNCHANGED <<kind, ch, poller, ready, current>>

Handle(c) ==
    /\ pc = "handle"
    /\ c \in todo
    /\ todo' = todo \ {c}
    /\ current' = c
    /\ pc' = "callback"
    /\ UNCHANGED <<kind, ch, poller, ready, active>>

CallbackReturn ==
    /\ pc = "callback"
    /\ pc' = "handle"
    /\ UNCHANGED <<kind, ch, poller, ready, active, todo, current>>

HandleEnd ==
    /\ pc = "handle"
    /\ todo = {}
    /\ current' = NoChannel
    /\ pc' = "functors"
    /\ UNCHANGED <<kind, ch, poller, ready, active, todo>>

Next ==
    \/ \E c \in Channels, fd \in Fds : NewChannel(c, fd)
    \/ \E c \in Channels : Update(c) \/ Remove(c) \/ Destroy(c) \/ Handle(c)
    \/ \E fd \in Fds : Outside(fd)
    \/ EnterPoll \/ PollReady \/ PollNothing \/ CallbackReturn \/ HandleEnd

Spec == Init /\ [][Next]_vars

\* The loop goes on, callbacks return, and poll is not interrupted for ever.
FairSpec ==
    /\ Spec
    /\ WF_vars(EnterPoll) /\ SF_vars(PollReady)
    /\ WF_vars(\E c \in Channels : Handle(c))
    /\ WF_vars(CallbackReturn) /\ WF_vars(HandleEnd)

-----------------------------------------------------------------------------
(* Properties.                                                             *)

Registered == Range(channels)

\* Every variable keeps its type; the channels in the list being handled are
\* objects that exist.
TypeOK ==
    /\ ch \in [Channels -> [life : {"none", "new", "added", "removed"}, fd : Fds \cup {-1},
                            events : SUBSET Events, index : -1..2 + Cardinality(Fds)]]
    /\ DOMAIN channels \subseteq Fds /\ DOMAIN epoll \subseteq Fds
    /\ Len(pollfds) <= Cardinality(Fds)
    /\ todo \subseteq {c \in active : ch[c].life # "none"}

\* channels_ holds exactly the channels that are in the loop, each under its
\* own descriptor, although descriptors are reused (hasChannel, ~Channel).
MapAgrees ==
    /\ Registered = {c \in Channels : ch[c].life = "added"}
    /\ \A fd \in DOMAIN channels : ch[channels[fd]].fd = fd

\* PollPoller: indices and pollfds_ stay in step through the swap with the last
\* entry that removeChannel does, also when that entry is ignored.
IndexAgrees ==
    kind = "poll" =>
        /\ Len(pollfds) = Cardinality(Registered)
        /\ \A c \in Registered :
            LET p == pollfds[ch[c].index + 1] IN
            /\ ch[c].index + 1 \in DOMAIN pollfds
            /\ p.fd \in {ch[c].fd, Ignored(ch[c].fd)}
            /\ p.events = ch[c].events

\* EPollPoller: no epoll_ctl(2) call fails, that is, index tells exactly
\* whether the kernel knows the descriptor (a failing ADD or MOD is fatal).
CtlNeverFails == ~failed

\* Nothing watched is stale: each watched descriptor leads to a channel that is
\* registered under it, and a channel with an interest is watched for it.
WatchesWhatIsAsked ==
    /\ \A e \in Entries : e.c \in Registered /\ ch[e.c].fd = e.fd /\ ch[e.c].events = e.events
    /\ \A c \in Registered : ch[c].events # {} => \E e \in Entries : e.c = c

\* Both classes are interest sets, whatever they keep in index, in the kernel
\* and in pollfds_.
Kernel(c) == UNION {e.events : e \in {x \in Entries : x.c = c}}
Promise == INSTANCE InterestSet WITH interest <- [c \in Registered |-> Kernel(c)]
PollerSpec == Promise!Spec

\* A channel that stays interested in a descriptor that stays ready is handled
\* in the end.  epoll_wait may report any full list of the ready descriptors;
\* it is the doubling of the list that leaves no one out.
ReadyIsHandled ==
    \A c \in Channels :
        <>[](ch[c].life = "added" /\ ch[c].events # {} /\ ch[c].fd \in ready)
            => []<>(current = c)

\* The tables of a poller agree with each other, with the channels and with the
\* kernel, and no epoll_ctl fails, through any sequence of updates and removals.
TablesAgree == TypeOK /\ MapAgrees /\ IndexAgrees /\ CtlNeverFails /\ WatchesWhatIsAsked
=============================================================================
