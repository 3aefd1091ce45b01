---------------------------- MODULE PollerProofs ----------------------------
(***************************************************************************)
(* The tables of EPollPoller and PollPoller agree with each other, with    *)
(* the channels and with the kernel, and both classes are interest sets,   *)
(* for every set of channels and of events and every finite set of         *)
(* descriptors.                                                            *)
(***************************************************************************)
EXTENDS Poller, FiniteSetTheorems, TLAPS

\* Leaves go to Zenon unless they name another prover.
USE ZenonT(60)

Lives == {"none", "new", "added", "removed"}
Objects == [life : Lives, fd : Fds \cup {-1}, events : SUBSET Events, index : Int]
PollFd == [fd : Int, events : SUBSET Events]

\* The channels that are in the loop.
Added == {c \in Channels : ch[c].life = "added"}

Typed ==
    /\ kind \in {"epoll", "poll"}
    /\ ch \in [Channels -> Objects]
    /\ pollfds \in Seq(PollFd)
    /\ pc \in {"functors", "poll", "handle", "callback"}

\* Objects have descriptors of their own, and an object that was never updated
\* is not known to the poller.
OwnFds ==
    /\ \A c \in Channels : ch[c].fd = -1 <=> ch[c].life = "none"
    /\ \A c, d \in Channels : ch[c].fd = ch[d].fd /\ ch[c].fd # -1 => c = d
    /\ \A c \in Channels : ch[c].life = "new" => ch[c].index = kNew /\ ch[c].events = {}

\* channels_ is the inverse of the descriptors of the channels in the loop.
MapInverts ==
    /\ DOMAIN channels = {ch[c].fd : c \in Added}
    /\ \A c \in Added : channels[ch[c].fd] = c
    /\ IsFiniteSet(Added) /\ Cardinality(Added) = Cardinality(DOMAIN channels)

\* EPollPoller: index tells what the kernel knows.
Known == {c \in Added : ch[c].index = kAdded}

KernelKnows ==
    kind = "epoll" =>
        /\ pollfds = <<>>
        /\ DOMAIN epoll = {ch[c].fd : c \in Known}
        /\ \A c \in Added : /\ ch[c].index \in {kAdded, kDeleted}
                            /\ ch[c].index = kDeleted => ch[c].events = {}
                            /\ ch[c].index = kAdded =>
                                   epoll[ch[c].fd] = [events |-> ch[c].events, ptr |-> c]
        /\ \A c \in Channels \ Added : ch[c].index = kNew

\* An entry of pollfds_ for a channel: its own descriptor, or that descriptor
\* ignored if it asks for nothing.
EntryOf(p, o) ==
    /\ p.fd = o.fd \/ (p.fd = Ignored(o.fd) /\ o.events = {})
    /\ p.events = o.events

\* PollPoller: index and pollfds_ are inverses.
PlacesInvert ==
    kind = "poll" =>
        /\ DOMAIN epoll = {}
        /\ Len(pollfds) = Cardinality(Added)
        /\ \A c \in Added : /\ ch[c].index + 1 \in 1 .. Len(pollfds)
                            /\ EntryOf(pollfds[ch[c].index + 1], ch[c])
        /\ \A i \in 1 .. Len(pollfds) : \E c \in Added : ch[c].index + 1 = i
        /\ \A c \in Channels \ Added : ch[c].index \in -1 .. Cardinality(Fds)

\* The channels still to be handled are in the loop, because the one that is
\* being handled is the only active one that may be removed.
TodoStays ==
    /\ active \subseteq Channels /\ todo \subseteq active /\ todo \subseteq Added
    /\ pc \in {"functors", "poll"} => todo = {}
    /\ pc = "callback" => current \notin todo

\* The inductive invariant.
PInv ==
    /\ Typed /\ OwnFds /\ MapInverts /\ KernelKnows /\ PlacesInvert /\ TodoStays
    /\ failed = FALSE

-----------------------------------------------------------------------------
(* What map::erase leaves.                                                 *)
LEMMA RestrictIs ==
    ASSUME NEW f, NEW x
    PROVE  /\ DOMAIN Restrict(f, DOMAIN f \ {x}) = DOMAIN f \ {x}
           /\ \A y \in DOMAIN f : y # x => Restrict(f, DOMAIN f \ {x})[y] = f[y]
BY SMTT(60) DEF Restrict

(* A channel object.                                                       *)
LEMMA ObjectType ==
    ASSUME Typed, NEW c \in Channels
    PROVE  /\ ch[c] \in Objects
           /\ ch[c].life \in Lives /\ ch[c].fd \in Fds \cup {-1} /\ ch[c].events \in SUBSET Events
           /\ ch[c].index \in Int
<1>1. ch[c] \in Objects
    BY DEF Typed
<1> QED
    BY <1>1, SMTT(60) DEF Objects

(* The descriptor of an object that exists.                                *)
LEMMA FdOf ==
    ASSUME Typed, OwnFds, NEW c \in Channels, ch[c].life # "none"
    PROVE  ch[c].fd \in Fds /\ ch[c].fd \in Nat /\ ch[c].fd # -1
<1>1. ch[c].fd # -1 /\ ch[c].fd \in Fds \cup {-1}
    BY ObjectType DEF OwnFds
<1> QED
    BY <1>1, PollerAssumption

(* The channels of the loop, by channels_.                                 *)
LEMMA RegisteredAdded ==
    ASSUME MapInverts
    PROVE  Registered = Added
<1>1. DOMAIN channels = {ch[c].fd : c \in Added} /\ \A c \in Added : channels[ch[c].fd] = c
    BY DEF MapInverts
<1>2. Registered = {channels[x] : x \in DOMAIN channels}
    BY DEF Registered, Range
<1>3. ASSUME NEW c \in Added PROVE c \in Registered
    BY <1>1, <1>2
<1>4. ASSUME NEW c \in Registered PROVE c \in Added
    <2>1. PICK x \in DOMAIN channels : c = channels[x]
        BY <1>2
    <2>2. PICK d \in Added : x = ch[d].fd
        BY <1>1, <2>1
    <2> QED
        BY <1>1, <2>1, <2>2
<1> QED
    BY <1>3, <1>4

(* There are no more channels in the loop than descriptors.                *)
LEMMA AddedFew ==
    ASSUME Typed, OwnFds, MapInverts
    PROVE  /\ Cardinality(Added) \in Nat /\ Cardinality(Fds) \in Nat
           /\ Cardinality(Added) <= Cardinality(Fds)
           /\ DOMAIN channels \subseteq Fds
<1>1. DOMAIN channels \subseteq Fds
    <2>1. DOMAIN channels = {ch[c].fd : c \in Added}
        BY DEF MapInverts
    <2>2. \A c \in Added : ch[c].fd \in Fds
        <3> SUFFICES ASSUME NEW c \in Added PROVE ch[c].fd \in Fds
            OBVIOUS
        <3>1. c \in Channels /\ ch[c].life # "none"
            BY DEF Added
        <3> QED
            BY <3>1, FdOf
    <2> QED
        BY <2>1, <2>2
<1>2. IsFiniteSet(Fds)
    BY PollerAssumption
<1>3. Cardinality(DOMAIN channels) <= Cardinality(Fds)
    BY <1>1, <1>2, FS_Subset
<1>4. Cardinality(Fds) \in Nat /\ Cardinality(Added) \in Nat
    BY <1>2, FS_CardinalityType DEF MapInverts
<1> QED
    BY <1>1, <1>3, <1>4 DEF MapInverts

(* An ignored descriptor is negative, and no two are ignored alike.        *)
LEMMA IgnoredIs ==
    ASSUME NEW a \in Nat, NEW b \in Nat
    PROVE  /\ Ignored(a) < 0 /\ ~(a < 0) /\ Ignored(Ignored(a)) = a /\ Ignored(a) # b
           /\ Ignored(a) = Ignored(b) => a = b
BY SMTT(60) DEF Ignored

(* Two channels in the loop never share an entry of pollfds_.              *)
LEMMA SamePlace ==
    ASSUME Typed, OwnFds, PlacesInvert, kind = "poll", NEW c \in Added, NEW d \in Added,
           ch[c].index = ch[d].index
    PROVE  c = d
<1>1. c \in Channels /\ d \in Channels /\ ch[c].life # "none" /\ ch[d].life # "none"
    BY DEF Added
<1>2. ch[c].fd \in Nat /\ ch[d].fd \in Nat /\ ch[c].fd # -1
    BY <1>1, FdOf
<1> DEFINE p == pollfds[ch[c].index + 1]
<1>3. (p.fd = ch[c].fd \/ p.fd = Ignored(ch[c].fd)) /\ (p.fd = ch[d].fd \/ p.fd = Ignored(ch[d].fd))
    BY DEF PlacesInvert, EntryOf
<1>4. ch[c].fd = ch[d].fd
    BY <1>2, <1>3, IgnoredIs
<1> QED
    BY <1>1, <1>2, <1>4 DEF OwnFds

\* What a poller knows of a channel that it watches.
Watch(c) == [c |-> c, fd |-> ch[c].fd, events |-> ch[c].events]

(* What the kernel watches, under both pollers: channels that are in the   *)
(* loop, for what they ask, and every channel that asks for something.     *)
LEMMA EntriesAre ==
    ASSUME PInv
    PROVE  /\ \A e \in Entries : \E c \in Added : e = Watch(c)
           /\ \A c \in Added : ch[c].events # {} => Watch(c) \in Entries
<1>0. Typed /\ OwnFds /\ MapInverts /\ KernelKnows /\ PlacesInvert
    BY DEF PInv
<1>1. CASE kind = "epoll"
    <2>1. Entries = {[c |-> epoll[fd].ptr, fd |-> fd, events |-> epoll[fd].events] : fd \in DOMAIN epoll}
        BY <1>1 DEF Entries
    <2>2. /\ DOMAIN epoll = {ch[c].fd : c \in Known}
          /\ \A c \in Added : /\ ch[c].index \in {kAdded, kDeleted}
                              /\ ch[c].index = kDeleted => ch[c].events = {}
                              /\ ch[c].index = kAdded =>
                                     epoll[ch[c].fd] = [events |-> ch[c].events, ptr |-> c]
        BY <1>0, <1>1 DEF KernelKnows
    <2>3. ASSUME NEW c \in Added, ch[c].index = kAdded
          PROVE  [c |-> epoll[ch[c].fd].ptr, fd |-> ch[c].fd, events |-> epoll[ch[c].fd].events] = Watch(c)
        <3>1. epoll[ch[c].fd] = [events |-> ch[c].events, ptr |-> c]
            BY <2>2, <2>3
        <3>2. epoll[ch[c].fd].ptr = c /\ epoll[ch[c].fd].events = ch[c].events
            BY <3>1, SMTT(60)
        <3> QED
            BY <3>2 DEF Watch
    <2>4. ASSUME NEW e \in Entries PROVE \E c \in Added : e = Watch(c)
        <3>1. PICK fd \in DOMAIN epoll : e = [c |-> epoll[fd].ptr, fd |-> fd, events |-> epoll[fd].events]
            BY <2>1, <2>4
        <3>2. PICK c \in Known : fd = ch[c].fd
            BY <2>2, <3>1
        <3>3. c \in Added /\ ch[c].index = kAdded
            BY DEF Known
        <3> QED
            BY <2>3, <3>1, <3>2, <3>3
    <2>5. ASSUME NEW c \in Added, ch[c].events # {} PROVE Watch(c) \in Entries
        <3>1. ch[c].index = kAdded
            BY <2>2, <2>5
        <3>2. c \in Known
            BY <3>1 DEF Known
        <3>3. ch[c].fd \in DOMAIN epoll
            BY <2>2, <3>2, SMTT(60)
        <3> QED
            BY <2>1, <2>3, <3>1, <3>3
    <2> QED
        BY <2>4, <2>5
<1>2. CASE kind = "poll"
    <2>0. kind # "epoll"
        BY <1>2
    <2>1. Entries = {[c |-> channels[p.fd], fd |-> p.fd, events |-> p.events] :
                        p \in {q \in Range(pollfds) : q.fd >= 0}}
        BY <2>0 DEF Entries
    <2>2. pollfds \in Seq(PollFd) /\ DOMAIN pollfds = 1 .. Len(pollfds)
        BY <1>0, SMTT(60) DEF Typed
    <2>3. Range(pollfds) = {pollfds[i] : i \in 1 .. Len(pollfds)}
        BY <2>2 DEF Range
    <2>4. /\ \A c \in Added : /\ ch[c].index + 1 \in 1 .. Len(pollfds)
                              /\ EntryOf(pollfds[ch[c].index + 1], ch[c])
          /\ \A i \in 1 .. Len(pollfds) : \E c \in Added : ch[c].index + 1 = i
        BY <1>0, <1>2 DEF PlacesInvert
    <2>5. \A c \in Added : ch[c].fd \in Nat /\ channels[ch[c].fd] = c
        <3> SUFFICES ASSUME NEW c \in Added PROVE ch[c].fd \in Nat /\ channels[ch[c].fd] = c
            OBVIOUS
        <3>1. c \in Channels /\ ch[c].life # "none"
            BY DEF Added
        <3>2. ch[c].fd \in Nat
            BY <1>0, <3>1, FdOf
        <3> QED
            BY <1>0, <3>2 DEF MapInverts
    <2>6. ASSUME NEW e \in Entries PROVE \E c \in Added : e = Watch(c)
        <3>1. PICK i \in 1 .. Len(pollfds) :
                 /\ pollfds[i].fd >= 0
                 /\ e = [c |-> channels[pollfds[i].fd], fd |-> pollfds[i].fd, events |-> pollfds[i].events]
            BY <2>1, <2>3, <2>6
        <3>2. PICK c \in Added : ch[c].index + 1 = i
            BY <2>4, <3>1
        <3>3. EntryOf(pollfds[i], ch[c])
            BY <2>4, <3>2
        <3>4. pollfds[i].fd # Ignored(ch[c].fd)
            <4>1. ch[c].fd \in Nat
                BY <2>5
            <4> QED
                BY <3>1, <4>1, SMTT(60) DEF Ignored
        <3>5. pollfds[i].fd = ch[c].fd /\ pollfds[i].events = ch[c].events
            BY <3>3, <3>4 DEF EntryOf
        <3> QED
            BY <2>5, <3>1, <3>5 DEF Watch
    <2>7. ASSUME NEW c \in Added, ch[c].events # {} PROVE Watch(c) \in Entries
        <3> DEFINE p == pollfds[ch[c].index + 1]
        <3>1. ch[c].index + 1 \in 1 .. Len(pollfds) /\ p.fd = ch[c].fd /\ p.events = ch[c].events
            BY <2>4, <2>7 DEF EntryOf
        <3>2. ch[c].fd \in Nat
            BY <2>5
        <3>3. p.fd >= 0
            BY <3>1, <3>2, SMTT(60)
        <3>4. p \in {q \in Range(pollfds) : q.fd >= 0}
            BY <2>3, <3>1, <3>3
        <3> HIDE DEF p
        <3>5. [c |-> channels[p.fd], fd |-> p.fd, events |-> p.events] = Watch(c)
            BY <2>5, <3>1 DEF Watch
        <3> QED
            BY <2>1, <3>4, <3>5
    <2> QED
        BY <2>6, <2>7
<1> QED
    BY <1>0, <1>1, <1>2 DEF Typed

(* So nothing is reported but channels in the loop ...                     *)
LEMMA ReportableAdded ==
    ASSUME PInv
    PROVE  Reportable \subseteq Added
<1> SUFFICES ASSUME NEW c \in Reportable PROVE c \in Added
    OBVIOUS
<1>1. PICK e \in Entries : c = e.c
    BY DEF Reportable
<1>2. PICK d \in Added : e = Watch(d)
    BY <1>1, EntriesAre
<1>3. Watch(d).c = d
    BY DEF Watch
<1> QED
    BY <1>1, <1>2, <1>3

(* ... and what the kernel watches for a channel is what it asks for.      *)
LEMMA KernelIs ==
    ASSUME PInv, NEW c \in Added
    PROVE  Kernel(c) = ch[c].events
<1> DEFINE own == {x \in Entries : x.c = c}
<1>1. ASSUME NEW e \in own PROVE e.events = ch[c].events
    <2>1. PICK d \in Added : e = Watch(d)
        BY <1>1, EntriesAre
    <2>2. Watch(d).c = d /\ Watch(d).events = ch[d].events
        BY DEF Watch
    <2> QED
        BY <1>1, <2>1, <2>2
<1>2. ch[c].events # {} => Watch(c) \in own
    <2>1. Watch(c).c = c
        BY DEF Watch
    <2> QED
        BY <2>1, EntriesAre
<1>3. Watch(c).events = ch[c].events
    BY DEF Watch
<1> HIDE DEF own
<1>4. ASSUME NEW v \in UNION {e.events : e \in own} PROVE v \in ch[c].events
    BY <1>1
<1>5. ASSUME NEW v \in ch[c].events PROVE v \in UNION {e.events : e \in own}
    BY <1>2, <1>3
<1>6. UNION {e.events : e \in own} = ch[c].events
    BY <1>4, <1>5
<1> QED
    BY <1>6 DEF Kernel, own

-----------------------------------------------------------------------------
(* Channels and channels_ after updateChannel and removeChannel, whatever  *)
(* the class does with index.                                              *)

\* A channel has joined the loop, or was in it.
Joins(c) ==
    /\ ch' \in [Channels -> Objects]
    /\ ch'[c].life = "added" /\ ch'[c].fd = ch[c].fd
    /\ \A d \in Channels : d # c => ch'[d] = ch[d]
    /\ channels' = IF c \in Added THEN channels ELSE Insert(channels, ch[c].fd, c)

(* Then the channel is the only one that is new in the loop, and channels_ *)
(* is still the inverse of the descriptors.                                *)
LEMMA JoinKeeps ==
    ASSUME Typed, OwnFds, MapInverts, NEW c \in Channels, ch[c].life \in {"new", "added"}, Joins(c)
    PROVE  Added' = Added \cup {c} /\ OwnFds' /\ MapInverts'
<1>1. Added' = Added \cup {c}
    BY SMTT(60) DEF Joins, Added
<1>2. \A d \in Channels : ch'[d].fd = ch[d].fd
    BY DEF Joins
<1>3. OwnFds'
    <2>1. \A d \in Channels : ch'[d].fd = -1 <=> ch'[d].life = "none"
        <3> SUFFICES ASSUME NEW d \in Channels PROVE ch'[d].fd = -1 <=> ch'[d].life = "none"
            OBVIOUS
        <3>1. CASE d = c
            <4>1. ch[c].life # "none" /\ ch'[c].life # "none"
                BY DEF Joins
            <4> QED
                BY <1>2, <3>1, <4>1 DEF OwnFds
        <3>2. CASE d # c
            BY <3>2 DEF OwnFds, Joins
        <3> QED
            BY <3>1, <3>2
    <2>2. \A d, e \in Channels : ch'[d].fd = ch'[e].fd /\ ch'[d].fd # -1 => d = e
        BY <1>2 DEF OwnFds
    <2>3. \A d \in Channels : ch'[d].life = "new" => ch'[d].index = kNew /\ ch'[d].events = {}
        <3>1. ch'[c].life # "new"
            BY DEF Joins
        <3> QED
            BY <3>1 DEF OwnFds, Joins
    <2> QED
        BY <2>1, <2>2, <2>3 DEF OwnFds, kNew
<1>4. CASE c \in Added
    <2>1. Added' = Added /\ channels' = channels
        BY <1>1, <1>4 DEF Joins
    <2>2. \A d \in Added : d \in Channels
        BY DEF Added
    <2>3. {ch'[d].fd : d \in Added} = {ch[d].fd : d \in Added}
        BY <1>2, <2>2
    <2>4. MapInverts'
        BY <1>2, <2>1, <2>2, <2>3 DEF MapInverts
    <2> QED
        BY <1>1, <1>3, <2>4
<1>5. CASE c \notin Added
    <2> DEFINE fd == ch[c].fd
    <2>1. channels' = Insert(channels, fd, c)
        BY <1>5 DEF Joins
    <2>2. /\ DOMAIN channels' = DOMAIN channels \cup {fd} /\ channels'[fd] = c
          /\ \A y \in DOMAIN channels : y # fd => channels'[y] = channels[y]
        <3> HIDE DEF fd
        <3> QED
            BY <2>1, SMTT(60) DEF Insert
    <2>3. \A d \in Added : d \in Channels /\ ch[d].fd # fd
        <3> SUFFICES ASSUME NEW d \in Added PROVE d \in Channels /\ ch[d].fd # fd
            OBVIOUS
        <3>1. d \in Channels /\ d # c
            BY <1>5 DEF Added
        <3>2. ch[c].life # "none"
            OBVIOUS
        <3>3. ch[c].fd # -1
            BY <3>2 DEF OwnFds
        <3> QED
            BY <3>1, <3>3 DEF OwnFds
    <2>4. DOMAIN channels = {ch[d].fd : d \in Added} /\ \A d \in Added : channels[ch[d].fd] = d
        BY DEF MapInverts
    <2>5. fd \notin DOMAIN channels
        BY <2>3, <2>4
    <2>6. DOMAIN channels' = {ch'[d].fd : d \in Added'}
        <3>1. {ch'[d].fd : d \in Added \cup {c}} = {ch[d].fd : d \in Added} \cup {fd}
            BY <1>2, <2>3
        <3> QED
            BY <1>1, <2>2, <2>4, <3>1
    <2>7. \A d \in Added' : channels'[ch'[d].fd] = d
        <3> SUFFICES ASSUME NEW d \in Added \cup {c} PROVE channels'[ch'[d].fd] = d
            BY <1>1
        <3>1. CASE d = c
            BY <1>2, <2>2, <3>1
        <3>2. CASE d \in Added
            <4>1. ch'[d].fd = ch[d].fd /\ ch[d].fd # fd /\ ch[d].fd \in DOMAIN channels
                BY <1>2, <2>3, <2>4, <3>2
            <4> QED
                BY <2>2, <2>4, <3>2, <4>1
        <3> QED
            BY <3>1, <3>2
    <2>8. IsFiniteSet(Added) /\ Cardinality(Added) = Cardinality(DOMAIN channels)
        BY DEF MapInverts
    <2>9. IsFiniteSet(DOMAIN channels)
        BY AddedFew, FS_Subset, PollerAssumption
    <2>10. IsFiniteSet(Added \cup {c}) /\ Cardinality(Added \cup {c}) = Cardinality(Added) + 1
        BY <1>5, <2>8, FS_AddElement
    <2>11. Cardinality(DOMAIN channels \cup {fd}) = Cardinality(DOMAIN channels) + 1
        BY <2>5, <2>9, FS_AddElement
    <2>12. MapInverts'
        BY <1>1, <2>2, <2>6, <2>7, <2>8, <2>10, <2>11 DEF MapInverts
    <2> QED
        BY <1>1, <1>3, <2>12
<1> QED
    BY <1>4, <1>5

\* A channel has left the loop; another one may have a new index.
Leaves(c) ==
    /\ ch' \in [Channels -> Objects]
    /\ ch'[c].life = "removed" /\ ch'[c].fd = ch[c].fd
    /\ \A d \in Channels : d # c => /\ ch'[d].life = ch[d].life /\ ch'[d].fd = ch[d].fd
                                    /\ ch'[d].events = ch[d].events
                                    /\ d \notin Added => ch'[d].index = ch[d].index
    /\ channels' = Erase(ch[c].fd)

(* Then the channel is the only one that is gone, and channels_ is still   *)
(* the inverse of the descriptors.                                         *)
LEMMA LeaveKeeps ==
    ASSUME Typed, OwnFds, MapInverts, NEW c \in Added, Leaves(c)
    PROVE  /\ Added' = Added \ {c} /\ OwnFds' /\ MapInverts'
           /\ Cardinality(Added') = Cardinality(Added) - 1
<1>0. c \in Channels /\ ch[c].life = "added"
    BY DEF Added
<1>1. Added' = Added \ {c}
    BY <1>0, SMTT(60) DEF Leaves, Added
<1>2. \A d \in Channels : ch'[d].fd = ch[d].fd
    BY <1>0 DEF Leaves
<1>3. OwnFds'
    <2>1. \A d \in Channels : ch'[d].fd = -1 <=> ch'[d].life = "none"
        <3> SUFFICES ASSUME NEW d \in Channels PROVE ch'[d].fd = -1 <=> ch'[d].life = "none"
            OBVIOUS
        <3>1. CASE d = c
            <4>1. ch[c].life # "none" /\ ch'[c].life # "none"
                BY <1>0 DEF Leaves
            <4> QED
                BY <1>0, <1>2, <3>1, <4>1 DEF OwnFds
        <3>2. CASE d # c
            BY <3>2 DEF OwnFds, Leaves
        <3> QED
            BY <3>1, <3>2
    <2>2. \A d, e \in Channels : ch'[d].fd = ch'[e].fd /\ ch'[d].fd # -1 => d = e
        BY <1>2 DEF OwnFds
    <2>3. ASSUME NEW d \in Channels, ch'[d].life = "new"
          PROVE  ch'[d].index = kNew /\ ch'[d].events = {}
        <3>1. d # c
            BY <2>3 DEF Leaves
        <3>2. ch[d].life = "new"
            BY <2>3, <3>1 DEF Leaves
        <3>3. d \notin Added
            BY <3>2 DEF Added
        <3> QED
            BY <3>1, <3>2, <3>3 DEF OwnFds, Leaves
    <2> QED
        BY <2>1, <2>2, <2>3 DEF OwnFds, kNew
<1> DEFINE fd == ch[c].fd
<1>4. channels' = Restrict(channels, DOMAIN channels \ {fd})
    BY DEF Leaves, Erase
<1>5. /\ DOMAIN channels' = DOMAIN channels \ {fd}
      /\ \A y \in DOMAIN channels : y # fd => channels'[y] = channels[y]
    BY <1>4, RestrictIs
<1>6. DOMAIN channels = {ch[d].fd : d \in Added} /\ \A d \in Added : channels[ch[d].fd] = d
    BY DEF MapInverts
<1>7. \A d \in Added : d \in Channels /\ (d # c => ch[d].fd # fd)
    <2> SUFFICES ASSUME NEW d \in Added PROVE d \in Channels /\ (d # c => ch[d].fd # fd)
        OBVIOUS
    <2>1. d \in Channels /\ ch[d].life # "none"
        BY DEF Added
    <2> QED
        BY <1>0, <2>1 DEF OwnFds
<1>8. DOMAIN channels' = {ch'[d].fd : d \in Added'}
    <2>1. {ch'[d].fd : d \in Added \ {c}} = {ch[d].fd : d \in Added} \ {fd}
        BY <1>2, <1>7
    <2> QED
        BY <1>1, <1>5, <1>6, <2>1
<1>9. \A d \in Added' : channels'[ch'[d].fd] = d
    <2> SUFFICES ASSUME NEW d \in Added, d # c PROVE channels'[ch'[d].fd] = d
        BY <1>1
    <2>1. ch'[d].fd = ch[d].fd /\ ch[d].fd # fd /\ ch[d].fd \in DOMAIN channels
        BY <1>2, <1>6, <1>7
    <2> QED
        BY <1>5, <1>6, <2>1
<1>10. IsFiniteSet(Added) /\ Cardinality(Added) = Cardinality(DOMAIN channels)
    BY DEF MapInverts
<1>11. IsFiniteSet(DOMAIN channels)
    BY AddedFew, FS_Subset, PollerAssumption
<1>12. IsFiniteSet(Added \ {c}) /\ Cardinality(Added \ {c}) = Cardinality(Added) - 1
    BY <1>10, FS_RemoveElement
<1>13. fd \in DOMAIN channels
    BY <1>6
<1>14. Cardinality(DOMAIN channels \ {fd}) = Cardinality(DOMAIN channels) - 1
    BY <1>11, <1>13, FS_RemoveElement
<1>15. MapInverts'
    BY <1>1, <1>5, <1>8, <1>9, <1>10, <1>12, <1>14 DEF MapInverts
<1> QED
    BY <1>1, <1>3, <1>12, <1>15

-----------------------------------------------------------------------------
(* EPollPoller.                                                            *)

\* EPOLL_CTL_ADD and EPOLL_CTL_MOD, and EPOLL_CTL_DEL.
Learns(fd, v) ==
    /\ DOMAIN epoll' = DOMAIN epoll \cup {fd} /\ epoll'[fd] = v
    /\ \A y \in DOMAIN epoll : y # fd => epoll'[y] = epoll[y]
Forgets(fd) ==
    /\ DOMAIN epoll' = DOMAIN epoll \ {fd}
    /\ \A y \in DOMAIN epoll : y # fd => epoll'[y] = epoll[y]

\* A channel's object is now this one, and the others are as they were.
Becomes(c, l, fd, ev, k) ==
    /\ ch' \in [Channels -> Objects]
    /\ ch'[c].life = l /\ ch'[c].fd = fd /\ ch'[c].events = ev /\ ch'[c].index = k
    /\ \A d \in Channels : d # c => ch'[d] = ch[d]

(* The object after Channel::update and set_index, or after a constructor  *)
(* or a destructor.                                                        *)
LEMMA ObjectUpdated ==
    ASSUME Typed, NEW c \in Channels, NEW l \in Lives, NEW fd \in Fds \cup {-1},
           NEW ev \in SUBSET Events, NEW k \in Int,
           ch' = [ch EXCEPT ![c] = Object(l, fd, ev, k)]
    PROVE  Becomes(c, l, fd, ev, k)
<1> DEFINE o == Object(l, fd, ev, k)
<1>1. o \in Objects
    BY SMTT(60) DEF Object, Objects
<1>2. o.life = l /\ o.fd = fd /\ o.events = ev /\ o.index = k
    BY DEF Object
<1> HIDE DEF o
<1>3. ch' \in [Channels -> Objects] /\ ch'[c] = o /\ \A d \in Channels : d # c => ch'[d] = ch[d]
    BY <1>1, SMTT(60) DEF Typed, o
<1> QED
    BY <1>2, <1>3 DEF Becomes

(* An entry put into the epoll set ...                                     *)
LEMMA Inserted ==
    ASSUME NEW fd, NEW v, epoll' = Insert(epoll, fd, v)
    PROVE  Learns(fd, v)
BY SMTT(60) DEF Insert, Learns

(* ... and one taken out of it.                                            *)
LEMMA Erased ==
    ASSUME NEW fd, epoll' = Restrict(epoll, DOMAIN epoll \ {fd})
    PROVE  Forgets(fd)
BY SMTT(60) DEF Restrict, Forgets

(* A descriptor is in the epoll set only for its own channel.              *)
LEMMA KnownFd ==
    ASSUME Typed, OwnFds, KernelKnows, kind = "epoll", NEW c \in Channels, ch[c].life # "none"
    PROVE  ch[c].fd \in DOMAIN epoll <=> c \in Known
<1>1. DOMAIN epoll = {ch[d].fd : d \in Known}
    BY DEF KernelKnows
<1>2. c \in Known => ch[c].fd \in DOMAIN epoll
    BY <1>1
<1>3. ASSUME ch[c].fd \in DOMAIN epoll PROVE c \in Known
    <2>1. PICK d \in Known : ch[c].fd = ch[d].fd
        BY <1>1, <1>3
    <2>2. d \in Channels /\ ch[c].fd # -1
        BY DEF Known, Added, OwnFds
    <2>3. c = d
        BY <2>1, <2>2 DEF OwnFds
    <2> QED
        BY <2>1, <2>3
<1> QED
    BY <1>2, <1>3

(* What EPollPoller::updateChannel does to the objects, to channels_ and   *)
(* to the kernel: no epoll_ctl fails.                                      *)
LEMMA EPollUpdateDoes ==
    ASSUME PInv, kind = "epoll", NEW c \in Channels, ch[c].life \in {"new", "added"},
           NEW ev \in SUBSET Events, EPollUpdateChannel(c, ev)
    PROVE  /\ Joins(c) /\ ch'[c].events = ev /\ failed' = FALSE /\ pollfds' = pollfds
           /\ \/ ch'[c].index = kAdded /\ Learns(ch[c].fd, [events |-> ev, ptr |-> c])
              \/ ch'[c].index = kDeleted /\ ev = {} /\ Forgets(ch[c].fd)
<1>0. Typed /\ OwnFds /\ KernelKnows /\ failed = FALSE
    BY DEF PInv
<1> DEFINE fd == ch[c].fd
           new == ch[c].index \in {kNew, kDeleted}
           op == IF new THEN "ADD" ELSE IF ev = {} THEN "DEL" ELSE "MOD"
<1>1. /\ channels' = IF ch[c].index = kNew THEN Insert(channels, fd, c) ELSE channels
      /\ Ctl(op, fd, [events |-> ev, ptr |-> c])
      /\ ch' = [ch EXCEPT ![c] = Object("added", fd, ev, IndexAfter(op))]
      /\ pollfds' = pollfds
    BY DEF EPollUpdateChannel
<1>2. ch[c].index = kNew <=> c \notin Added
    <2>1. CASE c \in Added
        <3>1. ch[c].index \in {kAdded, kDeleted}
            BY <1>0, <2>1 DEF KernelKnows
        <3> QED
            BY <2>1, <3>1, SMTT(60) DEF kNew, kAdded, kDeleted
    <2>2. CASE c \notin Added
        <3>1. ch[c].index = kNew
            BY <1>0, <2>2 DEF KernelKnows
        <3> QED
            BY <2>2, <3>1
    <2> QED
        BY <2>1, <2>2
<1>3. new <=> c \notin Known
    <2>1. kNew # kAdded /\ kDeleted # kAdded
        BY SMTT(60) DEF kNew, kAdded, kDeleted
    <2>2. c \in Added => ch[c].index \in {kAdded, kDeleted}
        BY <1>0 DEF KernelKnows
    <2> QED
        BY <1>2, <2>1, <2>2 DEF Known
<1>4. fd \in DOMAIN epoll <=> c \in Known
    <2>1. ch[c].life # "none"
        OBVIOUS
    <2> QED
        BY <1>0, <2>1, KnownFd
<1>5. (op = "ADD") # (fd \in DOMAIN epoll)
    <2>1. op = "ADD" <=> new
        OBVIOUS
    <2> HIDE DEF op, new, fd
    <2> QED
        BY <1>3, <1>4, <2>1
<1>6. IndexAfter(op) \in Int
    BY SMTT(60) DEF IndexAfter, kAdded, kDeleted
<1>7. /\ ch' \in [Channels -> Objects]
      /\ ch'[c].life = "added" /\ ch'[c].fd = ch[c].fd /\ ch'[c].events = ev
      /\ ch'[c].index = IndexAfter(op)
      /\ \A d \in Channels : d # c => ch'[d] = ch[d]
    <2>1. ch[c].fd \in Fds \cup {-1} /\ "added" \in Lives
        BY <1>0, ObjectType DEF Lives
    <2> DEFINE k == IndexAfter(op)
    <2>2. ch' = [ch EXCEPT ![c] = Object("added", fd, ev, k)]
        BY <1>1
    <2>3. k \in Int /\ fd \in Fds \cup {-1} /\ fd = ch[c].fd
        BY <1>6, <2>1
    <2> HIDE DEF k, fd
    <2>4. Becomes(c, "added", fd, ev, k)
        BY <1>0, <2>1, <2>2, <2>3, ObjectUpdated
    <2> QED
        BY <2>3, <2>4 DEF k, Becomes
<1>8. Joins(c)
    BY <1>1, <1>2, <1>7 DEF Joins
<1>9. /\ failed' = FALSE
      /\ epoll' = IF op = "DEL" THEN Restrict(epoll, DOMAIN epoll \ {fd})
                  ELSE Insert(epoll, fd, [events |-> ev, ptr |-> c])
    <2> HIDE DEF op, fd
    <2> QED
        BY <1>0, <1>1, <1>5 DEF Ctl
<1>10. \/ IndexAfter(op) = kAdded /\ Learns(fd, [events |-> ev, ptr |-> c])
       \/ IndexAfter(op) = kDeleted /\ ev = {} /\ Forgets(fd)
    <2>1. CASE op = "DEL"
        <3>1. ev = {}
            BY <2>1
        <3> HIDE DEF op
        <3>2. epoll' = Restrict(epoll, DOMAIN epoll \ {fd}) /\ IndexAfter(op) = kDeleted
            BY <1>9, <2>1 DEF IndexAfter
        <3> QED
            BY <3>1, <3>2, Erased
    <2>2. CASE op # "DEL"
        <3> HIDE DEF op
        <3>1. epoll' = Insert(epoll, fd, [events |-> ev, ptr |-> c]) /\ IndexAfter(op) = kAdded
            BY <1>9, <2>2 DEF IndexAfter
        <3> QED
            BY <3>1, Inserted
    <2> QED
        BY <2>1, <2>2
<1> HIDE DEF op
<1> QED
    BY <1>1, <1>7, <1>8, <1>9, <1>10

(* index tells what the kernel knows when one channel has changed and the  *)
(* epoll set with it.                                                      *)
LEMMA KernelFollows ==
    ASSUME Typed, OwnFds, KernelKnows, kind = "epoll", NEW c \in Channels, ch[c].life # "none",
           Added' = Added \cup {c} \/ Added' = Added \ {c},
           \A d \in Channels : ch'[d].fd = ch[d].fd /\ (d # c => ch'[d] = ch[d]),
           \/ /\ c \in Added' /\ ch'[c].index = kAdded
              /\ Learns(ch[c].fd, [events |-> ch'[c].events, ptr |-> c])
           \/ /\ c \in Added' => ch'[c].index = kDeleted /\ ch'[c].events = {}
              /\ c \notin Added' => ch'[c].index = kNew
              /\ Forgets(ch[c].fd),
           pollfds' = pollfds, kind' = kind
    PROVE  KernelKnows'
<1> DEFINE fd == ch[c].fd
<1>1. /\ pollfds = <<>> /\ DOMAIN epoll = {ch[d].fd : d \in Known}
      /\ \A d \in Added : /\ ch[d].index \in {kAdded, kDeleted}
                          /\ ch[d].index = kDeleted => ch[d].events = {}
                          /\ ch[d].index = kAdded => epoll[ch[d].fd] = [events |-> ch[d].events, ptr |-> d]
      /\ \A d \in Channels \ Added : ch[d].index = kNew
    BY DEF KernelKnows
<1>2. kNew # kAdded /\ kDeleted # kAdded
    BY SMTT(60) DEF kNew, kAdded, kDeleted
<1>3. \A d \in Channels : d # c => ch[d].fd # fd
    BY DEF OwnFds
<1>4. Added \subseteq Channels /\ Known \subseteq Channels
    BY DEF Added, Known
<1>5. Added' \subseteq Channels /\ \A d \in Channels : d # c => (d \in Added' <=> d \in Added)
    BY <1>4
<1>6. \A d \in Channels : d # c => (d \in Known' <=> d \in Known)
    BY <1>5 DEF Known, kAdded
<1>7. Known' \subseteq Channels
    BY <1>5 DEF Known
<1>8. CASE /\ c \in Added' /\ ch'[c].index = kAdded
           /\ Learns(fd, [events |-> ch'[c].events, ptr |-> c])
    <2> DEFINE v == [events |-> ch'[c].events, ptr |-> c]
    <2>1. /\ DOMAIN epoll' = DOMAIN epoll \cup {fd} /\ epoll'[fd] = v
          /\ \A y \in DOMAIN epoll : y # fd => epoll'[y] = epoll[y]
        BY <1>8 DEF Learns
    <2>2. c \in Known'
        BY <1>8 DEF Known, kAdded
    <2>3. Known' = Known \cup {c}
        BY <1>4, <1>6, <1>7, <2>2
    <2>4. {ch'[d].fd : d \in Known \cup {c}} = {ch[d].fd : d \in Known} \cup {fd}
        BY <1>4
    <2>5. DOMAIN epoll' = {ch'[d].fd : d \in Known'}
        BY <1>1, <2>1, <2>3, <2>4
    <2>6. ASSUME NEW d \in Added'
          PROVE  /\ ch'[d].index \in {kAdded, kDeleted}
                 /\ ch'[d].index = kDeleted => ch'[d].events = {}
                 /\ ch'[d].index = kAdded => epoll'[ch'[d].fd] = [events |-> ch'[d].events, ptr |-> d]
        <3>1. CASE d = c
            BY <1>2, <1>8, <2>1, <3>1
        <3>2. CASE d # c
            <4>1. d \in Channels /\ d \in Added /\ ch'[d] = ch[d] /\ ch[d].fd # fd
                BY <1>3, <1>5, <2>6, <3>2
            <4>2. ch[d].index = kAdded => ch[d].fd \in DOMAIN epoll
                <5>1. ch[d].index = kAdded => d \in Known
                    BY <4>1 DEF Known
                <5> QED
                    BY <1>1, <5>1
            <4>3. ch[d].index = kAdded => epoll'[ch[d].fd] = epoll[ch[d].fd]
                BY <2>1, <4>1, <4>2
            <4> QED
                BY <1>1, <4>1, <4>3
        <3> QED
            BY <3>1, <3>2
    <2>7. \A d \in Channels \ Added' : ch'[d].index = kNew
        BY <1>1, <1>5, <1>8
    <2> QED
        BY <1>1, <2>5, <2>6, <2>7 DEF KernelKnows, kNew, kAdded, kDeleted
<1>9. CASE /\ c \in Added' => ch'[c].index = kDeleted /\ ch'[c].events = {}
           /\ c \notin Added' => ch'[c].index = kNew
           /\ Forgets(fd)
    <2>1. /\ DOMAIN epoll' = DOMAIN epoll \ {fd}
          /\ \A y \in DOMAIN epoll : y # fd => epoll'[y] = epoll[y]
        BY <1>9 DEF Forgets
    <2>2. c \notin Known'
        BY <1>2, <1>9 DEF Known, kAdded
    <2>3. Known' = Known \ {c}
        BY <1>4, <1>6, <1>7, <2>2
    <2>4. {ch'[d].fd : d \in Known \ {c}} = {ch[d].fd : d \in Known} \ {fd}
        <3>1. \A d \in Known : ch'[d].fd = ch[d].fd /\ (d # c => ch[d].fd # fd)
            BY <1>3, <1>4
        <3> QED
            BY <3>1
    <2>5. DOMAIN epoll' = {ch'[d].fd : d \in Known'}
        BY <1>1, <2>1, <2>3, <2>4
    <2>6. ASSUME NEW d \in Added'
          PROVE  /\ ch'[d].index \in {kAdded, kDeleted}
                 /\ ch'[d].index = kDeleted => ch'[d].events = {}
                 /\ ch'[d].index = kAdded => epoll'[ch'[d].fd] = [events |-> ch'[d].events, ptr |-> d]
        <3>1. CASE d = c
            BY <1>2, <1>9, <2>6, <3>1
        <3>2. CASE d # c
            <4>1. d \in Channels /\ d \in Added /\ ch'[d] = ch[d] /\ ch[d].fd # fd
                BY <1>3, <1>5, <2>6, <3>2
            <4>2. ch[d].index = kAdded => ch[d].fd \in DOMAIN epoll
                <5>1. ch[d].index = kAdded => d \in Known
                    BY <4>1 DEF Known
                <5> QED
                    BY <1>1, <5>1
            <4>3. ch[d].index = kAdded => epoll'[ch[d].fd] = epoll[ch[d].fd]
                BY <2>1, <4>1, <4>2
            <4> QED
                BY <1>1, <4>1, <4>3
        <3> QED
            BY <3>1, <3>2
    <2>7. \A d \in Channels \ Added' : ch'[d].index = kNew
        BY <1>1, <1>5, <1>9
    <2> QED
        BY <1>1, <2>5, <2>6, <2>7 DEF KernelKnows, kNew, kAdded, kDeleted
<1> QED
    BY <1>8, <1>9

\* The parts of the invariant that updateChannel and removeChannel have to
\* keep, and what they make of the channel.
Kept == Typed' /\ OwnFds' /\ MapInverts' /\ KernelKnows' /\ PlacesInvert' /\ failed' = FALSE

(* EPollPoller::updateChannel (EPollPoller.cc:107-149).                    *)
LEMMA EPollUpdateKeeps ==
    ASSUME PInv, kind = "epoll", NEW c \in Channels, ch[c].life \in {"new", "added"},
           NEW ev \in SUBSET Events, EPollUpdateChannel(c, ev), UNCHANGED <<kind, pc>>
    PROVE  Kept /\ Joins(c) /\ Added' = Added \cup {c} /\ ch'[c].events = ev
<1>0. Typed /\ OwnFds /\ MapInverts /\ KernelKnows /\ failed = FALSE
    BY DEF PInv
<1>1. /\ Joins(c) /\ ch'[c].events = ev /\ failed' = FALSE /\ pollfds' = pollfds
      /\ \/ ch'[c].index = kAdded /\ Learns(ch[c].fd, [events |-> ev, ptr |-> c])
         \/ ch'[c].index = kDeleted /\ ev = {} /\ Forgets(ch[c].fd)
    BY EPollUpdateDoes
<1>2. Added' = Added \cup {c} /\ OwnFds' /\ MapInverts'
    BY <1>0, <1>1, JoinKeeps
<1>3. \A d \in Channels : ch'[d].fd = ch[d].fd /\ (d # c => ch'[d] = ch[d])
    BY <1>1 DEF Joins
<1>4. c \in Added' /\ ch[c].life # "none" /\ kind' = kind
    BY <1>2
<1>5. \/ /\ c \in Added' /\ ch'[c].index = kAdded
         /\ Learns(ch[c].fd, [events |-> ch'[c].events, ptr |-> c])
      \/ /\ c \in Added' => ch'[c].index = kDeleted /\ ch'[c].events = {}
         /\ c \notin Added' => ch'[c].index = kNew
         /\ Forgets(ch[c].fd)
    BY <1>1, <1>4
<1>6. KernelKnows'
    BY <1>0, <1>1, <1>2, <1>3, <1>4, <1>5, KernelFollows
<1>7. PlacesInvert'
    <2>1. kind' # "poll"
        OBVIOUS
    <2> QED
        BY <2>1 DEF PlacesInvert
<1>8. Typed'
    BY <1>0, <1>1 DEF Typed, Joins
<1> QED
    BY <1>1, <1>2, <1>6, <1>7, <1>8 DEF Kept

(* EPollPoller::removeChannel (EPollPoller.cc:151-170).                    *)
LEMMA EPollRemoveKeeps ==
    ASSUME PInv, kind = "epoll", NEW c \in Added, EPollRemoveChannel(c), UNCHANGED <<kind, pc>>
    PROVE  Kept /\ Leaves(c) /\ Added' = Added \ {c}
<1>0. Typed /\ OwnFds /\ MapInverts /\ KernelKnows /\ failed = FALSE
    BY DEF PInv
<1>1. c \in Channels /\ ch[c].life # "none"
    BY DEF Added
<1>2. /\ channels' = Erase(ch[c].fd) /\ pollfds' = pollfds
      /\ IF ch[c].index = kAdded THEN Ctl("DEL", ch[c].fd, <<>>) ELSE UNCHANGED <<epoll, failed>>
      /\ ch' = [ch EXCEPT ![c] = Object("removed", ch[c].fd, ch[c].events, kNew)]
    BY DEF EPollRemoveChannel
<1>3. /\ ch' \in [Channels -> Objects]
      /\ ch'[c].life = "removed" /\ ch'[c].fd = ch[c].fd /\ ch'[c].index = kNew
      /\ \A d \in Channels : d # c => ch'[d] = ch[d]
    <2>1. ch[c].fd \in Fds \cup {-1} /\ ch[c].events \in SUBSET Events /\ "removed" \in Lives
        BY <1>0, <1>1, ObjectType DEF Lives
    <2>2. kNew \in Int
        BY SMTT(60) DEF kNew
    <2>3. ch' = [ch EXCEPT ![c] = Object("removed", ch[c].fd, ch[c].events, kNew)]
        BY <1>2
    <2> DEFINE fd == ch[c].fd
               ev == ch[c].events
               k == kNew
    <2> HIDE DEF fd, ev, k
    <2>4. fd \in Fds \cup {-1} /\ ev \in SUBSET Events /\ k \in Int
        BY <2>1, <2>2 DEF fd, ev, k
    <2>5. ch' = [ch EXCEPT ![c] = Object("removed", fd, ev, k)]
        BY <2>3 DEF fd, ev, k
    <2>6. Becomes(c, "removed", fd, ev, k)
        BY <1>0, <1>1, <2>1, <2>4, <2>5, ObjectUpdated
    <2> QED
        BY <2>6 DEF Becomes, fd, k
<1>4. Leaves(c)
    BY <1>2, <1>3 DEF Leaves
<1>5. Added' = Added \ {c} /\ OwnFds' /\ MapInverts'
    BY <1>0, <1>4, LeaveKeeps
<1>6. ch[c].index = kAdded <=> c \in Known
    BY DEF Known
<1>7. ch[c].fd \in DOMAIN epoll <=> c \in Known
    BY <1>0, <1>1, KnownFd
<1>8. failed' = FALSE /\ Forgets(ch[c].fd)
    <2>1. CASE c \in Known
        <3>1. Ctl("DEL", ch[c].fd, <<>>) /\ ch[c].fd \in DOMAIN epoll
            BY <1>2, <1>6, <1>7, <2>1
        <3>2. (("DEL" = "ADD") # (ch[c].fd \in DOMAIN epoll)) = TRUE
            BY <3>1
        <3>3. failed' = FALSE /\ epoll' = Restrict(epoll, DOMAIN epoll \ {ch[c].fd})
            BY <1>0, <3>1, <3>2 DEF Ctl
        <3> QED
            BY <3>3, Erased
    <2>2. CASE c \notin Known
        <3>1. epoll' = epoll /\ failed' = FALSE /\ ch[c].fd \notin DOMAIN epoll
            BY <1>0, <1>2, <1>6, <1>7, <2>2
        <3> QED
            BY <3>1 DEF Forgets
    <2> QED
        BY <2>1, <2>2
<1>9. KernelKnows'
    <2>1. \A d \in Channels : ch'[d].fd = ch[d].fd /\ (d # c => ch'[d] = ch[d])
        BY <1>3
    <2>2. c \notin Added' /\ kind' = kind
        BY <1>5
    <2>3. /\ c \in Added' => ch'[c].index = kDeleted /\ ch'[c].events = {}
          /\ c \notin Added' => ch'[c].index = kNew
          /\ Forgets(ch[c].fd)
        BY <1>3, <1>8, <2>2
    <2> QED
        BY <1>0, <1>1, <1>2, <1>5, <2>1, <2>2, <2>3, KernelFollows
<1>10. PlacesInvert'
    <2>1. kind' # "poll"
        OBVIOUS
    <2> QED
        BY <2>1 DEF PlacesInvert
<1>11. Typed'
    BY <1>0, <1>2, <1>3 DEF Typed
<1> QED
    BY <1>4, <1>5, <1>8, <1>9, <1>10, <1>11 DEF Kept

-----------------------------------------------------------------------------
(* PollPoller.                                                             *)

(* PollPoller::updateChannel (PollPoller.cc:75-110).                       *)
LEMMA PollUpdateKeeps ==
    ASSUME PInv, kind = "poll", NEW c \in Channels, ch[c].life \in {"new", "added"},
           NEW ev \in SUBSET Events, PollUpdateChannel(c, ev), UNCHANGED <<kind, pc>>
    PROVE  Kept /\ Joins(c) /\ Added' = Added \cup {c} /\ ch'[c].events = ev
<1>0. Typed /\ OwnFds /\ MapInverts /\ PlacesInvert /\ failed = FALSE
    BY DEF PInv
<1> DEFINE fd == ch[c].fd
           n == Len(pollfds)
           new == ch[c].index < 0
           idx == ch[c].index + 1
           k == IF new THEN n ELSE ch[c].index
           pfd == [fd |-> IF ev = {} /\ ~new THEN Ignored(fd) ELSE fd, events |-> ev]
<1>1. /\ channels' = IF new THEN Insert(channels, fd, c) ELSE channels
      /\ pollfds' = IF new THEN Append(pollfds, pfd) ELSE [pollfds EXCEPT ![idx] = pfd]
      /\ ch' = [ch EXCEPT ![c] = Object("added", fd, ev, k)]
      /\ epoll' = epoll /\ failed' = failed
    BY DEF PollUpdateChannel
<1>2. /\ DOMAIN epoll = {} /\ n = Cardinality(Added)
      /\ \A d \in Added : /\ ch[d].index + 1 \in 1 .. n
                          /\ EntryOf(pollfds[ch[d].index + 1], ch[d])
      /\ \A i \in 1 .. n : \E d \in Added : ch[d].index + 1 = i
      /\ \A d \in Channels \ Added : ch[d].index \in -1 .. Cardinality(Fds)
    BY <1>0 DEF PlacesInvert
<1>3. ch[c].index \in Int /\ fd \in Fds /\ fd \in Nat /\ ch[c].life # "none" /\ n \in Nat
      /\ pollfds \in Seq(PollFd)
    <2>1. ch[c].life # "none"
        OBVIOUS
    <2>2. pollfds \in Seq(PollFd)
        BY <1>0 DEF Typed
    <2>3. n \in Nat
        BY <2>2, SMTT(60)
    <2> QED
        BY <1>0, <2>1, <2>2, <2>3, ObjectType, FdOf
<1>4. new <=> c \notin Added
    <2>1. CASE c \in Added
        <3>1. idx \in 1 .. n
            BY <1>2, <2>1
        <3> QED
            BY <1>3, <2>1, <3>1, SMTT(60)
    <2>2. CASE c \notin Added
        <3>1. ch[c].life = "new"
            BY <2>2 DEF Added
        <3>2. ch[c].index = -1
            BY <1>0, <3>1 DEF OwnFds, kNew
        <3>3. ch[c].index < 0
            BY <3>2, SMTT(60)
        <3> QED
            BY <2>2, <3>3
    <2> QED
        BY <2>1, <2>2
<1>5. pfd \in PollFd /\ pfd.events = ev /\ (pfd.fd = fd \/ (pfd.fd = Ignored(fd) /\ ev = {}))
    <2>1. Ignored(fd) \in Int /\ fd \in Int
        BY <1>3, SMTT(60) DEF Ignored
    <2> HIDE DEF new, fd
    <2> QED
        BY <2>1 DEF PollFd
<1>6. k \in Int
    BY <1>3, SMTT(60)
<1> HIDE DEF k, pfd
<1>7. /\ ch' \in [Channels -> Objects]
      /\ ch'[c].life = "added" /\ ch'[c].fd = fd /\ ch'[c].events = ev /\ ch'[c].index = k
      /\ \A d \in Channels : d # c => ch'[d] = ch[d]
    <2>1. fd \in Fds \cup {-1} /\ "added" \in Lives
        BY <1>3 DEF Lives
    <2>2. ch' = [ch EXCEPT ![c] = Object("added", fd, ev, k)]
        BY <1>1
    <2> HIDE DEF fd
    <2>3. Becomes(c, "added", fd, ev, k)
        BY <1>0, <1>6, <2>1, <2>2, ObjectUpdated
    <2> QED
        BY <2>3 DEF Becomes
<1>8. Joins(c)
    BY <1>1, <1>4, <1>7 DEF Joins
<1>9. Added' = Added \cup {c} /\ OwnFds' /\ MapInverts'
    BY <1>0, <1>8, JoinKeeps
<1>10. EntryOf(pfd, ch'[c])
    BY <1>5, <1>7 DEF EntryOf, Ignored
<1>11. \A d \in Added : d \in Channels
    BY DEF Added
<1>12. kind' = kind
    OBVIOUS
<1>13. ASSUME new PROVE PlacesInvert' /\ pollfds' \in Seq(PollFd)
    <2>1. c \notin Added /\ pollfds' = Append(pollfds, pfd) /\ k = n
        BY <1>1, <1>4, <1>13 DEF k
    <2>2. /\ pollfds' \in Seq(PollFd) /\ Len(pollfds') = n + 1 /\ pollfds'[n + 1] = pfd
          /\ \A i \in 1 .. n : pollfds'[i] = pollfds[i]
        BY <1>3, <1>5, <2>1, SMTT(60)
    <2>3. Cardinality(Added') = n + 1
        <3>1. IsFiniteSet(Added)
            BY <1>0 DEF MapInverts
        <3> QED
            BY <1>2, <1>9, <2>1, <3>1, FS_AddElement
    <2>4. n + 1 \in 1 .. n + 1 /\ 1 .. n \subseteq 1 .. n + 1
          /\ \A i \in 1 .. n + 1 : i \in 1 .. n \/ i = n + 1
        BY <1>3, SMTT(60)
    <2>5. ASSUME NEW d \in Added'
          PROVE  ch'[d].index + 1 \in 1 .. n + 1 /\ EntryOf(pollfds'[ch'[d].index + 1], ch'[d])
        <3>1. CASE d = c
            BY <1>7, <1>10, <2>1, <2>2, <2>4, <3>1
        <3>2. CASE d # c
            <4>1. d \in Added /\ ch'[d] = ch[d]
                BY <1>7, <1>9, <1>11, <2>5, <3>2
            <4>2. ch[d].index + 1 \in 1 .. n /\ EntryOf(pollfds[ch[d].index + 1], ch[d])
                BY <1>2, <4>1
            <4>3. pollfds'[ch[d].index + 1] = pollfds[ch[d].index + 1]
                BY <2>2, <4>2
            <4>4. EntryOf(pollfds'[ch[d].index + 1], ch[d])
                BY <4>2, <4>3 DEF EntryOf, Ignored
            <4> QED
                BY <2>4, <4>1, <4>2, <4>4 DEF EntryOf, Ignored
        <3> QED
            BY <3>1, <3>2
    <2>6. ASSUME NEW i \in 1 .. n + 1 PROVE \E d \in Added' : ch'[d].index + 1 = i
        <3>1. CASE i = n + 1
            BY <1>7, <1>9, <2>1, <3>1
        <3>2. CASE i \in 1 .. n
            <4>1. PICK d \in Added : ch[d].index + 1 = i
                BY <1>2, <3>2
            <4>2. d # c /\ d \in Channels
                BY <1>11, <2>1, <4>1
            <4> QED
                BY <1>7, <1>9, <4>1, <4>2
        <3> QED
            BY <2>4, <3>1, <3>2
    <2>7. \A d \in Channels \ Added' : ch'[d].index \in -1 .. Cardinality(Fds)
        BY <1>2, <1>7, <1>9
    <2>8. DOMAIN epoll' = {} /\ Len(pollfds') = Cardinality(Added')
        BY <1>1, <1>2, <2>2, <2>3
    <2>9. PlacesInvert'
        BY <2>2, <2>5, <2>6, <2>7, <2>8 DEF PlacesInvert, EntryOf, Ignored
    <2> QED
        BY <2>2, <2>9
<1>14. ASSUME ~new PROVE PlacesInvert' /\ pollfds' \in Seq(PollFd)
    <2>1. c \in Added /\ pollfds' = [pollfds EXCEPT ![idx] = pfd] /\ k = ch[c].index
        BY <1>1, <1>4, <1>14 DEF k
    <2>2. idx \in 1 .. n
        BY <1>2, <2>1
    <2>3. /\ pollfds' \in Seq(PollFd) /\ Len(pollfds') = n /\ pollfds'[idx] = pfd
          /\ \A i \in 1 .. n : i # idx => pollfds'[i] = pollfds[i]
        <3> HIDE DEF idx
        <3> QED
            BY <1>3, <1>5, <2>1, <2>2, SMTT(60)
    <2>4. Added' = Added
        BY <1>9, <2>1
    <2>5. \A d \in Channels : ch'[d].index = ch[d].index
        BY <1>7, <2>1
    <2>6. ASSUME NEW d \in Added
          PROVE  ch'[d].index + 1 \in 1 .. n /\ EntryOf(pollfds'[ch'[d].index + 1], ch'[d])
        <3>1. CASE d = c
            BY <1>10, <2>2, <2>3, <2>5, <3>1
        <3>2. CASE d # c
            <4>1. ch'[d] = ch[d]
                BY <1>7, <1>11, <3>2
            <4>2. ch[d].index + 1 \in 1 .. n /\ EntryOf(pollfds[ch[d].index + 1], ch[d])
                BY <1>2
            <4>3. ch[d].index # ch[c].index
                BY <1>0, <2>1, <3>2, SamePlace
            <4>4. ch[d].index \in Int
                BY <1>0, <1>11, ObjectType
            <4>5. ch[d].index + 1 # idx
                BY <1>3, <4>3, <4>4, SMTT(60)
            <4>6. pollfds'[ch[d].index + 1] = pollfds[ch[d].index + 1]
                BY <2>3, <4>2, <4>5
            <4>7. EntryOf(pollfds'[ch[d].index + 1], ch[d])
                BY <4>2, <4>6 DEF EntryOf, Ignored
            <4> QED
                BY <4>1, <4>2, <4>7 DEF EntryOf, Ignored
        <3> QED
            BY <3>1, <3>2
    <2>7. \A i \in 1 .. n : \E d \in Added' : ch'[d].index + 1 = i
        BY <1>2, <1>11, <2>4, <2>5
    <2>8. \A d \in Channels \ Added' : ch'[d].index \in -1 .. Cardinality(Fds)
        BY <1>2, <2>4, <2>5
    <2>9. DOMAIN epoll' = {} /\ Len(pollfds') = Cardinality(Added')
        BY <1>1, <1>2, <2>3, <2>4
    <2>10. PlacesInvert'
        BY <2>3, <2>4, <2>6, <2>7, <2>8, <2>9 DEF PlacesInvert, EntryOf, Ignored
    <2> QED
        BY <2>3, <2>10
<1>15. PlacesInvert' /\ pollfds' \in Seq(PollFd)
    BY <1>13, <1>14
<1>16. KernelKnows'
    <2>1. kind' # "epoll"
        OBVIOUS
    <2> QED
        BY <2>1 DEF KernelKnows
<1>17. Typed'
    BY <1>0, <1>7, <1>15 DEF Typed
<1> QED
    BY <1>0, <1>1, <1>7, <1>8, <1>9, <1>15, <1>16, <1>17 DEF Kept

(* PollPoller::removeChannel finds the owner of the last entry, also when  *)
(* its descriptor is stored as ignored.                                    *)
LEMMA MovedIs ==
    ASSUME Typed, OwnFds, MapInverts, PlacesInvert, kind = "poll",
           NEW c \in Channels, NEW e \in Added, ch[e].index + 1 = Len(pollfds)
    PROVE  Moved(c) = [ch EXCEPT ![e].index = ch[c].index]
<1> DEFINE last == pollfds[Len(pollfds)].fd
           fd == IF last < 0 THEN Ignored(last) ELSE last
<1>1. last = ch[e].fd \/ last = Ignored(ch[e].fd)
    BY DEF PlacesInvert, EntryOf
<1>2. ch[e].fd \in Nat
    <2>1. e \in Channels /\ ch[e].life # "none"
        BY DEF Added
    <2> QED
        BY <2>1, FdOf
<1>3. fd = ch[e].fd
    BY <1>1, <1>2, IgnoredIs
<1>4. channels[fd] = e
    BY <1>3 DEF MapInverts
<1> QED
    BY <1>4 DEF Moved

(* PollPoller::removeChannel (PollPoller.cc:112-141).                      *)
LEMMA PollRemoveKeeps ==
    ASSUME PInv, kind = "poll", NEW c \in Added, PollRemoveChannel(c), UNCHANGED <<kind, pc>>
    PROVE  Kept /\ Leaves(c) /\ Added' = Added \ {c}
<1>0. Typed /\ OwnFds /\ MapInverts /\ PlacesInvert /\ failed = FALSE
    BY DEF PInv
<1> DEFINE n == Len(pollfds)
           idx == ch[c].index + 1
<1>1. c \in Channels /\ ch[c].life # "none" /\ ch[c].index \in Int
      /\ \A d \in Added : d \in Channels /\ ch[d].index \in Int
    <2>1. \A d \in Added : d \in Channels
        BY DEF Added
    <2>2. ch[c].life # "none"
        BY DEF Added
    <2> QED
        BY <1>0, <2>1, <2>2, ObjectType
<1>2. /\ DOMAIN epoll = {} /\ n = Cardinality(Added)
      /\ \A d \in Added : /\ ch[d].index + 1 \in 1 .. n
                          /\ EntryOf(pollfds[ch[d].index + 1], ch[d])
      /\ \A i \in 1 .. n : \E d \in Added : ch[d].index + 1 = i
      /\ \A d \in Channels \ Added : ch[d].index \in -1 .. Cardinality(Fds)
    BY <1>0 DEF PlacesInvert
<1>3. pollfds \in Seq(PollFd) /\ n \in Nat /\ idx \in 1 .. n /\ n \in 1 .. n
    <2>1. pollfds \in Seq(PollFd)
        BY <1>0 DEF Typed
    <2>2. idx \in 1 .. n
        BY <1>2
    <2> QED
        BY <2>1, <2>2, SMTT(60)
<1>4. PICK e \in Added : ch[e].index + 1 = n
    BY <1>2, <1>3
<1>5. /\ channels' = Erase(ch[c].fd) /\ epoll' = epoll /\ failed' = failed
      /\ pollfds' = SubSeq([pollfds EXCEPT ![idx] = pollfds[n]], 1, n - 1)
      /\ ch' = [(IF idx = n THEN ch ELSE Moved(c)) EXCEPT ![c].life = "removed"]
    BY DEF PollRemoveChannel
<1>6. e # c <=> idx # n
    <2>1. ASSUME idx = n PROVE e = c
        <3>1. ch[e].index = ch[c].index
            BY <1>1, <1>4, <2>1, SMTT(60)
        <3> QED
            BY <1>0, <1>4, <3>1, SamePlace
    <2> QED
        BY <1>4, <2>1
<1> DEFINE m == IF idx = n THEN ch ELSE Moved(c)
<1>7. /\ m \in [Channels -> Objects]
      /\ \A d \in Channels : /\ m[d].life = ch[d].life /\ m[d].fd = ch[d].fd
                             /\ m[d].events = ch[d].events
                             /\ m[d].index = IF d = e THEN ch[c].index ELSE ch[d].index
    <2>1. ch \in [Channels -> Objects]
        BY <1>0 DEF Typed
    <2>2. CASE idx = n
        <3>1. m = ch /\ e = c
            BY <1>6, <2>2
        <3> HIDE DEF m
        <3> QED
            BY <2>1, <3>1
    <2>3. CASE idx # n
        <3> DEFINE k == ch[c].index
        <3>1. m = [ch EXCEPT ![e].index = k] /\ k \in Int /\ e \in Channels
            BY <1>0, <1>1, <1>4, <2>3, MovedIs
        <3> HIDE DEF m, k
        <3>2. /\ m \in [Channels -> Objects]
              /\ \A d \in Channels : /\ m[d].life = ch[d].life /\ m[d].fd = ch[d].fd
                                     /\ m[d].events = ch[d].events
                                     /\ m[d].index = IF d = e THEN k ELSE ch[d].index
            BY <2>1, <3>1, SMTT(60) DEF Objects
        <3> QED
            BY <3>2 DEF k
    <2> QED
        BY <2>2, <2>3
<1> HIDE DEF m
<1>8. /\ ch' \in [Channels -> Objects]
      /\ \A d \in Channels : /\ ch'[d].life = IF d = c THEN "removed" ELSE ch[d].life
                             /\ ch'[d].fd = ch[d].fd /\ ch'[d].events = ch[d].events
                             /\ ch'[d].index = IF d = e THEN ch[c].index ELSE ch[d].index
    <2>1. ch' = [m EXCEPT ![c].life = "removed"]
        BY <1>5 DEF m
    <2>2. /\ ch' \in [Channels -> Objects]
          /\ \A d \in Channels : /\ ch'[d].index = m[d].index /\ ch'[d].fd = m[d].fd
                                 /\ ch'[d].events = m[d].events
                                 /\ ch'[d].life = IF d = c THEN "removed" ELSE m[d].life
        BY <1>1, <1>7, <2>1, SMTT(60) DEF Objects, Lives
    <2> QED
        BY <1>7, <2>2
<1>9. Leaves(c)
    <2>1. \A d \in Channels : d \notin Added => d # e
        BY <1>4
    <2> QED
        BY <1>1, <1>5, <1>8, <2>1 DEF Leaves
<1>10. Added' = Added \ {c} /\ OwnFds' /\ MapInverts' /\ Cardinality(Added') = n - 1
    BY <1>0, <1>2, <1>9, LeaveKeeps
<1>11. /\ pollfds' \in Seq(PollFd) /\ Len(pollfds') = n - 1
       /\ \A i \in 1 .. n - 1 : pollfds'[i] = IF i = idx THEN pollfds[n] ELSE pollfds[i]
    <2> DEFINE q == [pollfds EXCEPT ![idx] = pollfds[n]]
    <2>1. q \in Seq(PollFd) /\ Len(q) = n
          /\ \A i \in 1 .. n : q[i] = IF i = idx THEN pollfds[n] ELSE pollfds[i]
        <3> HIDE DEF idx
        <3> QED
            BY <1>3, SMTT(60)
    <2> HIDE DEF q
    <2>2. pollfds' = SubSeq(q, 1, n - 1)
        BY <1>5 DEF q
    <2>3. pollfds' \in Seq(PollFd) /\ Len(pollfds') = n - 1 /\ \A i \in 1 .. n - 1 : pollfds'[i] = q[i]
        BY <1>3, <2>1, <2>2, SMTT(60)
    <2>4. 1 .. n - 1 \subseteq 1 .. n
        BY <1>3, SMTT(60)
    <2> QED
        BY <2>1, <2>3, <2>4
<1>12. \A i \in Int : i \in 1 .. n - 1 <=> i \in 1 .. n /\ i # n
    BY <1>3, SMTT(60)
<1>13. ASSUME NEW d \in Added'
       PROVE  ch'[d].index + 1 \in 1 .. n - 1 /\ EntryOf(pollfds'[ch'[d].index + 1], ch'[d])
    <2>1. d \in Added /\ d # c /\ d \in Channels
        BY <1>1, <1>10, <1>13
    <2>2. ch'[d].fd = ch[d].fd /\ ch'[d].events = ch[d].events
        BY <1>8, <2>1
    <2>3. ch[d].index + 1 \in 1 .. n /\ EntryOf(pollfds[ch[d].index + 1], ch[d])
        BY <1>2, <2>1
    <2>4. CASE d = e
        <3>1. ch'[d].index = ch[c].index /\ idx # n
            BY <1>6, <1>8, <2>1, <2>4
        <3>2. idx \in Int
            BY <1>1, SMTT(60)
        <3>3. idx \in 1 .. n - 1
            BY <1>3, <1>12, <3>1, <3>2
        <3>4. pollfds'[idx] = pollfds[n]
            BY <1>11, <3>3
        <3>5. EntryOf(pollfds[n], ch[d])
            BY <1>4, <2>3, <2>4
        <3>6. EntryOf(pollfds'[idx], ch'[d])
            BY <2>2, <3>4, <3>5 DEF EntryOf, Ignored
        <3> QED
            BY <3>1, <3>3, <3>6
    <2>5. CASE d # e
        <3> DEFINE j == ch[d].index + 1
        <3>1. ch'[d].index = ch[d].index
            BY <1>8, <2>1, <2>5
        <3>2. ch[d].index # ch[c].index /\ ch[d].index # ch[e].index
            BY <1>0, <1>4, <2>1, <2>5, SamePlace
        <3>3. j # idx /\ j # n /\ j \in Int
            BY <1>1, <1>4, <2>1, <3>2, SMTT(60)
        <3>4. j \in 1 .. n - 1
            BY <1>12, <2>3, <3>3
        <3>5. pollfds'[j] = pollfds[j]
            BY <1>11, <3>3, <3>4
        <3>6. EntryOf(pollfds'[j], ch'[d])
            BY <2>2, <2>3, <3>5 DEF EntryOf, Ignored
        <3> QED
            BY <3>1, <3>4, <3>6
    <2> QED
        BY <2>4, <2>5
<1>14. ASSUME NEW i \in 1 .. n - 1 PROVE \E d \in Added' : ch'[d].index + 1 = i
    <2>0. i \in 1 .. n /\ i # n
        BY <1>3, SMTT(60)
    <2>1. CASE i = idx
        <3>1. e # c /\ e \in Added' /\ e \in Channels
            BY <1>1, <1>4, <1>6, <1>10, <2>0, <2>1
        <3> QED
            BY <1>8, <2>1, <3>1
    <2>2. CASE i # idx
        <3>1. PICK d \in Added : ch[d].index + 1 = i
            BY <1>2, <2>0
        <3>2. d # e /\ d # c /\ d \in Channels
            BY <1>1, <1>4, <2>0, <2>2, <3>1
        <3> QED
            BY <1>8, <1>10, <3>1, <3>2
    <2> QED
        BY <2>1, <2>2
<1>15. ASSUME NEW d \in Channels \ Added' PROVE ch'[d].index \in -1 .. Cardinality(Fds)
    <2>1. CASE d = c
        <3>1. ch'[c].index = ch[c].index
            BY <1>1, <1>8
        <3>2. n \in Nat /\ Cardinality(Fds) \in Nat /\ n <= Cardinality(Fds)
            BY <1>0, <1>2, AddedFew
        <3>3. ch[c].index \in -1 .. Cardinality(Fds)
            BY <1>1, <1>3, <3>2, SMTT(60)
        <3> QED
            BY <2>1, <3>1, <3>3
    <2>2. CASE d # c
        <3>1. d \in Channels \ Added /\ d # e
            BY <1>4, <1>10, <1>15, <2>2
        <3> QED
            BY <1>2, <1>8, <3>1
    <2> QED
        BY <2>1, <2>2
<1>16. PlacesInvert'
    <2>1. DOMAIN epoll' = {} /\ Len(pollfds') = Cardinality(Added')
        BY <1>2, <1>5, <1>10, <1>11
    <2> QED
        BY <1>11, <1>13, <1>14, <1>15, <2>1 DEF PlacesInvert, EntryOf, Ignored
<1>17. KernelKnows'
    <2>1. kind' # "epoll"
        OBVIOUS
    <2> QED
        BY <2>1 DEF KernelKnows
<1>18. Typed'
    BY <1>0, <1>8, <1>11 DEF Typed
<1> QED
    BY <1>0, <1>5, <1>9, <1>10, <1>16, <1>17, <1>18 DEF Kept

-----------------------------------------------------------------------------
(* The steps.                                                              *)

(* A step that leaves the tables alone.                                    *)
LEMMA QuietKeeps ==
    ASSUME PInv, UNCHANGED <<kind, ch, channels, epoll, failed, pollfds>>,
           pc' \in {"functors", "poll", "handle", "callback"}, TodoStays'
    PROVE  PInv' /\ Added' = Added
<1>1. Added' = Added /\ Known' = Known
    BY DEF Added, Known, kAdded
<1>2. Typed' /\ OwnFds' /\ failed' = FALSE
    BY DEF PInv, Typed, OwnFds, kNew
<1>3. MapInverts'
    BY <1>1 DEF PInv, MapInverts
<1>4. KernelKnows'
    BY <1>1, SMTT(60) DEF PInv, KernelKnows, kAdded, kDeleted, kNew
<1>5. PlacesInvert'
    BY <1>1 DEF PInv, PlacesInvert, EntryOf, Ignored
<1> QED
    BY <1>1, <1>2, <1>3, <1>4, <1>5 DEF PInv

(* Channel::update, with either class.                                     *)
LEMMA UpdateKeeps ==
    ASSUME PInv, NEW c \in Channels, ch[c].life \in {"new", "added"},
           NEW ev \in SUBSET Events, UpdateChannel(c, ev), UNCHANGED <<kind, ready, loop>>
    PROVE  /\ PInv' /\ Added' = Added \cup {c} /\ ch'[c].events = ev
           /\ \A d \in Added : d # c => ch'[d].events = ch[d].events
<1>0. UNCHANGED <<kind, pc>> /\ active' = active /\ todo' = todo /\ current' = current
    BY DEF loop
<1>1. Kept /\ Joins(c) /\ Added' = Added \cup {c} /\ ch'[c].events = ev
    <2>1. CASE kind = "epoll"
        <3>1. EPollUpdateChannel(c, ev)
            BY <2>1 DEF UpdateChannel
        <3> QED
            BY <1>0, <2>1, <3>1, EPollUpdateKeeps
    <2>2. CASE kind = "poll"
        <3>1. PollUpdateChannel(c, ev)
            BY <2>2 DEF UpdateChannel
        <3> QED
            BY <1>0, <2>2, <3>1, PollUpdateKeeps
    <2> QED
        BY <2>1, <2>2 DEF PInv, Typed
<1>2. TodoStays'
    BY <1>0, <1>1 DEF PInv, TodoStays
<1>3. \A d \in Added : d # c => ch'[d].events = ch[d].events
    BY <1>1 DEF Joins, Added
<1> QED
    BY <1>1, <1>2, <1>3 DEF Kept, PInv

(* EventLoop::removeChannel: its assert is what keeps a channel that is    *)
(* still to be handled in the loop.                                        *)
LEMMA RemoveKeeps ==
    ASSUME PInv, NEW c \in Channels, Remove(c)
    PROVE  /\ PInv' /\ c \in Added /\ ch[c].events = {} /\ Added' = Added \ {c}
           /\ \A d \in Added : d # c => ch'[d].events = ch[d].events
<1>0. /\ UNCHANGED <<kind, pc>> /\ active' = active /\ todo' = todo /\ current' = current
      /\ c \in Added /\ ch[c].events = {}
    BY DEF Remove, loop, Added
<1>1. Kept /\ Leaves(c) /\ Added' = Added \ {c}
    <2>1. CASE kind = "epoll"
        <3>1. EPollRemoveChannel(c)
            BY <2>1 DEF Remove
        <3> QED
            BY <1>0, <2>1, <3>1, EPollRemoveKeeps
    <2>2. CASE kind = "poll"
        <3>1. PollRemoveChannel(c)
            BY <2>2 DEF Remove
        <3> QED
            BY <1>0, <2>2, <3>1, PollRemoveKeeps
    <2> QED
        BY <2>1, <2>2 DEF PInv, Typed
<1>2. c \notin todo
    <2>1. CASE pc = "functors"
        BY <2>1 DEF PInv, TodoStays
    <2>2. CASE pc = "callback"
        BY <2>2 DEF PInv, TodoStays, Remove, Removable
    <2> QED
        BY <2>1, <2>2 DEF Remove, InUserCode
<1>3. TodoStays'
    BY <1>0, <1>1, <1>2 DEF PInv, TodoStays
<1>4. \A d \in Added : d # c => ch'[d].events = ch[d].events
    BY <1>1 DEF Leaves, Added
<1> QED
    BY <1>0, <1>1, <1>3, <1>4 DEF Kept, PInv

(* A channel object that is not in the loop is constructed, or destroyed:  *)
(* its descriptor is no one else's, so the tables do not notice.           *)
LEMMA ReplaceKeeps ==
    ASSUME PInv, NEW c \in Channels, c \notin Added,
           NEW l \in {"none", "new"}, NEW fd \in Fds \cup {-1}, fd = -1 <=> l = "none",
           fd # -1 => \A d \in Channels : ch[d].fd # fd, Becomes(c, l, fd, {}, kNew),
           UNCHANGED <<kind, channels, failed, pollfds, loop>>,
           DOMAIN epoll' = DOMAIN epoll, \A y \in DOMAIN epoll : epoll'[y] = epoll[y]
    PROVE  PInv' /\ Added' = Added /\ \A d \in Added : ch'[d].events = ch[d].events
<1>0. Typed /\ OwnFds /\ MapInverts /\ KernelKnows /\ PlacesInvert /\ TodoStays /\ failed = FALSE
    BY DEF PInv
<1>1. /\ ch' \in [Channels -> Objects]
      /\ ch'[c].life = l /\ ch'[c].fd = fd /\ ch'[c].events = {} /\ ch'[c].index = kNew
      /\ \A d \in Channels : d # c => ch'[d] = ch[d]
    BY DEF Becomes
<1>2. l # "added"
    OBVIOUS
<1>3. \A d \in Added : d \in Channels /\ d # c /\ ch'[d] = ch[d]
    BY <1>1 DEF Added
<1>4. Added' = Added
    <2>1. ASSUME NEW d \in Channels PROVE ch'[d].life = "added" <=> ch[d].life = "added"
        BY <1>1, <1>2 DEF Added
    <2> QED
        BY <2>1 DEF Added
<1>5. Known' = Known
    BY <1>3, <1>4 DEF Known, kAdded
<1>6. OwnFds'
    <2>0. /\ \A d \in Channels : ch[d].fd = -1 <=> ch[d].life = "none"
          /\ \A d, e \in Channels : ch[d].fd = ch[e].fd /\ ch[d].fd # -1 => d = e
        BY <1>0 DEF OwnFds
    <2>1. ASSUME NEW d \in Channels PROVE ch'[d].fd = -1 <=> ch'[d].life = "none"
        <3>1. CASE d = c
            BY <1>1, <3>1
        <3>2. CASE d # c
            <4>1. ch'[d] = ch[d]
                BY <1>1, <3>2
            <4> QED
                BY <2>0, <4>1
        <3> QED
            BY <3>1, <3>2
    <2>2. ASSUME NEW d \in Channels, NEW e \in Channels, ch'[d].fd = ch'[e].fd, ch'[d].fd # -1
          PROVE  d = e
        <3>1. CASE d # c /\ e # c
            <4>1. ch'[d] = ch[d] /\ ch'[e] = ch[e]
                BY <1>1, <3>1
            <4> QED
                BY <2>0, <2>2, <4>1
        <3>2. CASE d = c /\ e # c
            BY <1>1, <2>2, <3>2
        <3>3. CASE d # c /\ e = c
            BY <1>1, <2>2, <3>3
        <3> QED
            BY <3>1, <3>2, <3>3
    <2>3. ASSUME NEW d \in Channels, ch'[d].life = "new"
          PROVE  ch'[d].index = kNew /\ ch'[d].events = {}
        <3>1. CASE d = c
            BY <1>1, <3>1
        <3>2. CASE d # c
            <4>1. ch'[d] = ch[d]
                BY <1>1, <3>2
            <4> QED
                BY <1>0, <2>3, <4>1 DEF OwnFds
        <3> QED
            BY <3>1, <3>2
    <2> QED
        BY <2>1, <2>2, <2>3 DEF OwnFds, kNew
<1>7. {ch'[d].fd : d \in Added} = {ch[d].fd : d \in Added}
      /\ {ch'[d].fd : d \in Known} = {ch[d].fd : d \in Known}
    <2>1. \A d \in Known : ch'[d].fd = ch[d].fd
        BY <1>3 DEF Known
    <2> QED
        BY <1>3, <2>1, SMTT(60)
<1>8. MapInverts'
    BY <1>0, <1>3, <1>4, <1>7 DEF MapInverts
<1>9. \A d \in Channels \ Added : d # c => ch'[d].index = ch[d].index
    BY <1>1
<1>10. KernelKnows'
    <2> SUFFICES ASSUME kind = "epoll" PROVE KernelKnows'
        BY DEF KernelKnows
    <2>1. /\ pollfds = <<>> /\ DOMAIN epoll = {ch[d].fd : d \in Known}
          /\ \A d \in Added : /\ ch[d].index \in {kAdded, kDeleted}
                              /\ ch[d].index = kDeleted => ch[d].events = {}
                              /\ ch[d].index = kAdded =>
                                     epoll[ch[d].fd] = [events |-> ch[d].events, ptr |-> d]
          /\ \A d \in Channels \ Added : ch[d].index = kNew
        BY <1>0 DEF KernelKnows
    <2>2. ASSUME NEW d \in Added, ch[d].index = kAdded
          PROVE  epoll'[ch[d].fd] = [events |-> ch[d].events, ptr |-> d]
        <3>1. ch[d].fd \in DOMAIN epoll
            <4>1. d \in Known
                BY <2>2 DEF Known
            <4> QED
                BY <2>1, <4>1, SMTT(60)
        <3> QED
            BY <2>1, <2>2, <3>1
    <2>3. ASSUME NEW d \in Channels \ Added PROVE ch'[d].index = kNew
        <3>1. CASE d = c
            BY <1>1, <3>1
        <3>2. CASE d # c
            BY <1>9, <2>1, <3>2
        <3> QED
            BY <3>1, <3>2
    <2>4. /\ pollfds' = <<>> /\ DOMAIN epoll' = {ch'[d].fd : d \in Known'}
          /\ \A d \in Channels \ Added' : ch'[d].index = kNew
        BY <1>4, <1>5, <1>7, <2>1, <2>3
    <2>5. \A d \in Added' : /\ ch'[d].index \in {kAdded, kDeleted}
                            /\ ch'[d].index = kDeleted => ch'[d].events = {}
                            /\ ch'[d].index = kAdded =>
                                   epoll'[ch'[d].fd] = [events |-> ch'[d].events, ptr |-> d]
        BY <1>3, <1>4, <2>1, <2>2
    <2> QED
        BY <2>4, <2>5 DEF KernelKnows, kAdded, kDeleted, kNew
<1>11. PlacesInvert'
    <2> SUFFICES ASSUME kind = "poll" PROVE PlacesInvert'
        BY DEF PlacesInvert
    <2>1. /\ DOMAIN epoll = {} /\ Len(pollfds) = Cardinality(Added)
          /\ \A d \in Added : /\ ch[d].index + 1 \in 1 .. Len(pollfds)
                              /\ EntryOf(pollfds[ch[d].index + 1], ch[d])
          /\ \A i \in 1 .. Len(pollfds) : \E d \in Added : ch[d].index + 1 = i
          /\ \A d \in Channels \ Added : ch[d].index \in -1 .. Cardinality(Fds)
        BY <1>0 DEF PlacesInvert
    <2>2. kNew \in -1 .. Cardinality(Fds)
        <3>1. Cardinality(Fds) \in Nat
            BY <1>0, AddedFew
        <3> QED
            BY <3>1, SMTT(60) DEF kNew
    <2>3. \A d \in Channels \ Added : ch'[d].index \in -1 .. Cardinality(Fds)
        BY <1>1, <2>1, <2>2
    <2>4. \A d \in Added : /\ ch'[d].index + 1 \in 1 .. Len(pollfds)
                           /\ EntryOf(pollfds[ch'[d].index + 1], ch'[d])
        BY <1>3, <2>1
    <2>5. \A i \in 1 .. Len(pollfds) : \E d \in Added : ch'[d].index + 1 = i
        BY <1>3, <2>1
    <2> QED
        BY <1>4, <2>1, <2>3, <2>4, <2>5 DEF PlacesInvert, EntryOf, Ignored
<1>12. Typed' /\ TodoStays'
    BY <1>0, <1>1, <1>4 DEF Typed, TodoStays, loop
<1> QED
    BY <1>0, <1>3, <1>4, <1>6, <1>8, <1>10, <1>11, <1>12 DEF PInv

(* The poller starts with empty tables.                                    *)
LEMMA InitPInv ==
    Init => PInv
<1> SUFFICES ASSUME Init PROVE PInv
    OBVIOUS
<1>1. \A c \in Channels : ch[c] = NoObject
    BY DEF Init
<1>2. /\ NoObject \in Objects /\ NoObject.life = "none" /\ NoObject.fd = -1 /\ NoObject.events = {}
      /\ NoObject.index = kNew
    BY SMTT(60) DEF NoObject, Object, Objects, Lives, kNew
<1>3. Added = {} /\ Known = {}
    BY <1>1, <1>2 DEF Added, Known
<1>4. Typed
    <2>1. <<>> \in Seq(PollFd)
        BY SMTT(60)
    <2>2. ch \in [Channels -> Objects]
        BY <1>2 DEF Init
    <2> QED
        BY <2>1, <2>2 DEF Init, Typed
<1>5. OwnFds
    BY <1>1, <1>2 DEF OwnFds
<1>6. /\ DOMAIN channels = {} /\ DOMAIN epoll = {} /\ Len(pollfds) = 0 /\ pollfds = <<>>
      /\ failed = FALSE
    BY SMTT(60) DEF Init
<1>7. MapInverts
    BY <1>3, <1>6, FS_EmptySet DEF MapInverts
<1>8. KernelKnows
    BY <1>1, <1>2, <1>3, <1>6 DEF KernelKnows
<1>9. PlacesInvert
    <2>1. IsFiniteSet(Fds)
        BY PollerAssumption
    <2>2. Cardinality(Fds) \in Nat /\ Cardinality({}) = 0
        BY <2>1, FS_CardinalityType, FS_EmptySet
    <2>3. kNew \in -1 .. Cardinality(Fds) /\ 1 .. 0 = {}
        BY <2>2, SMTT(60) DEF kNew
    <2> QED
        BY <1>1, <1>2, <1>3, <1>6, <2>2, <2>3 DEF PlacesInvert
<1>10. TodoStays
    BY DEF Init, TodoStays
<1> QED
    BY <1>4, <1>5, <1>6, <1>7, <1>8, <1>9, <1>10 DEF PInv

\* What the channels in the loop ask for.
Asked == [c \in Added |-> ch[c].events]

\* A step of the interest set, or none.
Asks ==
    \/ \E c \in Channels, ev \in SUBSET Events :
           Asked' = [d \in DOMAIN Asked \cup {c} |-> IF d = c THEN ev ELSE Asked[d]] /\ active' = active
    \/ \E c \in Channels : /\ c \in DOMAIN Asked /\ Asked[c] = {}
                           /\ Asked' = Restrict(Asked, DOMAIN Asked \ {c}) /\ active' = active
    \/ \E S \in SUBSET DOMAIN Asked : active' = S /\ Asked' = Asked
    \/ Asked' = Asked /\ active' = active

(* enableReading and the others, and disableAll.                           *)
LEMMA UpdateStep ==
    ASSUME PInv, NEW c \in Channels, Update(c)
    PROVE  PInv' /\ Asks
<1>1. PICK e \in Events : \E ev \in {ch[c].events \cup {e}, ch[c].events \ {e}, {}} : UpdateChannel(c, ev)
    BY DEF Update
<1>2. PICK ev \in {ch[c].events \cup {e}, ch[c].events \ {e}, {}} : UpdateChannel(c, ev)
    BY <1>1
<1>3. ev \in SUBSET Events
    <2>1. ch[c].events \in SUBSET Events
        BY ObjectType DEF PInv
    <2> QED
        BY <1>2, <2>1
<1>4. ch[c].life \in {"new", "added"} /\ UNCHANGED <<kind, ready, loop>> /\ active' = active
    BY DEF Update, loop
<1>5. /\ PInv' /\ Added' = Added \cup {c} /\ ch'[c].events = ev
      /\ \A d \in Added : d # c => ch'[d].events = ch[d].events
    BY <1>2, <1>3, <1>4, UpdateKeeps
<1>6. Asked' = [d \in DOMAIN Asked \cup {c} |-> IF d = c THEN ev ELSE Asked[d]]
    BY <1>5, SMTT(60) DEF Asked
<1> QED
    BY <1>3, <1>4, <1>5, <1>6 DEF Asks

(* Channel::remove.                                                        *)
LEMMA RemoveStep ==
    ASSUME PInv, NEW c \in Channels, Remove(c)
    PROVE  PInv' /\ Asks
<1>1. /\ PInv' /\ c \in Added /\ ch[c].events = {} /\ Added' = Added \ {c}
      /\ \A d \in Added : d # c => ch'[d].events = ch[d].events
    BY RemoveKeeps
<1>2. c \in DOMAIN Asked /\ Asked[c] = {}
    BY <1>1 DEF Asked
<1>3. Asked' = Restrict(Asked, DOMAIN Asked \ {c})
    BY <1>1, SMTT(60) DEF Asked, Restrict
<1>4. active' = active
    BY DEF Remove, loop
<1> QED
    BY <1>1, <1>2, <1>3, <1>4 DEF Asks

(* The constructor of Channel, and its destructor.                         *)
LEMMA NewChannelStep ==
    ASSUME PInv, NEW c \in Channels, NEW fd \in Fds, NewChannel(c, fd)
    PROVE  PInv' /\ Asks
<1>0. Typed
    BY DEF PInv
<1>1. fd \in Fds \cup {-1} /\ fd # -1
    BY PollerAssumption, SMTT(60)
<1>2. /\ c \notin Added /\ \A d \in Channels : ch[d].fd # fd
      /\ ch' = [ch EXCEPT ![c] = Object("new", fd, {}, kNew)]
      /\ UNCHANGED <<kind, channels, failed, pollfds, loop>> /\ epoll' = epoll /\ active' = active
    BY DEF NewChannel, Added, poller, loop
<1>3. Becomes(c, "new", fd, {}, kNew)
    <2>1. "new" \in Lives /\ {} \in SUBSET Events
        BY DEF Lives
    <2>2. kNew \in Int
        BY SMTT(60) DEF kNew
    <2> QED
        BY <1>0, <1>1, <1>2, <2>1, <2>2, ObjectUpdated
<1>4. PInv' /\ Added' = Added /\ \A d \in Added : ch'[d].events = ch[d].events
    BY <1>1, <1>2, <1>3, ReplaceKeeps
<1>5. Asked' = Asked
    BY <1>4, SMTT(60) DEF Asked
<1> QED
    BY <1>2, <1>4, <1>5 DEF Asks

(* The destructor: the descriptor it closes is not in the epoll set.       *)
LEMMA DestroyStep ==
    ASSUME PInv, NEW c \in Channels, Destroy(c)
    PROVE  PInv' /\ Asks
<1>0. Typed /\ OwnFds /\ KernelKnows /\ PlacesInvert
    BY DEF PInv
<1>1. /\ c \notin Added /\ ch[c].life # "none"
      /\ ch' = [ch EXCEPT ![c] = NoObject]
      /\ epoll' = Restrict(epoll, DOMAIN epoll \ {ch[c].fd})
      /\ UNCHANGED <<kind, channels, failed, pollfds, loop>> /\ active' = active
    BY DEF Destroy, Added, loop
<1>2. ch[c].fd \notin DOMAIN epoll
    <2>1. CASE kind = "epoll"
        <3>1. c \notin Known
            BY <1>1 DEF Known
        <3> QED
            BY <1>0, <1>1, <2>1, <3>1, KnownFd
    <2>2. CASE kind = "poll"
        BY <1>0, <2>2 DEF PlacesInvert
    <2> QED
        BY <1>0, <2>1, <2>2 DEF Typed
<1>3. DOMAIN epoll' = DOMAIN epoll /\ \A y \in DOMAIN epoll : epoll'[y] = epoll[y]
    <2>1. Forgets(ch[c].fd)
        BY <1>1, Erased
    <2> QED
        BY <1>2, <2>1 DEF Forgets
<1> DEFINE fd == -1
           l == "none"
<1>4. ch' = [ch EXCEPT ![c] = Object(l, fd, {}, kNew)]
    BY <1>1 DEF NoObject
<1>5. fd \in Fds \cup {-1} /\ l \in {"none", "new"} /\ fd = -1 /\ l = "none"
    OBVIOUS
<1> HIDE DEF fd, l
<1>6. Becomes(c, l, fd, {}, kNew)
    <2>1. l \in Lives /\ {} \in SUBSET Events
        BY <1>5 DEF Lives
    <2>2. kNew \in Int
        BY SMTT(60) DEF kNew
    <2> QED
        BY <1>0, <1>4, <1>5, <2>1, <2>2, ObjectUpdated
<1>7. PInv' /\ Added' = Added /\ \A d \in Added : ch'[d].events = ch[d].events
    BY <1>1, <1>3, <1>5, <1>6, ReplaceKeeps
<1>8. Asked' = Asked
    BY <1>7, SMTT(60) DEF Asked
<1> QED
    BY <1>1, <1>7, <1>8 DEF Asks

(* EventLoop::loop and poll: what they hand to the handlers is in the      *)
(* loop, and stays there until it is handled.                              *)
LEMMA LoopStep ==
    ASSUME PInv,
           \/ \E fd \in Fds : Outside(fd)
           \/ \E c \in Channels : Handle(c)
           \/ EnterPoll \/ PollReady \/ PollNothing \/ CallbackReturn \/ HandleEnd
           \/ UNCHANGED vars
    PROVE  PInv' /\ Asks
<1>0. TodoStays /\ Typed
    BY DEF PInv
<1>1. Added \subseteq Channels
    BY DEF Added
<1> DEFINE Same == UNCHANGED <<kind, ch, channels, epoll, failed, pollfds>>
           Pcs == {"functors", "poll", "handle", "callback"}
<1>2. ASSUME Same, pc' \in Pcs, TodoStays', active' = active PROVE PInv' /\ Asks
    <2>1. PInv' /\ Added' = Added
        BY <1>2, QuietKeeps
    <2>2. Asked' = Asked
        BY <1>2, <2>1 DEF Asked
    <2> QED
        BY <1>2, <2>1, <2>2 DEF Asks
<1>3. ASSUME Same, pc' \in Pcs, TodoStays', active' \subseteq Added PROVE PInv' /\ Asks
    <2>1. PInv' /\ Added' = Added
        BY <1>3, QuietKeeps
    <2>2. Asked' = Asked /\ DOMAIN Asked = Added
        BY <1>3, <2>1 DEF Asked
    <2> QED
        BY <1>3, <2>1, <2>2 DEF Asks
<1>4. Same => Added' = Added
    BY DEF Added
<1>5. CASE \E fd \in Fds : Outside(fd)
    <2>1. Same /\ pc' = pc /\ active' = active /\ todo' = todo /\ current' = current
        BY <1>5 DEF Outside, poller, loop
    <2> QED
        BY <1>0, <1>2, <1>4, <2>1 DEF TodoStays, Typed
<1>6. CASE \E c \in Channels : Handle(c)
    <2>1. PICK c \in Channels : Handle(c)
        BY <1>6
    <2>2. Same /\ pc' = "callback" /\ active' = active /\ todo' = todo \ {c} /\ current' = c
        BY <2>1 DEF Handle, poller
    <2> QED
        BY <1>0, <1>2, <1>4, <2>2 DEF TodoStays
<1>7. CASE EnterPoll
    <2>1. Same /\ pc = "functors" /\ pc' = "poll" /\ active' = active /\ todo' = todo
        BY <1>7 DEF EnterPoll, poller
    <2> QED
        BY <1>0, <1>2, <1>4, <2>1 DEF TodoStays
<1>8. CASE PollReady
    <2>1. Same /\ pc' = "handle" /\ active' \subseteq Reportable /\ todo' = active'
        BY <1>8 DEF PollReady
    <2>2. active' \subseteq Added
        BY <2>1, ReportableAdded
    <2> QED
        BY <1>1, <1>3, <1>4, <2>1, <2>2 DEF TodoStays
<1>9. CASE PollNothing
    <2>1. Same /\ pc' = "handle" /\ active' = {} /\ todo' = {}
        BY <1>9 DEF PollNothing, poller
    <2> QED
        BY <1>3, <1>4, <2>1 DEF TodoStays
<1>10. CASE CallbackReturn
    <2>1. Same /\ pc' = "handle" /\ active' = active /\ todo' = todo
        BY <1>10 DEF CallbackReturn, poller
    <2> QED
        BY <1>0, <1>2, <1>4, <2>1 DEF TodoStays
<1>11. CASE HandleEnd
    <2>1. Same /\ pc' = "functors" /\ active' = active /\ todo' = todo /\ todo = {}
        BY <1>11 DEF HandleEnd, poller
    <2> QED
        BY <1>0, <1>2, <1>4, <2>1 DEF TodoStays
<1>12. CASE UNCHANGED vars
    <2>1. Same /\ pc' = pc /\ active' = active /\ todo' = todo /\ current' = current
        BY <1>12 DEF vars, poller, loop
    <2> QED
        BY <1>0, <1>2, <1>4, <2>1 DEF TodoStays, Typed
<1> QED
    BY <1>5, <1>6, <1>7, <1>8, <1>9, <1>10, <1>11, <1>12

(* Every step keeps the invariant, and is a step of an interest set.       *)
LEMMA NextStep ==
    PInv /\ [Next]_vars => PInv' /\ Asks
<1> SUFFICES ASSUME PInv, [Next]_vars PROVE PInv' /\ Asks
    OBVIOUS
<1>1. ASSUME NEW c \in Channels, NEW fd \in Fds, NewChannel(c, fd) PROVE PInv' /\ Asks
    BY <1>1, NewChannelStep
<1>2. ASSUME NEW c \in Channels, Update(c) PROVE PInv' /\ Asks
    BY <1>2, UpdateStep
<1>3. ASSUME NEW c \in Channels, Remove(c) PROVE PInv' /\ Asks
    BY <1>3, RemoveStep
<1>4. ASSUME NEW c \in Channels, Destroy(c) PROVE PInv' /\ Asks
    BY <1>4, DestroyStep
<1> QED
    BY <1>1, <1>2, <1>3, <1>4, LoopStep DEF Next

(* So the invariant always holds.                                          *)
LEMMA Invariance ==
    Spec => []PInv
<1>1. PInv /\ [Next]_vars => PInv'
    BY NextStep
<1> QED
    BY <1>1, InitPInv, PTL DEF Spec

(* It says that the tables agree.                                          *)
LEMMA AgreedByPInv ==
    PInv => TablesAgree
<1> SUFFICES ASSUME PInv PROVE TablesAgree
    OBVIOUS
<1>0. Typed /\ OwnFds /\ MapInverts /\ KernelKnows /\ PlacesInvert /\ TodoStays /\ failed = FALSE
    BY DEF PInv
<1>1. Registered = Added
    BY <1>0, RegisteredAdded
<1>2. /\ Cardinality(Added) \in Nat /\ Cardinality(Fds) \in Nat
      /\ Cardinality(Added) <= Cardinality(Fds) /\ DOMAIN channels \subseteq Fds
    BY <1>0, AddedFew
<1>3. \A c \in Added : c \in Channels /\ ch[c].life # "none" /\ ch[c].fd \in Fds
    <2> SUFFICES ASSUME NEW c \in Added PROVE c \in Channels /\ ch[c].life # "none" /\ ch[c].fd \in Fds
        OBVIOUS
    <2>1. c \in Channels /\ ch[c].life # "none"
        BY DEF Added
    <2> QED
        BY <1>0, <2>1, FdOf
<1> DEFINE I == -1 .. 2 + Cardinality(Fds)
<1>4. ASSUME NEW c \in Channels PROVE ch[c].index \in I
    <2>1. CASE kind = "epoll"
        <3>1. ch[c].index \in {kNew, kAdded, kDeleted}
            BY <1>0, <2>1 DEF KernelKnows
        <3> QED
            BY <1>2, <3>1, SMTT(60) DEF kNew, kAdded, kDeleted
    <2>2. CASE kind = "poll" /\ c \in Added
        <3>1. ch[c].index + 1 \in 1 .. Len(pollfds) /\ Len(pollfds) = Cardinality(Added)
            BY <1>0, <2>2 DEF PlacesInvert
        <3>2. ch[c].index \in Int
            BY <1>0, ObjectType
        <3> QED
            BY <1>2, <3>1, <3>2, SMTT(60)
    <2>3. CASE kind = "poll" /\ c \notin Added
        <3>1. ch[c].index \in -1 .. Cardinality(Fds)
            BY <1>0, <2>3 DEF PlacesInvert
        <3> QED
            BY <1>2, <3>1, SMTT(60)
    <2> QED
        BY <1>0, <2>1, <2>2, <2>3 DEF Typed
<1>5. TypeOK
    <2>1. ch \in [Channels -> [life : {"none", "new", "added", "removed"}, fd : Fds \cup {-1},
                               events : SUBSET Events, index : -1..2 + Cardinality(Fds)]]
        <3>1. ch \in [Channels -> Objects]
            BY <1>0 DEF Typed
        <3> HIDE DEF I
        <3>2. ch \in [Channels -> [life : Lives, fd : Fds \cup {-1}, events : SUBSET Events, index : I]]
            BY <1>4, <3>1, SMTT(60) DEF Objects
        <3> QED
            BY <3>2 DEF I, Lives
    <2>2. DOMAIN epoll \subseteq Fds
        <3>1. CASE kind = "epoll"
            <4>1. DOMAIN epoll = {ch[c].fd : c \in Known} /\ Known \subseteq Added
                BY <1>0, <3>1 DEF KernelKnows, Known
            <4> QED
                BY <1>3, <4>1
        <3>2. CASE kind = "poll"
            BY <1>0, <3>2 DEF PlacesInvert
        <3> QED
            BY <1>0, <3>1, <3>2 DEF Typed
    <2>3. Len(pollfds) <= Cardinality(Fds)
        <3>1. CASE kind = "epoll"
            <4>1. pollfds = <<>>
                BY <1>0, <3>1 DEF KernelKnows
            <4> QED
                BY <1>2, <4>1, SMTT(60)
        <3>2. CASE kind = "poll"
            BY <1>0, <1>2, <3>2 DEF PlacesInvert
        <3> QED
            BY <1>0, <3>1, <3>2 DEF Typed
    <2>4. todo \subseteq {c \in active : ch[c].life # "none"}
        BY <1>0, <1>3 DEF TodoStays
    <2> QED
        BY <1>2, <2>1, <2>2, <2>3, <2>4 DEF TypeOK
<1>6. MapAgrees
    <2>1. ASSUME NEW fd \in DOMAIN channels PROVE ch[channels[fd]].fd = fd
        <3>1. PICK c \in Added : fd = ch[c].fd
            BY <1>0 DEF MapInverts
        <3> QED
            BY <1>0, <3>1 DEF MapInverts
    <2> QED
        BY <1>1, <2>1 DEF MapAgrees, Added
<1>7. IndexAgrees
    <2> SUFFICES ASSUME kind = "poll" PROVE IndexAgrees
        BY DEF IndexAgrees
    <2>1. DOMAIN pollfds = 1 .. Len(pollfds)
        BY <1>0, SMTT(60) DEF Typed
    <2>2. /\ Len(pollfds) = Cardinality(Added)
          /\ \A c \in Added : /\ ch[c].index + 1 \in 1 .. Len(pollfds)
                              /\ EntryOf(pollfds[ch[c].index + 1], ch[c])
        BY <1>0 DEF PlacesInvert
    <2> QED
        BY <1>1, <2>1, <2>2 DEF IndexAgrees, EntryOf
<1>8. WatchesWhatIsAsked
    <2>1. \A c : Watch(c).c = c /\ Watch(c).fd = ch[c].fd /\ Watch(c).events = ch[c].events
        BY DEF Watch
    <2>2. /\ \A e \in Entries : \E c \in Added : e = Watch(c)
          /\ \A c \in Added : ch[c].events # {} => Watch(c) \in Entries
        BY EntriesAre
    <2>3. ASSUME NEW e \in Entries
          PROVE  e.c \in Registered /\ ch[e.c].fd = e.fd /\ ch[e.c].events = e.events
        <3>1. PICK c \in Added : e = Watch(c)
            BY <2>2
        <3> QED
            BY <1>1, <2>1, <3>1
    <2>4. ASSUME NEW c \in Registered, ch[c].events # {} PROVE \E e \in Entries : e.c = c
        BY <1>1, <2>1, <2>2, <2>4
    <2> QED
        BY <2>3, <2>4 DEF WatchesWhatIsAsked
<1> QED
    BY <1>0, <1>5, <1>6, <1>7, <1>8 DEF TablesAgree, CtlNeverFails

(* The tables of both pollers agree with each other, with the channels and *)
(* with the kernel, and no epoll_ctl fails, through any sequence of        *)
(* updates and removals (EPollPoller.cc, PollPoller.cc).                   *)
THEOREM TablesStayAgreed == Spec => []TablesAgree
    BY Invariance, AgreedByPInv, PTL

-----------------------------------------------------------------------------
(* The refinement.                                                         *)

\* What the interest set sees of a poller is what its channels ask for.
SeenAsAsked == [c \in Registered |-> Kernel(c)] = Asked

(* The invariant says so.                                                  *)
LEMMA InterestIs ==
    PInv => SeenAsAsked
<1> SUFFICES ASSUME PInv PROVE SeenAsAsked
    OBVIOUS
<1>1. Registered = Added
    BY RegisteredAdded DEF PInv
<1>2. \A c \in Added : Kernel(c) = ch[c].events
    BY KernelIs
<1> QED
    BY <1>1, <1>2 DEF SeenAsAsked, Asked

(* EPollPoller and PollPoller, behind Poller's interface, are interest     *)
(* sets: an update sets what one channel is watched for, a removal takes   *)
(* out a channel that asks for nothing, a poll reports registered channels *)
(* only, and nothing else changes what is watched.                         *)
THEOREM PollerIsInterestSet == Spec => PollerSpec
<1> DEFINE interest == [c \in Registered |-> Kernel(c)]
<1>1. Init => Promise!Init
    <2> SUFFICES ASSUME Init PROVE Promise!Init
        OBVIOUS
    <2>1. interest = Asked
        BY InitPInv, InterestIs DEF SeenAsAsked
    <2>2. Added = {}
        BY DEF Init, Added, NoObject, Object
    <2>3. Asked = <<>>
        BY <2>2, SMTT(60) DEF Asked
    <2> QED
        BY <2>1, <2>3 DEF Promise!Init, Init
<1>2. ASSUME interest = Asked, interest' = Asked', Asks
      PROVE  [Promise!Next]_<<interest, active>>
    <2>1. ASSUME NEW c \in Channels, NEW ev \in SUBSET Events, active' = active,
                 Asked' = [d \in DOMAIN Asked \cup {c} |-> IF d = c THEN ev ELSE Asked[d]]
          PROVE  Promise!Next
        <3>1. Promise!UpdateChannel(c, ev)
            BY <1>2, <2>1 DEF Promise!UpdateChannel
        <3> QED
            BY <3>1 DEF Promise!Next
    <2>2. ASSUME NEW c \in Channels, c \in DOMAIN Asked, Asked[c] = {}, active' = active,
                 Asked' = Restrict(Asked, DOMAIN Asked \ {c})
          PROVE  Promise!Next
        <3>1. Promise!RemoveChannel(c)
            BY <1>2, <2>2 DEF Promise!RemoveChannel, Promise!Restrict, Restrict
        <3> QED
            BY <3>1 DEF Promise!Next
    <2>3. ASSUME NEW S \in SUBSET DOMAIN Asked, active' = S, Asked' = Asked
          PROVE  Promise!Next
        <3>1. Promise!Poll(S) /\ S \in SUBSET DOMAIN interest
            BY <1>2, <2>3 DEF Promise!Poll
        <3> QED
            BY <3>1 DEF Promise!Next
    <2>4. Promise!Next \/ (Asked' = Asked /\ active' = active)
        BY <1>2, <2>1, <2>2, <2>3 DEF Asks
    <2> QED
        BY <1>2, <2>4
<1>3. PInv' => SeenAsAsked'
    BY InterestIs, PTL
<1>4. PInv /\ PInv' /\ [Next]_vars => [Promise!Next]_<<interest, active>>
    BY <1>2, <1>3, NextStep, InterestIs DEF SeenAsAsked
<1> QED
    BY <1>1, <1>4, Invariance, PTL DEF Spec, PollerSpec, Promise!Spec
=============================================================================
