---------------------------- MODULE InterestSet -----------------------------
(***************************************************************************)
(* What a muduo::net::Poller promises: a set of registered channels, each  *)
(* with the events it is interested in, and polls that report registered   *)
(* channels only.                                                          *)
(***************************************************************************)
EXTENDS Functions

CONSTANTS Channels, Events

VARIABLES
    interest,  \* from each registered channel to the events watched for it
    active     \* the channels the last poll reported

Init == interest = <<>> /\ active = {}

UpdateChannel(c, events) ==
    /\ interest' = [d \in DOMAIN interest \cup {c} |-> IF d = c THEN events ELSE interest[d]]
    /\ UNCHANGED active

RemoveChannel(c) ==
    /\ c \in DOMAIN interest
    /\ interest[c] = {}
    /\ interest' = Restrict(interest, DOMAIN interest \ {c})
    /\ UNCHANGED active

Poll(S) ==
    /\ active' = S
    /\ UNCHANGED interest

Next ==
    \/ \E c \in Channels, events \in SUBSET Events : UpdateChannel(c, events)
    \/ \E c \in Channels : RemoveChannel(c)
    \/ \E S \in SUBSET DOMAIN interest : Poll(S)

Spec == Init /\ [][Next]_<<interest, active>>
=============================================================================
