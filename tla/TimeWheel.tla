----------------------------- MODULE TimeWheel -----------------------------
(***************************************************************************)
(* TimerWheel of the web server: max_second slots of references to         *)
(* entries.  A tick drops the references of one slot, and an entry that no *)
(* reference is left to is destroyed.  An entry is put in a slot again     *)
(* whenever its connection is used.                                        *)
(*                                                                         *)
(* life is history: for how many ticks the last insertions have promised   *)
(* to keep an entry.  An insertion keeps it for a whole turn, except that  *)
(* one with next_second = 0 goes to slot 0 and is dropped by the very next *)
(* tick (TimeWheel.h:51 adds 1 to -1).                                     *)
(***************************************************************************)
EXTENDS Naturals

CONSTANTS Entries, max_second

ASSUME WheelAssumption == max_second \in Nat \ {0}

VARIABLES next_second, wheel, life

wheelVars == <<next_second, wheel, life>>

Slots == 0 .. max_second - 1

WheelInit ==
    /\ next_second = 0
    /\ wheel = [s \in Slots |-> {}]
    /\ life = [e \in Entries |-> 0]

InsertSlot_Next == next_second

InsertSlot == IF next_second = 0 THEN 0 ELSE next_second - 1

Promise == IF next_second = 0 THEN 1 ELSE max_second

insertEntryInLoop(e) ==
    /\ wheel' = [wheel EXCEPT ![InsertSlot] = @ \cup {e}]
    /\ life' = [life EXCEPT ![e] = IF @ < Promise THEN Promise ELSE @]
    /\ UNCHANGED next_second

onTimer ==
    /\ wheel' = [wheel EXCEPT ![next_second] = {}]
    /\ next_second' = IF next_second + 1 = max_second THEN 0 ELSE next_second + 1
    /\ life' = [e \in Entries |-> IF life[e] = 0 THEN 0 ELSE life[e] - 1]

WheelNext == onTimer \/ \E e \in Entries : insertEntryInLoop(e)

WheelSpec == WheelInit /\ [][WheelNext]_wheelVars

-----------------------------------------------------------------------------
InWheel(e) == \E s \in Slots : e \in wheel[s]

(* An entry is in the wheel for exactly the ticks that were promised, on   *)
(* whatever side of the wrap its slots are: no tick drops the last         *)
(* reference early, and no forgotten slot keeps an entry.                  *)
KeptAsPromised == \A e \in Entries : InWheel(e) <=> life[e] > 0
=============================================================================
