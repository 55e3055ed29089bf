----------------------------- MODULE TaskBounds ------------------------------
(***************************************************************************)
(* The parameters of TaskEngine, with what it assumes of them.                *)
(***************************************************************************)
EXTENDS Integers

CONSTANTS
    Tasks,                  \* numbers, in the order of the keys in the store
    Interval,               \* IntervalSeconds, in ticks
    Zones,                  \* local time minus UTC, in ticks
    MaxAge,                 \* bound: more ticks are not told apart
    MaxEdits                \* bound: changes of the user, and restarts

ASSUME TaskAssumption ==
    /\ Tasks \subseteq Nat /\ Zones \subseteq Int /\ Interval \in Nat /\ MaxEdits \in Nat
    /\ MaxAge \in Nat /\ \A z \in Zones : Interval + z <= MaxAge
=============================================================================
