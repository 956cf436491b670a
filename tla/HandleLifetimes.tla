---------------------------- MODULE HandleLifetimes ----------------------------
(***************************************************************************)
(* One handle table and the callers of alloc() and free(), who may free    *)
(* any handle at any time, live, stale or never issued: how long a stale   *)
(* handle stays dead, and that the free list never loses or doubles a slot.*)
(***************************************************************************)
EXTENDS HandleTable

CONSTANTS
    Objects,     \* what is stored
    MaxFrees     \* bound: times any one slot is freed

ASSUME LifetimesAssumption ==
    /\ Null \notin Objects
    /\ MaxFrees \in Nat

VARIABLES
    table,       \* the table
    frees,       \* times each slot was freed (history)
    retired      \* for each handle freed: frees of its slot by then (history)

vars == <<table, frees, retired>>

Never == -1

Init ==
    /\ table = EmptyTable
    /\ frees = [i \in Slots |-> 0]
    /\ retired = [h \in Handles |-> Never]

\* alloc(): 0 from a full table changes nothing.
AllocObject(o) ==
    /\ table' = Alloc(table, o)
    /\ UNCHANGED <<frees, retired>>

\* free() of a handle that is not live changes nothing.
FreeHandle(h) ==
    /\ frees[h.idx] < MaxFrees
    /\ table' = Free(table, h)
    /\ IF IsLive(table, h)
       THEN /\ frees' = [frees EXCEPT ![h.idx] = @ + 1]
            /\ retired' = [retired EXCEPT ![h] = frees[h.idx] + 1]
       ELSE UNCHANGED <<frees, retired>>

Next ==
    \/ \E o \in Objects : AllocObject(o)
    \/ \E h \in Handles : FreeHandle(h)

Spec == Init /\ [][Next]_vars

\* The table, its histories and the generations of live slots keep their types.
TypeOK ==
    /\ TableOK(table, Objects)
    /\ frees \in [Slots -> Nat]
    /\ retired \in [Handles -> Nat \cup {Never}]

\* Whatever is freed, however often, the free list holds exactly the dead
\* slots and liveCount_ counts the others: no slot is given out twice or lost.
FreeListExact == FreeListOK(table)

\* A freed handle stays dead until its slot has been freed GEN_MAX - 1 more
\* times (free() bumps the generation, 32767 wraps to 1): no earlier recycling
\* of the slot revives it.
StaleWithinCycle ==
    \A h \in Handles :
       retired[h] # Never /\ frees[h.idx] - retired[h] < GEN_MAX - 1 => ~IsLive(table, h)

\* The header's unqualified claim, "a stale handle is ALWAYS a harmless no-op":
\* no step that is not a free of it makes a retired handle live again.
StaleForever == [][\A h \in Handles : retired[h] # Never /\ ~IsLive(table, h) => ~IsLive(table, h)']_vars
================================================================================
