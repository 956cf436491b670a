------------------------------ MODULE EventStream ------------------------------
(***************************************************************************)
(* What the drain of a native member promises its app, whatever threads    *)
(* feed it (datachannelxt/src/dcx_abi.h, "The event drain"): a bounded     *)
(* FIFO.  Accepted events come out in the order they went in.  An event is *)
(* shed only if that very event does not fit under the caps, and is        *)
(* counted; the count is reported once, behind everything that survived    *)
(* it.  The one thing that is lost after it was accepted is an event the   *)
(* shim meets at the head when a handle it names is no longer live, and no *)
(* such event is delivered.                                                *)
(*                                                                         *)
(* live is an input: the stream reads it, and it may change at any time.   *)
(* What becomes of an event before it reaches the queue (a callback for an *)
(* object that has no handle any more) is not the stream's concern.        *)
(***************************************************************************)
EXTENDS Naturals, Sequences, Functions

CONSTANTS
    Cost(_),       \* what an event is charged
    Names(_),      \* the handles an event names
    Report(_),     \* the event that reports a number of shed events
    None,          \* no event
    MaxEvents,     \* the cap on the number of pending events
    MaxBytes       \* the cap on what they cost together

VARIABLES
    pending,       \* accepted, not yet out
    delivered,     \* what the app has received
    lost,          \* the number of events shed since the last report
    refused,       \* the event shed last, None once it is reported
    live           \* the handles that name something (input)

vars == <<pending, delivered, lost, refused>>

Charged == SumFunction([i \in DOMAIN pending |-> Cost(pending[i])])

Fits(e) ==
    /\ Len(pending) < MaxEvents
    /\ Charged + Cost(e) <= MaxBytes

Init ==
    /\ pending = <<>>
    /\ delivered = <<>>
    /\ lost = 0
    /\ refused = None

\* The event accepted is the one that pending' ends with.
Accept ==
    /\ \E e \in Range(pending') :
          /\ Fits(e)
          /\ pending' = Append(pending, e)
    /\ UNCHANGED <<delivered, lost, refused>>

\* The event shed is the one that refused' names.
Shed ==
    /\ lost' = lost + 1
    /\ ~Fits(refused')
    /\ UNCHANGED <<pending, delivered>>

Wanted(e) == Names(e) \subseteq live

Deliver ==
    /\ pending # <<>>
    /\ Wanted(Head(pending))
    /\ delivered' = Append(delivered, Head(pending))
    /\ pending' = Tail(pending)
    /\ UNCHANGED <<lost, refused>>

Discard ==
    /\ pending # <<>>
    /\ ~Wanted(Head(pending))
    /\ pending' = Tail(pending)
    /\ UNCHANGED <<delivered, lost, refused>>

ReportLost ==
    /\ pending = <<>>
    /\ lost > 0
    /\ delivered' = Append(delivered, Report(lost))
    /\ lost' = 0
    /\ refused' = None
    /\ UNCHANGED pending

Reset ==
    /\ pending' = <<>>
    /\ lost' = 0
    /\ refused' = None
    /\ UNCHANGED delivered

Next == Accept \/ Shed \/ Deliver \/ Discard \/ ReportLost \/ Reset

Spec == Init /\ [][Next]_vars
================================================================================
