----------------------------- MODULE Dispatcher -----------------------------
(***************************************************************************)
(* What core::Dispatcher promises its EventLoop (Dispatcher.hpp:34-56):    *)
(* add, modify and remove set the events the back end watches a descriptor *)
(* for to those of its Channel, and dispatch() hands active() only events  *)
(* that were watched when it waited.  The three back ends are modules of   *)
(* their own.                                                              *)
(*                                                                         *)
(* Everything runs on the loop's thread; add, modify and remove happen     *)
(* between dispatches, and inside one when a callback posts a task.        *)
(***************************************************************************)
CONSTANT Fd      \* descriptors

VARIABLES
    mapped,      \* keys of channelMap_
    events,      \* events_ of each mapped Channel
    watched,     \* what the back end watches each descriptor for
    undelivered  \* what dispatch() found and did not yet give to active()

vars == <<mapped, events, watched, undelivered>>

Ev == {"read", "write"}
Report == Ev \cup {"error"}

Init ==
    /\ mapped = {}
    /\ events = [f \in Fd |-> {}]
    /\ watched = [f \in Fd |-> {}]
    /\ undelivered = [f \in Fd |-> {}]

\* A new Channel is interested in reading (TcpConnection::init).
Add(f) ==
    /\ f \notin mapped
    /\ mapped' = mapped \cup {f}
    /\ events' = [events EXCEPT ![f] = {"read"}]
    /\ watched' = [watched EXCEPT ![f] = {"read"}]
    /\ UNCHANGED undelivered

WriteEventEnable(f, flag) ==
    /\ f \in mapped
    /\ events' = [events EXCEPT ![f] = IF flag THEN @ \cup {"write"} ELSE @ \ {"write"}]
    /\ UNCHANGED <<mapped, watched, undelivered>>

Modify(f) ==
    /\ f \in mapped
    /\ watched' = [watched EXCEPT ![f] = events[f]]
    /\ UNCHANGED <<mapped, events, undelivered>>

Unregister(f) ==
    /\ f \in mapped
    /\ mapped' = mapped \ {f}
    /\ events' = [events EXCEPT ![f] = {}]
    /\ watched' = [watched EXCEPT ![f] = {}]

\* What dispatch() found for a descriptor removed meanwhile may still be
\* delivered: the promise does not forbid it.
Remove(f) ==
    /\ Unregister(f)
    /\ \/ UNCHANGED undelivered
       \/ undelivered' = [undelivered EXCEPT ![f] = {}]

Wait ==
    /\ \A f \in Fd : undelivered[f] = {}
    /\ undelivered' \in [Fd -> SUBSET Report]
    /\ \A f \in Fd : undelivered'[f] \ {"error"} \subseteq watched[f]
    /\ UNCHANGED <<mapped, events, watched>>

Active(f) ==
    /\ undelivered[f] # {}
    /\ undelivered' = [undelivered EXCEPT ![f] = {}]
    /\ UNCHANGED <<mapped, events, watched>>

\* active() removes the channel of an error event.
ActiveError(f) ==
    /\ "error" \in undelivered[f]
    /\ undelivered' = [undelivered EXCEPT ![f] = {}]
    /\ Unregister(f)

Next ==
    \/ Wait
    \/ \E f \in Fd :
          \/ Add(f) \/ Modify(f) \/ Remove(f) \/ Active(f) \/ ActiveError(f)
          \/ \E flag \in BOOLEAN : WriteEventEnable(f, flag)

Spec == Init /\ [][Next]_vars
=============================================================================
