-------------------------- MODULE SelectDispatcher --------------------------
(***************************************************************************)
(* core::SelectDispatcher under its EventLoop: the two descriptor sets,    *)
(* which setFdSet_ and clearFdSet_ change for the events the Channel has   *)
(* at that moment, and the copies dispatch() walks.                        *)
(***************************************************************************)
EXTENDS Naturals, FiniteSets

CONSTANTS
    Fd,        \* descriptor numbers
    MaxSize    \* maxSize_, the size of an fd_set

VARIABLES
    mapped,    \* keys of the loop's channelMap_
    events,    \* events_ of each mapped Channel
    asked,     \* history: events_ when add or modify last ran for it
    readSet,   \* readSet_
    writeSet,  \* writeSet_
    rdtmp,     \* of the copy of readSet_, what the walk has not reached
    wrtmp,     \* of the copy of writeSet_, what the walk has not reached
    failed     \* dispatch() returned kError, so that run() returned

vars == <<mapped, events, asked, readSet, writeSet, rdtmp, wrtmp, failed>>

Ev == {"read", "write"}
FdSet == 0..MaxSize - 1

Init ==
    /\ mapped = {}
    /\ events = [f \in Fd |-> {}]
    /\ asked = [f \in Fd |-> {}]
    /\ readSet = {} /\ writeSet = {}
    /\ rdtmp = {} /\ wrtmp = {}
    /\ failed = FALSE

SetFd(s, f, e, on) == IF e \in on THEN s \cup {f} ELSE s
ClearFd(s, f, e, on) == IF e \in on THEN s \ {f} ELSE s

\* add_ and add; a descriptor beyond the set is refused and add_ takes the
\* Channel out of channelMap_ again: nothing changes.
Add(f) ==
    /\ ~failed /\ f \notin mapped
    /\ f < MaxSize
    /\ readSet' = SetFd(readSet, f, "read", {"read"})
    /\ writeSet' = SetFd(writeSet, f, "write", {"read"})
    /\ mapped' = mapped \cup {f}
    /\ events' = [events EXCEPT ![f] = {"read"}]
    /\ asked' = [asked EXCEPT ![f] = {"read"}]
    /\ UNCHANGED <<rdtmp, wrtmp, failed>>

WriteEventEnable(f, flag) ==
    /\ ~failed /\ f \in mapped
    /\ events' = [events EXCEPT ![f] = IF flag THEN @ \cup {"write"} ELSE @ \ {"write"}]
    /\ UNCHANGED <<mapped, asked, readSet, writeSet, rdtmp, wrtmp, failed>>

\* modify_ and modify: clearFdSet_, then setFdSet_, both for the events the
\* Channel has now.
Modify(f) ==
    /\ ~failed /\ f \in mapped
    /\ readSet' = SetFd(ClearFd(readSet, f, "read", events[f]), f, "read", events[f])
    /\ writeSet' = SetFd(ClearFd(writeSet, f, "write", events[f]), f, "write", events[f])
    /\ asked' = [asked EXCEPT ![f] = events[f]]
    /\ UNCHANGED <<mapped, events, rdtmp, wrtmp, failed>>

\* remove_ and remove: clearFdSet_, which always succeeds.
Clear(f) ==
    /\ f \in mapped
    /\ readSet' = ClearFd(readSet, f, "read", events[f])
    /\ writeSet' = ClearFd(writeSet, f, "write", events[f])
    /\ mapped' = mapped \ {f}
    /\ events' = [events EXCEPT ![f] = {}]
    /\ asked' = [asked EXCEPT ![f] = {}]

Remove(f) == ~failed /\ Clear(f) /\ UNCHANGED <<rdtmp, wrtmp, failed>>

\* select() on copies of the sets; no error set is passed.
Select ==
    /\ ~failed /\ rdtmp \cup wrtmp = {}
    /\ rdtmp' \in SUBSET readSet /\ wrtmp' \in SUBSET writeSet
    /\ UNCHANGED <<mapped, events, asked, readSet, writeSet, failed>>

\* select() fails on a descriptor nobody has open (EBADF): dispatch() returns
\* kError and run() with it.
SelectBadFd ==
    /\ ~failed /\ rdtmp \cup wrtmp = {}
    /\ (readSet \cup writeSet) \ mapped # {}
    /\ failed' = TRUE
    /\ UNCHANGED <<mapped, events, asked, readSet, writeSet, rdtmp, wrtmp>>

\* The walk is in the order of the descriptors; active() looks each one up.
Active(f) ==
    /\ ~failed /\ f \in rdtmp \cup wrtmp
    /\ \A g \in rdtmp \cup wrtmp : f <= g
    /\ rdtmp' = rdtmp \ {f} /\ wrtmp' = wrtmp \ {f}
    /\ UNCHANGED <<mapped, events, asked, readSet, writeSet, failed>>

Next ==
    \/ Select \/ SelectBadFd
    \/ \E f \in Fd :
          \/ Add(f) \/ Modify(f) \/ Remove(f) \/ Active(f)
          \/ \E flag \in BOOLEAN : WriteEventEnable(f, flag)

Spec == Init /\ [][Next]_vars

-----------------------------------------------------------------------------
(* Properties                                                              *)

\* Types of all variables.
TypeOK ==
    /\ mapped \in SUBSET Fd
    /\ events \in [Fd -> SUBSET Ev] /\ asked \in [Fd -> SUBSET Ev]
    /\ readSet \in SUBSET FdSet /\ writeSet \in SUBSET FdSet
    /\ rdtmp \in SUBSET FdSet /\ wrtmp \in SUBSET FdSet
    /\ failed \in BOOLEAN

\* A descriptor is in readSet_ exactly while its Channel is mapped: clearing
\* goes by the Channel's events and a Channel never gives up reading
\* (SelectDispatcher.cpp:21-47).
ReadSetExact == readSet = mapped

\* No response is stuck: while a Channel is mapped and its last MODIFY asked
\* for write events, it is in writeSet_.
WriteInterestKept == \A f \in mapped : "write" \in asked[f] => f \in writeSet

\* The sets hold nothing else (Dispatcher.hpp:40, 45: remove and modify act on
\* channel_->fd).  The code does not keep this: clearFdSet_ goes by the events
\* the Channel has now, so that after writeEventEnable(false) neither a MODIFY
\* nor a REMOVE takes the write bit away (SelectDispatcher.cpp:35-47, 60-71).
\* While the Channel is mapped, handleWrite is called for nothing
\* (HttpConnection, leftOver); afterwards select() meets a closed descriptor.
WatchedWasAsked ==
    /\ readSet \subseteq mapped
    /\ \A f \in writeSet : f \in mapped /\ "write" \in asked[f]
=============================================================================
