-------------------------- MODULE EpollDispatcher --------------------------
(***************************************************************************)
(* core::EpollDispatcher under its EventLoop: the kernel's interest list,  *)
(* and the copy readyEvents_ of at most maxNode_ results that dispatch()   *)
(* walks while callbacks change the interest list.                         *)
(***************************************************************************)
EXTENDS Naturals, Sequences, FiniteSets

CONSTANTS
    Fd,        \* descriptors
    MaxNode    \* maxNode_, the size of readyEvents_

VARIABLES
    mapped,      \* keys of the loop's channelMap_
    events,      \* events_ of each mapped Channel
    interest,    \* the interest list of epfd_, descriptor -> watched events
    readyEvents  \* entries of readyEvents_ not yet given to active()

vars == <<mapped, events, interest, readyEvents>>

Ev == {"read", "write"}
Report == Ev \cup {"error"}
Entry == [fd : Fd, ev : (SUBSET Report) \ {{}}]

Init ==
    /\ mapped = {}
    /\ events = [f \in Fd |-> {}]
    /\ interest = [f \in {} |-> {}]
    /\ readyEvents = <<>>

\* Mutant: epollCtl_ asks for EPOLLIN only in the absence of the write event.
CtlElseIf(op, f, mask) ==
    /\ (op = "ADD") = (f \notin DOMAIN interest)
    /\ interest' = [g \in DOMAIN interest \cup {f} |->
          IF g # f THEN interest[g]
          ELSE IF "write" \in mask THEN {"write"} ELSE mask]

\* epollCtl_ for ADD and MOD: the kernel refuses an ADD of a listed and a MOD
\* of an unlisted descriptor.
Ctl(op, f, mask) ==
    /\ (op = "ADD") = (f \notin DOMAIN interest)
    /\ interest' = [g \in DOMAIN interest \cup {f} |-> IF g = f THEN mask ELSE interest[g]]

\* add_ and add; when the kernel refuses, add_ takes the Channel out of
\* channelMap_ again and nothing changes.
Add(f) ==
    /\ f \notin mapped
    /\ Ctl("ADD", f, {"read"})
    /\ mapped' = mapped \cup {f}
    /\ events' = [events EXCEPT ![f] = {"read"}]
    /\ UNCHANGED readyEvents

WriteEventEnable(f, flag) ==
    /\ f \in mapped
    /\ events' = [events EXCEPT ![f] = IF flag THEN @ \cup {"write"} ELSE @ \ {"write"}]
    /\ UNCHANGED <<mapped, interest, readyEvents>>

Modify(f) ==
    /\ f \in mapped
    /\ Ctl("MOD", f, events[f])
    /\ UNCHANGED <<mapped, events, readyEvents>>

\* remove_ and remove; an unlisted descriptor is an error and stays mapped.
CtlDel(f) ==
    /\ f \in mapped /\ f \in DOMAIN interest
    /\ interest' = [g \in DOMAIN interest \ {f} |-> interest[g]]
    /\ mapped' = mapped \ {f}
    /\ events' = [events EXCEPT ![f] = {}]

Remove(f) == CtlDel(f) /\ UNCHANGED readyEvents

\* epoll_wait: some listed descriptors, each once, at most maxNode_ of them;
\* errors and hang-ups are reported unasked.
EpollWait ==
    /\ readyEvents = <<>>
    /\ \E n \in 0..MaxNode :
          readyEvents' \in {s \in [1..n -> Entry] :
              /\ \A j \in 1..n : /\ s[j].fd \in DOMAIN interest
                                 /\ s[j].ev \ {"error"} \subseteq interest[s[j].fd]
              /\ \A j, k \in 1..n : s[j].fd = s[k].fd => j = k}
    /\ UNCHANGED <<mapped, events, interest>>

Active ==
    /\ readyEvents # <<>>
    /\ "error" \notin Head(readyEvents).ev
    /\ readyEvents' = Tail(readyEvents)
    /\ UNCHANGED <<mapped, events, interest>>

\* active() removes the channel of an error event, if one is mapped.
ActiveError ==
    /\ readyEvents # <<>>
    /\ "error" \in Head(readyEvents).ev
    /\ readyEvents' = Tail(readyEvents)
    /\ IF Head(readyEvents).fd \in mapped THEN CtlDel(Head(readyEvents).fd)
                                          ELSE UNCHANGED <<mapped, events, interest>>

Next ==
    \/ EpollWait \/ Active \/ ActiveError
    \/ \E f \in Fd :
          \/ Add(f) \/ Modify(f) \/ Remove(f)
          \/ \E flag \in BOOLEAN : WriteEventEnable(f, flag)

Spec == Init /\ [][Next]_vars

-----------------------------------------------------------------------------
(* Properties                                                              *)

\* Types of all variables.
TypeOK ==
    /\ mapped \in SUBSET Fd
    /\ events \in [Fd -> SUBSET Ev]
    /\ DOMAIN interest \subseteq Fd
    /\ \A f \in DOMAIN interest : interest[f] \in SUBSET Ev
    /\ readyEvents \in Seq(Entry) /\ Len(readyEvents) <= MaxNode

watched == [f \in Fd |-> IF f \in DOMAIN interest THEN interest[f] ELSE {}]
undelivered ==
    [f \in Fd |-> UNION {readyEvents[j].ev :
                         j \in {k \in 1..Len(readyEvents) : readyEvents[k].fd = f}}]

\* The interest list and channelMap_ never drift apart, so that no epoll_ctl
\* of a legal call fails and no Channel is stuck in the map
\* (EventLoop.cpp:348-397, EpollDispatcher.cpp:41-54).
ListMatchesMap == DOMAIN interest = mapped
=============================================================================
