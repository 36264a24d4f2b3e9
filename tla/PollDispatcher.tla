--------------------------- MODULE PollDispatcher ---------------------------
(***************************************************************************)
(* core::PollDispatcher under its EventLoop: the array fds_ of slots, the  *)
(* linear searches of add, remove and modify, and the walk of dispatch()   *)
(* over the live array while callbacks change it.                          *)
(***************************************************************************)
EXTENDS Naturals, FiniteSets

CONSTANTS
    Fd,        \* descriptors
    NoFd,      \* the -1 of an empty slot
    MaxNode    \* maxNode_, the number of slots

VARIABLES
    mapped,    \* keys of the loop's channelMap_
    events,    \* events_ of each mapped Channel
    fds,       \* fds_
    i          \* slot the loop of dispatch() is at; 0 outside dispatch()

vars == <<mapped, events, fds, i>>

Ev == {"read", "write"}
Report == Ev \cup {"error"}
Index == 1..MaxNode
Slot == [fd : Fd \cup {NoFd}, events : SUBSET Ev, revents : SUBSET Report]
Empty == [fd |-> NoFd, events |-> {}, revents |-> {}]

Init ==
    /\ mapped = {}
    /\ events = [f \in Fd |-> {}]
    /\ fds = [j \in Index |-> Empty]
    /\ i = 0

\* Where the linear search for fd "f" stops.
FoundAt(f, j) == fds[j].fd = f /\ \A k \in 1..j-1 : fds[k].fd # f

\* Mutant: with no empty slot the last one is taken.
AddOverwrites(f) ==
    /\ f \notin mapped
    /\ \E j \in Index :
          /\ FoundAt(NoFd, j) \/ (j = MaxNode /\ \A k \in Index : fds[k].fd # NoFd)
          /\ fds' = [fds EXCEPT ![j].fd = f, ![j].events = {"read"}]
    /\ mapped' = mapped \cup {f}
    /\ events' = [events EXCEPT ![f] = {"read"}]
    /\ UNCHANGED i

\* add_ and add: the first empty slot takes the new Channel; revents is left
\* as it is.  With no empty slot add_ takes the Channel out of channelMap_
\* again: nothing changes.
Add(f) ==
    /\ f \notin mapped
    /\ \E j \in Index :
          /\ FoundAt(NoFd, j)
          /\ fds' = [fds EXCEPT ![j] =
                        [fd |-> f, events |-> {"read"}, revents |-> fds[j].revents]]
    /\ mapped' = mapped \cup {f}
    /\ events' = [events EXCEPT ![f] = {"read"}]
    /\ UNCHANGED i

\* Channel::writeEventEnable, before a MODIFY is posted.
WriteEventEnable(f, flag) ==
    /\ f \in mapped
    /\ events' = [events EXCEPT ![f] = IF flag THEN @ \cup {"write"} ELSE @ \ {"write"}]
    /\ UNCHANGED <<mapped, fds, i>>

\* modify_ and modify; kNotFound changes nothing.
Modify(f) ==
    /\ f \in mapped
    /\ \E j \in Index :
          /\ FoundAt(f, j)
          /\ fds' = [fds EXCEPT ![j] =
                        [fd |-> f, events |-> events[f], revents |-> fds[j].revents]]
    /\ UNCHANGED <<mapped, events, i>>

\* Mutant: remove frees the slot and leaves its revents.
RemoveSlotDirty(f) ==
    /\ f \in mapped
    /\ \E j \in Index :
          FoundAt(f, j) /\ fds' = [fds EXCEPT ![j].fd = NoFd, ![j].events = {}]
    /\ mapped' = mapped \ {f}
    /\ events' = [events EXCEPT ![f] = {}]

\* remove_ and remove; with kNotFound the Channel stays in channelMap_.
RemoveSlot(f) ==
    /\ f \in mapped
    /\ \E j \in Index : FoundAt(f, j) /\ fds' = [fds EXCEPT ![j] = Empty]
    /\ mapped' = mapped \ {f}
    /\ events' = [events EXCEPT ![f] = {}]

Remove(f) == RemoveSlot(f) /\ UNCHANGED i

\* poll() fills in revents; a failure, EINTR or the time-out reports nothing.
Poll ==
    /\ i = 0
    /\ \E r \in [Index -> SUBSET Report] :
          /\ \A j \in Index :
                /\ r[j] \ {"error"} \subseteq fds[j].events
                /\ fds[j].fd = NoFd => r[j] = {}
          /\ fds' = [j \in Index |-> [fds[j] EXCEPT !.revents = r[j]]]
    /\ i' = 1
    /\ UNCHANGED <<mapped, events>>

Walking == i \in Index
Step == i' = IF i = MaxNode THEN 0 ELSE i + 1
Nothing(j) == fds[j].fd = NoFd \/ fds[j].revents = {}

Skip ==
    /\ Walking /\ Nothing(i)
    /\ Step
    /\ UNCHANGED <<mapped, events, fds>>

\* active(fds_[i].fd, ev) runs the callbacks of whoever has the slot now.
Active ==
    /\ Walking /\ ~Nothing(i) /\ "error" \notin fds[i].revents
    /\ Step
    /\ UNCHANGED <<mapped, events, fds>>

\* active() removes the channel of an error event, if it is mapped.
ActiveError ==
    /\ Walking /\ ~Nothing(i) /\ "error" \in fds[i].revents
    /\ IF fds[i].fd \in mapped THEN RemoveSlot(fds[i].fd)
                               ELSE UNCHANGED <<mapped, events, fds>>
    /\ Step

Next ==
    \/ Poll \/ Skip \/ Active \/ ActiveError
    \/ \E f \in Fd :
          \/ Add(f) \/ Modify(f) \/ Remove(f)
          \/ \E flag \in BOOLEAN : WriteEventEnable(f, flag)

Spec == Init /\ [][Next]_vars

-----------------------------------------------------------------------------
(* Properties                                                              *)

\* Types of all variables.
TypeOK ==
    /\ mapped \in SUBSET Fd
    /\ events \in [Fd -> SUBSET Ev]
    /\ fds \in [Index -> Slot]
    /\ i \in 0..MaxNode

\* Every mapped Channel has exactly one slot and no slot is anybody else's,
\* so that no search of remove or modify answers kNotFound or hits a
\* duplicate (PollDispatcher.cpp:57-66, 76-85, 108-115).
SlotsMatchMap ==
    /\ \A f \in mapped : \E j \in Index : fds[j].fd = f
    /\ \A j \in Index : fds[j].fd # NoFd => fds[j].fd \in mapped
    /\ \A j, k \in Index : fds[j].fd = fds[k].fd /\ fds[j].fd # NoFd => j = k

\* The back end watches a descriptor for the events of its slot.
watched == [f \in Fd |-> UNION {fds[j].events : j \in {k \in Index : fds[k].fd = f}}]
\* What the walk still has to deliver for a descriptor.
undelivered ==
    [f \in Fd |-> IF ~Walking THEN {}
                  ELSE UNION {fds[j].revents : j \in {k \in i..MaxNode : fds[k].fd = f}}]

\* A Channel that takes over a slot during the walk never receives the result
\* poll() left there for the Channel before it: what is still to deliver
\* belongs to the descriptor polled (PollDispatcher.cpp:80-82, 142-162).
NoStale == \A f \in Fd : f \in mapped' \ mapped => undelivered'[f] = {}
=============================================================================
