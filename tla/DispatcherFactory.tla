------------------------- MODULE DispatcherFactory -------------------------
(***************************************************************************)
(* createDispatcher: the back end of an EventLoop is one of three classes, *)
(* chosen once; the variables of the other two are never touched.  What    *)
(* the loop relies on is stated here for whichever back end it got.        *)
(***************************************************************************)
EXTENDS Naturals, Sequences, FiniteSets

CONSTANTS
    Fd,        \* descriptor numbers
    NoFd,      \* the -1 of an empty slot of PollDispatcher
    MaxNode,   \* maxNode_ of the epoll and poll back ends
    MaxSize    \* maxSize_ of the select back end

ASSUME DispatcherAssumption ==
    /\ Fd \subseteq Nat /\ NoFd \notin Fd
    /\ MaxNode \in Nat \ {0} /\ MaxSize \in Nat

VARIABLES
    type,                       \* the DispatcherType given to createDispatcher
    mapped, events,             \* the loop's channelMap_ and its Channels
    fds, i,                     \* PollDispatcher
    interest, readyEvents,      \* EpollDispatcher
    asked, readSet, writeSet, rdtmp, wrtmp, failed  \* SelectDispatcher

Poll == INSTANCE PollDispatcher
Epoll == INSTANCE EpollDispatcher
Select == INSTANCE SelectDispatcher

pollVars == <<fds, i>>
epollVars == <<interest, readyEvents>>
selectVars == <<asked, readSet, writeSet, rdtmp, wrtmp, failed>>
vars == <<type, mapped, events, pollVars, epollVars, selectVars>>

Init ==
    /\ type \in {"kEpoll", "kPoll", "kSelect"}
    /\ Poll!Init /\ Epoll!Init /\ Select!Init

Next ==
    /\ UNCHANGED type
    /\ \/ type = "kPoll" /\ Poll!Next /\ UNCHANGED <<epollVars, selectVars>>
       \/ type = "kEpoll" /\ Epoll!Next /\ UNCHANGED <<pollVars, selectVars>>
       \/ type = "kSelect" /\ Select!Next /\ UNCHANGED <<pollVars, epollVars>>

Spec == Init /\ [][Next]_vars

-----------------------------------------------------------------------------
(* Properties                                                              *)

\* Types of all variables.
TypeOK == Poll!TypeOK /\ Epoll!TypeOK /\ Select!TypeOK

\* The back end watches all its loop relies on, also when the table is full.
\* poll: every mapped Channel has exactly one slot and no slot is anybody
\* else's, so that no search of remove or modify answers kNotFound or hits a
\* duplicate (PollDispatcher.cpp:57-66, 76-85, 108-115).  epoll: the same of
\* the kernel's list, so that no epoll_ctl of a legal call fails
\* (EpollDispatcher.cpp:41-54).  So these two never drift from channelMap_.
\* select: a descriptor is in readSet_ exactly while its Channel is mapped, and
\* no write interest its Channel asked for is missing from writeSet_
\* (SelectDispatcher.cpp:21-47, 66-71); what writeSet_ holds beyond that is not
\* limited here, see WatchedWasAsked.
TablesMatchMap ==
    /\ TypeOK
    /\ type = "kPoll" => Poll!SlotsMatchMap
    /\ type = "kEpoll" => Epoll!ListMatchesMap
    /\ type = "kSelect" => Select!ReadSetExact /\ Select!WriteInterestKept

\* poll: a Channel that takes over a slot during the walk of dispatch() never
\* receives the result poll() left there for the Channel before it
\* (PollDispatcher.cpp:80-82, 142-162).
NoStaleEvent == [][type = "kPoll" => Poll!NoStale]_vars

\* epoll and poll: every step is a step of Dispatcher or changes nothing it
\* speaks of, so that a loop cannot tell the two back ends apart
\* (Dispatcher.hpp:34-56).  The select back end breaks this promise, see
\* WatchedWasAsked.
D == INSTANCE Dispatcher WITH
        watched <- IF type = "kPoll" THEN Poll!watched ELSE Epoll!watched,
        undelivered <- IF type = "kPoll" THEN Poll!undelivered ELSE Epoll!undelivered
Implements ==
    /\ D!Init
    /\ [][type # "kSelect" => [D!Next]_(D!vars)]_vars

\* select: what is in the sets is a mapped Channel's, and a write event is only
\* looked for while its Channel asks for one (Dispatcher.hpp:40, 45: remove
\* and modify act on channel_->fd).  The code does not keep this.
WatchedWasAsked == type = "kSelect" => Select!WatchedWasAsked
=============================================================================
