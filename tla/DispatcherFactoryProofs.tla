---------------------- MODULE DispatcherFactoryProofs ----------------------
(***************************************************************************)
(* Proofs about the three back ends: for any descriptors and any size of   *)
(* their tables.                                                           *)
(***************************************************************************)
EXTENDS DispatcherFactory, SequenceTheorems, TLAPS

\* poll: what a free slot still reports is nothing, so that whoever takes it
\* during the walk receives nothing.
FreeIsSilent == \A j \in Poll!Index : fds[j].fd = NoFd => fds[j].revents = {}

\* epoll_wait reports a descriptor once.
EntriesDiffer ==
    \A j, k \in 1..Len(readyEvents) : readyEvents[j].fd = readyEvents[k].fd => j = k

\* A Channel never gives up reading.
ReadsAlways == \A f \in mapped : "read" \in events[f]

PollInv == Poll!TypeOK /\ Poll!SlotsMatchMap /\ FreeIsSilent
EpollInv == Epoll!TypeOK /\ Epoll!ListMatchesMap /\ EntriesDiffer
SelectInv == Select!TypeOK /\ Select!ReadSetExact /\ Select!WriteInterestKept /\ ReadsAlways

Inv ==
    /\ TypeOK
    /\ type = "kPoll" => PollInv
    /\ type = "kEpoll" => EpollInv
    /\ type = "kSelect" => SelectInv

-----------------------------------------------------------------------------
(* poll                                                                    *)

\* One slot of fds_ changes.
LEMMA SlotChanges ==
    ASSUME PollInv, NEW j \in Poll!Index, NEW s \in Poll!Slot,
           fds' = [fds EXCEPT ![j] = s],
           mapped' \in SUBSET Fd, events' \in [Fd -> SUBSET Poll!Ev], i' \in 0..MaxNode,
           s.fd = NoFd => s.revents = {},
           \/ s.fd = fds[j].fd /\ mapped' = mapped
           \/ s.fd = NoFd /\ mapped' = mapped \ {fds[j].fd}
           \/ fds[j].fd = NoFd /\ s.fd \notin mapped /\ mapped' = mapped \cup {s.fd}
    PROVE  PollInv'
  <1> USE DEF PollInv
  <1>1. /\ fds \in [Poll!Index -> Poll!Slot] /\ fds' \in [Poll!Index -> Poll!Slot]
        /\ fds'[j] = s /\ \A k \in Poll!Index : k # j => fds'[k] = fds[k]
        /\ mapped \in SUBSET Fd /\ NoFd \notin mapped /\ NoFd \notin mapped'
    BY DispatcherAssumption DEF Poll!TypeOK
  <1>2. Poll!TypeOK'
    BY <1>1 DEF Poll!TypeOK
  <1>3. FreeIsSilent'
    BY <1>1 DEF FreeIsSilent, Poll!Index
  <1>4. Poll!SlotsMatchMap'
    <2> USE <1>1 DEF Poll!SlotsMatchMap
    <2>1. CASE s.fd = fds[j].fd /\ mapped' = mapped
      BY <2>1 DEF Poll!Index
    <2>2. CASE s.fd = NoFd /\ mapped' = mapped \ {fds[j].fd}
      BY <2>2 DEF Poll!Index
    <2>3. CASE fds[j].fd = NoFd /\ s.fd \notin mapped /\ mapped' = mapped \cup {s.fd}
      BY <2>3 DEF Poll!Index
    <2>4. QED
      BY <2>1, <2>2, <2>3
  <1>5. QED
    BY <1>2, <1>3, <1>4

LEMMA SlotTyped ==
    ASSUME PollInv, NEW j \in Poll!Index
    PROVE  /\ fds[j] \in Poll!Slot
           /\ fds[j] = [fd |-> fds[j].fd, events |-> fds[j].events, revents |-> fds[j].revents]
           /\ fds[j].fd \in Fd \cup {NoFd} /\ fds[j].events \in SUBSET Poll!Ev
           /\ fds[j].revents \in SUBSET Poll!Report
           /\ fds[j].fd = NoFd => fds[j].revents = {}
  BY DEF PollInv, Poll!TypeOK, Poll!Slot, FreeIsSilent

\* RemoveSlot changes the slot of f.
LEMMA RemoveSlotStep ==
    ASSUME PollInv, NEW f \in Fd, Poll!RemoveSlot(f), i' \in 0..MaxNode
    PROVE  PollInv'
  <1>1. PICK j \in Poll!Index :
            Poll!FoundAt(f, j) /\ fds' = [fds EXCEPT ![j] = Poll!Empty]
    BY DEF Poll!RemoveSlot
  <1>2. fds[j].fd = f /\ Poll!Empty \in Poll!Slot /\ Poll!Empty.fd = NoFd
        /\ Poll!Empty.revents = {}
    BY <1>1 DEF Poll!FoundAt, Poll!Empty, Poll!Slot
  <1>3. mapped' \in SUBSET Fd /\ events' \in [Fd -> SUBSET Poll!Ev] /\ mapped' = mapped \ {f}
    BY DEF Poll!RemoveSlot, PollInv, Poll!TypeOK
  <1>4. QED
    BY <1>1, <1>2, <1>3, SlotChanges

LEMMA PollStep == PollInv /\ Poll!Next => PollInv'
  <1> SUFFICES ASSUME PollInv, Poll!Next
               PROVE  PollInv'
    OBVIOUS
  <1>0. /\ mapped \in SUBSET Fd /\ events \in [Fd -> SUBSET Poll!Ev]
        /\ fds \in [Poll!Index -> Poll!Slot] /\ i \in 0..MaxNode /\ MaxNode \in Nat \ {0}
    BY DispatcherAssumption DEF PollInv, Poll!TypeOK
  <1>1. CASE Poll!Poll
    <2>1. PICK r \in [Poll!Index -> SUBSET Poll!Report] :
              /\ \A j \in Poll!Index : fds[j].fd = NoFd => r[j] = {}
              /\ fds' = [j \in Poll!Index |-> [fds[j] EXCEPT !.revents = r[j]]]
      BY <1>1 DEF Poll!Poll
    <2>2. ASSUME NEW j \in Poll!Index
          PROVE  /\ fds'[j] \in Poll!Slot
                 /\ fds'[j].fd = fds[j].fd /\ fds'[j].revents = r[j]
      BY <2>1, SlotTyped DEF Poll!Slot
    <2>3. fds' \in [Poll!Index -> Poll!Slot]
      BY <2>1, <2>2
    <2>4. Poll!TypeOK'
      BY <1>0, <1>1, <2>3 DEF Poll!Poll, Poll!TypeOK
    <2>5. mapped' = mapped
      BY <1>1 DEF Poll!Poll
    <2>6. Poll!SlotsMatchMap'
      BY <2>2, <2>5 DEF PollInv, Poll!SlotsMatchMap, Poll!Index
    <2>7. FreeIsSilent'
      BY <2>1, <2>2 DEF FreeIsSilent, Poll!Index
    <2>8. QED
      BY <2>4, <2>6, <2>7 DEF PollInv
  <1>2. ASSUME UNCHANGED <<mapped, fds>>, events' \in [Fd -> SUBSET Poll!Ev], i' \in 0..MaxNode
        PROVE  PollInv'
    BY <1>2 DEF PollInv, Poll!TypeOK, Poll!SlotsMatchMap, FreeIsSilent, Poll!Index
  <1>3. Poll!Walking /\ Poll!Step => i' \in 0..MaxNode
    BY <1>0 DEF Poll!Walking, Poll!Step, Poll!Index
  <1>4. CASE Poll!Skip \/ Poll!Active
    BY <1>0, <1>2, <1>3, <1>4 DEF Poll!Skip, Poll!Active
  <1>5. CASE Poll!ActiveError
    <2>1. i' \in 0..MaxNode
      BY <1>3, <1>5 DEF Poll!ActiveError
    <2>2. CASE fds[i].fd \in mapped
      BY <1>0, <1>5, <2>1, <2>2, RemoveSlotStep DEF Poll!ActiveError
    <2>3. CASE fds[i].fd \notin mapped
      BY <1>0, <1>2, <1>5, <2>1, <2>3 DEF Poll!ActiveError
    <2>4. QED
      BY <2>2, <2>3
  <1>6. ASSUME NEW f \in Fd, Poll!Add(f)
        PROVE  PollInv'
    <2>1. PICK j \in Poll!Index :
              /\ Poll!FoundAt(NoFd, j)
              /\ fds' = [fds EXCEPT ![j] =
                            [fd |-> f, events |-> {"read"}, revents |-> fds[j].revents]]
      BY <1>6 DEF Poll!Add
    <2> DEFINE s == [fd |-> f, events |-> {"read"}, revents |-> fds[j].revents]
    <2>2. s \in Poll!Slot /\ fds' = [fds EXCEPT ![j] = s]
      BY <2>1, SlotTyped DEF Poll!Slot, Poll!Ev
    <2>3. fds[j].fd = NoFd /\ s.fd = f /\ f # NoFd
      BY <2>1, DispatcherAssumption DEF Poll!FoundAt
    <2>4. /\ f \notin mapped /\ mapped' = mapped \cup {f} /\ mapped' \in SUBSET Fd
          /\ events' \in [Fd -> SUBSET Poll!Ev] /\ i' \in 0..MaxNode
      BY <1>0, <1>6 DEF Poll!Add, Poll!Ev
    <2> HIDE DEF s
    <2>5. QED
      BY <2>2, <2>3, <2>4, SlotChanges
  <1>7. ASSUME NEW f \in Fd, Poll!Modify(f)
        PROVE  PollInv'
    <2>1. PICK j \in Poll!Index :
              /\ Poll!FoundAt(f, j)
              /\ fds' = [fds EXCEPT ![j] =
                            [fd |-> f, events |-> events[f], revents |-> fds[j].revents]]
      BY <1>7 DEF Poll!Modify
    <2> DEFINE s == [fd |-> f, events |-> events[f], revents |-> fds[j].revents]
    <2>2. s \in Poll!Slot /\ fds' = [fds EXCEPT ![j] = s]
      BY <1>0, <2>1, SlotTyped DEF Poll!Slot
    <2>3. s.fd = fds[j].fd /\ (s.fd = NoFd => s.revents = {})
      BY <2>1, SlotTyped DEF Poll!FoundAt
    <2>4. mapped' = mapped /\ events' \in [Fd -> SUBSET Poll!Ev] /\ i' \in 0..MaxNode
      BY <1>0, <1>7 DEF Poll!Modify
    <2> HIDE DEF s
    <2>5. QED
      BY <1>0, <2>2, <2>3, <2>4, SlotChanges
  <1>8. ASSUME NEW f \in Fd, Poll!Remove(f)
        PROVE  PollInv'
    BY <1>0, <1>8, RemoveSlotStep DEF Poll!Remove
  <1>9. ASSUME NEW f \in Fd, NEW flag \in BOOLEAN, Poll!WriteEventEnable(f, flag)
        PROVE  PollInv'
    BY <1>0, <1>2, <1>9 DEF Poll!WriteEventEnable, Poll!Ev
  <1>10. QED
    BY <1>1, <1>4, <1>5, <1>6, <1>7, <1>8, <1>9 DEF Poll!Next

-----------------------------------------------------------------------------
(* epoll                                                                   *)

LEMMA EpollStep == EpollInv /\ Epoll!Next => EpollInv'
  <1> SUFFICES ASSUME EpollInv, Epoll!Next
               PROVE  EpollInv'
    OBVIOUS
  <1>0. /\ mapped \in SUBSET Fd /\ events \in [Fd -> SUBSET Epoll!Ev]
        /\ readyEvents \in Seq(Epoll!Entry) /\ Len(readyEvents) <= MaxNode /\ MaxNode \in Nat
    BY DispatcherAssumption DEF EpollInv, Epoll!TypeOK
  <1>1. CASE Epoll!EpollWait
    <2>1. PICK n \in 0..MaxNode : readyEvents' \in [1..n -> Epoll!Entry]
                                 /\ \A j, k \in 1..n :
                                        readyEvents'[j].fd = readyEvents'[k].fd => j = k
      BY <1>1 DEF Epoll!EpollWait
    <2>2. readyEvents' \in Seq(Epoll!Entry) /\ Len(readyEvents') = n
      BY <1>0, <2>1, SeqDef, LenProperties
    <2>3. QED
      BY <1>0, <1>1, <2>1, <2>2
         DEF Epoll!EpollWait, EpollInv, Epoll!TypeOK, Epoll!ListMatchesMap, EntriesDiffer
  <1>2. ASSUME readyEvents # <<>>, readyEvents' = Tail(readyEvents)
        PROVE  readyEvents' \in Seq(Epoll!Entry) /\ Len(readyEvents') <= MaxNode
               /\ EntriesDiffer'
    <2>1. /\ readyEvents' \in Seq(Epoll!Entry) /\ Len(readyEvents') = Len(readyEvents) - 1
          /\ \A k \in 1..Len(readyEvents') : readyEvents'[k] = readyEvents[k + 1]
      BY <1>0, <1>2, HeadTailProperties
    <2>2. Len(readyEvents) \in Nat /\ Len(readyEvents') \in Nat
      BY <1>0, <2>1
    <2>3. ASSUME NEW j \in 1..Len(readyEvents'), NEW k \in 1..Len(readyEvents'),
                 readyEvents'[j].fd = readyEvents'[k].fd
          PROVE  j = k
      <3>1. j + 1 \in 1..Len(readyEvents) /\ k + 1 \in 1..Len(readyEvents)
        BY <2>1, <2>2
      <3>2. readyEvents[j + 1].fd = readyEvents[k + 1].fd
        BY <2>1, <2>3
      <3>3. j + 1 = k + 1
        BY <3>1, <3>2 DEF EpollInv, EntriesDiffer
      <3>4. QED
        BY <3>3
    <2>4. QED
      BY <1>0, <2>1, <2>2, <2>3 DEF EntriesDiffer
  <1>3. CASE Epoll!Active
    BY <1>2, <1>3 DEF Epoll!Active, EpollInv, Epoll!TypeOK, Epoll!ListMatchesMap
  <1>4. /\ \A f \in Fd : Epoll!CtlDel(f) =>
              /\ mapped' \in SUBSET Fd /\ events' \in [Fd -> SUBSET Epoll!Ev]
              /\ \A g \in DOMAIN interest' : interest'[g] \in SUBSET Epoll!Ev
              /\ DOMAIN interest' = mapped'
    BY <1>0 DEF Epoll!CtlDel, EpollInv, Epoll!TypeOK, Epoll!ListMatchesMap
  <1>5. CASE Epoll!ActiveError
    <2>1. readyEvents' \in Seq(Epoll!Entry) /\ Len(readyEvents') <= MaxNode /\ EntriesDiffer'
      BY <1>2, <1>5 DEF Epoll!ActiveError
    <2>2. CASE UNCHANGED <<mapped, events, interest>>
      BY <2>1, <2>2 DEF EpollInv, Epoll!TypeOK, Epoll!ListMatchesMap
    <2>3. CASE Head(readyEvents).fd \in mapped /\ Epoll!CtlDel(Head(readyEvents).fd)
      BY <1>0, <1>4, <2>1, <2>3 DEF EpollInv, Epoll!TypeOK, Epoll!ListMatchesMap
    <2>4. QED
      BY <1>5, <2>2, <2>3 DEF Epoll!ActiveError
  <1>6. ASSUME NEW f \in Fd, Epoll!Add(f) \/ Epoll!Modify(f)
        PROVE  EpollInv'
    <2>1. EntriesDiffer'
      BY <1>6 DEF Epoll!Add, Epoll!Modify, EpollInv, EntriesDiffer
    <2>2. CASE Epoll!Add(f)
      BY <1>0, <2>1, <2>2 DEF Epoll!Add, Epoll!Ctl, EpollInv, Epoll!TypeOK,
                              Epoll!ListMatchesMap, Epoll!Ev
    <2>3. CASE Epoll!Modify(f)
      BY <1>0, <2>1, <2>3 DEF Epoll!Modify, Epoll!Ctl, EpollInv, Epoll!TypeOK,
                              Epoll!ListMatchesMap, Epoll!Ev
    <2>4. QED
      BY <1>6, <2>2, <2>3
  <1>7. ASSUME NEW f \in Fd, Epoll!Remove(f)
        PROVE  EpollInv'
    BY <1>0, <1>4, <1>7
       DEF Epoll!Remove, EpollInv, Epoll!TypeOK, Epoll!ListMatchesMap, EntriesDiffer
  <1>8. ASSUME NEW f \in Fd, NEW flag \in BOOLEAN, Epoll!WriteEventEnable(f, flag)
        PROVE  EpollInv'
    BY <1>0, <1>8 DEF Epoll!WriteEventEnable, Epoll!Ev, EpollInv, Epoll!TypeOK,
                      Epoll!ListMatchesMap, EntriesDiffer
  <1>9. QED
    BY <1>1, <1>3, <1>5, <1>6, <1>7, <1>8 DEF Epoll!Next

-----------------------------------------------------------------------------
(* select                                                                  *)

LEMMA SelectStep == SelectInv /\ Select!Next => SelectInv'
  <1> SUFFICES ASSUME SelectInv, Select!Next
               PROVE  SelectInv'
    OBVIOUS
  <1> USE DispatcherAssumption
      DEF SelectInv, Select!TypeOK, Select!ReadSetExact, Select!WriteInterestKept, ReadsAlways,
          Select!Ev, Select!FdSet, Select!SetFd, Select!ClearFd
  <1>1. CASE Select!Select \/ Select!SelectBadFd
    BY <1>1 DEF Select!Select, Select!SelectBadFd
  <1>2. ASSUME NEW f \in Fd, Select!Add(f)
        PROVE  SelectInv'
    BY <1>2 DEF Select!Add
  <1>3. ASSUME NEW f \in Fd, Select!Modify(f)
        PROVE  SelectInv'
    BY <1>3 DEF Select!Modify
  <1>4. ASSUME NEW f \in Fd, Select!Remove(f)
        PROVE  SelectInv'
    BY <1>4 DEF Select!Remove, Select!Clear
  <1>5. ASSUME NEW f \in Fd, Select!Active(f)
        PROVE  SelectInv'
    BY <1>5 DEF Select!Active
  <1>6. ASSUME NEW f \in Fd, NEW flag \in BOOLEAN, Select!WriteEventEnable(f, flag)
        PROVE  SelectInv'
    BY <1>6 DEF Select!WriteEventEnable
  <1>7. QED
    BY <1>1, <1>2, <1>3, <1>4, <1>5, <1>6 DEF Select!Next

-----------------------------------------------------------------------------
(* The invariant                                                           *)

LEMMA InvInit == Init => Inv
  <1> SUFFICES ASSUME Init
               PROVE  Inv
    OBVIOUS
  <1> USE DispatcherAssumption
  <1>1. Poll!TypeOK /\ Poll!SlotsMatchMap /\ FreeIsSilent
    BY DEF Init, Poll!Init, Poll!TypeOK, Poll!SlotsMatchMap, FreeIsSilent, Poll!Empty,
           Poll!Slot, Poll!Index
  <1>2. Epoll!TypeOK /\ Epoll!ListMatchesMap /\ EntriesDiffer
    BY DEF Init, Epoll!Init, Epoll!TypeOK, Epoll!ListMatchesMap, EntriesDiffer
  <1>3. Select!TypeOK
    BY DEF Init, Select!Init, Select!TypeOK
  <1>4. Select!ReadSetExact /\ Select!WriteInterestKept /\ ReadsAlways
    BY DEF Init, Select!Init, Select!ReadSetExact, Select!WriteInterestKept, ReadsAlways
  <1>5. QED
    BY <1>1, <1>2, <1>3, <1>4 DEF Inv, TypeOK, PollInv, EpollInv, SelectInv

\* A back end does not touch what belongs to the two others.
LEMMA InvStep == Inv /\ [Next]_vars => Inv'
  <1> SUFFICES ASSUME Inv, [Next]_vars
               PROVE  Inv'
    OBVIOUS
  <1> USE DEF Inv, TypeOK, pollVars, epollVars, selectVars
  <1>1. UNCHANGED pollVars /\ mapped' \in SUBSET Fd /\ events' \in [Fd -> SUBSET Poll!Ev]
            => Poll!TypeOK'
    BY DEF Poll!TypeOK
  <1>2. UNCHANGED epollVars /\ mapped' \in SUBSET Fd /\ events' \in [Fd -> SUBSET Epoll!Ev]
            => Epoll!TypeOK'
    BY DEF Epoll!TypeOK
  <1>3. UNCHANGED selectVars /\ mapped' \in SUBSET Fd /\ events' \in [Fd -> SUBSET Select!Ev]
            => Select!TypeOK'
    BY DEF Select!TypeOK
  <1>4. Poll!Ev = Epoll!Ev /\ Poll!Ev = Select!Ev
    BY DEF Poll!Ev, Epoll!Ev, Select!Ev
  <1>5. CASE UNCHANGED vars
    BY <1>5 DEF vars, PollInv, Poll!TypeOK, Poll!SlotsMatchMap, FreeIsSilent, EpollInv,
                Epoll!TypeOK, Epoll!ListMatchesMap, EntriesDiffer, SelectInv, Select!TypeOK,
                Select!ReadSetExact, Select!WriteInterestKept, ReadsAlways
  <1>6. CASE type = "kPoll" /\ type' = type /\ Poll!Next /\ UNCHANGED <<epollVars, selectVars>>
    <2>1. PollInv'
      BY <1>6, PollStep
    <2>2. mapped' \in SUBSET Fd /\ events' \in [Fd -> SUBSET Poll!Ev]
      BY <2>1 DEF PollInv, Poll!TypeOK
    <2>3. QED
      BY <1>2, <1>3, <1>4, <1>6, <2>1, <2>2 DEF PollInv
  <1>7. CASE type = "kEpoll" /\ type' = type /\ Epoll!Next /\ UNCHANGED <<pollVars, selectVars>>
    <2>1. EpollInv'
      BY <1>7, EpollStep
    <2>2. mapped' \in SUBSET Fd /\ events' \in [Fd -> SUBSET Epoll!Ev]
      BY <2>1 DEF EpollInv, Epoll!TypeOK
    <2>3. QED
      BY <1>1, <1>3, <1>4, <1>7, <2>1, <2>2 DEF EpollInv
  <1>8. CASE type = "kSelect" /\ type' = type /\ Select!Next /\ UNCHANGED <<pollVars, epollVars>>
    <2>1. SelectInv'
      BY <1>8, SelectStep
    <2>2. mapped' \in SUBSET Fd /\ events' \in [Fd -> SUBSET Select!Ev]
      BY <2>1 DEF SelectInv, Select!TypeOK
    <2>3. QED
      BY <1>1, <1>2, <1>4, <1>8, <2>1, <2>2 DEF SelectInv
  <1>9. QED
    BY <1>5, <1>6, <1>7, <1>8 DEF Next

LEMMA InvInvariant == Spec => []Inv
  BY InvInit, InvStep, PTL DEF Spec

\* For any number of descriptors and slots, also when the table is full: the
\* tables of poll and epoll and channelMap_ never drift apart; readSet_ of
\* select does not either, and writeSet_ lacks no write interest that was asked
\* for, though it may hold more (PollDispatcher.cpp:57-115,
\* EpollDispatcher.cpp:41-54, SelectDispatcher.cpp:21-71).
THEOREM NothingUnwatched == Spec => []TablesMatchMap
  <1>1. Inv => TablesMatchMap
    BY DEF Inv, TablesMatchMap, PollInv, EpollInv, SelectInv
  <1>2. QED
    BY InvInvariant, <1>1, PTL

-----------------------------------------------------------------------------
(* What a loop sees of poll                                                *)

\* watched and undelivered, slot by slot.
PollView ==
    /\ \A f \in Fd, j \in Poll!Index : fds[j].fd = f =>
          /\ Poll!watched[f] = fds[j].events
          /\ Poll!undelivered[f] = IF Poll!Walking /\ i <= j THEN fds[j].revents ELSE {}
    /\ \A f \in Fd : (\A j \in Poll!Index : fds[j].fd # f) =>
          Poll!watched[f] = {} /\ Poll!undelivered[f] = {}

LEMMA PollViewed == PollInv => PollView
  <1> SUFFICES ASSUME PollInv
               PROVE  PollView
    OBVIOUS
  <1> USE DEF Poll!Index, Poll!Walking
  <1>0. MaxNode \in Nat \ {0} /\ i \in 0..MaxNode
    BY DispatcherAssumption DEF PollInv, Poll!TypeOK
  <1>1. ASSUME NEW f \in Fd, NEW j \in Poll!Index, fds[j].fd = f
        PROVE  /\ Poll!watched[f] = fds[j].events
               /\ Poll!undelivered[f] = IF Poll!Walking /\ i <= j THEN fds[j].revents ELSE {}
    <2>1. \A k \in Poll!Index : fds[k].fd = f => k = j
      BY <1>1, DispatcherAssumption DEF PollInv, Poll!SlotsMatchMap
    <2>2. {k \in Poll!Index : fds[k].fd = f} = {j}
      BY <1>1, <2>1
    <2>3. Poll!Walking => {k \in i..MaxNode : fds[k].fd = f} = IF i <= j THEN {j} ELSE {}
      BY <1>0, <1>1, <2>1
    <2>4. Poll!watched[f] = fds[j].events
      BY <2>2 DEF Poll!watched
    <2>5. Poll!undelivered[f] = IF Poll!Walking /\ i <= j THEN fds[j].revents ELSE {}
      BY <2>3 DEF Poll!undelivered
    <2>6. QED
      BY <2>4, <2>5
  <1>2. ASSUME NEW f \in Fd, \A j \in Poll!Index : fds[j].fd # f
        PROVE  Poll!watched[f] = {} /\ Poll!undelivered[f] = {}
    <2>1. {k \in Poll!Index : fds[k].fd = f} = {}
      BY <1>2
    <2>2. Poll!Walking => {k \in i..MaxNode : fds[k].fd = f} = {}
      BY <1>0, <1>2
    <2>3. QED
      BY <2>1, <2>2 DEF Poll!watched, Poll!undelivered
  <1>3. QED
    BY <1>1, <1>2 DEF PollView

LEMMA PollViewedNext == PollInv' => PollView'
  BY PollViewed, PTL

LEMMA PollFree ==
    ASSUME PollInv, NEW f \in Fd, f \notin mapped
    PROVE  Poll!watched[f] = {} /\ Poll!undelivered[f] = {}
  <1>1. \A j \in Poll!Index : fds[j].fd # f
    BY DispatcherAssumption DEF PollInv, Poll!SlotsMatchMap
  <1>2. QED
    BY <1>1, PollViewed DEF PollView

\* A descriptor whose slot does not change is watched as before, and the walk
\* passes it by.
LEMMA PollOthers ==
    ASSUME PollInv, PollInv', NEW j \in Poll!Index, NEW g \in Fd,
           fds[j].fd # g, fds'[j].fd # g,
           \A k \in Poll!Index : k # j => fds'[k] = fds[k]
    PROVE  /\ Poll!watched'[g] = Poll!watched[g]
           /\ i' = i => Poll!undelivered'[g] = Poll!undelivered[g]
           /\ i = j /\ Poll!Step => Poll!undelivered'[g] = Poll!undelivered[g]
  <1> USE DEF Poll!Index, Poll!Walking, Poll!Step
  <1>0. PollView /\ PollView' /\ MaxNode \in Nat \ {0} /\ i \in 0..MaxNode /\ j \in 1..MaxNode
    BY PollViewed, PollViewedNext, DispatcherAssumption DEF PollInv, Poll!TypeOK
  <1>1. CASE \E k \in Poll!Index : fds[k].fd = g
    <2>1. PICK k \in Poll!Index : fds[k].fd = g
      BY <1>1
    <2>2. k # j /\ fds'[k] = fds[k]
      BY <2>1
    <2>3. /\ Poll!watched[g] = fds[k].events /\ Poll!watched'[g] = fds[k].events
          /\ Poll!undelivered[g] = IF Poll!Walking /\ i <= k THEN fds[k].revents ELSE {}
          /\ Poll!undelivered'[g] = IF Poll!Walking' /\ i' <= k THEN fds[k].revents ELSE {}
      BY <1>0, <2>1, <2>2 DEF PollView
    <2>4. QED
      BY <1>0, <2>2, <2>3
  <1>2. CASE \A k \in Poll!Index : fds[k].fd # g
    <2>1. \A k \in Poll!Index : fds'[k].fd # g
      BY <1>2
    <2>2. QED
      BY <1>0, <1>2, <2>1 DEF PollView
  <1>3. QED
    BY <1>1, <1>2

\* Nothing is left for a Channel that was just added.
LEMMA PollAddSilent ==
    ASSUME PollInv, PollInv', NEW f \in Fd, Poll!Add(f)
    PROVE  /\ Poll!watched' = [Poll!watched EXCEPT ![f] = {"read"}]
           /\ Poll!undelivered' = Poll!undelivered
           /\ Poll!undelivered[f] = {}
  <1>1. PICK j \in Poll!Index :
            /\ Poll!FoundAt(NoFd, j)
            /\ fds' = [fds EXCEPT ![j] =
                          [fd |-> f, events |-> {"read"}, revents |-> fds[j].revents]]
    BY DEF Poll!Add
  <1>2. /\ fds[j].fd = NoFd /\ fds[j].revents = {} /\ fds'[j].fd = f
        /\ fds'[j].events = {"read"} /\ fds'[j].revents = {}
        /\ \A k \in Poll!Index : k # j => fds'[k] = fds[k]
    BY <1>1, SlotTyped DEF Poll!FoundAt, PollInv, Poll!TypeOK
  <1>3. Poll!watched'[f] = {"read"} /\ Poll!undelivered'[f] = {}
    BY <1>2, PollViewedNext DEF PollView
  <1>4. Poll!undelivered[f] = {}
    BY PollFree DEF Poll!Add
  <1>5. ASSUME NEW g \in Fd, g # f
        PROVE  Poll!watched'[g] = Poll!watched[g] /\ Poll!undelivered'[g] = Poll!undelivered[g]
    <2>1. i' = i /\ fds[j].fd # g /\ fds'[j].fd # g
      BY <1>2, <1>5, DispatcherAssumption DEF Poll!Add
    <2>2. QED
      BY <1>2, <2>1, PollOthers
  <1>6. Poll!watched' = [Poll!watched EXCEPT ![f] = {"read"}]
    BY <1>3, <1>5 DEF Poll!watched
  <1>7. Poll!undelivered' = Poll!undelivered
    BY <1>3, <1>4, <1>5 DEF Poll!undelivered
  <1>8. QED
    BY <1>4, <1>6, <1>7

LEMMA PollRemoved ==
    ASSUME PollInv, PollInv', NEW f \in Fd, Poll!RemoveSlot(f),
           i' = i \/ (Poll!Walking /\ fds[i].fd = f /\ Poll!Step)
    PROVE  /\ Poll!watched' = [Poll!watched EXCEPT ![f] = {}]
           /\ Poll!undelivered' = [Poll!undelivered EXCEPT ![f] = {}]
  <1>1. PICK j \in Poll!Index :
            Poll!FoundAt(f, j) /\ fds' = [fds EXCEPT ![j] = Poll!Empty]
    BY DEF Poll!RemoveSlot
  <1>2. /\ fds[j].fd = f /\ fds'[j].fd = NoFd
        /\ \A k \in Poll!Index : k # j => fds'[k] = fds[k]
    BY <1>1 DEF Poll!FoundAt, Poll!Empty, PollInv, Poll!TypeOK
  <1>3. i' = i \/ (i = j /\ Poll!Step)
    <2>1. CASE Poll!Walking /\ fds[i].fd = f /\ Poll!Step
      BY <1>2, <2>1, DispatcherAssumption DEF PollInv, Poll!SlotsMatchMap, Poll!Walking
    <2>2. QED
      BY <2>1
  <1>4. Poll!watched'[f] = {} /\ Poll!undelivered'[f] = {}
    <2>1. f \notin mapped'
      BY DEF Poll!RemoveSlot
    <2>2. \A k \in Poll!Index : fds'[k].fd # f
      BY <2>1, DispatcherAssumption DEF PollInv, Poll!SlotsMatchMap, Poll!Index
    <2>3. QED
      BY <2>2, PollViewedNext DEF PollView, Poll!Index
  <1>5. ASSUME NEW g \in Fd, g # f
        PROVE  Poll!watched'[g] = Poll!watched[g] /\ Poll!undelivered'[g] = Poll!undelivered[g]
    <2>1. fds[j].fd # g /\ fds'[j].fd # g
      BY <1>2, <1>5, DispatcherAssumption
    <2>2. QED
      BY <1>2, <1>3, <2>1, PollOthers
  <1>6. Poll!watched' = [Poll!watched EXCEPT ![f] = {}]
    BY <1>4, <1>5 DEF Poll!watched
  <1>7. Poll!undelivered' = [Poll!undelivered EXCEPT ![f] = {}]
    BY <1>4, <1>5 DEF Poll!undelivered
  <1>8. QED
    BY <1>6, <1>7

LEMMA PollModified ==
    ASSUME PollInv, PollInv', NEW f \in Fd, Poll!Modify(f)
    PROVE  /\ Poll!watched' = [Poll!watched EXCEPT ![f] = events[f]]
           /\ Poll!undelivered' = Poll!undelivered
  <1>1. PICK j \in Poll!Index :
            /\ Poll!FoundAt(f, j)
            /\ fds' = [fds EXCEPT ![j] =
                          [fd |-> f, events |-> events[f], revents |-> fds[j].revents]]
    BY DEF Poll!Modify
  <1>2. /\ fds[j].fd = f /\ fds'[j].fd = f /\ i' = i
        /\ fds'[j].events = events[f] /\ fds'[j].revents = fds[j].revents
        /\ \A k \in Poll!Index : k # j => fds'[k] = fds[k]
    BY <1>1 DEF Poll!Modify, Poll!FoundAt, PollInv, Poll!TypeOK
  <1>3. Poll!watched'[f] = events[f] /\ Poll!undelivered'[f] = Poll!undelivered[f]
    <2>1. Poll!undelivered[f] = IF Poll!Walking /\ i <= j THEN fds[j].revents ELSE {}
      BY <1>2, PollViewed DEF PollView
    <2>2. /\ Poll!watched'[f] = fds'[j].events
          /\ Poll!undelivered'[f] = IF Poll!Walking' /\ i' <= j THEN fds'[j].revents ELSE {}
      BY <1>2, PollViewedNext DEF PollView, Poll!Index
    <2>3. QED
      BY <1>2, <2>1, <2>2 DEF Poll!Walking, Poll!Index
  <1>4. ASSUME NEW g \in Fd, g # f
        PROVE  Poll!watched'[g] = Poll!watched[g] /\ Poll!undelivered'[g] = Poll!undelivered[g]
    BY <1>2, <1>4, PollOthers
  <1>5. Poll!watched' = [Poll!watched EXCEPT ![f] = events[f]]
    BY <1>3, <1>4 DEF Poll!watched
  <1>6. Poll!undelivered' = Poll!undelivered
    BY <1>3, <1>4 DEF Poll!undelivered
  <1>7. QED
    BY <1>5, <1>6

\* poll() may report of each descriptor what it is watched for, and errors.
LEMMA PollWaits ==
    ASSUME PollInv, PollInv', Poll!Poll
    PROVE  /\ Poll!watched' = Poll!watched
           /\ Poll!undelivered' \in [Fd -> SUBSET Poll!Report]
           /\ \A f \in Fd : /\ Poll!undelivered[f] = {}
                            /\ Poll!undelivered'[f] \ {"error"} \subseteq Poll!watched[f]
  <1>1. PICK r \in [Poll!Index -> SUBSET Poll!Report] :
            /\ \A j \in Poll!Index :
                  /\ r[j] \ {"error"} \subseteq fds[j].events
                  /\ fds[j].fd = NoFd => r[j] = {}
            /\ fds' = [j \in Poll!Index |-> [fds[j] EXCEPT !.revents = r[j]]]
    BY DEF Poll!Poll
  <1>2. ASSUME NEW j \in Poll!Index
        PROVE  /\ fds'[j].fd = fds[j].fd /\ fds'[j].events = fds[j].events
               /\ fds'[j].revents = r[j]
    BY <1>1, SlotTyped DEF Poll!Slot
  <1>3. i = 0 /\ i' = 1 /\ ~Poll!Walking
    BY DEF Poll!Poll, Poll!Walking, Poll!Index
  <1>4. ASSUME NEW f \in Fd
        PROVE  /\ Poll!watched'[f] = Poll!watched[f]
               /\ Poll!undelivered[f] = {}
               /\ Poll!undelivered'[f] \in SUBSET Poll!Report
               /\ Poll!undelivered'[f] \ {"error"} \subseteq Poll!watched[f]
    <2>1. Poll!undelivered[f] = {}
      BY <1>3 DEF Poll!undelivered
    <2>2. CASE \E j \in Poll!Index : fds[j].fd = f
      <3>1. PICK j \in Poll!Index : fds[j].fd = f
        BY <2>2
      <3>2. /\ Poll!watched[f] = fds[j].events /\ Poll!watched'[f] = fds'[j].events
            /\ Poll!undelivered'[f] \in {{}, fds'[j].revents}
        BY <1>2, <3>1, PollViewed, PollViewedNext DEF PollView, Poll!Index
      <3>3. QED
        BY <1>1, <1>2, <2>1, <3>2
    <2>3. CASE \A j \in Poll!Index : fds[j].fd # f
      <3>1. \A j \in Poll!Index : fds'[j].fd # f
        BY <1>2, <2>3
      <3>2. Poll!watched[f] = {} /\ Poll!watched'[f] = {} /\ Poll!undelivered'[f] = {}
        BY <2>3, <3>1, PollViewed, PollViewedNext DEF PollView, Poll!Index
      <3>3. QED
        BY <2>1, <3>2
    <2>4. QED
      BY <2>2, <2>3
  <1>5. Poll!watched' = Poll!watched
    BY <1>4 DEF Poll!watched
  <1>6. Poll!undelivered' \in [Fd -> SUBSET Poll!Report]
    BY <1>4 DEF Poll!undelivered
  <1>7. QED
    BY <1>4, <1>5, <1>6

\* The walk delivers what it finds in a slot, or passes an empty one.
LEMMA PollWalks ==
    ASSUME PollInv, PollInv', Poll!Walking, Poll!Step, UNCHANGED <<mapped, events, fds>>
    PROVE  /\ Poll!watched' = Poll!watched
           /\ Poll!undelivered' = [g \in Fd |-> IF g = fds[i].fd THEN {} ELSE Poll!undelivered[g]]
           /\ fds[i].fd \in Fd => Poll!undelivered[fds[i].fd] = fds[i].revents
  <1>1. i \in Poll!Index /\ MaxNode \in Nat \ {0} /\ i \in 1..MaxNode
    BY DispatcherAssumption DEF Poll!Walking, Poll!Index
  <1>2. fds[i].fd \in Fd =>
            /\ Poll!undelivered[fds[i].fd] = fds[i].revents
            /\ Poll!undelivered'[fds[i].fd] = {}
    <2> HAVE fds[i].fd \in Fd
    <2>1. Poll!undelivered[fds[i].fd] = fds[i].revents
      BY <1>1, PollViewed DEF PollView
    <2>2. Poll!undelivered'[fds[i].fd]
              = IF Poll!Walking' /\ i' <= i THEN fds[i].revents ELSE {}
      BY <1>1, PollViewedNext DEF PollView, Poll!Index
    <2>3. ~(Poll!Walking' /\ i' <= i)
      BY <1>1 DEF Poll!Walking, Poll!Step, Poll!Index
    <2>4. QED
      BY <2>1, <2>2, <2>3
  <1>3. ASSUME NEW g \in Fd, g # fds[i].fd
        PROVE  Poll!undelivered'[g] = Poll!undelivered[g]
    BY <1>1, <1>3, PollOthers
  <1>4. Poll!watched' = Poll!watched
    BY DEF Poll!watched, Poll!Index
  <1>5. Poll!undelivered' = [g \in Fd |-> IF g = fds[i].fd THEN {} ELSE Poll!undelivered[g]]
    BY <1>2, <1>3 DEF Poll!undelivered
  <1>6. QED
    BY <1>2, <1>4, <1>5

LEMMA PollNoStale == PollInv /\ PollInv' /\ Poll!Next => Poll!NoStale
  <1> SUFFICES ASSUME PollInv, PollInv', Poll!Next, NEW f \in Fd, f \in mapped' \ mapped
               PROVE  Poll!undelivered'[f] = {}
    BY DEF Poll!NoStale
  <1>1. Poll!Add(f)
    BY DEF Poll!Next, Poll!Poll, Poll!Skip, Poll!Active, Poll!ActiveError, Poll!Add,
           Poll!Modify, Poll!Remove, Poll!RemoveSlot, Poll!WriteEventEnable
  <1>2. QED
    BY <1>1, PollAddSilent

\* A step of poll is a step of Dispatcher, or a slot that has nothing to say.
LEMMA PollRefines ==
    ASSUME PollInv, PollInv', Poll!Next, type = "kPoll", type' = "kPoll"
    PROVE  [D!Next]_(D!vars)
  <1>0. /\ mapped \in SUBSET Fd /\ fds \in [Poll!Index -> Poll!Slot]
        /\ Poll!Report = D!Report /\ Poll!Ev = D!Ev
        /\ DOMAIN Poll!undelivered = Fd
    BY DEF PollInv, Poll!TypeOK, Poll!Report, Poll!Ev, D!Report, D!Ev, Poll!undelivered
  <1>1. CASE Poll!Poll
    <2>1. D!Wait
      BY <1>0, <1>1, PollWaits DEF D!Wait, Poll!Poll
    <2>2. QED
      BY <2>1 DEF D!Next
  <1>2. CASE Poll!Skip
    <2>1. Poll!undelivered' = Poll!undelivered
      <3>1. i \in Poll!Index
        BY <1>2 DEF Poll!Skip, Poll!Walking
      <3>2. fds[i].fd \in Fd => fds[i].revents = {}
        BY <1>2, DispatcherAssumption DEF Poll!Skip, Poll!Nothing
      <3>3. \A g \in Fd : Poll!undelivered'[g] = Poll!undelivered[g]
        BY <1>2, <3>2, PollWalks DEF Poll!Skip
      <3>4. QED
        BY <3>3 DEF Poll!undelivered
    <2>2. QED
      BY <1>2, <2>1, PollWalks DEF Poll!Skip, D!vars
  <1>3. CASE Poll!Active
    <2> DEFINE f == fds[i].fd
    <2>1. f \in Fd /\ fds[i].revents # {}
      BY <1>0, <1>3, SlotTyped DEF Poll!Active, Poll!Nothing, Poll!Walking
    <2>2. Poll!undelivered[f] # {}
      BY <1>3, <2>1, PollWalks DEF Poll!Active
    <2>3. Poll!undelivered' = [Poll!undelivered EXCEPT ![f] = {}]
      BY <1>0, <1>3, <2>1, PollWalks DEF Poll!Active
    <2>4. D!Active(f)
      BY <1>3, <2>2, <2>3, PollWalks DEF Poll!Active, D!Active
    <2>5. QED
      BY <2>1, <2>4 DEF D!Next
  <1>4. CASE Poll!ActiveError
    <2> DEFINE f == fds[i].fd
    <2>1. i \in Poll!Index /\ f \in Fd /\ f \in mapped
      BY <1>0, <1>4, SlotTyped
         DEF Poll!ActiveError, Poll!Nothing, Poll!Walking, PollInv, Poll!SlotsMatchMap
    <2>2. Poll!undelivered[f] = fds[i].revents
      <3>1. Poll!undelivered[f] = IF Poll!Walking /\ i <= i THEN fds[i].revents ELSE {}
        BY <2>1, PollViewed DEF PollView
      <3>2. i <= i
        BY <2>1, DispatcherAssumption DEF Poll!Index
      <3>3. QED
        BY <1>4, <3>1, <3>2 DEF Poll!ActiveError
    <2>3. Poll!RemoveSlot(f)
      BY <1>4, <2>1 DEF Poll!ActiveError
    <2>4. /\ Poll!watched' = [Poll!watched EXCEPT ![f] = {}]
          /\ Poll!undelivered' = [Poll!undelivered EXCEPT ![f] = {}]
      BY <1>4, <2>1, <2>3, PollRemoved DEF Poll!ActiveError
    <2>5. D!ActiveError(f)
      BY <1>4, <2>2, <2>3, <2>4
         DEF Poll!ActiveError, Poll!RemoveSlot, D!ActiveError, D!Unregister
    <2>6. QED
      BY <2>1, <2>5 DEF D!Next
  <1>5. ASSUME NEW f \in Fd, Poll!Add(f)
        PROVE  D!Add(f)
    BY <1>5, PollAddSilent DEF Poll!Add, D!Add
  <1>6. ASSUME NEW f \in Fd, Poll!Modify(f)
        PROVE  D!Modify(f)
    BY <1>6, PollModified DEF Poll!Modify, D!Modify
  <1>7. ASSUME NEW f \in Fd, Poll!Remove(f)
        PROVE  D!Remove(f)
    BY <1>7, PollRemoved DEF Poll!Remove, Poll!RemoveSlot, D!Remove, D!Unregister
  <1>8. ASSUME NEW f \in Fd, NEW flag \in BOOLEAN, Poll!WriteEventEnable(f, flag)
        PROVE  D!WriteEventEnable(f, flag)
    <2>1. Poll!watched' = Poll!watched /\ Poll!undelivered' = Poll!undelivered
      BY <1>8 DEF Poll!WriteEventEnable, Poll!watched, Poll!undelivered, Poll!Walking, Poll!Index
    <2>2. QED
      BY <1>8, <2>1 DEF Poll!WriteEventEnable, D!WriteEventEnable
  <1>9. QED
    BY <1>1, <1>2, <1>3, <1>4, <1>5, <1>6, <1>7, <1>8 DEF Poll!Next, D!Next

-----------------------------------------------------------------------------
(* What a loop sees of epoll                                               *)

\* undelivered, entry by entry.
EpollView ==
    \A f \in Fd :
        /\ \A j \in 1..Len(readyEvents) :
              readyEvents[j].fd = f => Epoll!undelivered[f] = readyEvents[j].ev
        /\ (\A j \in 1..Len(readyEvents) : readyEvents[j].fd # f) => Epoll!undelivered[f] = {}

LEMMA EpollViewed == EpollInv => EpollView
  <1> SUFFICES ASSUME EpollInv, NEW f \in Fd
               PROVE  /\ \A j \in 1..Len(readyEvents) :
                            readyEvents[j].fd = f => Epoll!undelivered[f] = readyEvents[j].ev
                      /\ (\A j \in 1..Len(readyEvents) : readyEvents[j].fd # f)
                            => Epoll!undelivered[f] = {}
    BY DEF EpollView
  <1>1. ASSUME NEW j \in 1..Len(readyEvents), readyEvents[j].fd = f
        PROVE  Epoll!undelivered[f] = readyEvents[j].ev
    <2>1. {k \in 1..Len(readyEvents) : readyEvents[k].fd = f} = {j}
      BY <1>1 DEF EpollInv, EntriesDiffer
    <2>2. QED
      BY <2>1 DEF Epoll!undelivered
  <1>2. ASSUME \A j \in 1..Len(readyEvents) : readyEvents[j].fd # f
        PROVE  Epoll!undelivered[f] = {}
    <2>1. {k \in 1..Len(readyEvents) : readyEvents[k].fd = f} = {}
      BY <1>2
    <2>2. QED
      BY <2>1 DEF Epoll!undelivered
  <1>3. QED
    BY <1>1, <1>2

LEMMA EpollViewedNext == EpollInv' => EpollView'
  BY EpollViewed, PTL

\* Giving the first entry to active() takes it, and no other, out.
LEMMA EpollDelivers ==
    ASSUME EpollInv, EpollInv', readyEvents # <<>>, readyEvents' = Tail(readyEvents)
    PROVE  /\ Head(readyEvents).fd \in Fd
           /\ Epoll!undelivered[Head(readyEvents).fd] = Head(readyEvents).ev
           /\ Head(readyEvents).ev # {}
           /\ Epoll!undelivered' = [Epoll!undelivered EXCEPT ![Head(readyEvents).fd] = {}]
  <1> DEFINE f == Head(readyEvents).fd
  <1>0. readyEvents \in Seq(Epoll!Entry)
    BY DEF EpollInv, Epoll!TypeOK
  <1>1. /\ Head(readyEvents) = readyEvents[1] /\ readyEvents[1] \in Epoll!Entry
        /\ Len(readyEvents) \in Nat \ {0} /\ Len(readyEvents') = Len(readyEvents) - 1
        /\ \A k \in 1..Len(readyEvents') : readyEvents'[k] = readyEvents[k + 1]
    BY <1>0, HeadTailProperties, EmptySeq
  <1>2. f \in Fd /\ Head(readyEvents).ev # {}
    BY <1>1 DEF Epoll!Entry
  <1>3. Epoll!undelivered[f] = Head(readyEvents).ev
    BY <1>1, <1>2, EpollViewed DEF EpollView
  <1>4. Epoll!undelivered'[f] = {}
    <2>1. ASSUME NEW k \in 1..Len(readyEvents')
          PROVE  readyEvents'[k].fd # f
      <3>1. k + 1 \in 1..Len(readyEvents) /\ k + 1 # 1 /\ 1 \in 1..Len(readyEvents)
        BY <1>1
      <3>2. readyEvents[k + 1].fd # readyEvents[1].fd
        BY <3>1 DEF EpollInv, EntriesDiffer
      <3>3. QED
        BY <1>1, <3>2
    <2>2. QED
      BY <1>2, <2>1, EpollViewedNext DEF EpollView
  <1>5. ASSUME NEW g \in Fd, g # f
        PROVE  Epoll!undelivered'[g] = Epoll!undelivered[g]
    <2>1. CASE \E j \in 1..Len(readyEvents) : readyEvents[j].fd = g
      <3>1. PICK j \in 1..Len(readyEvents) : readyEvents[j].fd = g
        BY <2>1
      <3>2. j # 1
        BY <1>1, <1>5, <3>1
      <3>3. j - 1 \in 1..Len(readyEvents') /\ (j - 1) + 1 = j
        BY <1>1, <3>2
      <3>4. readyEvents'[j - 1] = readyEvents[j]
        BY <1>1, <3>3
      <3>5. QED
        BY <3>1, <3>3, <3>4, EpollViewed, EpollViewedNext DEF EpollView
    <2>2. CASE \A j \in 1..Len(readyEvents) : readyEvents[j].fd # g
      <3>1. ASSUME NEW k \in 1..Len(readyEvents')
            PROVE  readyEvents'[k].fd # g
        <4>1. k + 1 \in 1..Len(readyEvents)
          BY <1>1
        <4>2. QED
          BY <1>1, <2>2, <4>1
      <3>2. QED
        BY <2>2, <3>1, EpollViewed, EpollViewedNext DEF EpollView
    <2>3. QED
      BY <2>1, <2>2
  <1>6. Epoll!undelivered' = [Epoll!undelivered EXCEPT ![f] = {}]
    BY <1>4, <1>5 DEF Epoll!undelivered
  <1>7. QED
    BY <1>2, <1>3, <1>6

LEMMA EpollDel ==
    ASSUME EpollInv, NEW f \in Fd, Epoll!CtlDel(f)
    PROVE  /\ mapped' = mapped \ {f} /\ events' = [events EXCEPT ![f] = {}]
           /\ Epoll!watched' = [Epoll!watched EXCEPT ![f] = {}]
  BY DEF Epoll!CtlDel, Epoll!watched

LEMMA EpollCtl ==
    ASSUME EpollInv, NEW f \in Fd, NEW op, NEW mask, Epoll!Ctl(op, f, mask)
    PROVE  Epoll!watched' = [Epoll!watched EXCEPT ![f] = mask]
  BY DEF Epoll!Ctl, Epoll!watched

LEMMA EpollWaits ==
    ASSUME EpollInv, EpollInv', Epoll!EpollWait
    PROVE  /\ Epoll!undelivered' \in [Fd -> SUBSET Epoll!Report]
           /\ \A f \in Fd : /\ Epoll!undelivered[f] = {}
                            /\ Epoll!undelivered'[f] \ {"error"} \subseteq Epoll!watched[f]
  <1>1. PICK n \in 0..MaxNode :
            /\ readyEvents' \in [1..n -> Epoll!Entry]
            /\ \A j \in 1..n : /\ readyEvents'[j].fd \in DOMAIN interest
                               /\ readyEvents'[j].ev \ {"error"}
                                      \subseteq interest[readyEvents'[j].fd]
    BY DEF Epoll!EpollWait
  <1>2. Len(readyEvents') = n
    BY <1>1, DispatcherAssumption, LenProperties DEF EpollInv, Epoll!TypeOK
  <1>3. ASSUME NEW f \in Fd
        PROVE  /\ Epoll!undelivered[f] = {}
               /\ Epoll!undelivered'[f] \in SUBSET Epoll!Report
               /\ Epoll!undelivered'[f] \ {"error"} \subseteq Epoll!watched[f]
    <2>1. Epoll!undelivered[f] = {}
      BY EpollViewed DEF EpollView, Epoll!EpollWait
    <2>2. CASE \E j \in 1..n : readyEvents'[j].fd = f
      <3>1. PICK j \in 1..n : readyEvents'[j].fd = f
        BY <2>2
      <3>2. Epoll!undelivered'[f] = readyEvents'[j].ev
        BY <1>2, <3>1, EpollViewedNext DEF EpollView
      <3>3. readyEvents'[j].ev \in SUBSET Epoll!Report
        BY <1>1, <3>1 DEF Epoll!Entry
      <3>4. f \in DOMAIN interest /\ readyEvents'[j].ev \ {"error"} \subseteq interest[f]
        BY <1>1, <3>1
      <3>5. QED
        BY <2>1, <3>2, <3>3, <3>4 DEF Epoll!watched
    <2>3. CASE \A j \in 1..n : readyEvents'[j].fd # f
      BY <1>2, <2>1, <2>3, EpollViewedNext DEF EpollView
    <2>4. QED
      BY <2>2, <2>3
  <1>4. QED
    BY <1>3 DEF Epoll!undelivered

\* Every step of epoll is a step of Dispatcher.
LEMMA EpollRefines ==
    ASSUME EpollInv, EpollInv', Epoll!Next, type = "kEpoll", type' = "kEpoll"
    PROVE  [D!Next]_(D!vars)
  <1>0. Epoll!Report = D!Report /\ Epoll!Ev = D!Ev
    BY DEF Epoll!Report, Epoll!Ev, D!Report, D!Ev
  <1>1. CASE Epoll!EpollWait
    <2>1. Epoll!watched' = Epoll!watched
      BY <1>1 DEF Epoll!EpollWait, Epoll!watched
    <2>2. D!Wait
      BY <1>0, <1>1, <2>1, EpollWaits DEF D!Wait, Epoll!EpollWait
    <2>3. QED
      BY <2>2 DEF D!Next
  <1>2. CASE Epoll!Active
    <2>1. Epoll!watched' = Epoll!watched
      BY <1>2 DEF Epoll!Active, Epoll!watched
    <2>2. D!Active(Head(readyEvents).fd)
      BY <1>2, <2>1, EpollDelivers DEF Epoll!Active, D!Active
    <2>3. QED
      BY <1>2, <2>2, EpollDelivers DEF Epoll!Active, D!Next
  <1>3. CASE Epoll!ActiveError
    <2> DEFINE f == Head(readyEvents).fd
    <2>1. /\ f \in Fd /\ Epoll!undelivered[f] = Head(readyEvents).ev
          /\ Epoll!undelivered[f] # {}
          /\ Epoll!undelivered' = [Epoll!undelivered EXCEPT ![f] = {}]
      BY <1>3, EpollDelivers DEF Epoll!ActiveError
    <2>2. CASE f \in mapped
      <3>1. Epoll!CtlDel(f)
        BY <1>3, <2>2 DEF Epoll!ActiveError
      <3>2. D!ActiveError(f)
        BY <1>3, <2>1, <2>2, <3>1, EpollDel DEF Epoll!ActiveError, D!ActiveError, D!Unregister
      <3>3. QED
        BY <2>1, <3>2 DEF D!Next
    <2>3. CASE f \notin mapped
      <3>1. UNCHANGED <<mapped, events>> /\ Epoll!watched' = Epoll!watched
        BY <1>3, <2>3 DEF Epoll!ActiveError, Epoll!watched
      <3>2. D!Active(f)
        BY <2>1, <3>1 DEF D!Active
      <3>3. QED
        BY <2>1, <3>2 DEF D!Next
    <2>4. QED
      BY <2>2, <2>3
  <1>4. UNCHANGED readyEvents => Epoll!undelivered' = Epoll!undelivered
    BY DEF Epoll!undelivered
  <1>5. ASSUME NEW f \in Fd, Epoll!Add(f)
        PROVE  D!Add(f)
    BY <1>4, <1>5, EpollCtl DEF Epoll!Add, D!Add
  <1>6. ASSUME NEW f \in Fd, Epoll!Modify(f)
        PROVE  D!Modify(f)
    BY <1>4, <1>6, EpollCtl DEF Epoll!Modify, D!Modify
  <1>7. ASSUME NEW f \in Fd, Epoll!Remove(f)
        PROVE  D!Remove(f)
    BY <1>4, <1>7, EpollDel DEF Epoll!Remove, Epoll!CtlDel, D!Remove, D!Unregister
  <1>8. ASSUME NEW f \in Fd, NEW flag \in BOOLEAN, Epoll!WriteEventEnable(f, flag)
        PROVE  D!WriteEventEnable(f, flag)
    <2>1. Epoll!watched' = Epoll!watched
      BY <1>8 DEF Epoll!WriteEventEnable, Epoll!watched
    <2>2. QED
      BY <1>4, <1>8, <2>1 DEF Epoll!WriteEventEnable, D!WriteEventEnable
  <1>9. QED
    BY <1>1, <1>2, <1>3, <1>5, <1>6, <1>7, <1>8 DEF Epoll!Next, D!Next

-----------------------------------------------------------------------------
(* The theorems                                                            *)

\* A Channel that takes over a slot of poll in the middle of dispatch() never
\* receives the result left there for the Channel before it, for any number of
\* slots and whatever callbacks do during the walk (PollDispatcher.cpp:80-82,
\* 142-162).
THEOREM NothingStale == Spec => NoStaleEvent
  <1>1. Inv /\ Inv' /\ [Next]_vars => [type = "kPoll" => Poll!NoStale]_vars
    <2> SUFFICES ASSUME Inv, Inv', Next, type = "kPoll"
                 PROVE  Poll!NoStale
      BY DEF Poll!NoStale
    <2>1. Poll!Next /\ type' = "kPoll"
      BY DEF Next
    <2>2. QED
      BY <2>1, PollNoStale DEF Inv
  <1>2. QED
    BY InvInvariant, <1>1, PTL DEF Spec, NoStaleEvent

LEMMA DispatcherInit == Init => D!Init
  <1> SUFFICES ASSUME Init
               PROVE  D!Init
    OBVIOUS
  <1>1. Poll!watched = [f \in Fd |-> {}] /\ Poll!undelivered = [f \in Fd |-> {}]
    BY DispatcherAssumption DEF Init, Poll!Init, Poll!watched, Poll!undelivered, Poll!Walking,
           Poll!Index, Poll!Empty
  <1>2. Epoll!watched = [f \in Fd |-> {}] /\ Epoll!undelivered = [f \in Fd |-> {}]
    BY DEF Init, Epoll!Init, Epoll!watched, Epoll!undelivered
  <1>3. QED
    BY <1>1, <1>2 DEF Init, Poll!Init, D!Init

\* epoll and poll do what Dispatcher promises the loop, for any number of
\* descriptors, slots and results (Dispatcher.hpp:34-56,
\* PollDispatcher.cpp:57-175, EpollDispatcher.cpp:41-117).
THEOREM BackEndsImplement == Spec => Implements
  <1>1. Inv /\ Inv' /\ [Next]_vars => [type # "kSelect" => [D!Next]_(D!vars)]_vars
    <2> SUFFICES ASSUME Inv, Inv', Next, type # "kSelect"
                 PROVE  [D!Next]_(D!vars)
      OBVIOUS
    <2>1. CASE type = "kPoll" /\ type' = type /\ Poll!Next
      BY <2>1, PollRefines DEF Inv
    <2>2. CASE type = "kEpoll" /\ type' = type /\ Epoll!Next
      BY <2>2, EpollRefines DEF Inv
    <2>3. QED
      BY <2>1, <2>2 DEF Next
  <1>2. QED
    BY DispatcherInit, InvInvariant, <1>1, PTL DEF Spec, Implements
=============================================================================
