----------------------------- MODULE TcpServer -----------------------------
(***************************************************************************)
(* The life of a connection across threads: the accept thread of           *)
(* net::TcpServer (accept, conns_, idle close, recycling, stop), the       *)
(* EventLoops that own the Channels, and the TcpConnection state machine   *)
(* between them.                                                           *)
(*                                                                         *)
(* A connection object is an element of Conn, used once; its descriptor is *)
(* an element of Fd, which the kernel hands out again once it is closed.   *)
(* What is read, parsed and answered is left out: a callback only returns, *)
(* closes the connection, or posts the MODIFY that makes processTaskQ()    *)
(* run inside it.  Which loop getNextLoop() picks is left open.            *)
(***************************************************************************)
EXTENDS Integers, Sequences, FiniteSets

CONSTANTS
    Fd,          \* descriptor numbers accept() may return
    Conn,        \* TcpConnection objects; bound: each is accepted once
    Loop,        \* the EventLoops of the pool
    None,        \* no connection, no descriptor, no loop
    IdleClose,   \* keepAliveEnabled_: are idle connections closed?
    AddMayFail,  \* may the dispatcher refuse a descriptor?
    MayStop      \* may accept() fail for good, so that the server is stopped?

ASSUME TcpServerAssumption ==
    /\ None \notin Fd /\ None \notin Conn /\ None \notin Loop
    /\ IsFiniteSet(Fd) /\ IsFiniteSet(Conn)
    /\ IdleClose \in BOOLEAN /\ AddMayFail \in BOOLEAN /\ MayStop \in BOOLEAN

VARIABLES
    \* The accept thread.
    apc,          \* where it is in acceptConnection() or stop()
    acur,         \* the connection it works on
    conns,        \* conns_: descriptor -> connection
    pending,      \* pendingCloseFds_
    acceptOk, acceptFail, opened, closed,  \* what it reports to Metrics
    \* The connections.
    fdOpen,       \* descriptors open in the kernel
    life,         \* the TcpConnection: "fresh", "alive" or "freed"
    cfd,          \* fd_
    cloop,        \* loop_
    state,        \* state_
    chanPtr,      \* channel_ # nullptr
    chan,         \* where the Channel object of the connection is
    \* The loops.
    lpc,          \* where the loop is in run()
    back,         \* where the processTaskQ() in progress returns to
    taskQ,        \* tasks not handled: those swapped out, then taskQ_
    taken,        \* how many of them the processTaskQ() in progress swapped out
    batch,        \* connections whose events dispatch() returned, not yet active()
    cb,           \* the connection whose callback runs
    dying         \* the connection whose Channel is between close() and callback

acceptVars == <<apc, acur, conns, acceptOk, acceptFail, opened, closed>>
connVars == <<fdOpen, life, cfd, cloop, state, chanPtr, chan>>
loopVars == <<lpc, back, taskQ, taken, batch, cb, dying>>
vars == <<apc, acur, conns, pending, acceptOk, acceptFail, opened, closed,
          fdOpen, life, cfd, cloop, state, chanPtr, chan,
          lpc, back, taskQ, taken, batch, cb, dying>>

\* A queued task; "conn" is the Channel's connection for ADD, and history
\* for DELETE, which carries the descriptor only.
Task == [op : {"ADD", "DELETE"}, fd : Fd, conn : Conn]

\* The Channel channelMap_ of loop l holds for f: none, or one.
Mapped(l, f) == {c \in Conn : chan[c] = "mapped" /\ cloop[c] = l /\ cfd[c] = f}
Closing == {"kDisconnecting", "kDisconnected"}
Set(s) == {s[i] : i \in 1..Len(s)}

Init ==
    /\ apc = "idle" /\ acur = None
    /\ conns = [f \in Fd |-> None] /\ pending = <<>>
    /\ acceptOk = 0 /\ acceptFail = 0 /\ opened = 0 /\ closed = 0
    /\ fdOpen = {}
    /\ life = [c \in Conn |-> "fresh"]
    /\ cfd = [c \in Conn |-> None]
    /\ cloop = [c \in Conn |-> None]
    /\ state = [c \in Conn |-> "kConnecting"]
    /\ chanPtr = [c \in Conn |-> FALSE]
    /\ chan = [c \in Conn |-> "none"]
    /\ lpc = [l \in Loop |-> "poll"]
    /\ back = [l \in Loop |-> "poll"]
    /\ taskQ = [l \in Loop |-> <<>>]
    /\ taken = [l \in Loop |-> 0]
    /\ batch = [l \in Loop |-> {}]
    /\ cb = [l \in Loop |-> None]
    /\ dying = [l \in Loop |-> None]

Push(l, op, f, c) ==
    taskQ' = [taskQ EXCEPT ![l] = Append(@, [op |-> op, fd |-> f, conn |-> c])]

-----------------------------------------------------------------------------
(* Accept thread: cleanupClosedConnections_, the idle half                 *)

\* shouldCloseForIdle holds and handleClose loads the state: kConnected.
IdleLoad(f) ==
    /\ IdleClose /\ apc = "idle"
    /\ conns[f] # None /\ state[conns[f]] = "kConnected"
    /\ apc' = "idleStore" /\ acur' = conns[f]
    /\ UNCHANGED <<conns, pending, acceptOk, acceptFail, opened, closed,
                   connVars, loopVars>>

\* handleClose stores kDisconnecting, whatever the loop stored since, and
\* looks at channel_.
IdleStore ==
    /\ apc = "idleStore"
    /\ IF chanPtr[acur]
       THEN apc' = "idleDeref" /\ UNCHANGED acur
            /\ state' = [state EXCEPT ![acur] = "kDisconnecting"]
       ELSE apc' = "idle" /\ acur' = None
            /\ state' = [state EXCEPT ![acur] = "kDisconnected"]
    /\ UNCHANGED <<conns, pending, acceptOk, acceptFail, opened, closed,
                   fdOpen, life, cfd, cloop, chanPtr, chan, loopVars>>

\* handleClose reads channel_->getSocket() and posts DELETE.  If the loop
\* destroyed the Channel in between the read is undefined: the old number,
\* or garbage that addTask refuses (a crash would end the behaviour).
IdleDeref ==
    /\ apc = "idleDeref"
    /\ \/ Push(cloop[acur], "DELETE", cfd[acur], acur)
       \/ chan[acur] \notin {"queued", "mapped"} /\ UNCHANGED taskQ
    /\ apc' = "idle" /\ acur' = None
    /\ UNCHANGED <<conns, pending, acceptOk, acceptFail, opened, closed, connVars,
                   lpc, back, taken, batch, cb, dying>>

\* Mutant: pendingCloseFds_ is copied, not swapped.
CleanupCopies ==
    /\ apc = "idle"
    /\ LET gone == {f \in Set(pending) : conns[f] # None} IN
          /\ conns' = [f \in Fd |-> IF f \in gone THEN None ELSE conns[f]]
          /\ life' = [c \in Conn |-> IF \E f \in gone : conns[f] = c
                                     THEN "freed" ELSE life[c]]
          /\ closed' = closed + Cardinality(gone)
    /\ apc' = "accept"
    /\ UNCHANGED <<acur, pending, acceptOk, acceptFail, opened, fdOpen, cfd, cloop,
                   state, chanPtr, chan, loopVars>>

(* The recycling half: take pendingCloseFds_ and erase those connections.  *)
Cleanup ==
    /\ apc = "idle"
    /\ LET gone == {f \in Set(pending) : conns[f] # None} IN
          /\ conns' = [f \in Fd |-> IF f \in gone THEN None ELSE conns[f]]
          /\ life' = [c \in Conn |-> IF \E f \in gone : conns[f] = c
                                     THEN "freed" ELSE life[c]]
          /\ closed' = closed + Cardinality(gone)
    /\ pending' = <<>>
    /\ apc' = "accept"
    /\ UNCHANGED <<acur, acceptOk, acceptFail, opened, fdOpen, cfd, cloop,
                   state, chanPtr, chan, loopVars>>

-----------------------------------------------------------------------------
(* Accept thread: acceptConnection                                         *)

\* accept() has no connection (EAGAIN, EINTR): next round.
AcceptNone ==
    /\ apc = "accept"
    /\ apc' = "idle"
    /\ UNCHANGED <<acur, conns, pending, acceptOk, acceptFail, opened, closed,
                   connVars, loopVars>>

\* accept() returns a descriptor, create() makes the connection object on
\* the loop getNextLoop() returned.
Accept(f, c, l) ==
    /\ apc = "accept"
    /\ f \notin fdOpen /\ life[c] = "fresh"
    /\ fdOpen' = fdOpen \cup {f}
    /\ acceptOk' = acceptOk + 1
    /\ life' = [life EXCEPT ![c] = "alive"]
    /\ cfd' = [cfd EXCEPT ![c] = f]
    /\ cloop' = [cloop EXCEPT ![c] = l]
    /\ apc' = "emplace" /\ acur' = c
    /\ UNCHANGED <<conns, pending, acceptFail, opened, closed, state, chanPtr,
                   chan, loopVars>>

\* Mutant: the refused connection keeps its descriptor open.
EmplaceConflictLeaks ==
    /\ apc = "emplace" /\ conns[cfd[acur]] # None
    /\ life' = [life EXCEPT ![acur] = "freed"]
    /\ acceptFail' = acceptFail + 1
    /\ apc' = "idle" /\ acur' = None
    /\ UNCHANGED <<conns, pending, acceptOk, opened, closed, fdOpen, cfd, cloop,
                   state, chanPtr, chan, loopVars>>

\* Mutant: the refused connection is reported as closed, not as failed.
EmplaceConflictCloses ==
    /\ apc = "emplace" /\ conns[cfd[acur]] # None
    /\ fdOpen' = fdOpen \ {cfd[acur]}
    /\ life' = [life EXCEPT ![acur] = "freed"]
    /\ closed' = closed + 1
    /\ apc' = "idle" /\ acur' = None
    /\ UNCHANGED <<conns, pending, acceptOk, acceptFail, opened, cfd, cloop, state,
                   chanPtr, chan, loopVars>>

\* conns_.emplace refuses a descriptor that still has an entry: the new
\* connection is dropped.
EmplaceConflict ==
    /\ apc = "emplace" /\ conns[cfd[acur]] # None
    /\ fdOpen' = fdOpen \ {cfd[acur]}
    /\ life' = [life EXCEPT ![acur] = "freed"]
    /\ acceptFail' = acceptFail + 1
    /\ apc' = "idle" /\ acur' = None
    /\ UNCHANGED <<conns, pending, acceptOk, opened, closed, cfd, cloop, state,
                   chanPtr, chan, loopVars>>

\* conns_.emplace succeeds; init() creates the Channel and posts ADD.
EmplaceInit ==
    /\ apc = "emplace" /\ conns[cfd[acur]] = None
    /\ conns' = [conns EXCEPT ![cfd[acur]] = acur]
    /\ chanPtr' = [chanPtr EXCEPT ![acur] = TRUE]
    /\ chan' = [chan EXCEPT ![acur] = "queued"]
    /\ Push(cloop[acur], "ADD", cfd[acur], acur)
    /\ apc' = "init"
    /\ UNCHANGED <<acur, pending, acceptOk, acceptFail, opened, closed, fdOpen,
                   life, cfd, cloop, state, lpc, back, taken, batch, cb, dying>>

\* init() stores kConnected after the ADD was posted; it always returns true.
InitConnected ==
    /\ apc = "init"
    /\ state' = [state EXCEPT ![acur] = "kConnected"]
    /\ opened' = opened + 1
    /\ apc' = "idle" /\ acur' = None
    /\ UNCHANGED <<conns, pending, acceptOk, acceptFail, closed, fdOpen, life,
                   cfd, cloop, chanPtr, chan, loopVars>>

-----------------------------------------------------------------------------
(* Accept thread: the end of the server                                    *)

\* accept() fails for another reason: run() returns kError, the destructor
\* calls stop(), and stop() the shutdown() of every loop.
AcceptError ==
    /\ MayStop /\ apc = "accept"
    /\ apc' = "stopping"
    /\ acceptFail' = acceptFail + 1
    /\ UNCHANGED <<acur, conns, pending, acceptOk, opened, closed, connVars, loopVars>>

\* Every loop thread is joined: conns_.clear().
StopClear ==
    /\ apc = "stopping" /\ \A l \in Loop : lpc[l] = "exited"
    /\ closed' = closed + Cardinality({f \in Fd : conns[f] # None})
    /\ life' = [c \in Conn |-> IF \E f \in Fd : conns[f] = c THEN "freed" ELSE life[c]]
    /\ conns' = [f \in Fd |-> None]
    /\ apc' = "cleared"
    /\ UNCHANGED <<acur, pending, acceptOk, acceptFail, opened, fdOpen, cfd, cloop,
                   state, chanPtr, chan, loopVars>>

\* ~IOThreadPool destroys the loops and with each loop its Channels, mapped
\* or still queued: every destroyCallback runs on the connection's memory.
DestroyLoops ==
    /\ apc = "cleared"
    /\ fdOpen' = fdOpen \ {cfd[c] : c \in {d \in Conn : chan[d] \in {"queued", "mapped"}}}
    /\ chan' = [c \in Conn |-> IF chan[c] \in {"queued", "mapped"} THEN "gone" ELSE chan[c]]
    /\ apc' = "destroyed"
    /\ taskQ' = [l \in Loop |-> <<>>]
    /\ UNCHANGED <<acur, conns, pending, acceptOk, acceptFail, opened, closed,
                   life, cfd, cloop, state, chanPtr, lpc, back, taken, batch, cb, dying>>

-----------------------------------------------------------------------------
(* Loop thread: run() and active()                                         *)

Poll(l) ==
    /\ lpc[l] = "poll"
    /\ \E b \in SUBSET {c \in Conn : chan[c] = "mapped" /\ cloop[c] = l} :
          batch' = [batch EXCEPT ![l] = b]
    /\ lpc' = [lpc EXCEPT ![l] = "events"]
    /\ UNCHANGED <<acceptVars, pending, connVars, back, taskQ, taken, cb, dying>>

\* The loop sees isQuit_ and run() returns.
RunReturn(l) ==
    /\ lpc[l] = "poll" /\ apc = "stopping"
    /\ lpc' = [lpc EXCEPT ![l] = "exited"]
    /\ UNCHANGED <<acceptVars, pending, connVars, back, taskQ, taken, batch, cb, dying>>

\* active(fd, ...): events are delivered by descriptor, so to whichever
\* Channel the map holds for it now; "c" is whom the kernel meant.
ActiveNotFound(l, c) ==
    /\ lpc[l] = "events" /\ c \in batch[l]
    /\ Mapped(l, cfd[c]) = {}
    /\ batch' = [batch EXCEPT ![l] = @ \ {c}]
    /\ UNCHANGED <<acceptVars, pending, connVars, lpc, back, taskQ, taken, cb, dying>>

\* A Channel leaves the map: its destructor closes the descriptor first.
Remove(l, c) ==
    /\ chan' = [chan EXCEPT ![c] = "dying"]
    /\ fdOpen' = fdOpen \ {cfd[c]}
    /\ dying' = [dying EXCEPT ![l] = c]
    /\ UNCHANGED <<life, cfd, cloop, state, chanPtr>>

ActiveError(l, c) ==
    /\ lpc[l] = "events" /\ c \in batch[l]
    /\ \E m \in Mapped(l, cfd[c]) : Remove(l, m)
    /\ batch' = [batch EXCEPT ![l] = @ \ {c}]
    /\ lpc' = [lpc EXCEPT ![l] = "dying"]
    /\ UNCHANGED <<acceptVars, pending, back, taskQ, taken, cb>>

\* readFunc for a readable event, writeFunc for one that is only writable.
ActiveBegin(l, c) ==
    /\ lpc[l] = "events" /\ c \in batch[l]
    /\ \E m \in Mapped(l, cfd[c]) : cb' = [cb EXCEPT ![l] = m]
    /\ batch' = [batch EXCEPT ![l] = @ \ {c}]
    /\ \E s \in {"read", "write"} : lpc' = [lpc EXCEPT ![l] = s]
    /\ UNCHANGED <<acceptVars, pending, connVars, back, taskQ, taken, dying>>

-----------------------------------------------------------------------------
(* Loop thread: what handleRead and handleWrite do to the connection's life *)

Resume(l, s) == IF s = "read" THEN "reread" ELSE "events"

\* More data is needed, or an asynchronous handler took the request.
CallbackQuiet(l) ==
    /\ lpc[l] \in {"read", "write"}
    /\ lpc' = [lpc EXCEPT ![l] = Resume(l, @)]
    /\ UNCHANGED <<acceptVars, pending, connVars, back, taskQ, taken, batch, cb, dying>>

\* A response is queued or the keep-alive write is switched off: MODIFY is
\* posted, and posting it runs processTaskQ() inside the callback.  MODIFY
\* itself changes the interest set only.
CallbackModify(l) ==
    /\ lpc[l] \in {"read", "write"}
    /\ back' = [back EXCEPT ![l] = Resume(l, lpc[l])]
    /\ taken' = [taken EXCEPT ![l] = Len(taskQ[l])]
    /\ lpc' = [lpc EXCEPT ![l] = "tasks"]
    /\ UNCHANGED <<acceptVars, pending, connVars, taskQ, batch, cb, dying>>

\* handleClose, first half: it loads the state; a connection that is closing
\* already is left alone.
CloseLoad(l) ==
    /\ lpc[l] \in {"read", "write"}
    /\ IF state[cb[l]] \in Closing
       THEN lpc' = [lpc EXCEPT ![l] = Resume(l, @)] /\ UNCHANGED back
       ELSE /\ lpc' = [lpc EXCEPT ![l] = "close"]
            /\ back' = [back EXCEPT ![l] = Resume(l, lpc[l])]
    /\ UNCHANGED <<acceptVars, pending, connVars, taskQ, taken, batch, cb, dying>>

\* Mutant: handleClose resets fd_ as soon as DELETE is queued.
CloseStoreResetsFd(l) ==
    /\ lpc[l] = "close"
    /\ state' = [state EXCEPT ![cb[l]] = "kDisconnecting"]
    /\ cfd' = [cfd EXCEPT ![cb[l]] = None]
    /\ Push(l, "DELETE", cfd[cb[l]], cb[l])
    /\ lpc' = [lpc EXCEPT ![l] = "poll"]
    /\ UNCHANGED <<acceptVars, pending, fdOpen, life, cloop, chanPtr, chan,
                   back, taken, batch, cb, dying>>

\* Mutant: handleClose reports the descriptor itself, before the Channel goes.
CloseStoreReports(l) ==
    /\ lpc[l] = "close"
    /\ state' = [state EXCEPT ![cb[l]] = "kDisconnecting"]
    /\ pending' = Append(pending, cfd[cb[l]])
    /\ Push(l, "DELETE", cfd[cb[l]], cb[l])
    /\ lpc' = [lpc EXCEPT ![l] = back[l]]
    /\ UNCHANGED <<acceptVars, fdOpen, life, cfd, cloop, chanPtr, chan,
                   back, taken, batch, cb, dying>>

\* Mutant: handleClose queues no DELETE.
CloseStoreOnly(l) ==
    /\ lpc[l] = "close"
    /\ state' = [state EXCEPT ![cb[l]] = "kDisconnecting"]
    /\ lpc' = [lpc EXCEPT ![l] = back[l]]
    /\ UNCHANGED <<acceptVars, pending, fdOpen, life, cfd, cloop, chanPtr, chan,
                   back, taskQ, taken, batch, cb, dying>>

\* handleClose, second half: it stores kDisconnecting and queues DELETE.
CloseStore(l) ==
    /\ lpc[l] = "close"
    /\ state' = [state EXCEPT ![cb[l]] = "kDisconnecting"]
    /\ Push(l, "DELETE", cfd[cb[l]], cb[l])
    /\ lpc' = [lpc EXCEPT ![l] = back[l]]
    /\ UNCHANGED <<acceptVars, pending, fdOpen, life, cfd, cloop, chanPtr, chan,
                   back, taken, batch, cb, dying>>

\* After readFunc active() looks the descriptor up again, and runs writeFunc
\* if a Channel is there and the event was writable too.
AfterRead(l) ==
    /\ lpc[l] = "reread"
    /\ \/ lpc' = [lpc EXCEPT ![l] = "events"] /\ UNCHANGED cb
       \/ \E m \in Mapped(l, cfd[cb[l]]) :
             cb' = [cb EXCEPT ![l] = m] /\ lpc' = [lpc EXCEPT ![l] = "write"]
    /\ UNCHANGED <<acceptVars, pending, connVars, back, taskQ, taken, batch, dying>>

-----------------------------------------------------------------------------
(* Loop thread: processTaskQ(), add_, remove_ and ~Channel                 *)

\* run() calls processTaskQ() after the last event; a posted callback that
\* sends a response enters it again before run() goes on.
StartProcess(l) ==
    /\ \/ lpc[l] = "events" /\ batch[l] = {}
       \/ lpc[l] = "tasks" /\ back[l] = "poll" /\ taken[l] = 0
    /\ lpc' = [lpc EXCEPT ![l] = "tasks"]
    /\ back' = [back EXCEPT ![l] = "poll"]
    /\ taken' = [taken EXCEPT ![l] = Len(taskQ[l])]
    /\ UNCHANGED <<acceptVars, pending, connVars, taskQ, batch, cb, dying>>

EndProcess(l) ==
    /\ lpc[l] = "tasks" /\ taken[l] = 0
    /\ lpc' = [lpc EXCEPT ![l] = back[l]]
    /\ UNCHANGED <<acceptVars, pending, connVars, back, taskQ, taken, batch, cb, dying>>

PopTask(l) ==
    /\ lpc[l] = "tasks" /\ taken[l] > 0
    /\ taskQ' = [taskQ EXCEPT ![l] = Tail(@)]
    /\ taken' = [taken EXCEPT ![l] = @ - 1]

\* add_ with a free key and a willing dispatcher.
AddChannel(l) ==
    /\ PopTask(l)
    /\ LET t == Head(taskQ[l]) IN
          /\ t.op = "ADD" /\ Mapped(l, t.fd) = {}
          /\ chan' = [chan EXCEPT ![t.conn] = "mapped"]
    /\ UNCHANGED <<acceptVars, pending, fdOpen, life, cfd, cloop, state, chanPtr,
                   lpc, back, batch, cb, dying>>

\* add_ refused: the Channel is destroyed, its descriptor closed.
AddRefused(l) ==
    /\ PopTask(l)
    /\ LET t == Head(taskQ[l]) IN
          /\ t.op = "ADD" /\ (AddMayFail \/ Mapped(l, t.fd) # {})
          /\ Remove(l, t.conn)
    /\ lpc' = [lpc EXCEPT ![l] = "dyingTask"]
    /\ UNCHANGED <<acceptVars, pending, back, batch, cb>>

\* remove_ of a descriptor the map holds.
RemoveChannel(l) ==
    /\ PopTask(l)
    /\ LET t == Head(taskQ[l]) IN
          /\ t.op = "DELETE"
          /\ \E m \in Mapped(l, t.fd) : Remove(l, m)
    /\ lpc' = [lpc EXCEPT ![l] = "dyingTask"]
    /\ UNCHANGED <<acceptVars, pending, back, batch, cb>>

\* Mutant: a DELETE that finds nothing is tried again later.
RemoveNotFoundRetries(l) ==
    /\ lpc[l] = "tasks" /\ taken[l] > 0
    /\ Head(taskQ[l]).op = "DELETE" /\ Mapped(l, Head(taskQ[l]).fd) = {}
    /\ taskQ' = [taskQ EXCEPT ![l] = Append(Tail(@), Head(@))]
    /\ taken' = [taken EXCEPT ![l] = @ - 1]
    /\ UNCHANGED <<acceptVars, pending, connVars, lpc, back, batch, cb, dying>>

\* remove_ of a descriptor the map does not hold: kNotFound.
RemoveNotFound(l) ==
    /\ PopTask(l)
    /\ Head(taskQ[l]).op = "DELETE" /\ Mapped(l, Head(taskQ[l]).fd) = {}
    /\ UNCHANGED <<acceptVars, pending, connVars, lpc, back, batch, cb, dying>>

enqueueClosedConnection(f) == pending' = Append(pending, f)

\* The destroyCallback: onChannelDestroyed_ and closeCallback_.
OnChannelDestroyed(l) ==
    /\ lpc[l] \in {"dying", "dyingTask"}
    /\ LET c == dying[l] IN
          /\ chanPtr' = [chanPtr EXCEPT ![c] = FALSE]
          /\ state' = [state EXCEPT ![c] = "kDisconnected"]
          /\ chan' = [chan EXCEPT ![c] = "gone"]
          /\ enqueueClosedConnection(cfd[c])
    /\ dying' = [dying EXCEPT ![l] = None]
    /\ lpc' = [lpc EXCEPT ![l] = IF @ = "dying" THEN "events" ELSE "tasks"]
    /\ UNCHANGED <<acceptVars, fdOpen, life, cfd, cloop, back, taskQ, taken, batch, cb>>

-----------------------------------------------------------------------------
AcceptStep ==
    \/ \E f \in Fd : IdleLoad(f)
    \/ IdleStore \/ IdleDeref \/ Cleanup \/ AcceptNone
    \/ \E f \in Fd, c \in Conn, l \in Loop : Accept(f, c, l)
    \/ EmplaceConflict \/ EmplaceInit \/ InitConnected

StopStep == AcceptError \/ StopClear \/ DestroyLoops

LoopStep(l) ==
    \/ Poll(l) \/ RunReturn(l)
    \/ \E c \in Conn : ActiveNotFound(l, c) \/ ActiveError(l, c) \/ ActiveBegin(l, c)
    \/ CallbackQuiet(l) \/ CallbackModify(l) \/ CloseLoad(l) \/ CloseStore(l)
    \/ AfterRead(l) \/ StartProcess(l) \/ EndProcess(l)
    \/ AddChannel(l) \/ AddRefused(l) \/ RemoveChannel(l) \/ RemoveNotFound(l)
    \/ OnChannelDestroyed(l)

Next == AcceptStep \/ StopStep \/ \E l \in Loop : LoopStep(l)

Spec == Init /\ [][Next]_vars

\* Threads are scheduled: the accept thread goes round its loop and recycles,
\* a loop thread goes round its own (dispatch() returns after two seconds at
\* the latest).  Nothing makes clients connect, send or hang up.
Fairness ==
    /\ WF_vars(IdleStore) /\ WF_vars(IdleDeref)
    /\ WF_vars(EmplaceConflict \/ EmplaceInit \/ InitConnected)
    /\ WF_vars(Cleanup) /\ WF_vars(AcceptNone)
    /\ \A l \in Loop : WF_vars(LoopStep(l))

FairSpec == Spec /\ Fairness

-----------------------------------------------------------------------------
(* Properties                                                              *)

Queued == {"queued", "mapped"}
HasChannel == Queued \cup {"dying"}
Running == apc \notin {"cleared", "destroyed"}

ChanPlace == {"none", "queued", "mapped", "dying", "gone"}
LoopPc == {"poll", "events", "read", "write", "reread", "close", "tasks",
           "dying", "dyingTask", "exited"}

\* Types of all variables.
TypeOK ==
    /\ apc \in {"idle", "idleStore", "idleDeref", "accept", "emplace", "init",
                "stopping", "cleared", "destroyed"}
    /\ acur \in Conn \cup {None}
    /\ conns \in [Fd -> Conn \cup {None}]
    /\ pending \in Seq(Fd)
    /\ acceptOk \in Nat /\ acceptFail \in Nat /\ opened \in Nat /\ closed \in Nat
    /\ fdOpen \in SUBSET Fd
    /\ life \in [Conn -> {"fresh", "alive", "freed"}]
    /\ cfd \in [Conn -> Fd \cup {None}]
    /\ cloop \in [Conn -> Loop \cup {None}]
    /\ state \in [Conn -> {"kConnecting", "kConnected", "kDisconnecting", "kDisconnected"}]
    /\ chanPtr \in [Conn -> BOOLEAN]
    /\ chan \in [Conn -> ChanPlace]
    /\ lpc \in [Loop -> LoopPc]
    /\ back \in [Loop -> {"poll", "reread", "events"}]
    /\ taskQ \in [Loop -> Seq(Task)]
    /\ taken \in [Loop -> Nat]
    /\ batch \in [Loop -> SUBSET Conn]
    /\ cb \in [Loop -> Conn \cup {None}]
    /\ dying \in [Loop -> Conn \cup {None}]

\* The raw "this" in a Channel's callbacks never dangles while the server
\* runs: as long as the Channel exists, in a queue, in a map or in its
\* destructor, its connection is alive and is the one conns_ holds.
ChannelConnAlive ==
    Running => \A c \in Conn :
        chan[c] \in HasChannel => life[c] = "alive" /\ conns[cfd[c]] = c

\* pendingCloseFds_ names descriptors, not connections; still every entry
\* stands for the one connection that lost its Channel, once, although its
\* descriptor is free for accept() to return again ...
PendingOnce ==
    /\ \A i, j \in 1..Len(pending) : pending[i] = pending[j] => i = j
    /\ Running => \A f \in Set(pending) : conns[f] # None /\ chan[conns[f]] = "gone"

\* ... and every entry of conns_ without a Channel is pending, so that no
\* connection is forgotten (TcpServer.cpp:251-303).
PendingExact ==
    /\ PendingOnce
    /\ \A f \in Fd : conns[f] # None =>
          chan[conns[f]] \in HasChannel \/ f \in Set(pending)

\* A descriptor is open iff exactly one owner will close it: the accept
\* thread before emplace, afterwards the one Channel that holds it.
FdOwners(f) ==
    {c \in Conn : cfd[c] = f /\ (chan[c] \in Queued \/ (apc = "emplace" /\ acur = c))}
FdOwnedOnce ==
    \A f \in Fd : /\ f \in fdOpen <=> FdOwners(f) # {}
                  /\ \A c, d \in FdOwners(f) : c = d

\* A DELETE, which names a descriptor only, removes the Channel it was posted
\* for or none, also when two threads posted one each and the descriptor was
\* reused in between.
DeleteHitsOwn ==
    \A l \in Loop : lpc[l] = "tasks" /\ taken[l] > 0 =>
        LET t == Head(taskQ[l]) IN
            t.op = "DELETE" => Mapped(l, t.fd) \subseteq {t.conn}

\* The counters of Metrics that the server keeps agree with its state.  While
\* it runs activeConnections is the number of connections in conns_ that were
\* reported as opened, so that fetch_sub of the unsigned counter never wraps,
\* and each accepted descriptor is reported once more, as opened or as failed.
MetricsExact ==
    /\ Running => opened - closed = Cardinality({f \in Fd : conns[f] # None})
                                    - (IF apc = "init" THEN 1 ELSE 0)
    /\ apc \in {"idle", "idleStore", "idleDeref", "accept", "emplace", "init"} =>
        acceptOk = opened + acceptFail + (IF apc \in {"emplace", "init"} THEN 1 ELSE 0)

\* A connection somebody began to close, or whose Channel is gone, is recycled,
\* whoever closes it and whatever init() or the other thread store in state_
\* meanwhile.
CloseCompletes ==
    \A c \in Conn : (state[c] = "kDisconnecting" \/ chan[c] = "gone")
                        ~> (life[c] = "freed" \/ apc = "stopping")

\* handleClose dereferences channel_ only while the Channel exists
\* (TcpConnection.hpp:32: it is called on the owning EventLoop thread only).
CloseOnLiveChannel == apc = "idleDeref" => chan[acur] \in Queued

\* A descriptor accept() returns has no entry in conns_
\* (ARCHITECTURE.md:88,97: conns_.erase comes first, then the close).
AcceptedIsNew == apc = "emplace" => conns[cfd[acur]] = None

\* An event goes to the connection it happened on
\* (ITERATION_14:14: the order of registration avoids the window in which a
\* descriptor is reused).
EventHitsOwn ==
    \A l \in Loop : lpc[l] = "events" =>
        \A c \in batch[l] : Mapped(l, cfd[c]) \subseteq {c}

\* When the loops are destroyed no Channel calls back into a connection that
\* was freed before (TcpServer.cpp:207-209: the container is cleared last).
DestroyCallbackAlive ==
    apc = "cleared" => \A c \in Conn : chan[c] \in HasChannel => life[c] = "alive"
=============================================================================
