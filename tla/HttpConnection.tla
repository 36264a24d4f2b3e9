--------------------------- MODULE HttpConnection ---------------------------
(***************************************************************************)
(* The HTTP side of one net::TcpConnection: handleRead with the            *)
(* incremental HttpRequest parser, handleWrite with keep-alive, the        *)
(* asynchronous answers of SqlHandler, and the idle close of the accept    *)
(* thread, against a client that sends in arbitrary portions.              *)
(*                                                                         *)
(* A byte stream is a sequence of tokens: the lines of a request (each     *)
(* with its CRLF) and a body; a portion that ends inside a token leaves it *)
(* in the stream.  SqlHandler's executor is SqlService.                    *)
(***************************************************************************)
EXTENDS Naturals, Sequences, FiniteSets

CONSTANTS
    Kinds,       \* the kinds of request the client sends, from DOMAIN Parts
    MaxSent,     \* bound: requests the client sends
    MaxAhead,    \* requests it sends without waiting for the response
    KeepAlive,   \* keepAliveEnabled_
    MaxServed,   \* bound of maxKeepAliveRequests_
    MaxReplies   \* bound: repeated 408 answers, and answers after an idle close

\* The lines of each kind of request.  "bare" has no header, the body of
\* "large" is beyond kMaxBodyBytes.
Parts ==
    [get       |-> <<"line", "header", "crlf">>,
     close     |-> <<"line", "close", "crlf">>,
     post      |-> <<"line", "length", "crlf", "body">>,
     sql       |-> <<"line", "header", "crlf">>,
     large     |-> <<"line", "large", "crlf", "body">>,
     badLine   |-> <<"badLine", "header", "crlf">>,
     badHeader |-> <<"line", "badHeader", "crlf">>,
     bare      |-> <<"line", "crlf">>]

ASSUME HttpConnectionAssumption ==
    /\ Kinds \subseteq DOMAIN Parts
    /\ MaxSent \in Nat /\ MaxAhead \in Nat \ {0}
    /\ KeepAlive \in BOOLEAN /\ MaxServed \in Nat \ {0}
    /\ MaxReplies \in Nat

VARIABLES
    kinds,        \* the requests sent so far
    stream,       \* bytes sent and not read yet
    peer,         \* "open", or "closed" by the client
    readBuffer,   \* readBuffer_
    inFlight,     \* inFlightRequest_
    parseWaiting, \* parseWaiting_
    late,         \* five seconds passed since parseWaitStart_
    keep,         \* keepAliveRequest_
    pending,      \* pendingStatusCode_ and pendingBody_
    writeBuffer,  \* writeBuffer_
    wire,         \* responses written to the socket
    maxServed,    \* maxKeepAliveRequests_, set once
    served,       \* servedRequests_
    recent,       \* lastActivityMs_ is within the idle time-out
    state,        \* state_
    closedBy,     \* whose thread ended the connection
    select,       \* the back end is SelectDispatcher, set once
    writing,      \* the write interest of the Channel
    leftOver,     \* select: a write interest given up is still in writeSet_
    pc,           \* "write": active() has the write event still to deliver
    delivered,    \* posted SQL answers that have run on the loop
    accepted, answered, open    \* SqlService

client == <<kinds, stream, peer>>
parser == <<readBuffer, inFlight, parseWaiting, late>>
reply == <<keep, pending, writeBuffer>>
closing == <<state, closedBy>>
sql == <<accepted, answered, open>>
vars == <<kinds, stream, peer, readBuffer, inFlight, parseWaiting, late, keep, pending,
          writeBuffer, wire, maxServed, served, recent, state, closedBy, select, writing, leftOver, pc,
          delivered, accepted, answered, open>>

Sql == INSTANCE SqlService WITH Job <- 1..MaxSent

Token == [req : 1..MaxSent, part : {"line", "badLine", "header", "close", "length",
                                    "large", "badHeader", "crlf", "body"}]
HeaderPart == {"header", "close", "length", "large"}
\* Request 0 is nobody's: what the pending fields are reset to.
Response == [req : 0..MaxSent, status : {200, 400, 408, 413, 500, 503}, keep : BOOLEAN]
Default == [req |-> 0, status |-> 200]
\* HttpRequest: its state, the request its line belongs to, its headers.
Request == [st : {"line", "head", "body"}, req : 0..MaxSent, headers : SUBSET HeaderPart]
Fresh == [st |-> "line", req |-> 0, headers |-> {}]

\* With select the bit of an earlier Channel with this descriptor may be left.
Init ==
    /\ kinds = <<>> /\ stream = <<>> /\ peer = "open"
    /\ readBuffer = <<>> /\ inFlight = Fresh
    /\ parseWaiting = FALSE /\ late = FALSE
    /\ keep = FALSE /\ pending = Default /\ writeBuffer = <<>>
    /\ wire = <<>> /\ served = 0 /\ maxServed \in 1..MaxServed /\ recent = TRUE
    /\ state = "kConnected" /\ closedBy = "nobody" /\ writing = FALSE /\ pc = "wait"
    /\ delivered = 0
    /\ select \in BOOLEAN /\ leftOver \in BOOLEAN /\ (leftOver => select)
    /\ Sql!Init

-----------------------------------------------------------------------------
(* HttpRequest::parseRequest.  A parse is the status code, the buffer and   *)
(* the request in flight.                                                   *)

Drop(s, n) == SubSeq(s, n + 1, Len(s))
FirstOf(s, P(_)) == {k \in 1..Len(s) : P(s[k]) /\ \A j \in 1..k-1 : ~P(s[j])}
EndsLine(t) == t.part # "body"
IsEmptyLine(t) == t.part = "crlf"

Result(code, buf, rq) == [code |-> code, buf |-> buf, rq |-> rq]

\* parseLine_: everything up to the first CRLF is the request line; a bad one
\* stays in the buffer.
ParseLine(buf, rq) ==
    LET ends == FirstOf(buf, EndsLine)
        k == CHOOSE e \in ends : TRUE
    IN  IF ends = {} THEN Result("kAgain", buf, rq)
        ELSE IF buf[k].part # "line" THEN Result("kInvalid", buf, rq)
        ELSE Result("kOk", Drop(buf, k),
                    [st |-> "head", req |-> buf[k].req, headers |-> rq.headers])

\* parseHead_: nothing happens before CRLF CRLF is in the buffer, which the
\* request line, already consumed, cannot provide half of.
ParseHead(buf, rq) ==
    LET k == CHOOSE e \in FirstOf(buf, IsEmptyLine) : TRUE
        bad == {j \in 1..k-1 : buf[j].part \notin HeaderPart}
    IN  IF ~\E j \in 1..Len(buf)-1 : EndsLine(buf[j]) /\ IsEmptyLine(buf[j + 1])
        THEN Result("kAgain", buf, rq)
        ELSE IF bad # {}
        THEN Result("kInvalid", Drop(buf, CHOOSE j \in bad : \A i \in bad : j <= i), rq)
        ELSE Result("kOk", Drop(buf, k), [st |-> "body", req |-> rq.req,
                                          headers |-> {buf[j].part : j \in 1..k-1}])

\* findHeader_, which also tells how long the body is said to be.
findHeader(rq, part) == part \in rq.headers

\* parseBody_
ParseBody(buf, rq) ==
    IF findHeader(rq, "large") THEN Result("kTooLarge", buf, rq)
    ELSE IF ~findHeader(rq, "length") THEN Result("kOk", buf, rq)
    ELSE IF buf = <<>> THEN Result("kAgain", buf, rq)
    ELSE Result("kOk", Tail(buf), rq)

\* parse_: each stage goes on where the last call stopped.
Parse(buf, rq) ==
    LET p1 == IF rq.st = "line" THEN ParseLine(buf, rq) ELSE Result("kOk", buf, rq)
        p2 == IF p1.code = "kOk" /\ p1.rq.st = "head" THEN ParseHead(p1.buf, p1.rq) ELSE p1
    IN  IF p2.code = "kOk" THEN ParseBody(p2.buf, p2.rq) ELSE p2

-----------------------------------------------------------------------------
(* The client counts responses: it sends a request when it has one for the  *)
(* last, and none after a response that says "Connection: close".           *)

Send ==
    /\ peer = "open"
    /\ \A i \in 1..Len(wire) : wire[i].keep
    /\ Len(kinds) < MaxSent
    /\ Len(kinds) < Len(wire) + MaxAhead
    /\ \E k \in Kinds :
          /\ kinds' = Append(kinds, k)
          /\ stream' = stream \o [i \in 1..Len(Parts[k]) |->
                                    [req |-> Len(kinds) + 1, part |-> Parts[k][i]]]
    /\ UNCHANGED <<peer, parser, reply, wire, served, recent, closing, writing, leftOver,
                   pc, delivered, sql>>

ClientClose ==
    /\ peer = "open"
    /\ peer' = "closed"
    /\ UNCHANGED <<kinds, stream, parser, reply, wire, served, recent, closing, writing,
                   leftOver, pc, delivered, sql>>

-----------------------------------------------------------------------------
(* handleClose and the removal of the Channel                               *)

\* handleClose on the loop's own thread; a second call does nothing.
CloseOwn ==
    IF state = "kConnected"
    THEN state' = "kDisconnecting" /\ closedBy' = "loop"
    ELSE UNCHANGED closing

\* shouldCloseForIdle and handleClose on the accept thread.
IdleClose ==
    /\ KeepAlive /\ state = "kConnected" /\ ~recent
    /\ state' = "kDisconnecting" /\ closedBy' = "accept"
    /\ UNCHANGED <<client, parser, reply, wire, served, recent, writing, leftOver, pc, delivered, sql>>

\* The loop handles the DELETE: its own at the end of the iteration, another
\* thread's also in a processTaskQ() below a callback.
Remove ==
    /\ state = "kDisconnecting"
    /\ closedBy = "accept" \/ pc = "wait"
    /\ state' = "kDisconnected"
    /\ writing' = FALSE /\ pc' = "wait"
    /\ UNCHANGED <<closedBy, client, parser, reply, wire, served, recent, leftOver, delivered, sql>>

-----------------------------------------------------------------------------
(* handleRead                                                              *)

\* The loop waits for events again only when its own DELETE is handled.
Waiting == pc = "wait" /\ closedBy # "loop" /\ state # "kDisconnected"

\* The back end looks for write events.  MODIFY is handled at once; poll and
\* epoll then watch for the interest of the Channel, select for what remains
\* in writeSet_ too (SelectDispatcher.cpp:35-47, 66-71).
Watched == writing \/ leftOver

\* Whether the same event was writable too.
SameEvent == pc' \in IF Watched THEN {"wait", "write"} ELSE {"wait"}

\* readFd returned some bytes: n whole tokens and maybe a piece of the next.
Received(n) ==
    /\ Waiting
    /\ n \in 0..Len(stream) /\ stream # <<>>
    /\ stream' = Drop(stream, n)
    /\ recent' = TRUE
    /\ SameEvent
    /\ UNCHANGED <<kinds, peer, wire, served, closing, leftOver, delivered>>

Parsed(n) == Parse(readBuffer \o SubSeq(stream, 1, n), inFlight)

\* The request an error answer is about.
Subject(p) == IF p.rq.req # 0 THEN p.rq.req ELSE Head(p.buf \o stream').req

\* queueSimpleResponse_
QueueSimple(status, r) ==
    /\ writeBuffer' = Append(writeBuffer, [req |-> r, status |-> status, keep |-> keep'])
    /\ writing' = TRUE

\* The request is not complete; the second time, five seconds later, 408.
ReadAgain(n) ==
    /\ Received(n)
    /\ LET p == Parsed(n)
       IN  /\ p.code = "kAgain"
           /\ readBuffer' = p.buf /\ inFlight' = p.rq
           /\ UNCHANGED <<keep, pending, sql>>
           /\ IF parseWaiting /\ late
              THEN /\ n = 0 => Len(wire) + Len(writeBuffer) < MaxReplies
                   /\ QueueSimple(408, Subject(p))
              ELSE UNCHANGED <<writeBuffer, writing>>
    /\ parseWaiting' = TRUE
    /\ late' = (parseWaiting /\ late)

ReadInvalid(n) ==
    /\ Received(n)
    /\ LET p == Parsed(n)
       IN  /\ p.code \in {"kInvalid", "kTooLarge"}
           /\ readBuffer' = p.buf /\ inFlight' = Fresh
           /\ keep' = FALSE
           /\ QueueSimple(IF p.code = "kTooLarge" THEN 413 ELSE 400, Subject(p))
    /\ parseWaiting' = FALSE /\ late' = FALSE
    /\ UNCHANGED <<pending, sql>>

\* The client did not ask for "Connection: close".
shouldKeepAlive(rq) == "close" \notin rq.headers

\* A complete request: the fields of the response are reset before the
\* handler runs.
Complete(n, p) ==
    /\ Received(n)
    /\ p.code = "kOk"
    /\ readBuffer' = p.buf /\ inFlight' = Fresh
    /\ parseWaiting' = FALSE /\ late' = FALSE
    /\ keep' = (KeepAlive /\ shouldKeepAlive(p.rq))
    /\ UNCHANGED writeBuffer

\* A handler that answers at once, SqlHandler with an executor that is
\* stopped among them.
ReadSync(n) ==
    LET p == Parsed(n) IN
    /\ Complete(n, p)
    /\ \/ kinds[p.rq.req] # "sql" /\ pending' = [req |-> p.rq.req, status |-> 200]
       \/ /\ kinds[p.rq.req] = "sql" /\ Sql!Refuse
          /\ pending' = [req |-> p.rq.req, status |-> 503]
    /\ writing' = TRUE
    /\ UNCHANGED sql

\* Mutant: the asynchronous path enables writing like the other.
ReadAsyncWrites(n) ==
    LET p == Parsed(n) IN
    /\ Complete(n, p)
    /\ kinds[p.rq.req] = "sql"
    /\ Sql!Submit(p.rq.req)
    /\ pending' = Default
    /\ writing' = TRUE

\* SqlHandler submits a job and the answer is to come.
ReadAsync(n) ==
    LET p == Parsed(n) IN
    /\ Complete(n, p)
    /\ kinds[p.rq.req] = "sql"
    /\ Sql!Submit(p.rq.req)
    /\ pending' = Default
    /\ UNCHANGED writing

\* readFd returned 0 or an error.
ReadEnd ==
    /\ Waiting
    /\ peer = "closed" /\ stream = <<>>
    /\ SameEvent
    /\ CloseOwn
    /\ UNCHANGED <<client, parser, reply, wire, served, recent, writing, leftOver, delivered, sql>>

\* EPOLLERR or EPOLLHUP when the client is gone: active() removes the Channel
\* before any callback.  select reports no errors.
ActiveError ==
    /\ Waiting /\ peer = "closed" /\ ~select
    /\ closedBy' = IF state = "kConnected" THEN "loop" ELSE closedBy
    /\ state' = "kDisconnected" /\ writing' = FALSE
    /\ UNCHANGED <<client, parser, reply, wire, served, recent, leftOver, pc, delivered, sql>>

Read(n) == ReadAgain(n) \/ ReadInvalid(n) \/ ReadSync(n) \/ ReadAsync(n)

-----------------------------------------------------------------------------
(* handleWrite                                                             *)

\* The write event, alone or after a read event of the same dispatch.
WriteEvent ==
    /\ state # "kDisconnected"
    /\ pc = "write" \/ (Waiting /\ Watched)
    /\ closedBy = "accept" => Len(wire) < MaxReplies

\* An empty writeBuffer_ is filled with the response of the pending fields.
Outgoing ==
    IF writeBuffer = <<>>
    THEN <<[req |-> pending.req, status |-> pending.status, keep |-> keep]>>
    ELSE writeBuffer

\* write() took only a part.
WriteShort ==
    /\ WriteEvent
    /\ \E n \in 0..Len(Outgoing)-1 :
          /\ wire' = wire \o SubSeq(Outgoing, 1, n)
          /\ writeBuffer' = Drop(Outgoing, n)
    /\ pc' = "wait" /\ recent' = TRUE
    /\ UNCHANGED <<client, parser, keep, pending, served, closing, writing, leftOver, delivered, sql>>

\* write() failed because the client is gone.
WriteError ==
    /\ WriteEvent /\ peer = "closed"
    /\ CloseOwn
    /\ writeBuffer' = Outgoing
    /\ pc' = "wait"
    /\ UNCHANGED <<client, parser, keep, pending, wire, served, recent, writing, leftOver,
                   delivered, sql>>

WriteAll ==
    /\ WriteEvent
    /\ wire' = wire \o Outgoing /\ writeBuffer' = <<>>
    /\ pc' = "wait" /\ recent' = TRUE
    /\ UNCHANGED <<client, parser, delivered, sql>>

\* Mutant: the limit is passed before the connection is closed.
WriteAllKeepLimit ==
    /\ WriteAll /\ keep
    /\ keep' = FALSE /\ pending' = Default /\ served' = served + 1
    /\ IF served' > maxServed
       THEN CloseOwn /\ UNCHANGED <<writing, leftOver>>
       ELSE writing' = FALSE /\ leftOver' = select /\ UNCHANGED closing

\* Everything is written and the connection is kept, until the limit.  The
\* Channel gives up its interest and clearFdSet_, which goes by what the
\* Channel asks for now, leaves the bit where it is.
WriteAllKeep ==
    /\ WriteAll /\ keep
    /\ keep' = FALSE /\ pending' = Default /\ served' = served + 1
    /\ IF served' >= maxServed
       THEN CloseOwn /\ UNCHANGED <<writing, leftOver>>
       ELSE writing' = FALSE /\ leftOver' = select /\ UNCHANGED closing

WriteAllClose ==
    /\ WriteAll /\ ~keep
    /\ CloseOwn
    /\ UNCHANGED <<keep, pending, served, writing, leftOver>>

-----------------------------------------------------------------------------
(* sendAsyncResponse and the environment                                   *)

\* Mutant: the answer is stored and nobody asks for the write event.
AsyncResultSilent ==
    /\ delivered < answered /\ (closedBy = "loop" => state = "kDisconnected")
    /\ delivered' = delivered + 1
    /\ \E status \in {200, 500} :
          IF state = "kConnected"
          THEN pending' = [req |-> accepted[delivered + 1], status |-> status]
          ELSE UNCHANGED pending
    /\ UNCHANGED <<client, parser, keep, writeBuffer, wire, served, recent, closing, writing, leftOver,
                   pc, sql>>

\* The callback SqlHandler posted runs on the loop; a connection that is gone
\* or closing ignores it.  Tasks, and so the loop's own DELETE, come first.
AsyncResult ==
    /\ delivered < answered /\ (closedBy = "loop" => state = "kDisconnected")
    /\ delivered' = delivered + 1
    /\ \E status \in {200, 500} :
          IF state = "kConnected"
          THEN /\ pending' = [req |-> accepted[delivered + 1], status |-> status]
               /\ writing' = TRUE
          ELSE UNCHANGED <<pending, writing>>
    /\ UNCHANGED <<client, parser, keep, writeBuffer, wire, served, recent, closing, leftOver, pc,
                   sql>>

Executor ==
    /\ Sql!Answer \/ (open /\ Sql!Close)
    /\ UNCHANGED <<client, parser, reply, wire, served, recent, closing, writing, leftOver,
                   pc, delivered>>

\* keepAliveIdleTimeoutMs_ passes without activity.
Quiet ==
    /\ recent
    /\ recent' = FALSE
    /\ UNCHANGED <<client, parser, reply, wire, served, closing, writing, leftOver, pc, delivered, sql>>

\* Five seconds pass while a request is incomplete.
Late ==
    /\ parseWaiting /\ ~late
    /\ late' = TRUE
    /\ UNCHANGED <<client, readBuffer, inFlight, parseWaiting, reply, wire, served, recent,
                   closing, writing, leftOver, pc, delivered, sql>>

Loop ==
    \/ \E n \in 1..Len(stream) : Read(n)
    \/ ReadEnd \/ ActiveError \/ WriteError \/ WriteAllKeep \/ WriteAllClose
    \/ AsyncResult \/ Remove

\* setKeepAlivePolicy is called before init(), createDispatcher before run().
Policy == UNCHANGED <<maxServed, select>>

Next ==
    /\ Policy
    /\ \/ Send \/ ClientClose \/ Loop \/ ReadAgain(0) \/ WriteShort
       \/ IdleClose \/ Executor \/ Quiet \/ Late

Spec == Init /\ [][Next]_vars

\* Each iteration of the loop delivers the event of a readable socket, which
\* only a read changes, and runs the tasks; a socket takes what it is given at
\* last, for the client reads; the executor answers (SqlExecutor,
\* EveryJobAnswered).
FairSpec ==
    /\ Spec
    /\ WF_stream(Policy /\ \E n \in 1..Len(stream) : Received(n))
    /\ WF_vars(Policy /\ (ReadEnd \/ AsyncResult \/ Remove))
    /\ WF_vars(Policy /\ (WriteAllKeep \/ WriteAllClose))
    /\ WF_vars(Policy /\ Executor)

-----------------------------------------------------------------------------
(* Properties                                                              *)

\* Types of all variables.
TypeOK ==
    /\ kinds \in Seq(Kinds) /\ stream \in Seq(Token) /\ peer \in {"open", "closed"}
    /\ readBuffer \in Seq(Token) /\ inFlight \in Request
    /\ parseWaiting \in BOOLEAN /\ late \in BOOLEAN /\ keep \in BOOLEAN
    /\ pending \in [req : 0..MaxSent, status : {200, 500, 503}]
    /\ writeBuffer \in Seq(Response) /\ wire \in Seq(Response)
    /\ served \in Nat /\ (served <= maxServed \/ closedBy = "accept")
    /\ maxServed \in 1..MaxServed /\ recent \in BOOLEAN
    /\ state \in {"kConnected", "kDisconnecting", "kDisconnected"}
    /\ closedBy \in {"nobody", "loop", "accept"} /\ pc \in {"wait", "write"}
    /\ select \in BOOLEAN /\ writing \in BOOLEAN
    /\ leftOver \in BOOLEAN /\ (leftOver => select)
    /\ delivered \in 0..Len(accepted)

\* The answer of a handler, as opposed to a protocol error.
IsAnswer(r) == r.status \in {200, 500, 503}

\* A client that waits for each response gets the answers of the handlers in
\* the order of its requests, each once, and never the empty 200 the pending
\* fields are reset to (TcpConnection.cpp:257-275, 388-395, 471-503): with
\* poll and epoll on every connection, with select until a write interest
\* given up is left in writeSet_.  From then on the next dispatch() calls
\* handleWrite again and it does send that 200.  An idle close, after which
\* handleWrite may go on, is the other exception.
AnswersInOrder ==
    closedBy # "accept" /\ ~leftOver => \A i \in 1..Len(wire) : IsAnswer(wire[i]) =>
        /\ wire[i].req # 0
        /\ \A j \in 1..i-1 : IsAnswer(wire[j]) => wire[j].req < wire[i].req

\* A connection with nothing left to do owes nothing: every request with a
\* header has been answered, by its handler or with an error
\* (TcpConnection.cpp:210-312).  One that select still reports writable has
\* something to do.
Settled ==
    /\ state = "kConnected" /\ pc = "wait"
    /\ stream = <<>> /\ writeBuffer = <<>> /\ ~Watched /\ delivered = Len(accepted)
OwesNothing ==
    Settled => \A r \in 1..Len(kinds) :
        kinds[r] # "bare" => \E i \in 1..Len(wire) : wire[i].req = r

\* The answer that says "Connection: close", and the answer number
\* maxKeepAliveRequests_ of those that say keep-alive, is the last thing on
\* the wire (TcpConnection.cpp:409-430).  With select it may not be once a
\* write interest is left over: the 200 nobody asked for can wait in
\* writeBuffer_ in front of an error answer.
EndIsLast ==
    closedBy # "accept" /\ ~leftOver => \A i \in 1..Len(wire) :
        LET kept == {j \in 1..i : IsAnswer(wire[j]) /\ wire[j].keep}
        IN  IsAnswer(wire[i]) /\ (~wire[i].keep \/ Cardinality(kept) >= maxServed)
                => i = Len(wire)

\* Every request that arrived with a header is answered or the connection
\* ends, whichever way its bytes were cut and whatever the executor and the
\* back end do (TcpConnection.cpp:210-312, 376-457, 471-503).
EveryRequestEnds ==
    \A r \in 1..MaxSent :
        (Len(kinds) >= r /\ kinds[r] # "bare")
            ~> (\/ \E i \in 1..Len(wire) : wire[i].req = r
                \/ state = "kDisconnected")

\* While a SQL query runs the connection is held until its result is written
\* back (HTTP-API.md:68).
HeldUntilResult ==
    state # "kConnected" /\ peer = "open" => delivered = Len(accepted)
=============================================================================
