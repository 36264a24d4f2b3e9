------------------------ MODULE HttpConnectionProofs ------------------------
(***************************************************************************)
(* Proofs about HttpConnection, for any kinds and numbers of requests,     *)
(* limits and executor.  TypeInv is inductive by itself.  On it stands     *)
(* LiveInv, for a client that waits for each answer (MaxAhead = 1): how    *)
(* far the parser is with the last request, whose answer is on its way and *)
(* what is on the wire, as long as the loop still writes only what it is   *)
(* asked to: until it closes, or select keeps a write interest given up.   *)
(***************************************************************************)
EXTENDS HttpConnection, SequenceTheorems, FiniteSetTheorems, WellFoundedInduction, TLAPS

USE HttpConnectionAssumption

Part == {"line", "badLine", "header", "close", "length", "large", "badHeader", "crlf", "body"}

\* Who posted a DELETE, and that the loop's own is handled after the write
\* event of the same dispatch.
Ends ==
    /\ closedBy = "nobody" <=> state = "kConnected"
    /\ closedBy = "loop" /\ pc = "write" => state = "kDisconnecting"

\* The loop counts no response after the one that reached the limit.
Limit ==
    closedBy # "accept" =>
        served < maxServed \/ (served <= maxServed /\ closedBy = "loop" /\ pc = "wait")

Jobs ==
    /\ accepted \in Seq(1..MaxSent) /\ answered \in 0..Len(accepted) /\ open \in BOOLEAN
    /\ delivered <= answered

Parser(rq) == rq.st = "line" <=> rq.req = 0

TypeInv ==
    /\ TypeOK /\ Ends /\ Limit /\ Jobs
    /\ Parser(inFlight) /\ Len(kinds) <= MaxSent

-----------------------------------------------------------------------------
(* Parts of sequences.                                                      *)

LEMMA DropFacts ==
    ASSUME NEW S, NEW s \in Seq(S), NEW n \in 0..Len(s)
    PROVE  /\ Drop(s, n) \in Seq(S) /\ Len(Drop(s, n)) = Len(s) - n
           /\ \A i \in 1..Len(s) - n : Drop(s, n)[i] = s[i + n]
  <1>1. Len(s) \in Nat /\ n \in Nat /\ n <= Len(s)
    OBVIOUS
  <1>2. \A i \in (n + 1)..Len(s) : s[i] \in S
    BY <1>1
  <1>3. /\ SubSeq(s, n + 1, Len(s)) \in Seq(S)
        /\ Len(SubSeq(s, n + 1, Len(s)))
             = IF n + 1 <= Len(s) THEN Len(s) - (n + 1) + 1 ELSE 0
        /\ \A i \in 1..(Len(s) - (n + 1) + 1) :
              SubSeq(s, n + 1, Len(s))[i] = s[(n + 1) + i - 1]
    BY <1>1, <1>2, SubSeqProperties
  <1>4. Len(s) - (n + 1) + 1 = Len(s) - n
    BY <1>1
  <1>5. Len(Drop(s, n)) = Len(s) - n
    BY <1>1, <1>3 DEF Drop
  <1>6. ASSUME NEW i \in 1..Len(s) - n
        PROVE  Drop(s, n)[i] = s[i + n]
    <2>1. (n + 1) + i - 1 = i + n
      BY <1>1
    <2>2. QED
      BY <1>3, <1>4, <2>1 DEF Drop
  <1>7. QED
    BY <1>3, <1>5, <1>6 DEF Drop

LEMMA TakeFacts ==
    ASSUME NEW S, NEW s \in Seq(S), NEW n \in 0..Len(s)
    PROVE  /\ SubSeq(s, 1, n) \in Seq(S) /\ Len(SubSeq(s, 1, n)) = n
           /\ \A i \in 1..n : SubSeq(s, 1, n)[i] = s[i]
  <1>1. Len(s) \in Nat /\ n \in Nat /\ n <= Len(s)
    OBVIOUS
  <1>2. \A i \in 1..n : s[i] \in S
    BY <1>1
  <1>3. /\ SubSeq(s, 1, n) \in Seq(S)
        /\ Len(SubSeq(s, 1, n)) = IF 1 <= n THEN n - 1 + 1 ELSE 0
        /\ \A i \in 1..(n - 1 + 1) : SubSeq(s, 1, n)[i] = s[1 + i - 1]
    BY <1>1, <1>2, SubSeqProperties
  <1>4. n - 1 + 1 = n /\ \A i \in Int : 1 + i - 1 = i
    BY <1>1
  <1>5. QED
    BY <1>1, <1>3, <1>4

LEMMA NonEmpty ==
    ASSUME NEW S, NEW s \in Seq(S)
    PROVE  s = <<>> <=> Len(s) = 0
  BY EmptySeq

\* The intervals below the numbers of a set are ordered like the numbers, and
\* finite sets are well-founded.
LEMMA Least ==
    ASSUME NEW T \in SUBSET Nat, T # {}
    PROVE  \E x \in T : \A y \in T : x <= y
  <1> DEFINE R == StrictSubsetOrdering(Nat)
             UpTo(n) == 1..n
             Intervals == {UpTo(n) : n \in T}
  <1>1. IsWellFoundedOn(R, FiniteSubsetsOf(Nat))
    BY FS_StrictSubsetOrderingWellFounded
  <1>2. Intervals \subseteq FiniteSubsetsOf(Nat) /\ Intervals # {}
    <2>1. ASSUME NEW n \in T
          PROVE  UpTo(n) \in FiniteSubsetsOf(Nat)
      <3>1. IsFiniteSet(UpTo(n))
        <4>1. 1 \in Int /\ n \in Int
          OBVIOUS
        <4>2. QED
          BY <4>1, FS_Interval
      <3>2. UpTo(n) \in SUBSET Nat
        OBVIOUS
      <3>3. QED
        BY <3>1, <3>2 DEF FiniteSubsetsOf
    <2>2. QED
      BY <2>1
  <1>3. PICK b \in Intervals : \A c \in Intervals : ~ (<<c, b>> \in R)
    <2> HIDE DEF R, Intervals
    <2>1. QED
      BY <1>1, <1>2, WFMin
  <1>4. PICK x \in T : b = UpTo(x)
    OBVIOUS
  <1>5. ASSUME NEW y \in T, y < x
        PROVE  FALSE
    <2>1. UpTo(y) \subseteq UpTo(x) /\ x \in UpTo(x) /\ x \notin UpTo(y)
      BY <1>5
    <2>2. UpTo(y) \in SUBSET Nat /\ UpTo(x) \in SUBSET Nat
      OBVIOUS
    <2>3. <<UpTo(y), UpTo(x)>> \in R
      BY <2>1, <2>2 DEF StrictSubsetOrdering
    <2>4. QED
      BY <1>3, <1>4, <2>3
  <1>6. \A y \in T : x <= y
    BY <1>5
  <1>7. QED
    BY <1>6

-----------------------------------------------------------------------------
(* The parser keeps its types.                                              *)

LEMMA LineTypes ==
    ASSUME NEW buf \in Seq(Token), NEW rq \in Request, rq.req = 0
    PROVE  LET p == ParseLine(buf, rq)
           IN  /\ p.code \in {"kOk", "kAgain", "kInvalid"} /\ p.buf \in Seq(Token)
               /\ p.rq \in Request
               /\ p.code = "kOk" => p.rq.st = "head" /\ p.rq.req \in 1..MaxSent
               /\ p.code # "kOk" => p.buf = buf /\ p.rq = rq
  <1> DEFINE ends == FirstOf(buf, EndsLine)
             k == CHOOSE e \in ends : TRUE
             p == ParseLine(buf, rq)
  <1>1. CASE ends = {}
    BY <1>1 DEF ParseLine, Result
  <1>2. CASE ends # {} /\ buf[k].part # "line"
    BY <1>2 DEF ParseLine, Result
  <1>3. CASE ends # {} /\ buf[k].part = "line"
    <2>1. k \in 1..Len(buf)
      BY <1>3 DEF FirstOf
    <2>2. k \in 0..Len(buf) /\ buf[k] \in Token
      BY <2>1
    <2>3. Drop(buf, k) \in Seq(Token)
      BY <2>2, DropFacts
    <2>4. p = Result("kOk", Drop(buf, k),
                     [st |-> "head", req |-> buf[k].req, headers |-> rq.headers])
      BY <1>3 DEF ParseLine
    <2>5. QED
      BY <2>2, <2>3, <2>4 DEF Result, Token, Request
  <1>4. QED
    BY <1>1, <1>2, <1>3

LEMMA HeadTypes ==
    ASSUME NEW buf \in Seq(Token), NEW rq \in Request
    PROVE  LET p == ParseHead(buf, rq)
           IN  /\ p.code \in {"kOk", "kAgain", "kInvalid"} /\ p.buf \in Seq(Token)
               /\ p.rq \in Request /\ p.rq.req = rq.req
               /\ p.code = "kOk" => p.rq.st = "body"
               /\ p.code # "kOk" => p.rq = rq
  <1> DEFINE firsts == FirstOf(buf, IsEmptyLine)
             k == CHOOSE e \in firsts : TRUE
             bad == {j \in 1..k-1 : buf[j].part \notin HeaderPart}
             l == CHOOSE j \in bad : \A i \in bad : j <= i
             p == ParseHead(buf, rq)
             found == \E j \in 1..Len(buf)-1 : EndsLine(buf[j]) /\ IsEmptyLine(buf[j + 1])
  <1>1. CASE ~found
    BY <1>1 DEF ParseHead, Result
  <1>2. CASE found
    <2>1. firsts # {}
      <3> DEFINE empty == {i \in 1..Len(buf) : IsEmptyLine(buf[i])}
      <3>1. PICK j \in 1..Len(buf)-1 : IsEmptyLine(buf[j + 1])
        BY <1>2
      <3>2. j + 1 \in empty
        BY <3>1
      <3>3. PICK m \in empty : \A i \in empty : m <= i
        <4>1. empty \subseteq Nat /\ empty # {}
          BY <3>2
        <4>2. QED
          BY <4>1, Least
      <3>4. m \in firsts
        BY <3>3 DEF FirstOf
      <3>5. QED
        BY <3>4
    <2>2. k \in 1..Len(buf)
      BY <2>1 DEF FirstOf
    <2>3. CASE bad # {}
      <3>1. PICK m \in bad : \A i \in bad : m <= i
        <4>1. bad \subseteq Nat
          BY <2>2
        <4>2. QED
          BY <2>3, <4>1, Least
      <3>2. l \in bad
        BY <3>1
      <3>3. l \in 0..Len(buf)
        BY <2>2, <3>2
      <3>4. Drop(buf, l) \in Seq(Token)
        BY <3>3, DropFacts
      <3>5. p = Result("kInvalid", Drop(buf, l), rq)
        BY <1>2, <2>3 DEF ParseHead
      <3>6. QED
        BY <3>4, <3>5 DEF Result
    <2>4. CASE bad = {}
      <3>1. k \in 0..Len(buf)
        BY <2>2
      <3>2. Drop(buf, k) \in Seq(Token)
        BY <3>1, DropFacts
      <3>3. {buf[j].part : j \in 1..k-1} \subseteq HeaderPart
        BY <2>4
      <3>4. p = Result("kOk", Drop(buf, k), [st |-> "body", req |-> rq.req,
                                             headers |-> {buf[j].part : j \in 1..k-1}])
        BY <1>2, <2>4 DEF ParseHead
      <3>5. QED
        BY SMTT(30), <3>2, <3>3, <3>4 DEF Result, Request
    <2>5. QED
      BY <2>3, <2>4
  <1>3. QED
    BY <1>1, <1>2

LEMMA BodyTypes ==
    ASSUME NEW buf \in Seq(Token), NEW rq \in Request
    PROVE  LET p == ParseBody(buf, rq)
           IN  /\ p.code \in {"kOk", "kAgain", "kTooLarge"} /\ p.buf \in Seq(Token)
               /\ p.rq = rq
  BY HeadTailProperties DEF ParseBody, Result

\* What a parse makes of any bytes.
LEMMA ParseTypes ==
    ASSUME NEW buf \in Seq(Token), NEW rq \in Request, Parser(rq)
    PROVE  LET p == Parse(buf, rq)
           IN  /\ p.code \in {"kOk", "kAgain", "kInvalid", "kTooLarge"}
               /\ p.buf \in Seq(Token) /\ p.rq \in Request /\ Parser(p.rq)
               /\ p.code = "kOk" => p.rq.req \in 1..MaxSent
               /\ p.rq.req = 0 => p.buf = buf
  <1> DEFINE p1 == IF rq.st = "line" THEN ParseLine(buf, rq) ELSE Result("kOk", buf, rq)
             p2 == IF p1.code = "kOk" /\ p1.rq.st = "head" THEN ParseHead(p1.buf, p1.rq) ELSE p1
             p == Parse(buf, rq)
  <1>1. /\ p1.code \in {"kOk", "kAgain", "kInvalid"} /\ p1.buf \in Seq(Token)
        /\ p1.rq \in Request /\ Parser(p1.rq)
        /\ p1.code = "kOk" => p1.rq.req \in 1..MaxSent
        /\ p1.rq.req = 0 => p1.buf = buf
    <2>1. CASE rq.st = "line"
      BY <2>1, LineTypes DEF Parser, Request
    <2>2. CASE rq.st # "line"
      BY <2>2 DEF Parser, Request, Result
    <2>3. QED
      BY <2>1, <2>2
  <1>2. /\ p2.code \in {"kOk", "kAgain", "kInvalid"} /\ p2.buf \in Seq(Token)
        /\ p2.rq \in Request /\ Parser(p2.rq)
        /\ p2.code = "kOk" => p2.rq.req \in 1..MaxSent
        /\ p2.rq.req = 0 => p2.buf = buf
    <2>1. CASE p1.code = "kOk" /\ p1.rq.st = "head"
      <3> HIDE DEF p1
      <3>1. p2 = ParseHead(p1.buf, p1.rq)
        BY <2>1
      <3>2. /\ p2.code \in {"kOk", "kAgain", "kInvalid"} /\ p2.buf \in Seq(Token)
            /\ p2.rq \in Request /\ p2.rq.req = p1.rq.req
            /\ p2.code = "kOk" => p2.rq.st = "body"
            /\ p2.code # "kOk" => p2.rq = p1.rq
        BY <1>1, <3>1, HeadTypes
      <3>3. QED
        BY <1>1, <2>1, <3>2 DEF Parser
    <2>2. CASE ~(p1.code = "kOk" /\ p1.rq.st = "head")
      BY <1>1, <2>2
    <2>3. QED
      BY <2>1, <2>2
  <1>3. p = IF p2.code = "kOk" THEN ParseBody(p2.buf, p2.rq) ELSE p2
    BY DEF Parse
  <1> HIDE DEF p1, p2, p
  <1>4. CASE p2.code = "kOk"
    <2>1. p = ParseBody(p2.buf, p2.rq)
      BY <1>3, <1>4
    <2>2. p.code \in {"kOk", "kAgain", "kTooLarge"} /\ p.buf \in Seq(Token) /\ p.rq = p2.rq
      BY <1>2, <2>1, BodyTypes
    <2>3. p.rq.req # 0
      BY <1>2, <1>4, <2>2
    <2>4. QED
      BY <1>2, <1>4, <2>2, <2>3 DEF p
  <1>5. CASE p2.code # "kOk"
    BY <1>2, <1>3, <1>5 DEF p
  <1>6. QED
    BY <1>4, <1>5

-----------------------------------------------------------------------------
(* TypeInv is inductive.                                                    *)

LEMMA PartsValues ==
    /\ DOMAIN Parts = {"get", "close", "post", "sql", "large", "badLine", "badHeader", "bare"}
    /\ Parts["get"] = <<"line", "header", "crlf">>
    /\ Parts["close"] = <<"line", "close", "crlf">>
    /\ Parts["post"] = <<"line", "length", "crlf", "body">>
    /\ Parts["sql"] = <<"line", "header", "crlf">>
    /\ Parts["large"] = <<"line", "large", "crlf", "body">>
    /\ Parts["badLine"] = <<"badLine", "header", "crlf">>
    /\ Parts["badHeader"] = <<"line", "badHeader", "crlf">>
    /\ Parts["bare"] = <<"line", "crlf">>
  BY DEF Parts

LEMMA PartsTypes == \A k \in DOMAIN Parts : Parts[k] \in Seq(Part)
  <1>1. /\ <<"line", "header", "crlf">> \in Seq(Part)
        /\ <<"line", "close", "crlf">> \in Seq(Part)
        /\ <<"line", "length", "crlf", "body">> \in Seq(Part)
        /\ <<"line", "large", "crlf", "body">> \in Seq(Part)
    BY DEF Part
  <1>2. /\ <<"badLine", "header", "crlf">> \in Seq(Part)
        /\ <<"line", "badHeader", "crlf">> \in Seq(Part)
        /\ <<"line", "crlf">> \in Seq(Part)
    BY DEF Part
  <1>3. QED
    BY <1>1, <1>2, PartsValues

LEMMA InitTypes == Init => TypeInv
  <1> SUFFICES ASSUME Init PROVE TypeInv
    OBVIOUS
  <1>1. /\ <<>> \in Seq(Kinds) /\ <<>> \in Seq(Token) /\ <<>> \in Seq(Response)
        /\ <<>> \in Seq(1..MaxSent) /\ Len(<<>>) = 0
    BY EmptySeq
  <1>2. Fresh \in Request /\ Parser(Fresh)
    BY DEF Fresh, Request, Parser, HeaderPart
  <1>3. Default \in [req : 0..MaxSent, status : {200, 500, 503}]
    BY DEF Default
  <1>4. TypeOK
    <2>1. maxServed \in 1..MaxServed /\ served = 0 /\ delivered = 0 /\ Len(accepted) = 0
      BY <1>1 DEF Init, Sql!Init
    <2>2. served \in Nat /\ served <= maxServed /\ delivered \in 0..Len(accepted)
      BY <2>1
    <2>3. select \in BOOLEAN /\ leftOver \in BOOLEAN /\ (leftOver => select)
      BY DEF Init
    <2>4. QED
      <3>1. /\ kinds = <<>> /\ stream = <<>> /\ peer = "open" /\ readBuffer = <<>> /\ inFlight = Fresh
            /\ pending = Default /\ writeBuffer = <<>> /\ wire = <<>> /\ maxServed \in 1..MaxServed
            /\ state = "kConnected" /\ closedBy = "nobody" /\ pc = "wait"
        BY DEF Init
      <3>2. /\ parseWaiting \in BOOLEAN /\ late \in BOOLEAN /\ keep \in BOOLEAN
            /\ recent \in BOOLEAN /\ writing \in BOOLEAN
        <4>1. parseWaiting = FALSE /\ late = FALSE /\ keep = FALSE /\ recent = TRUE /\ writing = FALSE
          BY DEF Init
        <4>2. QED
          BY <4>1, Zenon
      <3>3. QED
        BY <1>1, <1>2, <1>3, <2>2, <2>3, <3>1, <3>2 DEF TypeOK
  <1>5. Ends /\ Limit
    BY DEF Init, Ends, Limit
  <1>6. Jobs
    BY <1>1 DEF Init, Sql!Init, Jobs
  <1>7. QED
    BY <1>1, <1>2, <1>4, <1>5, <1>6 DEF TypeInv, Init

LEMMA SendTypes == TypeInv /\ Policy /\ Send => TypeInv'
  <1> SUFFICES ASSUME TypeInv, Policy, Send PROVE TypeInv'
    OBVIOUS
  <1> DEFINE tokens(k) == [i \in 1..Len(Parts[k]) |-> [req |-> Len(kinds) + 1, part |-> Parts[k][i]]]
  <1>1. PICK k \in Kinds : kinds' = Append(kinds, k) /\ stream' = stream \o tokens(k)
    BY DEF Send
  <1>2. kinds \in Seq(Kinds) /\ stream \in Seq(Token) /\ Len(kinds) < MaxSent
    BY DEF TypeInv, TypeOK, Send
  <1>3. kinds' \in Seq(Kinds) /\ Len(kinds') <= MaxSent
    <2>1. kinds' \in Seq(Kinds) /\ Len(kinds') = Len(kinds) + 1
      BY <1>1, <1>2, AppendProperties
    <2>2. QED
      BY <1>2, <2>1
  <1>4. tokens(k) \in Seq(Token)
    <2>1. Parts[k] \in Seq(Part)
      BY PartsTypes
    <2>2. Len(Parts[k]) \in Nat /\ \A i \in 1..Len(Parts[k]) : Parts[k][i] \in Part
      BY <2>1
    <2>3. Len(kinds) + 1 \in 1..MaxSent
      BY <1>2
    <2>4. \A i \in 1..Len(Parts[k]) : [req |-> Len(kinds) + 1, part |-> Parts[k][i]] \in Token
      BY <2>2, <2>3 DEF Token, Part
    <2>5. QED
      BY <2>2, <2>4
  <1>5. stream' \in Seq(Token)
    BY <1>1, <1>2, <1>4, ConcatProperties
  <1>6. UNCHANGED <<peer, parser, reply, wire, served, recent, closing, writing, leftOver, pc,
                    delivered, sql>> /\ UNCHANGED <<maxServed, select>>
    BY DEF Send, Policy
  <1>7. QED
    BY <1>3, <1>5, <1>6 DEF TypeInv, TypeOK, Ends, Limit, Jobs, parser, reply, closing, sql

\* What a read leaves alone, and what its parse is made of.
LEMMA ReceivedTypes ==
    ASSUME TypeInv, Policy, NEW n, Received(n)
    PROVE  LET p == Parsed(n)
           IN  /\ kinds' = kinds /\ peer' = peer /\ wire' = wire /\ served' = served
               /\ maxServed' = maxServed /\ state' = state /\ closedBy' = closedBy
               /\ select' = select /\ leftOver' = leftOver
               /\ delivered' = delivered /\ recent' \in BOOLEAN /\ pc' \in {"wait", "write"}
               /\ closedBy # "loop" /\ stream' \in Seq(Token)
               /\ p.code \in {"kOk", "kAgain", "kInvalid", "kTooLarge"}
               /\ p.buf \in Seq(Token) /\ p.rq \in Request /\ Parser(p.rq)
               /\ p.code = "kOk" => p.rq.req \in 1..MaxSent
               /\ Subject(p) \in 1..MaxSent
  <1> DEFINE p == Parsed(n)
             taken == SubSeq(stream, 1, n)
             buf == readBuffer \o taken
  <1>1. n \in 0..Len(stream) /\ stream # <<>> /\ stream \in Seq(Token) /\ readBuffer \in Seq(Token)
    BY DEF Received, TypeInv, TypeOK
  <1>2. taken \in Seq(Token) /\ Len(taken) = n
    BY <1>1, TakeFacts
  <1>3. buf \in Seq(Token) /\ Len(buf) = Len(readBuffer) + n
    BY <1>1, <1>2, ConcatProperties
  <1>4. stream' \in Seq(Token) /\ Len(stream') = Len(stream) - n
    BY <1>1, DropFacts DEF Received
  <1>5. /\ p.code \in {"kOk", "kAgain", "kInvalid", "kTooLarge"}
        /\ p.buf \in Seq(Token) /\ p.rq \in Request /\ Parser(p.rq)
        /\ p.code = "kOk" => p.rq.req \in 1..MaxSent
        /\ p.rq.req = 0 => p.buf = buf
    <2>1. inFlight \in Request /\ Parser(inFlight)
      BY DEF TypeInv, TypeOK
    <2> HIDE DEF buf
    <2>2. p = Parse(buf, inFlight)
      BY DEF Parsed, buf
    <2>3. QED
      BY <1>3, <2>1, <2>2, ParseTypes
  <1>6. Subject(p) \in 1..MaxSent
    <2> HIDE DEF p
    <2>1. CASE p.rq.req # 0
      BY <1>5, <2>1 DEF Subject, Request
    <2>2. CASE p.rq.req = 0
      <3> DEFINE all == p.buf \o stream'
      <3>1. all \in Seq(Token) /\ Len(all) = Len(p.buf) + Len(stream')
        BY <1>4, <1>5, ConcatProperties
      <3>2. Len(stream) > 0
        BY <1>1, NonEmpty
      <3>3. Len(p.buf) = Len(readBuffer) + n
        BY <1>3, <1>5, <2>2
      <3>4. Len(all) > 0
        BY <1>1, <1>4, <3>1, <3>2, <3>3
      <3>5. Head(all) \in Token
        BY <3>1, <3>4
      <3>6. QED
        BY <2>2, <3>5 DEF Subject, Token
    <2>3. QED
      BY <2>1, <2>2
  <1>7. QED
    BY <1>4, <1>5, <1>6 DEF Received, Waiting, SameEvent, closing, Policy

LEMMA AgainTypes == ASSUME NEW n, TypeInv, Policy, ReadAgain(n) PROVE TypeInv'
  <1> DEFINE p == Parsed(n)
  <1>1. Received(n)
    BY DEF ReadAgain
  <1>2. /\ kinds' = kinds /\ peer' = peer /\ wire' = wire /\ served' = served
        /\ maxServed' = maxServed /\ state' = state /\ closedBy' = closedBy
        /\ select' = select /\ leftOver' = leftOver
        /\ delivered' = delivered /\ recent' \in BOOLEAN /\ pc' \in {"wait", "write"}
        /\ closedBy # "loop" /\ stream' \in Seq(Token)
        /\ p.buf \in Seq(Token) /\ p.rq \in Request /\ Parser(p.rq)
        /\ Subject(p) \in 1..MaxSent
    BY <1>1, ReceivedTypes
  <1> HIDE DEF p
  <1>3. /\ readBuffer' = p.buf /\ inFlight' = p.rq /\ UNCHANGED <<keep, pending, sql>>
        /\ parseWaiting' = TRUE /\ late' = (parseWaiting /\ late)
        /\ \/ QueueSimple(408, Subject(p))
           \/ UNCHANGED <<writeBuffer, writing>>
    BY DEF ReadAgain, p
  <1>4. keep \in BOOLEAN /\ writeBuffer \in Seq(Response) /\ writing \in BOOLEAN
    BY DEF TypeInv, TypeOK
  <1>5. writeBuffer' \in Seq(Response) /\ writing' \in BOOLEAN
    <2>1. CASE QueueSimple(408, Subject(p))
      <3>1. [req |-> Subject(p), status |-> 408, keep |-> keep'] \in Response
        BY <1>2, <1>3, <1>4 DEF Response
      <3>2. QED
        BY <1>4, <2>1, <3>1, AppendProperties DEF QueueSimple
    <2>2. QED
      BY <1>3, <1>4, <2>1
  <1>6. parseWaiting' \in BOOLEAN /\ late' \in BOOLEAN
    BY <1>3 DEF TypeInv, TypeOK
  <1>7. QED
    BY <1>2, <1>3, <1>5, <1>6 DEF TypeInv, TypeOK, Ends, Limit, Jobs, Parser, sql

LEMMA InvalidTypes == ASSUME NEW n, TypeInv, Policy, ReadInvalid(n) PROVE TypeInv'
  <1> DEFINE p == Parsed(n)
             status == IF p.code = "kTooLarge" THEN 413 ELSE 400
  <1>1. Received(n)
    BY DEF ReadInvalid
  <1>2. /\ kinds' = kinds /\ peer' = peer /\ wire' = wire /\ served' = served
        /\ maxServed' = maxServed /\ state' = state /\ closedBy' = closedBy
        /\ select' = select /\ leftOver' = leftOver
        /\ delivered' = delivered /\ recent' \in BOOLEAN /\ pc' \in {"wait", "write"}
        /\ closedBy # "loop" /\ stream' \in Seq(Token)
        /\ p.buf \in Seq(Token) /\ Subject(p) \in 1..MaxSent
    BY <1>1, ReceivedTypes
  <1> HIDE DEF p
  <1>3. /\ readBuffer' = p.buf /\ inFlight' = Fresh /\ UNCHANGED <<pending, sql>>
        /\ parseWaiting' = FALSE /\ late' = FALSE /\ keep' = FALSE
        /\ QueueSimple(status, Subject(p))
    BY DEF ReadInvalid, p
  <1>4. [req |-> Subject(p), status |-> status, keep |-> keep'] \in Response
    <2>1. status \in {400, 413}
      OBVIOUS
    <2>2. keep' \in BOOLEAN
      BY <1>3, Zenon
    <2> HIDE DEF status
    <2>3. Subject(p) \in 0..MaxSent
      BY <1>2
    <2>4. \A r \in 0..MaxSent : \A c \in {400, 413} : \A b \in BOOLEAN :
             [req |-> r, status |-> c, keep |-> b] \in Response
      BY DEF Response
    <2>5. QED
      BY <2>1, <2>2, <2>3, <2>4
  <1>5. writeBuffer' \in Seq(Response) /\ writing' \in BOOLEAN
    BY <1>3, <1>4, AppendProperties DEF QueueSimple, TypeInv, TypeOK
  <1>6. Fresh \in Request /\ Parser(Fresh)
    BY DEF Fresh, Request, Parser, HeaderPart
  <1>7. QED
    <2>1. TypeOK'
      <3>1. parseWaiting' \in BOOLEAN /\ late' \in BOOLEAN /\ keep' \in BOOLEAN
        BY <1>3, Zenon
      <3>2. /\ readBuffer' = p.buf /\ inFlight' = Fresh
            /\ pending' = pending /\ accepted' = accepted
        BY <1>3 DEF sql
      <3>3. QED
        BY <1>2, <1>5, <1>6, <3>1, <3>2 DEF TypeInv, TypeOK
    <2>2. Ends' /\ Limit' /\ Jobs' /\ Parser(inFlight)' /\ Len(kinds') <= MaxSent
      BY <1>2, <1>3, <1>6 DEF TypeInv, TypeOK, Ends, Limit, Jobs, sql
    <2>3. QED
      BY <2>1, <2>2 DEF TypeInv

LEMMA CompleteTypes ==
    ASSUME NEW n, TypeInv, Policy, Complete(n, Parsed(n)),
           pending' \in [req : 0..MaxSent, status : {200, 500, 503}], writing' \in BOOLEAN,
           Jobs', delivered \in 0..Len(accepted')
    PROVE  TypeInv'
  <1> DEFINE p == Parsed(n)
  <1>1. Received(n)
    BY DEF Complete
  <1>2. /\ kinds' = kinds /\ peer' = peer /\ wire' = wire /\ served' = served
        /\ maxServed' = maxServed /\ state' = state /\ closedBy' = closedBy
        /\ select' = select /\ leftOver' = leftOver
        /\ delivered' = delivered /\ recent' \in BOOLEAN /\ pc' \in {"wait", "write"}
        /\ closedBy # "loop" /\ stream' \in Seq(Token) /\ p.buf \in Seq(Token)
    BY <1>1, ReceivedTypes
  <1> HIDE DEF p
  <1>3. /\ readBuffer' = p.buf /\ inFlight' = Fresh /\ UNCHANGED writeBuffer
        /\ parseWaiting' = FALSE /\ late' = FALSE
        /\ keep' = (KeepAlive /\ shouldKeepAlive(p.rq))
    BY DEF Complete, p
  <1>4. keep' \in BOOLEAN
    BY <1>3
  <1>5. Fresh \in Request /\ Parser(Fresh)
    BY DEF Fresh, Request, Parser, HeaderPart
  <1>6. QED
    <2>1. TypeOK'
      <3>1. parseWaiting' \in BOOLEAN /\ late' \in BOOLEAN
        <4>1. parseWaiting' = FALSE /\ late' = FALSE
          BY <1>3
        <4>2. QED
          BY <4>1, Zenon
      <3>2. readBuffer' = p.buf /\ inFlight' = Fresh /\ writeBuffer' = writeBuffer
        BY <1>3
      <3>3. QED
        BY <1>2, <1>4, <1>5, <3>1, <3>2 DEF TypeInv, TypeOK
    <2>2. Ends' /\ Limit' /\ Parser(inFlight)' /\ Len(kinds') <= MaxSent
      BY <1>2, <1>3, <1>5 DEF TypeInv, TypeOK, Ends, Limit
    <2>3. QED
      BY <2>1, <2>2 DEF TypeInv

LEMMA SyncTypes == ASSUME NEW n, TypeInv, Policy, ReadSync(n) PROVE TypeInv'
  <1> DEFINE p == Parsed(n)
  <1>1. Received(n) /\ Complete(n, p) /\ p.code = "kOk" /\ UNCHANGED sql /\ writing' = TRUE
    BY DEF ReadSync, Complete
  <1>2. p.rq.req \in 1..MaxSent /\ delivered' = delivered
    BY <1>1, ReceivedTypes
  <1>3. \/ pending' = [req |-> p.rq.req, status |-> 200]
        \/ pending' = [req |-> p.rq.req, status |-> 503]
    BY DEF ReadSync
  <1>4. pending' \in [req : 0..MaxSent, status : {200, 500, 503}]
    BY <1>2, <1>3
  <1>5. Jobs' /\ delivered \in 0..Len(accepted')
    BY <1>1, <1>2 DEF Jobs, TypeInv, TypeOK, sql
  <1>6. QED
    BY <1>1, <1>4, <1>5, CompleteTypes

LEMMA AsyncTypes == ASSUME NEW n, TypeInv, Policy, ReadAsync(n) PROVE TypeInv'
  <1> DEFINE p == Parsed(n)
  <1>1. Received(n) /\ Complete(n, p) /\ p.code = "kOk"
    BY DEF ReadAsync, Complete
  <1>2. p.rq.req \in 1..MaxSent /\ delivered' = delivered
    BY <1>1, ReceivedTypes
  <1>3. /\ pending' = Default /\ UNCHANGED <<writing, answered, open>>
        /\ accepted' = Append(accepted, p.rq.req)
    BY DEF ReadAsync, Sql!Submit
  <1>4. pending' \in [req : 0..MaxSent, status : {200, 500, 503}] /\ writing' \in BOOLEAN
    BY <1>3 DEF Default, TypeInv, TypeOK
  <1>5. accepted' \in Seq(1..MaxSent) /\ Len(accepted') = Len(accepted) + 1
    BY <1>2, <1>3, AppendProperties DEF TypeInv, Jobs
  <1>6. Jobs' /\ delivered \in 0..Len(accepted')
    <2>1. /\ answered' = answered /\ open' = open /\ delivered' = delivered
          /\ Len(accepted') = Len(accepted) + 1 /\ accepted' \in Seq(1..MaxSent)
      BY <1>2, <1>3, <1>5
    <2>2. /\ answered \in 0..Len(accepted) /\ open \in BOOLEAN /\ delivered <= answered
          /\ delivered \in 0..Len(accepted) /\ Len(accepted) \in Nat
      BY DEF Jobs, TypeInv, TypeOK
    <2>3. QED
      BY <2>1, <2>2 DEF Jobs
  <1>7. QED
    BY <1>1, <1>4, <1>6, CompleteTypes

LEMMA OutgoingTypes ==
    ASSUME TypeInv
    PROVE  Outgoing \in Seq(Response) /\ Len(Outgoing) > 0
  <1>1. CASE writeBuffer = <<>>
    <2>1. [req |-> pending.req, status |-> pending.status, keep |-> keep] \in Response
      BY DEF TypeInv, TypeOK, Response
    <2>2. QED
      BY <1>1, <2>1 DEF Outgoing
  <1>2. CASE writeBuffer # <<>>
    BY <1>2, NonEmpty DEF Outgoing, TypeInv, TypeOK
  <1>3. QED
    BY <1>1, <1>2

\* The write event.
LEMMA WriteTypes ==
    TypeInv /\ Policy /\ (WriteShort \/ WriteError \/ WriteAllKeep \/ WriteAllClose) => TypeInv'
  <1> SUFFICES ASSUME TypeInv, Policy, WriteShort \/ WriteError \/ WriteAllKeep \/ WriteAllClose
               PROVE  TypeInv'
    OBVIOUS
  <1>1. wire \in Seq(Response) /\ Outgoing \in Seq(Response) /\ Len(Outgoing) > 0
    BY OutgoingTypes DEF TypeInv, TypeOK
  <1>2. CASE WriteShort
    <2>1. PICK n \in 0..Len(Outgoing)-1 :
             wire' = wire \o SubSeq(Outgoing, 1, n) /\ writeBuffer' = Drop(Outgoing, n)
      BY <1>2 DEF WriteShort
    <2>2. n \in 0..Len(Outgoing)
      BY <1>1
    <2>3. SubSeq(Outgoing, 1, n) \in Seq(Response) /\ Drop(Outgoing, n) \in Seq(Response)
      BY <1>1, <2>2, TakeFacts, DropFacts
    <2>4. wire' \in Seq(Response) /\ writeBuffer' \in Seq(Response)
      BY <1>1, <2>1, <2>3, ConcatProperties
    <2>5. TypeOK'
      BY <1>2, <2>4
      DEF WriteShort, TypeInv, TypeOK, client, parser, closing, sql, Policy
    <2>6. Ends' /\ Limit' /\ Jobs' /\ Parser(inFlight)' /\ Len(kinds') <= MaxSent
      BY <1>2 DEF WriteShort, TypeInv, Ends, Limit, Jobs, client, parser, closing, sql, Policy
    <2>7. QED
      BY <2>5, <2>6 DEF TypeInv
  <1>3. CASE WriteError
    BY <1>1, <1>3
    DEF WriteError, CloseOwn, TypeInv, TypeOK, Ends, Limit, Jobs, client, parser, closing, sql, Policy
  <1>4. ASSUME WriteAll
        PROVE  wire' \in Seq(Response) /\ writeBuffer' \in Seq(Response)
    BY <1>1, <1>4, ConcatProperties, EmptySeq DEF WriteAll
  <1>5. CASE WriteAllKeep
    <2>1. wire' \in Seq(Response) /\ writeBuffer' \in Seq(Response)
      BY <1>4, <1>5 DEF WriteAllKeep
    <2>2. Default \in [req : 0..MaxSent, status : {200, 500, 503}]
      BY DEF Default
    <2>3. (served <= maxServed)' \/ (closedBy = "accept")'
      BY <1>5 DEF WriteAllKeep, WriteAll, WriteEvent, Waiting, CloseOwn, TypeInv, TypeOK, Ends,
                  Limit, closing, Policy
    <2>4. Ends' /\ Limit'
      BY <1>5 DEF WriteAllKeep, WriteAll, WriteEvent, Waiting, CloseOwn, TypeInv, TypeOK, Ends,
                  Limit, closing, Policy
    <2>5. served' \in Nat
      BY <1>5 DEF WriteAllKeep, TypeInv, TypeOK
    <2>6. TypeOK'
      <3>1. /\ UNCHANGED <<kinds, stream, peer, readBuffer, inFlight, parseWaiting, late, delivered,
                           accepted, maxServed>>
            /\ pending' = Default /\ pc' = "wait"
        BY <1>5 DEF WriteAllKeep, WriteAll, client, parser, sql, Policy
      <3>2. /\ state' \in {"kConnected", "kDisconnecting", "kDisconnected"}
            /\ closedBy' \in {"nobody", "loop", "accept"} /\ writing' \in BOOLEAN
        <4>1. /\ state \in {"kConnected", "kDisconnecting", "kDisconnected"}
              /\ closedBy \in {"nobody", "loop", "accept"} /\ writing \in BOOLEAN
          BY DEF TypeInv, TypeOK
        <4>2. \/ CloseOwn /\ UNCHANGED writing
              \/ writing' = FALSE /\ UNCHANGED closing
          BY <1>5 DEF WriteAllKeep
        <4>3. CASE CloseOwn /\ UNCHANGED writing
          BY <4>1, <4>3 DEF CloseOwn, closing
        <4>4. CASE writing' = FALSE /\ UNCHANGED closing
          <5>1. writing' \in BOOLEAN
            BY <4>4, Zenon
          <5>2. QED
            BY <4>1, <4>4, <5>1 DEF closing
        <4>5. QED
          BY <4>2, <4>3, <4>4
      <3>3. keep' \in BOOLEAN /\ recent' \in BOOLEAN
        <4>1. keep' = FALSE /\ recent' = TRUE
          BY <1>5 DEF WriteAllKeep, WriteAll
        <4>2. QED
          BY <4>1, Zenon
      <3>4. select' \in BOOLEAN /\ leftOver' \in BOOLEAN /\ (leftOver' => select')
        <4>1. select' = select /\ (leftOver' = leftOver \/ leftOver' = select)
          BY <1>5 DEF WriteAllKeep, Policy
        <4>2. select \in BOOLEAN /\ leftOver \in BOOLEAN /\ (leftOver => select)
          BY DEF TypeInv, TypeOK
        <4>3. QED
          BY <4>1, <4>2
      <3>5. QED
        BY <2>1, <2>2, <2>3, <2>5, <3>1, <3>2, <3>3, <3>4 DEF TypeInv, TypeOK
    <2>7. Jobs' /\ Parser(inFlight)' /\ Len(kinds') <= MaxSent
      BY <1>5 DEF WriteAllKeep, WriteAll, TypeInv, Jobs, client, parser, sql
    <2>8. QED
      BY <2>4, <2>6, <2>7 DEF TypeInv
  <1>6. CASE WriteAllClose
    <2>1. wire' \in Seq(Response) /\ writeBuffer' \in Seq(Response)
      BY <1>4, <1>6 DEF WriteAllClose
    <2>2. QED
      BY <1>6, <2>1
      DEF WriteAllClose, WriteAll, CloseOwn, TypeInv, TypeOK, Ends, Limit, Jobs, client, parser,
          closing, sql, Policy
  <1>7. QED
    BY <1>2, <1>3, <1>5, <1>6

LEMMA ResultTypes == TypeInv /\ Policy /\ AsyncResult => TypeInv'
  <1> SUFFICES ASSUME TypeInv, Policy, AsyncResult PROVE TypeInv'
    OBVIOUS
  <1> DEFINE n == Len(accepted)
  <1>1. accepted \in Seq(1..MaxSent) /\ delivered + 1 \in 1..Len(accepted) /\ delivered + 1 <= answered
    <2>1. accepted \in Seq(1..MaxSent) /\ answered \in 0..n /\ delivered \in 0..n
      BY DEF TypeInv, TypeOK, Jobs
    <2>2. delivered < answered
      BY DEF AsyncResult
    <2>3. n \in Nat
      BY <2>1
    <2> HIDE DEF n
    <2>4. delivered + 1 \in 1..n /\ delivered + 1 <= answered
      BY <2>1, <2>2, <2>3
    <2>5. QED
      BY <2>1, <2>4 DEF n
  <1>2. accepted[delivered + 1] \in 1..MaxSent
    BY <1>1
  <1>3. pending' \in [req : 0..MaxSent, status : {200, 500, 503}] /\ writing' \in BOOLEAN
    <2>1. CASE state = "kConnected"
      <3>1. PICK status \in {200, 500} :
               pending' = [req |-> accepted[delivered + 1], status |-> status] /\ writing' = TRUE
        BY <2>1 DEF AsyncResult
      <3>2. QED
        BY <1>2, <3>1
    <2>2. CASE state # "kConnected"
      BY <2>2 DEF AsyncResult, TypeInv, TypeOK
    <2>3. QED
      BY <2>1, <2>2
  <1>4. QED
    BY <1>1, <1>3
    DEF AsyncResult, TypeInv, TypeOK, Ends, Limit, Jobs, client, parser, closing, sql, Policy

\* The steps that only move flags.
LEMMA OtherTypes ==
    TypeInv /\ Policy /\ (\/ ClientClose \/ ReadEnd \/ ActiveError \/ Remove \/ IdleClose
                          \/ Executor \/ Quiet \/ Late)
        => TypeInv'
  <1> SUFFICES ASSUME TypeInv, Policy,
                      \/ ClientClose \/ ReadEnd \/ ActiveError \/ Remove \/ IdleClose
                      \/ Executor \/ Quiet \/ Late
               PROVE  TypeInv'
    OBVIOUS
  <1>1. CASE ClientClose
    BY <1>1 DEF ClientClose, TypeInv, TypeOK, Ends, Limit, Jobs, parser, reply, closing, sql, Policy
  <1>2. CASE ReadEnd
    BY <1>2 DEF ReadEnd, Waiting, SameEvent, CloseOwn, TypeInv, TypeOK, Ends, Limit, Jobs, client,
                parser, reply, closing, sql, Policy
  <1>3. CASE Remove
    <2>1. TypeOK'
      <3>1. /\ UNCHANGED <<kinds, stream, peer, readBuffer, inFlight, parseWaiting, late, keep, pending,
                           writeBuffer, wire, maxServed, served, recent, closedBy, select, leftOver,
                           delivered, accepted>>
            /\ state' = "kDisconnected" /\ pc' = "wait"
        BY <1>3 DEF Remove, client, parser, reply, sql, Policy
      <3>2. writing' \in BOOLEAN
        <4>1. writing' = FALSE
          BY <1>3 DEF Remove
        <4>2. QED
          BY <4>1, Zenon
      <3>3. QED
        BY <3>1, <3>2 DEF TypeInv, TypeOK
    <2>2. Ends' /\ Limit' /\ Jobs' /\ Parser(inFlight)' /\ Len(kinds') <= MaxSent
      BY <1>3 DEF Remove, TypeInv, TypeOK, Ends, Limit, Jobs, client, parser, reply, sql, Policy
    <2>3. QED
      BY <2>1, <2>2 DEF TypeInv
  <1>4. CASE IdleClose
    BY <1>4 DEF IdleClose, TypeInv, TypeOK, Ends, Limit, Jobs, client, parser, reply, sql, Policy
  <1>5. CASE Executor
    <2>1. TypeOK'
      BY <1>5 DEF Executor, Sql!Answer, Sql!Close, TypeInv, TypeOK, client, parser, reply,
                  closing, Policy
    <2>2. UNCHANGED <<kinds, inFlight, state, closedBy, served, maxServed, pc, delivered, accepted>>
      BY <1>5 DEF Executor, Sql!Answer, Sql!Close, client, parser, closing, Policy
    <2>3. Ends' /\ Limit' /\ Parser(inFlight)' /\ Len(kinds') <= MaxSent
      BY <2>2 DEF TypeInv, Ends, Limit
    <2>4. answered' \in answered..Len(accepted) /\ open' \in BOOLEAN
      <3>1. answered \in 0..Len(accepted) /\ open \in BOOLEAN
        BY DEF TypeInv, Jobs
      <3>2. CASE Sql!Answer
        BY <3>1, <3>2 DEF Sql!Answer
      <3>3. CASE Sql!Close
        <4>1. UNCHANGED <<accepted, answered>>
          BY <3>3 DEF Sql!Close
        <4>2. open' \in BOOLEAN
          BY <3>3, Zenon DEF Sql!Close
        <4>3. QED
          BY <3>1, <4>1, <4>2
      <3>4. QED
        BY <1>5, <3>2, <3>3 DEF Executor
    <2>5. Jobs'
      BY <2>2, <2>4 DEF TypeInv, TypeOK, Jobs
    <2>6. QED
      BY <2>1, <2>3, <2>5 DEF TypeInv
  <1>6. CASE Quiet
    <2>1. TypeOK'
      <3>1. /\ UNCHANGED <<kinds, stream, peer, readBuffer, inFlight, parseWaiting, late, keep, pending,
                           writeBuffer, wire, maxServed, served, state, closedBy, select, writing, leftOver,
                           pc, delivered, accepted>>
            /\ recent' \in BOOLEAN
        BY <1>6 DEF Quiet, client, parser, reply, closing, sql, Policy
      <3>2. QED
        BY <3>1 DEF TypeInv, TypeOK
    <2>2. Ends' /\ Limit' /\ Jobs' /\ Parser(inFlight)' /\ Len(kinds') <= MaxSent
      BY <1>6 DEF Quiet, TypeInv, TypeOK, Ends, Limit, Jobs, client, parser, reply, closing, sql, Policy
    <2>3. QED
      BY <2>1, <2>2 DEF TypeInv
  <1>7. CASE Late
    BY <1>7 DEF Late, TypeInv, TypeOK, Ends, Limit, Jobs, client, reply, closing, sql, Policy
  <1>8. CASE ActiveError
    <2>1. TypeOK'
      <3>1. /\ UNCHANGED <<kinds, stream, peer, readBuffer, inFlight, parseWaiting, late, keep, pending,
                           writeBuffer, wire, maxServed, served, recent, select, leftOver, pc,
                           delivered, accepted>>
            /\ state' = "kDisconnected" /\ closedBy' \in {"loop", closedBy}
            /\ closedBy = "accept" => closedBy' = "accept"
        BY <1>8 DEF ActiveError, TypeInv, Ends, client, parser, reply, sql, Policy
      <3>2. writing' \in BOOLEAN
        <4>1. writing' = FALSE
          BY <1>8 DEF ActiveError
        <4>2. QED
          BY <4>1, Zenon
      <3>3. QED
        BY <3>1, <3>2 DEF TypeInv, TypeOK
    <2>2. Ends' /\ Limit' /\ Jobs' /\ Parser(inFlight)' /\ Len(kinds') <= MaxSent
      BY <1>8 DEF ActiveError, Waiting, TypeInv, TypeOK, Ends, Limit, Jobs, client, parser, reply,
                  sql, Policy
    <2>3. QED
      BY <2>1, <2>2 DEF TypeInv
  <1>9. QED
    BY <1>1, <1>2, <1>3, <1>4, <1>5, <1>6, <1>7, <1>8

LEMMA TypeStep == TypeInv /\ [Next]_vars => TypeInv'
  <1> SUFFICES ASSUME TypeInv, [Next]_vars PROVE TypeInv'
    OBVIOUS
  <1>1. CASE UNCHANGED vars
    BY <1>1 DEF vars, TypeInv, TypeOK, Ends, Limit, Jobs, Parser
  <1>2. ASSUME Policy, NEW n, Read(n)
        PROVE  TypeInv'
    BY <1>2, AgainTypes, InvalidTypes, SyncTypes, AsyncTypes DEF Read
  <1>3. CASE Next
    <2>1. CASE Policy /\ Loop
      BY <2>1, <1>2, WriteTypes, ResultTypes, OtherTypes DEF Loop
    <2>2. QED
      BY <1>3, <2>1, SendTypes, AgainTypes, WriteTypes, OtherTypes DEF Next
  <1>4. QED
    BY <1>1, <1>3

\* Every variable keeps its type, whatever the client sends and however its
\* bytes are cut (TcpConnection.cpp:210-312, 376-503).
THEOREM TypeCorrect == Spec => []TypeOK
  <1>1. Init => TypeInv
    BY InitTypes
  <1>2. TypeInv /\ [Next]_vars => TypeInv'
    BY TypeStep
  <1>3. TypeInv => TypeOK
    BY DEF TypeInv
  <1>4. QED
    BY <1>1, <1>2, <1>3, PTL DEF Spec

-----------------------------------------------------------------------------
(* How far the parser is with the last request.                             *)

N == Len(kinds)
Asked == Parts[kinds[N]]

\* b and then s are what follows the first c parts of the last request.
After(c, b, s) ==
    /\ Len(b) + Len(s) + c = Len(Asked)
    /\ \A i \in 1..Len(b) : b[i].req = N /\ b[i].part = Asked[i + c]
    /\ \A i \in 1..Len(s) : s[i].req = N /\ s[i].part = Asked[i + c + Len(b)]

Untouched(rq, b, s) == rq = Fresh /\ b = <<>> /\ After(0, b, s)
InHead(rq, b, s) ==
    /\ rq = [st |-> "head", req |-> N, headers |-> {}]
    /\ Asked[1] = "line" /\ After(1, b, s) /\ Len(b) <= 1
InBody(rq, b, s) ==
    /\ rq = [st |-> "body", req |-> N, headers |-> {Asked[2]}]
    /\ Asked[2] = "length" /\ b = <<>> /\ After(3, b, s)
Cut(rq, b, s) == Untouched(rq, b, s) \/ InHead(rq, b, s) \/ InBody(rq, b, s)

\* What the parser does not get past any more.
Left(b, s) ==
    /\ \A i \in 1..Len(b) : b[i].req = N /\ b[i].part # "line"
    /\ \A i \in 1..Len(s) : s[i].req = N /\ s[i].part # "line"

\* What a parse of a part of the last request comes to, with s left unread.
Outcome(p, s) ==
    /\ p.code = "kAgain" => Cut(p.rq, p.buf, s)
    /\ p.code \in {"kInvalid", "kTooLarge"} => Left(p.buf, s)
    /\ p.code = "kOk" => p.buf = <<>> /\ s = <<>>
    /\ p.rq.req = N \/ (p.rq.req = 0 /\ p.code # "kOk")

\* The shape of the parts of any request.
Shape(parts) ==
    /\ Len(parts) \in {2, 3, 4}
    /\ parts[1] \in {"line", "badLine"}
    /\ \A i \in 2..Len(parts) : parts[i] # "line"
    /\ Len(parts) >= 3 => parts[2] \notin {"crlf", "body"} /\ parts[3] = "crlf"
    /\ Len(parts) = 4 => parts[2] \in {"large", "length"}
    /\ Len(parts) = 3 => parts[2] \notin {"large", "length"}

LEMMA PartsFacts ==
    ASSUME NEW k \in DOMAIN Parts
    PROVE  Shape(Parts[k]) /\ (k # "bare" => Len(Parts[k]) >= 3)
  <1>1. Shape(<<"line", "header", "crlf">>) /\ Shape(<<"line", "close", "crlf">>)
    BY DEF Shape
  <1>2. Shape(<<"line", "length", "crlf", "body">>) /\ Shape(<<"line", "large", "crlf", "body">>)
    BY DEF Shape
  <1>3. Shape(<<"badLine", "header", "crlf">>) /\ Shape(<<"line", "badHeader", "crlf">>)
    BY DEF Shape
  <1>4. Shape(<<"line", "crlf">>)
    BY DEF Shape
  <1>5. Shape(Parts[k])
    BY <1>1, <1>2, <1>3, <1>4, PartsValues
  <1>6. ASSUME k # "bare" PROVE Len(Parts[k]) >= 3
    <2>1. /\ Len(<<"line", "header", "crlf">>) = 3 /\ Len(<<"line", "close", "crlf">>) = 3
          /\ Len(<<"badLine", "header", "crlf">>) = 3 /\ Len(<<"line", "badHeader", "crlf">>) = 3
      OBVIOUS
    <2>2. /\ Len(<<"line", "length", "crlf", "body">>) = 4
          /\ Len(<<"line", "large", "crlf", "body">>) = 4
      OBVIOUS
    <2>3. Len(Parts[k]) \in {3, 4}
      BY <1>6, <2>1, <2>2, PartsValues
    <2>4. \A l \in {3, 4} : l >= 3
      OBVIOUS
    <2>5. QED
      BY <2>3, <2>4
  <1>7. QED
    BY <1>5, <1>6

LEMMA AskedFacts ==
    ASSUME kinds \in Seq(Kinds), N > 0
    PROVE  /\ Len(Asked) \in {2, 3, 4} /\ kinds[N] \in DOMAIN Parts
           /\ Asked[1] \in {"line", "badLine"}
           /\ \A i \in 2..Len(Asked) : Asked[i] # "line"
           /\ Len(Asked) >= 3 => Asked[2] \notin {"crlf", "body"} /\ Asked[3] = "crlf"
           /\ Len(Asked) = 4 => Asked[2] \in {"large", "length"}
           /\ Len(Asked) = 3 => Asked[2] \notin {"large", "length"}
           /\ kinds[N] # "bare" => Len(Asked) >= 3
  <1>1. Len(kinds) \in Nat /\ Len(kinds) \in 1..Len(kinds)
    BY DEF N
  <1>2. kinds[N] \in DOMAIN Parts
    BY <1>1 DEF N
  <1>3. Shape(Asked) /\ (kinds[N] # "bare" => Len(Asked) >= 3)
    BY <1>2, PartsFacts DEF Asked
  <1>4. QED
    BY <1>2, <1>3 DEF Shape

\* A read moves the cut, the parser the beginning.
LEMMA Shift ==
    ASSUME NEW b \in Seq(Token), NEW s \in Seq(Token), NEW c \in Nat, NEW n \in 0..Len(s),
           After(c, b, s)
    PROVE  After(c, b \o SubSeq(s, 1, n), Drop(s, n))
  <1> DEFINE t == SubSeq(s, 1, n)
             d == Drop(s, n)
             bt == b \o t
  <1>1. t \in Seq(Token) /\ Len(t) = n /\ \A i \in 1..n : t[i] = s[i]
    BY TakeFacts
  <1>2. Len(d) = Len(s) - n /\ \A i \in 1..Len(s) - n : d[i] = s[i + n]
    BY DropFacts
  <1> HIDE DEF t, d
  <1>3. /\ Len(bt) = Len(b) + n
        /\ \A i \in 1..Len(b) + n : bt[i] = IF i <= Len(b) THEN b[i] ELSE t[i - Len(b)]
    BY <1>1, ConcatProperties
  <1> HIDE DEF bt
  <1>4. Len(b) \in Nat /\ Len(s) \in Nat /\ Len(b) + Len(s) + c = Len(Asked)
    BY DEF After
  <1>9. \A i \in 1..Len(b) : b[i].req = N /\ b[i].part = Asked[i + c]
    BY DEF After
  <1>5. Len(bt) + Len(d) + c = Len(Asked)
    <2>1. (Len(b) + n) + (Len(s) - n) + c = Len(b) + Len(s) + c
      BY <1>4
    <2>2. QED
      BY <1>2, <1>3, <1>4, <2>1
  <1>6. ASSUME NEW i \in 1..Len(bt)
        PROVE  bt[i].req = N /\ bt[i].part = Asked[i + c]
    <2>1. CASE i <= Len(b)
      <3>1. i \in 1..Len(b) /\ bt[i] = b[i]
        BY <1>3, <1>4, <2>1
      <3>2. QED
        BY <1>9, <3>1
    <2>2. CASE i > Len(b)
      <3>1. i - Len(b) \in 1..n /\ i - Len(b) \in 1..Len(s)
        BY <1>3, <1>4, <2>2
      <3>2. bt[i] = s[i - Len(b)]
        BY <1>1, <1>3, <1>4, <2>2, <3>1
      <3>3. (i - Len(b)) + c + Len(b) = i + c
        BY <1>4
      <3>4. QED
        BY <3>1, <3>2, <3>3 DEF After
    <2>3. i <= Len(b) \/ i > Len(b)
      BY <1>3, <1>4
    <2>4. QED
      BY <2>1, <2>2, <2>3
  <1>7. ASSUME NEW i \in 1..Len(d)
        PROVE  d[i].req = N /\ d[i].part = Asked[i + c + Len(bt)]
    <2>1. i + n \in 1..Len(s) /\ d[i] = s[i + n]
      BY <1>2, <1>4
    <2>2. (i + n) + c + Len(b) = i + c + Len(bt)
      BY <1>3, <1>4
    <2>3. QED
      BY <2>1, <2>2 DEF After
  <1>8. QED
    BY <1>5, <1>6, <1>7 DEF After, bt, d, t

LEMMA Skip ==
    ASSUME NEW b \in Seq(Token), NEW s \in Seq(Token), NEW c \in Nat, NEW j \in 0..Len(b),
           After(c, b, s)
    PROVE  After(c + j, Drop(b, j), s)
  <1> DEFINE d == Drop(b, j)
  <1>1. Len(d) = Len(b) - j /\ \A i \in 1..Len(b) - j : d[i] = b[i + j]
    BY DropFacts
  <1> HIDE DEF d
  <1>2. Len(b) \in Nat /\ Len(s) \in Nat /\ Len(b) + Len(s) + c = Len(Asked)
    BY DEF After
  <1>3. Len(d) + Len(s) + (c + j) = Len(Asked)
    <2>1. (Len(b) - j) + Len(s) + (c + j) = Len(b) + Len(s) + c
      BY <1>2
    <2>2. QED
      BY <1>1, <1>2, <2>1
  <1>4. ASSUME NEW i \in 1..Len(d)
        PROVE  d[i].req = N /\ d[i].part = Asked[i + (c + j)]
    <2>1. i + j \in 1..Len(b) /\ d[i] = b[i + j] /\ (i + j) + c = i + (c + j)
      <3>1. i \in 1..Len(b) - j
        BY <1>1
      <3>2. d[i] = b[i + j]
        BY <1>1, <3>1
      <3>3. i + j \in 1..Len(b) /\ (i + j) + c = i + (c + j)
        BY <1>2, <3>1
      <3>4. QED
        BY <3>2, <3>3
    <2>2. QED
      BY <2>1 DEF After
  <1>5. ASSUME NEW i \in 1..Len(s)
        PROVE  s[i].req = N /\ s[i].part = Asked[i + (c + j) + Len(d)]
    <2>1. i + (c + j) + Len(d) = i + c + Len(b)
      BY <1>1, <1>2
    <2>2. QED
      BY <2>1 DEF After
  <1>6. QED
    BY <1>3, <1>4, <1>5 DEF After, d

\* What follows the request line holds no other.
LEMMA AfterLine ==
    ASSUME NEW b \in Seq(Token), NEW s \in Seq(Token), NEW c \in Nat \ {0},
           kinds \in Seq(Kinds), N > 0, After(c, b, s)
    PROVE  Left(b, s)
  <1>1. Len(b) \in Nat /\ Len(s) \in Nat /\ Len(Asked) \in Nat
    BY AskedFacts
  <1>2. ASSUME NEW i \in 1..Len(b)
        PROVE  b[i].req = N /\ b[i].part # "line"
    <2>1. i + c \in 2..Len(Asked)
      BY <1>1 DEF After
    <2>2. QED
      BY <2>1, AskedFacts DEF After
  <1>3. ASSUME NEW i \in 1..Len(s)
        PROVE  s[i].req = N /\ s[i].part # "line"
    <2>1. i + c + Len(b) \in 2..Len(Asked)
      BY <1>1 DEF After
    <2>2. QED
      BY <2>1, AskedFacts DEF After
  <1>4. QED
    BY <1>2, <1>3 DEF Left

LEMMA BodyStage ==
    ASSUME NEW b \in Seq(Token), NEW s \in Seq(Token), kinds \in Seq(Kinds), N > 0,
           After(3, b, s), Asked[2] \in HeaderPart
    PROVE  Outcome(ParseBody(b, [st |-> "body", req |-> N, headers |-> {Asked[2]}]), s)
  <1> DEFINE rq == [st |-> "body", req |-> N, headers |-> {Asked[2]}]
             p == ParseBody(b, rq)
  <1>1. Len(b) \in Nat /\ Len(s) \in Nat /\ Len(b) + Len(s) + 3 = Len(Asked)
    BY DEF After
  <1>2. \A part : findHeader(rq, part) <=> part = Asked[2]
    BY DEF findHeader
  <1>3. rq.req = N
    OBVIOUS
  <1> HIDE DEF rq
  <1>4. CASE Asked[2] = "large"
    <2>1. p = Result("kTooLarge", b, rq)
      BY <1>2, <1>4 DEF ParseBody
    <2>2. Left(b, s)
      BY AfterLine
    <2>3. p.code = "kTooLarge" /\ p.buf = b /\ p.rq = rq
      BY <2>1 DEF Result
    <2> HIDE DEF p
    <2>4. QED
      BY <1>3, <2>2, <2>3 DEF Outcome, p, rq
  <1>5. CASE Asked[2] \notin {"large", "length"}
    <2>1. p = Result("kOk", b, rq)
      BY <1>2, <1>5 DEF ParseBody
    <2>2. Len(b) = 0 /\ Len(s) = 0
      BY <1>1, <1>5, AskedFacts
    <2>3. b = <<>> /\ s = <<>>
      BY <2>2, NonEmpty
    <2>4. p.code = "kOk" /\ p.buf = b /\ p.rq = rq
      BY <2>1 DEF Result
    <2> HIDE DEF p
    <2>5. QED
      BY <1>3, <2>3, <2>4 DEF Outcome, p, rq
  <1>6. CASE Asked[2] = "length" /\ b = <<>>
    <2>1. p = Result("kAgain", b, rq)
      BY <1>2, <1>6 DEF ParseBody
    <2>2. Cut(rq, b, s)
      BY <1>6 DEF Cut, InBody, rq
    <2>3. p.code = "kAgain" /\ p.buf = b /\ p.rq = rq
      BY <2>1 DEF Result
    <2> HIDE DEF p
    <2>4. QED
      BY <1>3, <2>2, <2>3 DEF Outcome, p, rq
  <1>7. CASE Asked[2] = "length" /\ b # <<>>
    <2>1. p = Result("kOk", Tail(b), rq)
      BY <1>2, <1>7 DEF ParseBody
    <2>2. Len(b) = 1 /\ Len(s) = 0
      <3>1. Len(b) # 0
        BY <1>7, NonEmpty
      <3>2. Len(Asked) \in {2, 3, 4}
        BY AskedFacts
      <3>3. QED
        <4>1. \A l, m \in Nat : l # 0 /\ l + m + 3 \in {2, 3, 4} => l = 1 /\ m = 0
          OBVIOUS
        <4>2. Len(b) + Len(s) + 3 \in {2, 3, 4}
          BY <1>1, <3>2
        <4>3. QED
          BY <1>1, <3>1, <4>1, <4>2
    <2>3. Tail(b) \in Seq(Token) /\ Len(Tail(b)) = 0
      BY <1>7, <2>2, HeadTailProperties
    <2>4. Tail(b) = <<>> /\ s = <<>>
      BY <2>2, <2>3, NonEmpty
    <2>5. p.code = "kOk" /\ p.buf = <<>> /\ p.rq = rq
      BY <2>1, <2>4 DEF Result
    <2> HIDE DEF p
    <2>6. QED
      BY <1>3, <2>4, <2>5 DEF Outcome, p, rq
  <1>8. QED
    BY <1>4, <1>5, <1>6, <1>7

LEMMA HeadStage ==
    ASSUME NEW b \in Seq(Token), NEW s \in Seq(Token), kinds \in Seq(Kinds), N > 0,
           After(1, b, s), Asked[1] = "line"
    PROVE  Outcome(Parse(b, [st |-> "head", req |-> N, headers |-> {}]), s)
  <1> DEFINE rq == [st |-> "head", req |-> N, headers |-> {}]
             h == ParseHead(b, rq)
             p == Parse(b, rq)
             firsts == FirstOf(b, IsEmptyLine)
             k == CHOOSE e \in firsts : TRUE
             bad == {j \in 1..k-1 : b[j].part \notin HeaderPart}
             found == \E j \in 1..Len(b)-1 : EndsLine(b[j]) /\ IsEmptyLine(b[j + 1])
  <1>1. Len(b) \in Nat /\ Len(s) \in Nat /\ Len(b) + Len(s) + 1 = Len(Asked)
    BY DEF After
  <1>2. p = IF h.code = "kOk" THEN ParseBody(h.buf, h.rq) ELSE h
    BY DEF Parse, Result
  <1>3. rq.req = N
    OBVIOUS
  <1>4. CASE Len(b) <= 1
    <2>1. ~found
      BY <1>1, <1>4
    <2>2. h = Result("kAgain", b, rq)
      BY <2>1 DEF ParseHead
    <2>3. p = h
      BY <1>2, <2>2 DEF Result
    <2>4. Cut(rq, b, s)
      BY <1>4 DEF Cut, InHead
    <2> HIDE DEF rq, p, h
    <2>5. p.code = "kAgain" /\ p.buf = b /\ p.rq = rq
      BY <2>2, <2>3 DEF Result
    <2>6. QED
      BY <1>3, <2>4, <2>5 DEF Outcome, rq, p
  <1>5. CASE Len(b) >= 2
    <2>1. b[1].part = Asked[2] /\ b[2].part = Asked[3] /\ Len(Asked) >= 3
      BY <1>1, <1>5 DEF After
    <2>2. Asked[2] \notin {"crlf", "body"} /\ Asked[3] = "crlf"
      BY <2>1, AskedFacts
    <2>3. found
      BY <1>1, <1>5, <2>1, <2>2 DEF EndsLine, IsEmptyLine
    <2>4. firsts = {2}
      <3>1. 2 \in firsts
        BY <1>1, <1>5, <2>1, <2>2 DEF FirstOf, IsEmptyLine
      <3>2. ASSUME NEW e \in firsts
            PROVE  e = 2
        <4>1. e \in 1..Len(b) /\ IsEmptyLine(b[e]) /\ \A j \in 1..e-1 : ~IsEmptyLine(b[j])
          BY DEF FirstOf
        <4>2. e # 1
          BY <4>1, <2>1, <2>2 DEF IsEmptyLine
        <4>3. ~ (2 \in 1..e-1)
          BY <4>1, <2>1, <2>2 DEF IsEmptyLine
        <4>4. QED
          BY <1>1, <4>1, <4>2, <4>3
      <3>3. QED
        BY <3>1, <3>2
    <2>5. k = 2
      BY <2>4
    <2> HIDE DEF firsts, k
    <2>6. CASE Asked[2] \notin HeaderPart
      <3>1. bad = {1}
        BY <2>1, <2>5, <2>6
      <3>2. (CHOOSE j \in bad : \A i \in bad : j <= i) = 1
        BY <3>1
      <3>3. h = Result("kInvalid", Drop(b, 1), rq)
        BY <2>3, <3>1, <3>2 DEF ParseHead, firsts, k
      <3>4. p = h
        BY <1>2, <3>3 DEF Result
      <3>5. Drop(b, 1) \in Seq(Token) /\ After(2, Drop(b, 1), s)
        <4>1. 1 \in 0..Len(b) /\ 1 + 1 = 2
          BY <1>1, <1>5
        <4>2. QED
          BY <4>1, DropFacts, Skip
      <3>6. Left(Drop(b, 1), s)
        BY <3>5, AfterLine
      <3> HIDE DEF rq, p, h
      <3>7. p.code = "kInvalid" /\ p.buf = Drop(b, 1) /\ p.rq = rq
        BY <3>3, <3>4 DEF Result
      <3>8. QED
        BY <1>3, <3>6, <3>7 DEF Outcome, rq, p
    <2>7. CASE Asked[2] \in HeaderPart
      <3> DEFINE rq2 == [st |-> "body", req |-> N, headers |-> {Asked[2]}]
      <3>1. bad = {}
        BY <2>1, <2>5, <2>7
      <3>2. {b[j].part : j \in 1..k-1} = {Asked[2]}
        BY <2>1, <2>5
      <3>3. h = Result("kOk", Drop(b, 2), rq2)
        BY <2>3, <2>5, <3>1, <3>2 DEF ParseHead, firsts, k
      <3>4. p = ParseBody(Drop(b, 2), rq2)
        <4> HIDE DEF h, rq2, p
        <4>1. h.code = "kOk" /\ h.buf = Drop(b, 2) /\ h.rq = rq2
          BY <3>3 DEF Result
        <4>2. QED
          BY <1>2, <4>1
      <3>5. Drop(b, 2) \in Seq(Token) /\ After(3, Drop(b, 2), s)
        <4>1. 2 \in 0..Len(b) /\ 1 + 2 = 3
          BY <1>1, <1>5
        <4>2. QED
          BY <4>1, DropFacts, Skip
      <3> HIDE DEF p
      <3>6. QED
        BY <2>7, <3>4, <3>5, BodyStage DEF p
    <2>8. QED
      BY <2>6, <2>7
  <1>6. QED
    BY <1>1, <1>4, <1>5

LEMMA LineStage ==
    ASSUME NEW b \in Seq(Token), NEW s \in Seq(Token), kinds \in Seq(Kinds), N > 0,
           After(0, b, s)
    PROVE  Outcome(Parse(b, Fresh), s)
  <1> DEFINE ends == FirstOf(b, EndsLine)
             k == CHOOSE e \in ends : TRUE
             l == ParseLine(b, Fresh)
             p == Parse(b, Fresh)
             rq == [st |-> "head", req |-> N, headers |-> {}]
  <1>1. Len(b) \in Nat /\ Fresh.st = "line" /\ Fresh.req = 0 /\ Fresh.headers = {}
    BY DEF Fresh
  <1>2. l.code # "kOk" => p = l
    BY <1>1 DEF Parse
  <1>3. CASE b = <<>>
    <2>1. ends = {}
      BY <1>3 DEF FirstOf
    <2>2. l = Result("kAgain", b, Fresh)
      BY <2>1 DEF ParseLine
    <2>3. p = l
      BY <1>2, <2>2 DEF Result
    <2>4. Cut(Fresh, b, s)
      BY <1>3 DEF Cut, Untouched
    <2>5. p.code = "kAgain" /\ p.buf = b /\ p.rq = Fresh
      BY <2>2, <2>3 DEF Result
    <2> HIDE DEF l, p
    <2>6. QED
      BY <1>1, <2>4, <2>5 DEF Outcome, p
  <1>4. CASE b # <<>>
    <2>1. Len(b) >= 1
      BY <1>1, <1>4, NonEmpty
    <2>2. b[1].req = N /\ b[1].part = Asked[1] /\ Asked[1] \in {"line", "badLine"}
      BY <2>1, AskedFacts DEF After
    <2>3. ends = {1}
      <3>1. 1 \in ends
        BY <1>1, <2>1, <2>2 DEF FirstOf, EndsLine
      <3>2. ASSUME NEW e \in ends
            PROVE  e = 1
        <4>1. e \in 1..Len(b) /\ \A j \in 1..e-1 : ~EndsLine(b[j])
          BY DEF FirstOf
        <4>2. ~ (1 \in 1..e-1)
          BY <4>1, <2>2 DEF EndsLine
        <4>3. QED
          BY <1>1, <4>1, <4>2
      <3>3. QED
        BY <3>1, <3>2
    <2>4. k = 1
      BY <2>3
    <2> HIDE DEF ends, k
    <2>5. CASE Asked[1] = "line"
      <3>1. l = Result("kOk", Drop(b, 1), rq)
        BY <1>1, <2>2, <2>3, <2>4, <2>5 DEF ParseLine, ends, k
      <3>2. p = Parse(Drop(b, 1), rq)
        BY <1>1, <3>1 DEF Parse, Result
      <3>3. Drop(b, 1) \in Seq(Token) /\ After(1, Drop(b, 1), s)
        <4>1. 1 \in 0..Len(b) /\ 0 + 1 = 1
          BY <1>1, <2>1
        <4>2. QED
          BY <4>1, DropFacts, Skip
      <3> HIDE DEF p, l
      <3>4. QED
        BY <2>5, <3>2, <3>3, HeadStage DEF p
    <2>6. CASE Asked[1] = "badLine"
      <3>1. l = Result("kInvalid", b, Fresh)
        BY <2>2, <2>3, <2>4, <2>6 DEF ParseLine, ends, k
      <3>2. p = l
        BY <1>2, <3>1 DEF Result
      <3>3. Left(b, s)
        <4>1. Len(s) \in Nat /\ Len(Asked) \in Nat /\ Len(b) + Len(s) = Len(Asked)
          BY <1>1, AskedFacts DEF After
        <4>2. \A i \in 1..Len(Asked) : Asked[i] # "line"
          BY <2>6, <4>1, AskedFacts
        <4>3. ASSUME NEW i \in 1..Len(b)
              PROVE  b[i].req = N /\ b[i].part # "line"
          <5>1. i \in 1..Len(Asked) /\ i + 0 = i
            BY <1>1, <4>1
          <5>2. QED
            BY <4>2, <5>1 DEF After
        <4>4. ASSUME NEW i \in 1..Len(s)
              PROVE  s[i].req = N /\ s[i].part # "line"
          <5>1. i + 0 + Len(b) \in 1..Len(Asked)
            BY <1>1, <4>1
          <5>2. QED
            BY <4>2, <5>1 DEF After
        <4>5. QED
          BY <4>3, <4>4 DEF Left
      <3>4. p.code = "kInvalid" /\ p.buf = b /\ p.rq = Fresh
        BY <3>1, <3>2 DEF Result
      <3> HIDE DEF l, p
      <3>5. QED
        BY <1>1, <3>3, <3>4 DEF Outcome, p
    <2>7. QED
      BY <2>2, <2>5, <2>6
  <1>5. QED
    BY <1>3, <1>4

LEMMA TakeLeft ==
    ASSUME NEW b \in Seq(Token), NEW s \in Seq(Token), NEW n \in 0..Len(s), Left(b, s)
    PROVE  Left(b \o SubSeq(s, 1, n), Drop(s, n))
  <1> DEFINE t == SubSeq(s, 1, n)
             d == Drop(s, n)
             bt == b \o t
  <1>1. t \in Seq(Token) /\ Len(t) = n /\ \A i \in 1..n : t[i] = s[i]
    BY TakeFacts
  <1>2. Len(d) = Len(s) - n /\ \A i \in 1..Len(s) - n : d[i] = s[i + n]
    BY DropFacts
  <1> HIDE DEF t, d
  <1>3. /\ Len(bt) = Len(b) + n
        /\ \A i \in 1..Len(b) + n : bt[i] = IF i <= Len(b) THEN b[i] ELSE t[i - Len(b)]
    BY <1>1, ConcatProperties
  <1> HIDE DEF bt
  <1>4. Len(b) \in Nat /\ Len(s) \in Nat
    OBVIOUS
  <1>5. ASSUME NEW i \in 1..Len(bt)
        PROVE  bt[i].req = N /\ bt[i].part # "line"
    <2>1. CASE i <= Len(b)
      <3>1. i \in 1..Len(b) /\ bt[i] = b[i]
        BY <1>3, <1>4, <2>1
      <3>2. QED
        BY <3>1 DEF Left
    <2>2. CASE i > Len(b)
      <3>1. i - Len(b) \in 1..n /\ i - Len(b) \in 1..Len(s)
        BY <1>3, <1>4, <2>2
      <3>2. bt[i] = s[i - Len(b)]
        BY <1>1, <1>3, <1>4, <2>2, <3>1
      <3>3. QED
        BY <3>1, <3>2 DEF Left
    <2>3. i <= Len(b) \/ i > Len(b)
      BY <1>3, <1>4
    <2>4. QED
      BY <2>1, <2>2, <2>3
  <1>6. ASSUME NEW i \in 1..Len(d)
        PROVE  d[i].req = N /\ d[i].part # "line"
    <2>1. i + n \in 1..Len(s) /\ d[i] = s[i + n]
      BY <1>2, <1>4
    <2>2. QED
      BY <2>1 DEF Left
  <1>7. QED
    BY <1>5, <1>6 DEF Left, bt, d, t

\* The request an error answer names before any line was parsed.
LEMMA FirstLeft ==
    ASSUME NEW b \in Seq(Token), NEW s \in Seq(Token), Len(b) + Len(s) > 0,
           \A i \in 1..Len(b) : b[i].req = N, \A i \in 1..Len(s) : s[i].req = N
    PROVE  Head(b \o s).req = N
  <1>1. Len(b) \in Nat /\ Len(s) \in Nat
    OBVIOUS
  <1> DEFINE bs == b \o s
  <1>2. bs \in Seq(Token) /\ Len(bs) = Len(b) + Len(s)
        /\ bs[1] = IF 1 <= Len(b) THEN b[1] ELSE s[1 - Len(b)]
    BY <1>1, ConcatProperties
  <1> HIDE DEF bs
  <1>3. Head(bs) = bs[1]
    BY <1>2
  <1>4. CASE 1 <= Len(b)
    BY <1>1, <1>2, <1>3, <1>4 DEF bs
  <1>5. CASE Len(b) = 0
    BY <1>1, <1>2, <1>3, <1>5 DEF bs
  <1>6. QED
    BY <1>1, <1>4, <1>5

\* What a read has in hand.
LEMMA InHand ==
    ASSUME TypeInv, NEW n, Received(n)
    PROVE  LET b == readBuffer \o SubSeq(stream, 1, n)
           IN  /\ n \in 0..Len(stream) /\ stream \in Seq(Token) /\ readBuffer \in Seq(Token)
               /\ b \in Seq(Token) /\ stream' = Drop(stream, n) /\ stream' \in Seq(Token)
               /\ Len(b) + Len(stream') > 0
  <1>1. n \in 0..Len(stream) /\ stream \in Seq(Token) /\ readBuffer \in Seq(Token)
        /\ stream # <<>> /\ stream' = Drop(stream, n)
    BY DEF Received, TypeInv, TypeOK
  <1>2. SubSeq(stream, 1, n) \in Seq(Token) /\ Len(SubSeq(stream, 1, n)) = n
    BY <1>1, TakeFacts
  <1>3. /\ readBuffer \o SubSeq(stream, 1, n) \in Seq(Token)
        /\ Len(readBuffer \o SubSeq(stream, 1, n)) = Len(readBuffer) + n
    BY <1>1, <1>2, ConcatProperties
  <1>4. stream' \in Seq(Token) /\ Len(stream') = Len(stream) - n
    BY <1>1, DropFacts
  <1>5. Len(stream) \in Nat /\ Len(stream) # 0 /\ Len(readBuffer) \in Nat
    BY <1>1, NonEmpty
  <1>6. QED
    BY <1>1, <1>3, <1>4, <1>5

\* A read of the last request, and a read behind an error answer.
LEMMA Progress ==
    ASSUME TypeInv, N > 0, NEW n, Received(n), Cut(inFlight, readBuffer, stream)
    PROVE  Outcome(Parsed(n), stream') /\ Subject(Parsed(n)) = N
  <1> DEFINE b == readBuffer \o SubSeq(stream, 1, n)
             p == Parsed(n)
  <1>1. /\ n \in 0..Len(stream) /\ stream \in Seq(Token) /\ readBuffer \in Seq(Token)
        /\ b \in Seq(Token) /\ stream' = Drop(stream, n) /\ stream' \in Seq(Token)
        /\ Len(b) + Len(stream') > 0
    BY InHand
  <1>2. kinds \in Seq(Kinds) /\ inFlight \in Request /\ Parser(inFlight)
    BY DEF TypeInv, TypeOK
  <1>3. p = Parse(b, inFlight)
    BY DEF Parsed
  <1>4. ASSUME NEW c \in Nat, After(c, readBuffer, stream)
        PROVE  After(c, b, stream')
    BY <1>1, <1>4, Shift
  <1> HIDE DEF b, p
  <1>5. Outcome(p, stream') /\ \E c \in Nat : After(c, b, stream')
    <2>1. CASE Untouched(inFlight, readBuffer, stream)
      <3>1. After(0, b, stream') /\ inFlight = Fresh
        BY <1>4, <2>1 DEF Untouched
      <3>2. QED
        BY <1>1, <1>2, <1>3, <3>1, LineStage
    <2>2. CASE InHead(inFlight, readBuffer, stream)
      <3>1. /\ After(1, b, stream') /\ Asked[1] = "line"
            /\ inFlight = [st |-> "head", req |-> N, headers |-> {}]
        BY <1>4, <2>2 DEF InHead
      <3>2. QED
        BY <1>1, <1>2, <1>3, <3>1, HeadStage
    <2>3. CASE InBody(inFlight, readBuffer, stream)
      <3>1. /\ After(3, b, stream') /\ Asked[2] = "length"
            /\ inFlight = [st |-> "body", req |-> N, headers |-> {Asked[2]}]
        BY <1>4, <2>3 DEF InBody
      <3>2. inFlight.st = "body"
        BY <3>1
      <3>3. Parse(b, inFlight) = ParseBody(b, inFlight)
        BY <3>2 DEF Parse, Result
      <3>4. Asked[2] \in HeaderPart
        BY <3>1 DEF HeaderPart
      <3>5. Outcome(ParseBody(b, inFlight), stream')
        BY <1>1, <1>2, <3>1, <3>4, BodyStage
      <3>6. QED
        BY <1>3, <3>1, <3>3, <3>5
    <2>4. QED
      BY <2>1, <2>2, <2>3 DEF Cut
  <1>6. Subject(p) = N
    <2>1. p.rq.req = 0 => p.buf = b
      BY <1>1, <1>2, <1>3, ParseTypes
    <2>2. CASE p.rq.req = 0
      <3>1. p.buf = b
        BY <2>1, <2>2
      <3>2. Head(b \o stream').req = N
        BY <1>1, <1>5, FirstLeft DEF After
      <3>3. QED
        BY <2>2, <3>1, <3>2 DEF Subject
    <2>3. CASE p.rq.req # 0
      <3>1. p.rq.req = N
        BY <1>5, <2>3 DEF Outcome
      <3>2. QED
        BY <2>3, <3>1 DEF Subject
    <2>4. QED
      BY <2>2, <2>3
  <1>7. QED
    BY <1>5, <1>6 DEF p

LEMMA Stuck ==
    ASSUME TypeInv, N > 0, NEW n, Received(n), inFlight = Fresh, Left(readBuffer, stream)
    PROVE  LET p == Parsed(n)
           IN  /\ p.code \in {"kAgain", "kInvalid"} /\ p.rq = Fresh
               /\ Left(p.buf, stream') /\ Subject(p) = N
  <1> DEFINE b == readBuffer \o SubSeq(stream, 1, n)
             ends == FirstOf(b, EndsLine)
             k == CHOOSE e \in ends : TRUE
             l == ParseLine(b, Fresh)
             p == Parsed(n)
  <1>1. /\ n \in 0..Len(stream) /\ stream \in Seq(Token) /\ readBuffer \in Seq(Token)
        /\ b \in Seq(Token) /\ stream' = Drop(stream, n) /\ stream' \in Seq(Token)
        /\ Len(b) + Len(stream') > 0
    BY InHand
  <1>2. Left(b, stream')
    BY <1>1, TakeLeft
  <1>3. p = Parse(b, Fresh) /\ Fresh.st = "line" /\ Fresh.req = 0
    BY DEF Parsed, Fresh
  <1> HIDE DEF b, p
  <1>4. l.code \in {"kAgain", "kInvalid"} /\ l.buf = b /\ l.rq = Fresh
    <2>1. CASE ends = {}
      BY <2>1 DEF ParseLine, Result
    <2>2. CASE ends # {}
      <3>1. k \in 1..Len(b)
        BY <2>2 DEF FirstOf
      <3>2. b[k].part # "line"
        BY <1>2, <3>1 DEF Left
      <3>3. QED
        BY <2>2, <3>2 DEF ParseLine, Result
    <2>3. QED
      BY <2>1, <2>2
  <1> HIDE DEF l
  <1>5. p = l
    BY <1>3, <1>4 DEF Parse, l
  <1>6. Subject(p) = N
    <2>1. p.rq.req = 0 /\ p.buf = b
      BY <1>3, <1>4, <1>5
    <2>2. Head(b \o stream').req = N
      BY <1>1, <1>2, FirstLeft DEF Left
    <2>3. QED
      BY <2>1, <2>2 DEF Subject
  <1>7. QED
    BY <1>2, <1>4, <1>5, <1>6 DEF p

-----------------------------------------------------------------------------
(* A connection whose loop still writes, for a client that waits: whose     *)
(* answer is on its way.                                                    *)

Refused(s) == \A i \in 1..Len(s) : s[i].req = N /\ ~IsAnswer(s[i]) /\ ~s[i].keep
Below == \A i \in 1..Len(wire) : IsAnswer(wire[i]) => wire[i].req < N
NoneDue == pending = Default /\ delivered = Len(accepted)
HasBuffer == writing \/ pc = "write" => writeBuffer # <<>>
Told ==
    \/ \E i \in 1..Len(writeBuffer) : writeBuffer[i].req = N
    \/ \E i \in 1..Len(wire) : wire[i].req = N
Consumed == inFlight = Fresh /\ readBuffer = <<>> /\ stream = <<>>

\* The last request is arriving, or what is left of it is refused.
Incoming ==
    /\ N > 0
    /\ \/ Cut(inFlight, readBuffer, stream)
       \/ inFlight = Fresh /\ Left(readBuffer, stream) /\ Told
    /\ NoneDue /\ ~keep /\ Refused(writeBuffer) /\ HasBuffer /\ Below
\* Its job is with the executor.
Owed ==
    /\ N > 0 /\ Consumed
    /\ pending = Default /\ Len(accepted) = delivered + 1 /\ accepted[delivered + 1] = N
    /\ Refused(writeBuffer) /\ HasBuffer /\ Below
\* Its answer is in the pending fields or in writeBuffer_.
Ready ==
    /\ N > 0 /\ Consumed
    /\ pending.req = N /\ delivered = Len(accepted) /\ writing
    /\ \/ Refused(writeBuffer)
       \/ writeBuffer = <<[req |-> N, status |-> pending.status, keep |-> keep]>>
    /\ Below
\* It is answered.
Idle ==
    /\ Consumed /\ NoneDue /\ ~keep
    /\ writeBuffer = <<>> /\ ~writing /\ pc = "wait"
    /\ N > 0 => \E i \in 1..Len(wire) : wire[i].req = N

Alive == ~leftOver /\ (closedBy = "nobody" \/ (closedBy = "loop" /\ pc = "write"))
Answers(w) == {i \in 1..Len(w) : IsAnswer(w[i])}
OnWire ==
    /\ \A i \in 1..Len(wire) : wire[i].req \in 1..N /\ (wire[i].keep <=> IsAnswer(wire[i]))
    /\ \A r \in 1..N-1 : \E i \in 1..Len(wire) : wire[i].req = r
    /\ Cardinality(Answers(wire)) <= served
AliveInv == Alive => OnWire /\ (Incoming \/ Owed \/ Ready \/ Idle)

LEMMA AnswersFinite ==
    ASSUME NEW w \in Seq(Response), NEW A \in SUBSET Answers(w)
    PROVE  /\ IsFiniteSet(A) /\ Cardinality(A) \in Nat
           /\ Cardinality(A) <= Cardinality(Answers(w)) /\ Cardinality(Answers(w)) \in Nat
  <1>1. Len(w) \in Nat /\ 1 \in Int /\ Len(w) \in Int
    OBVIOUS
  <1>2. IsFiniteSet(1..Len(w))
    BY <1>1, FS_Interval
  <1>3. Answers(w) \subseteq 1..Len(w)
    BY DEF Answers
  <1>4. IsFiniteSet(Answers(w))
    BY <1>2, <1>3, FS_Subset
  <1>5. IsFiniteSet(A) /\ Cardinality(A) <= Cardinality(Answers(w))
    BY <1>4, FS_Subset
  <1>6. QED
    BY <1>4, <1>5, FS_CardinalityType

\* Writing out to the socket.
LEMMA WireTypes ==
    ASSUME NEW w \in Seq(Response), NEW out \in Seq(Response)
    PROVE  LET all == w \o out
           IN  /\ all \in Seq(Response) /\ Len(all) = Len(w) + Len(out)
               /\ Len(w) \in Nat /\ Len(out) \in Nat
               /\ \A i \in 1..Len(w) : all[i] = w[i]
               /\ \A i \in 1..Len(all) :
                     i \notin 1..Len(w) => i - Len(w) \in 1..Len(out) /\ all[i] = out[i - Len(w)]
  <1> DEFINE all == w \o out
  <1>1. /\ all \in Seq(Response) /\ Len(all) = Len(w) + Len(out)
        /\ \A i \in 1..Len(w) + Len(out) : all[i] = IF i <= Len(w) THEN w[i] ELSE out[i - Len(w)]
    BY ConcatProperties
  <1> HIDE DEF all
  <1>2. Len(w) \in Nat /\ Len(out) \in Nat
    OBVIOUS
  <1>3. ASSUME NEW i \in 1..Len(w)
        PROVE  all[i] = w[i]
    BY <1>1, <1>2
  <1>4. ASSUME NEW i \in 1..Len(all), i \notin 1..Len(w)
        PROVE  i - Len(w) \in 1..Len(out) /\ all[i] = out[i - Len(w)]
    <2>1. i \in Int /\ i > Len(w) /\ i <= Len(w) + Len(out)
      BY <1>1, <1>2, <1>4
    <2>2. QED
      BY <1>1, <1>2, <2>1
  <1>5. QED
    BY <1>1, <1>2, <1>3, <1>4 DEF all

\* Refusals on the wire change nothing but that they are there.
LEMMA RefusedOnWire ==
    ASSUME TypeInv, OnWire, NEW out \in Seq(Response), Refused(out), N > 0,
           wire' = wire \o out, kinds' = kinds, served' \in Nat, served <= served'
    PROVE  /\ OnWire' /\ (Below => Below')
           /\ (closedBy # "accept" /\ ~leftOver /\ AnswersInOrder) => AnswersInOrder'
           /\ \A i \in 1..Len(wire) : i \in 1..Len(wire') /\ wire'[i] = wire[i]
  <1> DEFINE w == wire \o out
  <1>1. /\ wire' \in Seq(Response) /\ Len(wire') = Len(wire) + Len(out)
        /\ Len(wire) \in Nat /\ Len(out) \in Nat
        /\ \A i \in 1..Len(wire) : wire'[i] = wire[i]
        /\ \A i \in 1..Len(wire') :
              i \notin 1..Len(wire) => /\ i - Len(wire) \in 1..Len(out)
                                       /\ wire'[i] = out[i - Len(wire)]
    BY WireTypes DEF TypeInv, TypeOK
  <1>2. N' = N /\ N \in Nat
    BY DEF N, TypeInv, TypeOK
  <1>3. ASSUME NEW i \in 1..Len(wire'), i \notin 1..Len(wire)
        PROVE  wire'[i].req = N /\ ~IsAnswer(wire'[i]) /\ ~wire'[i].keep
    BY <1>1, <1>3 DEF Refused
  <1>4. \A i \in 1..Len(wire) : i \in 1..Len(wire') /\ wire'[i] = wire[i]
    BY <1>1
  <1>5. ASSUME NEW i \in 1..Len(wire')
        PROVE  wire'[i].req \in 1..N /\ (wire'[i].keep <=> IsAnswer(wire'[i]))
    <2>1. CASE i \in 1..Len(wire)
      BY <1>1, <2>1 DEF OnWire
    <2>2. CASE i \notin 1..Len(wire)
      BY <1>2, <1>3, <2>2
    <2>3. QED
      BY <2>1, <2>2
  <1>6. Answers(wire') = Answers(wire)
    BY <1>1, <1>3, <1>4 DEF Answers
  <1>7. Cardinality(Answers(wire)) <= served'
    <2>1. Cardinality(Answers(wire)) \in Nat
      BY AnswersFinite DEF TypeInv, TypeOK
    <2>2. Cardinality(Answers(wire)) <= served /\ served \in Nat
      BY DEF OnWire, TypeInv, TypeOK
    <2>3. QED
      BY <2>1, <2>2
  <1>8. OnWire'
    <2>1. \A r \in 1..N-1 : \E i \in 1..Len(wire') : wire'[i].req = r
      BY <1>4 DEF OnWire
    <2>2. QED
      BY <1>2, <1>5, <1>6, <1>7, <2>1 DEF OnWire
  <1>9. Below => Below'
    BY <1>1, <1>2, <1>3 DEF Below
  <1>10. (closedBy # "accept" /\ ~leftOver /\ AnswersInOrder) => AnswersInOrder'
    <2> SUFFICES ASSUME closedBy # "accept", ~leftOver, AnswersInOrder,
                        NEW i \in 1..Len(wire'), IsAnswer(wire'[i])
                 PROVE  /\ wire'[i].req # 0
                        /\ \A j \in 1..i-1 : IsAnswer(wire'[j]) => wire'[j].req < wire'[i].req
      BY DEF AnswersInOrder
    <2>1. i \in 1..Len(wire)
      BY <1>3
    <2>2. \A j \in 1..i-1 : wire'[j] = wire[j]
      BY <1>1, <2>1
    <2>3. QED
      BY <1>4, <2>1, <2>2 DEF AnswersInOrder
  <1>11. QED
    BY <1>4, <1>8, <1>9, <1>10

\* The answer of the last request on the wire.
LEMMA AnswerOnWire ==
    ASSUME TypeInv, OnWire, Below, N > 0, NEW r \in Response, r.req = N, IsAnswer(r),
           wire' = wire \o <<r>>, kinds' = kinds, closedBy # "accept", ~leftOver,
           AnswersInOrder
    PROVE  /\ AnswersInOrder'
           /\ \E i \in 1..Len(wire') : wire'[i].req = N
           /\ (r.keep /\ served' = served + 1) => OnWire'
  <1>1. <<r>> \in Seq(Response) /\ Len(<<r>>) = 1 /\ <<r>>[1] = r
    OBVIOUS
  <1>2. /\ wire' \in Seq(Response) /\ Len(wire') = Len(wire) + 1
        /\ Len(wire) \in Nat
        /\ \A i \in 1..Len(wire) : wire'[i] = wire[i]
        /\ \A i \in 1..Len(wire') :
              i \notin 1..Len(wire) => i - Len(wire) \in 1..1 /\ wire'[i] = <<r>>[i - Len(wire)]
    BY SMTT(30), <1>1, WireTypes DEF TypeInv, TypeOK
  <1> DEFINE last == Len(wire) + 1
  <1>3. last \in 1..Len(wire') /\ wire'[last] = r /\ last = Len(wire')
    <2>1. last \in 1..Len(wire') /\ last \notin 1..Len(wire) /\ last - Len(wire) = 1
      BY <1>2
    <2>2. QED
      BY <1>1, <1>2, <2>1
  <1>4. \A i \in 1..Len(wire') : i \in 1..Len(wire) \/ i = last
    BY <1>2
  <1>5. N' = N /\ N \in Nat
    BY DEF N, TypeInv, TypeOK
  <1> HIDE DEF last
  <1>6. AnswersInOrder'
    <2> SUFFICES ASSUME NEW i \in 1..Len(wire'), IsAnswer(wire'[i])
                 PROVE  /\ wire'[i].req # 0
                        /\ \A j \in 1..i-1 : IsAnswer(wire'[j]) => wire'[j].req < wire'[i].req
      BY DEF AnswersInOrder
    <2>1. CASE i \in 1..Len(wire)
      <3>1. \A j \in 1..i-1 : wire'[j] = wire[j]
        BY <1>2, <2>1
      <3>2. wire'[i] = wire[i]
        BY <1>2, <2>1
      <3>3. QED
        BY <2>1, <3>1, <3>2 DEF AnswersInOrder
    <2>2. CASE i = last
      <3>1. \A j \in 1..i-1 : j \in 1..Len(wire) /\ wire'[j] = wire[j]
        BY <1>2, <2>2 DEF last
      <3>2. wire'[i].req = N
        BY <1>3, <2>2
      <3>3. QED
        BY <1>5, <3>1, <3>2 DEF Below
    <2>3. QED
      BY <1>4, <2>1, <2>2
  <1>7. \E i \in 1..Len(wire') : wire'[i].req = N
    BY <1>3
  <1>8. ASSUME r.keep, served' = served + 1
        PROVE  OnWire'
    <2>1. ASSUME NEW i \in 1..Len(wire')
          PROVE  wire'[i].req \in 1..N /\ (wire'[i].keep <=> IsAnswer(wire'[i]))
      <3>1. CASE i \in 1..Len(wire)
        BY <1>2, <3>1 DEF OnWire
      <3>2. CASE i = last
        BY <1>3, <1>5, <1>8, <3>2
      <3>3. QED
        BY <1>4, <3>1, <3>2
    <2>2. \A q \in 1..N-1 : \E i \in 1..Len(wire') : wire'[i].req = q
      <3>1. \A i \in 1..Len(wire) : i \in 1..Len(wire') /\ wire'[i] = wire[i]
        BY <1>2
      <3>2. QED
        BY <3>1 DEF OnWire
    <2>3. Answers(wire') = Answers(wire) \cup {last}
      <3>1. \A i \in 1..Len(wire) : i \in 1..Len(wire') /\ wire'[i] = wire[i]
        BY <1>2
      <3>2. QED
        BY <1>3, <1>4, <3>1 DEF Answers
    <2>4. last \notin Answers(wire)
      BY <1>2 DEF Answers, last
    <2>5. IsFiniteSet(Answers(wire)) /\ Cardinality(Answers(wire)) \in Nat
      BY AnswersFinite DEF TypeInv, TypeOK
    <2>6. Cardinality(Answers(wire')) = Cardinality(Answers(wire)) + 1
      BY <2>3, <2>4, <2>5, FS_AddElement
    <2>7. Cardinality(Answers(wire)) <= served /\ served \in Nat
      BY DEF OnWire, TypeInv, TypeOK
    <2>8. Cardinality(Answers(wire')) <= served'
      BY <1>8, <2>5, <2>6, <2>7
    <2>9. QED
      BY <1>5, <2>1, <2>2, <2>8 DEF OnWire
  <1>9. QED
    BY <1>6, <1>7, <1>8

\* Nothing on the wire so far ends the connection, and the responses that
\* are written now end it with the last of them at most.
LEMMA EndOnWire ==
    ASSUME TypeInv, Alive, OnWire, NEW out \in Seq(Response), Refused(out) \/ Len(out) <= 1,
           wire' = wire \o out, maxServed' = maxServed
    PROVE  EndIsLast'
  <1>1. /\ wire \in Seq(Response) /\ wire' \in Seq(Response)
        /\ Len(wire') = Len(wire) + Len(out)
        /\ Len(wire) \in Nat /\ Len(out) \in Nat
        /\ \A i \in 1..Len(wire) : wire'[i] = wire[i]
        /\ \A i \in 1..Len(wire') :
              i \notin 1..Len(wire) => /\ i - Len(wire) \in 1..Len(out)
                                       /\ wire'[i] = out[i - Len(wire)]
    BY WireTypes DEF TypeInv, TypeOK
  <1> DEFINE kept(i) == {j \in 1..i : IsAnswer(wire'[j]) /\ wire'[j].keep}
  <1> SUFFICES ASSUME NEW i \in 1..Len(wire'), IsAnswer(wire'[i]),
                      ~wire'[i].keep \/ Cardinality(kept(i)) >= maxServed
               PROVE  i = Len(wire')
    BY DEF EndIsLast
  <1>2. CASE i \in 1..Len(wire)
    <2>1. wire'[i].keep
      BY <1>1, <1>2 DEF OnWire
    <2>2. kept(i) \subseteq Answers(wire)
      <3>1. \A j \in 1..i : j \in 1..Len(wire) /\ wire'[j] = wire[j]
        BY <1>1, <1>2
      <3>2. QED
        BY <3>1 DEF Answers
    <2> HIDE DEF kept
    <2>3. Cardinality(kept(i)) \in Nat /\ Cardinality(kept(i)) <= Cardinality(Answers(wire))
          /\ Cardinality(Answers(wire)) \in Nat
      BY <1>1, <2>2, AnswersFinite
    <2>4. Cardinality(Answers(wire)) <= served /\ served \in Nat /\ maxServed \in Nat
      BY DEF OnWire, TypeInv, TypeOK
    <2>5. served < maxServed
      BY DEF Alive, TypeInv, Limit
    <2>6. QED
      BY <2>1, <2>3, <2>4, <2>5
  <1>3. CASE i \notin 1..Len(wire)
    <2>1. i - Len(wire) \in 1..Len(out) /\ wire'[i] = out[i - Len(wire)]
      BY <1>1, <1>3
    <2>2. ~Refused(out)
      BY <2>1 DEF Refused
    <2>3. Len(out) <= 1
      BY <2>2
    <2>4. QED
      BY <1>1, <2>1, <2>3
  <1>4. QED
    BY <1>2, <1>3

-----------------------------------------------------------------------------
(* Each step keeps it.                                                      *)

Stage == Incoming \/ Owed \/ Ready \/ Idle
LiveInv == AliveInv /\ AnswersInOrder /\ EndIsLast

\* Steps that write nothing.
LEMMA WireSame ==
    ASSUME AnswersInOrder, EndIsLast, wire' = wire, maxServed' = maxServed,
           closedBy # "accept" \/ closedBy' = "accept", leftOver => leftOver'
    PROVE  AnswersInOrder' /\ EndIsLast'
  BY DEF AnswersInOrder, EndIsLast

LEMMA SameRequest ==
    ASSUME kinds' = kinds
    PROVE  /\ N' = N /\ Asked' = Asked
           /\ Cut(inFlight', readBuffer', stream') => Cut(inFlight, readBuffer, stream)'
           /\ Left(readBuffer', stream') => Left(readBuffer, stream)'
           /\ Refused(writeBuffer') => Refused(writeBuffer)'
  <1>1. N' = N /\ Asked' = Asked
    BY DEF N, Asked
  <1>2. QED
    BY <1>1 DEF Cut, Untouched, InHead, InBody, After, Left, Refused

LEMMA WireKept ==
    ASSUME kinds' = kinds, wire' = wire, served' = served
    PROVE  /\ OnWire => OnWire'
           /\ Below => Below'
  <1>1. N' = N
    BY SameRequest
  <1>2. QED
    BY <1>1 DEF OnWire, Below, Answers

LEMMA StageSame ==
    ASSUME OnWire, Stage, UNCHANGED <<kinds, stream, readBuffer, inFlight, keep, pending,
                                      writeBuffer, wire, served, delivered, accepted, writing>>,
           pc' \in {"wait", "write"}, pc' = "write" => writing \/ pc = "write"
    PROVE  OnWire' /\ Stage'
  <1>1. N' = N /\ OnWire' /\ (Below => Below')
    BY SameRequest, WireKept
  <1>2. CASE Incoming
    <2>1. Cut(inFlight, readBuffer, stream) => Cut(inFlight, readBuffer, stream)'
      BY SameRequest
    <2>2. Left(readBuffer, stream) => Left(readBuffer, stream)'
      BY SameRequest
    <2>3. Refused(writeBuffer)'
      BY <1>2, SameRequest DEF Incoming
    <2>4. HasBuffer' /\ NoneDue' /\ (Told => Told')
      BY <1>1, <1>2 DEF Incoming, HasBuffer, NoneDue, Told
    <2>5. Incoming'
      BY <1>1, <1>2, <2>1, <2>2, <2>3, <2>4 DEF Incoming
    <2>6. QED
      BY <1>1, <2>5 DEF Stage
  <1>3. CASE Owed
    <2>1. Refused(writeBuffer)'
      BY <1>3, SameRequest DEF Owed
    <2>2. Owed'
      BY <1>1, <1>3, <2>1 DEF Owed, Consumed, HasBuffer
    <2>3. QED
      BY <1>1, <2>2 DEF Stage
  <1>4. CASE Ready
    <2>1. Refused(writeBuffer) => Refused(writeBuffer)'
      BY SameRequest
    <2>2. Ready'
      BY <1>1, <1>4, <2>1 DEF Ready, Consumed
    <2>3. QED
      BY <1>1, <2>2 DEF Stage
  <1>5. CASE Idle
    <2>1. Idle'
      BY <1>1, <1>5 DEF Idle, Consumed, NoneDue
    <2>2. QED
      BY <1>1, <2>1 DEF Stage
  <1>6. QED
    BY <1>2, <1>3, <1>4, <1>5 DEF Stage

\* What is left over in writeSet_ stays there.
LEMMA LeftOverStays == TypeInv /\ Next /\ leftOver => leftOver'
  <1> SUFFICES ASSUME TypeInv, Next, leftOver PROVE leftOver'
    OBVIOUS
  <1>1. select = leftOver
    BY DEF TypeInv, TypeOK
  <1>2. ASSUME NEW n, Read(n) \/ ReadAgain(n)
        PROVE  leftOver' = leftOver
    BY <1>2 DEF Read, ReadAgain, ReadInvalid, ReadSync, ReadAsync, Complete, Received
  <1>3. CASE WriteAllKeep
    BY <1>1, <1>3 DEF WriteAllKeep
  <1>4. CASE \/ Send \/ ClientClose \/ ReadEnd \/ ActiveError \/ WriteError \/ WriteAllClose
             \/ AsyncResult \/ Remove \/ WriteShort \/ IdleClose \/ Executor \/ Quiet \/ Late
    BY <1>4 DEF Send, ClientClose, ReadEnd, ActiveError, WriteError, WriteAllClose, AsyncResult,
                Remove, WriteShort, IdleClose, Executor, Quiet, Late
  <1>5. QED
    BY <1>2, <1>3, <1>4 DEF Next, Loop

\* Once the loop writes no more what it is asked to, it never does again.
LEMMA GoneStep ==
    ASSUME TypeInv, Next, ~Alive
    PROVE  /\ ~Alive' /\ maxServed' = maxServed
           /\ \/ closedBy' = "accept" \/ leftOver'
              \/ closedBy # "accept" /\ ~leftOver /\ wire' = wire
  <1>1. CASE leftOver
    BY <1>1, LeftOverStays DEF Alive, Next, Policy
  <1> SUFFICES ASSUME ~leftOver
               PROVE  /\ ~Alive' /\ maxServed' = maxServed
                      /\ closedBy' = "accept" \/ (closedBy # "accept" /\ wire' = wire)
    BY <1>1
  <1>2. /\ closedBy \in {"loop", "accept"} /\ state # "kConnected" /\ maxServed' = maxServed
        /\ pc \in {"wait", "write"} /\ (closedBy = "loop" => pc = "wait")
    BY DEF TypeInv, TypeOK, Ends, Alive, Next, Policy
  <1>3. ASSUME NEW n, Read(n) \/ ReadAgain(n)
        PROVE  closedBy' = "accept"
    <2>1. Received(n)
      BY <1>3 DEF Read, ReadAgain, ReadInvalid, ReadSync, ReadAsync, Complete
    <2>2. QED
      BY <1>2, <2>1 DEF Received, Waiting, closing
  <1>4. CASE Send \/ ClientClose \/ Quiet \/ Late
    BY <1>2, <1>4 DEF Send, ClientClose, Quiet, Late, closing, Alive
  <1>5. CASE ReadEnd \/ ActiveError \/ Remove \/ AsyncResult \/ Executor \/ IdleClose
    BY <1>2, <1>5 DEF ReadEnd, ActiveError, Remove, AsyncResult, Executor, IdleClose, Waiting,
                      CloseOwn, closing, Alive
  <1>6. CASE WriteShort \/ WriteError \/ WriteAllKeep \/ WriteAllClose
    BY <1>2, <1>6 DEF WriteShort, WriteError, WriteAllKeep, WriteAllClose, WriteAll, WriteEvent,
                      Waiting, CloseOwn, closing, Alive
  <1>7. CASE \E n : Read(n) \/ ReadAgain(n)
    <2>1. PICK n : Read(n) \/ ReadAgain(n)
      BY <1>7
    <2>2. closedBy' = "accept"
      BY <1>3, <2>1
    <2>3. QED
      BY <1>2, <2>2 DEF Alive
  <1>8. QED
    BY <1>4, <1>5, <1>6, <1>7 DEF Next, Loop

\* The client sends again when the last request is answered.
LEMMA SendLive ==
    ASSUME TypeInv, Policy, Send, MaxAhead = 1, Alive, OnWire, Stage, AnswersInOrder
    PROVE  OnWire' /\ Stage'
  <1> DEFINE tokens(k) == [i \in 1..Len(Parts[k]) |-> [req |-> Len(kinds) + 1, part |-> Parts[k][i]]]
  <1>1. N \in Nat /\ kinds \in Seq(Kinds)
    BY DEF N, TypeInv, TypeOK
  <1>2. N > 0 => \E i \in 1..Len(wire) : wire[i].req = N
    <2> SUFFICES ASSUME N > 0, \A i \in 1..Len(wire) : wire[i].req # N
                 PROVE  FALSE
      OBVIOUS
    <2> DEFINE few == 1..N-1
               all == 1..Len(wire)
               of == [i \in all |-> wire[i].req]
    <2>1. Len(wire) \in Nat /\ N <= Len(wire)
      BY SMTT(30), <1>1 DEF Send, N, TypeInv, TypeOK
    <2>2. of \in [all -> few]
      <3>1. \A i \in 1..Len(wire) : wire[i].req \in 1..N-1
        BY <1>1 DEF OnWire
      <3>2. QED
        BY <3>1
    <2>3. /\ IsFiniteSet(few) /\ IsFiniteSet(all)
          /\ Cardinality(few) = N - 1 /\ Cardinality(all) = Len(wire)
      <3>1. 1 \in Int /\ N - 1 \in Int /\ Len(wire) \in Int
        BY <1>1, <2>1
      <3>2. /\ IsFiniteSet(few) /\ Cardinality(few) = IF 1 > N - 1 THEN 0 ELSE (N - 1) - 1 + 1
            /\ IsFiniteSet(all) /\ Cardinality(all) = IF 1 > Len(wire) THEN 0 ELSE Len(wire) - 1 + 1
        BY <3>1, FS_Interval
      <3>3. QED
        BY <1>1, <2>1, <3>2
    <2>4. Cardinality(few) < Cardinality(all)
      BY <1>1, <2>1, <2>3
    <2>5. PICK i \in all, j \in all : i # j /\ of[i] = of[j]
      <3> HIDE DEF few, all, of
      <3>1. QED
        BY <2>2, <2>3, <2>4, FS_PigeonHole
    <2>6. wire[i].req = wire[j].req /\ i \in 1..Len(wire) /\ j \in 1..Len(wire)
      BY <2>5
    <2>7. ASSUME NEW l \in 1..Len(wire), NEW m \in 1..Len(wire), l < m
          PROVE  wire[l].req < wire[m].req
      <3>1. IsAnswer(wire[l]) /\ IsAnswer(wire[m])
        BY DEF Send, OnWire
      <3>2. l \in 1..m-1
        BY <2>1, <2>7
      <3>3. QED
        BY <3>1, <3>2 DEF AnswersInOrder, Alive
    <2>8. wire[i].req \in 1..N
      BY <2>6 DEF OnWire
    <2>9. i < j \/ j < i
      BY <2>1, <2>5, <2>6
    <2>10. QED
      BY <1>1, <2>6, <2>7, <2>8, <2>9
  <1>3. Idle
    <2>1. \A i \in 1..Len(wire) : IsAnswer(wire[i])
      BY DEF Send, OnWire
    <2>2. ~ (N > 0 /\ Below)
      BY <1>1, <1>2, <2>1 DEF Below
    <2>3. QED
      BY <2>2 DEF Stage, Incoming, Owed, Ready
  <1>4. PICK k \in Kinds : kinds' = Append(kinds, k) /\ stream' = stream \o tokens(k)
    BY DEF Send
  <1>5. kinds' \in Seq(Kinds) /\ N' = N + 1 /\ Asked' = Parts[k]
    <2>1. Len(kinds') = Len(kinds) + 1 /\ kinds'[Len(kinds) + 1] = k /\ kinds' \in Seq(Kinds)
      BY <1>1, <1>4, AppendProperties
    <2>2. N' = N + 1
      BY <2>1 DEF N
    <2>3. kinds'[N'] = k
      BY <2>1, <2>2 DEF N
    <2>4. QED
      BY <2>1, <2>2, <2>3 DEF Asked
  <1>6. Parts[k] \in Seq(Part) /\ Len(Parts[k]) \in Nat
    BY PartsTypes
  <1>7. /\ Len(tokens(k)) = Len(Parts[k])
        /\ \A i \in 1..Len(Parts[k]) : tokens(k)[i].req = N + 1 /\ tokens(k)[i].part = Parts[k][i]
        /\ tokens(k) \in Seq(Token)
    <2>1. Len(kinds) + 1 \in 1..MaxSent /\ N + 1 = Len(kinds) + 1
      BY <1>1 DEF Send, N
    <2>2. \A i \in 1..Len(Parts[k]) : Parts[k][i] \in Part
      BY <1>6
    <2>3. \A i \in 1..Len(Parts[k]) : [req |-> Len(kinds) + 1, part |-> Parts[k][i]] \in Token
      BY <2>1, <2>2 DEF Token, Part
    <2>4. QED
      BY <1>6, <2>1, <2>3
  <1> HIDE DEF tokens
  <1>8. stream' = tokens(k)
    BY <1>3, <1>4, <1>7, ConcatEmptySeq DEF Idle, Consumed
  <1>9. UNCHANGED <<readBuffer, inFlight, keep, pending, writeBuffer, wire, served, writing, pc,
                    delivered, accepted>>
    BY DEF Send, parser, reply, sql
  <1>10. Cut(inFlight, readBuffer, stream)'
    <2>1. inFlight' = Fresh /\ readBuffer' = <<>> /\ Len(<<>>) = 0
      BY <1>3, <1>9 DEF Idle, Consumed
    <2>2. After(0, readBuffer, stream)'
      <3>1. Len(readBuffer') = 0 /\ Len(stream') = Len(Asked')
        BY <1>5, <1>7, <1>8, <2>1
      <3>2. Len(readBuffer') + Len(stream') + 0 = Len(Asked')
        BY <1>5, <1>6, <3>1
      <3>3. ASSUME NEW i \in 1..Len(stream')
            PROVE  stream'[i].req = N' /\ stream'[i].part = Asked'[i + 0 + Len(readBuffer')]
        <4>1. i \in 1..Len(Parts[k]) /\ i + 0 + Len(readBuffer') = i
          BY <1>5, <1>6, <3>1
        <4>2. QED
          BY <1>5, <1>7, <1>8, <4>1
      <3>4. ~ \E i \in 1..Len(readBuffer') : TRUE
        BY <3>1
      <3>5. QED
        BY <3>2, <3>3, <3>4 DEF After
    <2>3. QED
      BY <2>1, <2>2 DEF Cut, Untouched
  <1>11. OnWire'
    <2>1. \A i \in 1..Len(wire) : wire[i].req \in 1..N+1 /\ (wire[i].keep <=> IsAnswer(wire[i]))
      BY <1>1 DEF OnWire
    <2>2. ASSUME NEW r \in 1..(N + 1)-1
          PROVE  \E i \in 1..Len(wire) : wire[i].req = r
      <3>1. r \in 1..N-1 \/ (r = N /\ N > 0)
        BY <1>1
      <3>2. QED
        BY <1>2, <3>1 DEF OnWire
    <2>3. Cardinality(Answers(wire)) <= served
      BY DEF OnWire
    <2>4. QED
      BY <1>5, <1>9, <2>1, <2>2, <2>3 DEF OnWire
  <1>12. Below'
    <2>1. \A i \in 1..Len(wire) : wire[i].req < N + 1
      BY <1>1 DEF OnWire
    <2>2. QED
      BY <1>5, <1>9, <2>1 DEF Below
  <1>13. NoneDue' /\ ~keep' /\ HasBuffer' /\ Refused(writeBuffer)' /\ N' > 0
    <2>1. pending' = Default /\ delivered' = Len(accepted') /\ ~keep' /\ writeBuffer' = <<>>
          /\ ~writing' /\ pc' = "wait"
      BY <1>3, <1>9 DEF Idle, NoneDue
    <2>2. QED
      BY <1>1, <1>5, <2>1 DEF NoneDue, HasBuffer, Refused
  <1>14. QED
    BY <1>10, <1>11, <1>12, <1>13 DEF Stage, Incoming

\* A read belongs to a request that is still arriving.
LEMMA ReadStage ==
    ASSUME TypeInv, Policy, NEW n, Received(n), OnWire, Stage, ~leftOver
    PROVE  /\ Incoming /\ kinds' = kinds /\ wire' = wire /\ served' = served
           /\ delivered' = delivered /\ OnWire' /\ Below'
           /\ N' = N /\ N \in Nat /\ N > 0
           /\ pc' = "write" => writing
  <1>1. /\ stream # <<>> /\ kinds' = kinds /\ wire' = wire /\ served' = served
        /\ delivered' = delivered
    BY DEF Received
  <1>2. pc' = "write" => writing
    BY DEF Received, SameEvent, Watched
  <1>3. Incoming
    BY <1>1 DEF Stage, Owed, Ready, Idle, Consumed
  <1>4. OnWire' /\ Below' /\ N' = N
    BY <1>1, <1>3, WireKept, SameRequest DEF Incoming
  <1>5. N \in Nat /\ N > 0
    BY <1>3 DEF N, TypeInv, TypeOK, Incoming
  <1>6. QED
    BY <1>1, <1>2, <1>3, <1>4, <1>5

LEMMA AgainLive ==
    ASSUME TypeInv, Policy, NEW n, ReadAgain(n), OnWire, Stage, ~leftOver
    PROVE  OnWire' /\ Stage'
  <1> DEFINE p == Parsed(n)
  <1>1. Received(n)
    BY DEF ReadAgain
  <1>2. /\ Incoming /\ kinds' = kinds /\ wire' = wire /\ delivered' = delivered
        /\ OnWire' /\ Below' /\ N' = N /\ N \in Nat /\ N > 0
        /\ pc' = "write" => writing
    BY <1>1, ReadStage
  <1>3. /\ p.code = "kAgain" /\ readBuffer' = p.buf /\ inFlight' = p.rq
        /\ keep' = keep /\ pending' = pending /\ accepted' = accepted
        /\ \/ QueueSimple(408, Subject(p))
           \/ writeBuffer' = writeBuffer /\ writing' = writing
    BY DEF ReadAgain, sql
  <1>4. /\ Subject(p) = N
        /\ \/ Cut(inFlight', readBuffer', stream')
           \/ inFlight' = Fresh /\ Left(readBuffer', stream') /\ Told
    <2>1. CASE Cut(inFlight, readBuffer, stream)
      <3>1. Outcome(p, stream') /\ Subject(p) = N
        BY <1>1, <1>2, <2>1, Progress
      <3> HIDE DEF p
      <3>2. Cut(p.rq, p.buf, stream')
        BY <1>3, <3>1 DEF Outcome
      <3>3. QED
        BY <1>3, <3>1, <3>2
    <2>2. CASE inFlight = Fresh /\ Left(readBuffer, stream) /\ Told
      <3>1. p.rq = Fresh /\ Left(p.buf, stream') /\ Subject(p) = N
        BY <1>1, <1>2, <2>2, Stuck
      <3> HIDE DEF p
      <3>2. QED
        BY <1>3, <2>2, <3>1
    <2>3. QED
      BY <1>2, <2>1, <2>2 DEF Incoming
  <1> HIDE DEF p
  <1>5. writeBuffer \in Seq(Response) /\ Len(writeBuffer) \in Nat
    BY DEF TypeInv, TypeOK
  <1>6. Refused(writeBuffer') /\ HasBuffer' /\ (Told => Told')
    <2>1. CASE QueueSimple(408, Subject(p))
      <3> DEFINE r == [req |-> N, status |-> 408, keep |-> keep']
      <3>1. writeBuffer' = Append(writeBuffer, r)
        BY <1>4, <2>1 DEF QueueSimple
      <3>2. ~keep' /\ keep' \in BOOLEAN
        <4>1. keep' = keep /\ ~keep /\ keep \in BOOLEAN
          BY <1>2, <1>3 DEF Incoming, TypeInv, TypeOK
        <4>2. QED
          BY <4>1
      <3>3. r \in Response
        <4>1. \A m \in 1..MaxSent : \A k \in BOOLEAN :
                 [req |-> m, status |-> 408, keep |-> k] \in Response
          BY DEF Response
        <4>2. N \in 1..MaxSent
          BY <1>2 DEF TypeInv, N
        <4>3. QED
          BY <3>2, <4>1, <4>2
      <3>4. r.req = N /\ ~IsAnswer(r) /\ ~r.keep
        BY <3>2 DEF IsAnswer
      <3> HIDE DEF r
      <3>5. /\ Len(writeBuffer') = Len(writeBuffer) + 1 /\ writeBuffer' # <<>>
            /\ \A i \in 1..Len(writeBuffer) : writeBuffer'[i] = writeBuffer[i]
            /\ writeBuffer'[Len(writeBuffer) + 1] = r
        BY <1>5, <3>1, <3>3, AppendProperties
      <3>6. \A i \in 1..Len(writeBuffer') : i \in 1..Len(writeBuffer) \/ i = Len(writeBuffer) + 1
        BY <1>5, <3>5
      <3>7. Refused(writeBuffer')
        BY <1>2, <3>4, <3>5, <3>6 DEF Refused, Incoming
      <3>8. Told'
        <4>1. Len(writeBuffer) + 1 \in 1..Len(writeBuffer')
          BY <1>5, <3>5
        <4>2. QED
          BY <1>2, <3>4, <3>5, <4>1 DEF Told
      <3>9. QED
        BY <3>5, <3>7, <3>8 DEF HasBuffer
    <2>2. CASE writeBuffer' = writeBuffer /\ writing' = writing
      <3>1. Refused(writeBuffer')
        BY <1>2, <2>2 DEF Incoming
      <3>2. HasBuffer'
        BY <1>2, <2>2 DEF Incoming, HasBuffer
      <3>3. Told => Told'
        BY <1>2, <2>2 DEF Told
      <3>4. QED
        BY <3>1, <3>2, <3>3
    <2>3. QED
      BY <1>3, <2>1, <2>2
  <1>7. NoneDue' /\ ~keep'
    BY <1>2, <1>3 DEF Incoming, NoneDue
  <1>8. /\ Cut(inFlight', readBuffer', stream') => Cut(inFlight, readBuffer, stream)'
        /\ Left(readBuffer', stream') => Left(readBuffer, stream)'
        /\ Refused(writeBuffer)'
    BY <1>2, <1>6, SameRequest
  <1>9. Incoming'
    BY <1>2, <1>4, <1>6, <1>7, <1>8 DEF Incoming
  <1>10. QED
    BY <1>2, <1>9 DEF Stage

LEMMA InvalidLive ==
    ASSUME TypeInv, Policy, NEW n, ReadInvalid(n), OnWire, Stage, ~leftOver
    PROVE  OnWire' /\ Stage'
  <1> DEFINE p == Parsed(n)
  <1>1. Received(n)
    BY DEF ReadInvalid
  <1>2. /\ Incoming /\ kinds' = kinds /\ wire' = wire /\ delivered' = delivered
        /\ OnWire' /\ Below' /\ N' = N /\ N \in Nat /\ N > 0
        /\ pc' = "write" => writing
    BY <1>1, ReadStage
  <1>3. /\ p.code \in {"kInvalid", "kTooLarge"} /\ readBuffer' = p.buf /\ inFlight' = Fresh
        /\ keep' = FALSE /\ pending' = pending /\ accepted' = accepted
        /\ QueueSimple(IF p.code = "kTooLarge" THEN 413 ELSE 400, Subject(p))
    BY DEF ReadInvalid, sql
  <1>4. Subject(p) = N /\ Left(readBuffer', stream')
    <2>1. CASE Cut(inFlight, readBuffer, stream)
      <3>1. Outcome(p, stream') /\ Subject(p) = N
        BY <1>1, <1>2, <2>1, Progress
      <3> HIDE DEF p
      <3>2. Left(p.buf, stream')
        BY <1>3, <3>1 DEF Outcome
      <3>3. QED
        BY <1>3, <3>1, <3>2
    <2>2. CASE inFlight = Fresh /\ Left(readBuffer, stream) /\ Told
      <3>1. Left(p.buf, stream') /\ Subject(p) = N
        BY <1>1, <1>2, <2>2, Stuck
      <3> HIDE DEF p
      <3>2. QED
        BY <1>3, <3>1
    <2>3. QED
      BY <1>2, <2>1, <2>2 DEF Incoming
  <1> HIDE DEF p
  <1>5. PICK c \in {400, 413} : QueueSimple(c, Subject(p))
    BY <1>3
  <1>6. writeBuffer \in Seq(Response) /\ Len(writeBuffer) \in Nat
    BY DEF TypeInv, TypeOK
  <1>7. Refused(writeBuffer') /\ HasBuffer' /\ Told'
    <2> DEFINE r == [req |-> N, status |-> c, keep |-> keep']
    <2>1. writeBuffer' = Append(writeBuffer, r)
      BY <1>4, <1>5 DEF QueueSimple
    <2>2. r \in Response
      <3>1. \A m \in 1..MaxSent : \A k \in BOOLEAN :
               [req |-> m, status |-> c, keep |-> k] \in Response
        BY DEF Response
      <3>2. N \in 1..MaxSent
        BY <1>2 DEF TypeInv, N
      <3>3. keep' \in BOOLEAN
        BY <1>3, Zenon
      <3>4. QED
        BY <3>1, <3>2, <3>3
    <2>3. r.req = N /\ ~IsAnswer(r) /\ ~r.keep
      BY <1>3 DEF IsAnswer
    <2> HIDE DEF r
    <2>4. /\ Len(writeBuffer') = Len(writeBuffer) + 1 /\ writeBuffer' # <<>>
          /\ \A i \in 1..Len(writeBuffer) : writeBuffer'[i] = writeBuffer[i]
          /\ writeBuffer'[Len(writeBuffer) + 1] = r
      BY <1>6, <2>1, <2>2, AppendProperties
    <2>5. \A i \in 1..Len(writeBuffer') : i \in 1..Len(writeBuffer) \/ i = Len(writeBuffer) + 1
      BY <1>6, <2>4
    <2>6. Refused(writeBuffer')
      BY <1>2, <2>3, <2>4, <2>5 DEF Refused, Incoming
    <2>7. Told'
      <3>1. Len(writeBuffer) + 1 \in 1..Len(writeBuffer')
        BY <1>6, <2>4
      <3>2. QED
        BY <1>2, <2>3, <2>4, <3>1 DEF Told
    <2>8. QED
      BY <2>4, <2>6, <2>7 DEF HasBuffer
  <1>8. NoneDue' /\ ~keep'
    BY <1>2, <1>3 DEF Incoming, NoneDue
  <1>9. Left(readBuffer, stream)' /\ Refused(writeBuffer)'
    BY <1>2, <1>4, <1>7, SameRequest
  <1>10. Incoming'
    BY <1>2, <1>3, <1>7, <1>8, <1>9 DEF Incoming
  <1>11. QED
    BY <1>2, <1>10 DEF Stage

\* A complete request leaves nothing behind.
LEMMA CompleteLive ==
    ASSUME TypeInv, Policy, NEW n, Complete(n, Parsed(n)), OnWire, Stage, ~leftOver
    PROVE  /\ Incoming /\ Consumed' /\ Parsed(n).rq.req = N /\ N > 0 /\ N' = N
           /\ OnWire' /\ Below' /\ Refused(writeBuffer)' /\ delivered' = delivered
           /\ writeBuffer' = writeBuffer
           /\ pc' = "write" => writing
  <1> DEFINE p == Parsed(n)
  <1>1. Received(n)
    BY DEF Complete
  <1>2. /\ Incoming /\ kinds' = kinds /\ wire' = wire /\ delivered' = delivered
        /\ OnWire' /\ Below' /\ N' = N /\ N \in Nat /\ N > 0
        /\ pc' = "write" => writing
    BY <1>1, ReadStage
  <1>3. /\ p.code = "kOk" /\ readBuffer' = p.buf /\ inFlight' = Fresh
        /\ writeBuffer' = writeBuffer
    BY DEF Complete
  <1>4. p.rq.req = N /\ p.buf = <<>> /\ stream' = <<>>
    <2>1. CASE Cut(inFlight, readBuffer, stream)
      <3>1. Outcome(p, stream')
        BY <1>1, <1>2, <2>1, Progress
      <3> HIDE DEF p
      <3>2. QED
        BY <1>3, <3>1 DEF Outcome
    <2>2. CASE inFlight = Fresh /\ Left(readBuffer, stream) /\ Told
      <3>1. p.code \in {"kAgain", "kInvalid"}
        BY <1>1, <1>2, <2>2, Stuck
      <3> HIDE DEF p
      <3>2. QED
        BY <1>3, <3>1
    <2>3. QED
      BY <1>2, <2>1, <2>2 DEF Incoming
  <1> HIDE DEF p
  <1>5. Refused(writeBuffer)'
    BY <1>2, <1>3, SameRequest DEF Incoming
  <1>6. QED
    BY <1>2, <1>3, <1>4, <1>5 DEF Consumed, p

LEMMA SyncLive ==
    ASSUME TypeInv, Policy, NEW n, ReadSync(n), OnWire, Stage, ~leftOver
    PROVE  OnWire' /\ Stage'
  <1>1. /\ Complete(n, Parsed(n)) /\ writing' = TRUE /\ accepted' = accepted
        /\ \E c \in {200, 503} : pending' = [req |-> Parsed(n).rq.req, status |-> c]
    BY DEF ReadSync, sql
  <1>2. /\ Incoming /\ Consumed' /\ Parsed(n).rq.req = N /\ N > 0 /\ N' = N
        /\ OnWire' /\ Below' /\ Refused(writeBuffer)' /\ delivered' = delivered
    BY <1>1, CompleteLive
  <1>3. pending'.req = N'
    BY <1>1, <1>2
  <1>4. delivered' = Len(accepted')
    BY <1>1, <1>2 DEF Incoming, NoneDue
  <1>5. Ready'
    BY <1>1, <1>2, <1>3, <1>4 DEF Ready
  <1>6. QED
    BY <1>2, <1>5 DEF Stage

LEMMA AsyncLive ==
    ASSUME TypeInv, Policy, NEW n, ReadAsync(n), OnWire, Stage, ~leftOver
    PROVE  OnWire' /\ Stage'
  <1>1. /\ Complete(n, Parsed(n)) /\ writing' = writing /\ pending' = Default
        /\ accepted' = Append(accepted, Parsed(n).rq.req)
    BY DEF ReadAsync, Sql!Submit
  <1>2. /\ Incoming /\ Consumed' /\ Parsed(n).rq.req = N /\ N > 0 /\ N' = N
        /\ OnWire' /\ Below' /\ Refused(writeBuffer)' /\ delivered' = delivered
        /\ writeBuffer' = writeBuffer
        /\ pc' = "write" => writing
    BY <1>1, CompleteLive
  <1>3. delivered = Len(accepted) /\ HasBuffer
    BY <1>2 DEF Incoming, NoneDue
  <1>4. HasBuffer'
    BY <1>1, <1>2, <1>3 DEF HasBuffer
  <1>5. Len(accepted') = delivered' + 1 /\ accepted'[delivered' + 1] = N'
    <2>1. accepted \in Seq(1..MaxSent) /\ N \in 1..MaxSent
      <3>1. N \in Nat
        BY DEF N, TypeInv, TypeOK
      <3>2. QED
        BY <1>2, <3>1 DEF N, TypeInv, Jobs
    <2>2. Len(accepted') = Len(accepted) + 1 /\ accepted'[Len(accepted) + 1] = N
      BY <1>1, <1>2, <2>1, AppendProperties
    <2>3. QED
      BY <1>2, <1>3, <2>2
  <1>6. Owed'
    BY <1>1, <1>2, <1>4, <1>5 DEF Owed
  <1>7. QED
    BY <1>2, <1>6 DEF Stage

LEMMA ResultLive ==
    ASSUME TypeInv, Policy, AsyncResult, Alive, OnWire, Stage
    PROVE  OnWire' /\ Stage'
  <1>1. state = "kConnected"
    BY DEF AsyncResult, Alive, TypeInv, Ends
  <1>2. /\ delivered < answered /\ answered <= Len(accepted)
        /\ delivered \in Nat /\ Len(accepted) \in Nat /\ answered \in Nat
    BY DEF AsyncResult, TypeInv, TypeOK, Jobs
  <1>3. Owed
    BY <1>2 DEF Stage, Incoming, Ready, Idle, NoneDue
  <1>4. /\ kinds' = kinds /\ stream' = stream /\ readBuffer' = readBuffer
        /\ inFlight' = inFlight /\ wire' = wire /\ served' = served
        /\ writeBuffer' = writeBuffer /\ accepted' = accepted /\ delivered' = delivered + 1
    BY DEF AsyncResult, client, parser, sql
  <1>5. writing' = TRUE
        /\ \E c \in {200, 500} : pending' = [req |-> accepted[delivered + 1], status |-> c]
    BY <1>1 DEF AsyncResult
  <1>6. N' = N /\ OnWire' /\ Below'
    BY <1>3, <1>4, SameRequest, WireKept DEF Owed
  <1>7. pending'.req = N /\ delivered' = Len(accepted') /\ Refused(writeBuffer') /\ Consumed'
    BY <1>3, <1>4, <1>5 DEF Owed, Consumed
  <1>8. Refused(writeBuffer)'
    BY <1>4, <1>7, SameRequest
  <1>9. Ready'
    BY <1>3, <1>5, <1>6, <1>7, <1>8 DEF Ready, Owed
  <1>10. QED
    BY <1>6, <1>9 DEF Stage

\* What a write event has to send.
LEMMA OutgoingLive ==
    ASSUME TypeInv, WriteEvent, Stage, Alive
    PROVE  /\ N > 0 /\ Below /\ (Incoming \/ Owed \/ Ready)
           /\ \/ Refused(Outgoing) /\ Outgoing = writeBuffer /\ Len(writeBuffer) > 0
              \/ /\ Ready
                 /\ Outgoing = <<[req |-> N, status |-> pending.status, keep |-> keep]>>
  <1>1. writing \/ pc = "write"
    BY DEF WriteEvent, Watched, Alive
  <1>2. Incoming \/ Owed \/ Ready
    BY <1>1 DEF Stage, Idle
  <1>3. Len(writeBuffer) \in Nat /\ (writeBuffer = <<>> <=> Len(writeBuffer) = 0)
    BY NonEmpty DEF TypeInv, TypeOK
  <1>4. CASE Incoming \/ Owed
    <2>1. writeBuffer # <<>> /\ Refused(writeBuffer)
      BY <1>1, <1>4 DEF Incoming, Owed, HasBuffer
    <2>2. Outgoing = writeBuffer
      BY <2>1 DEF Outgoing
    <2>3. QED
      BY <1>2, <1>3, <1>4, <2>1, <2>2 DEF Incoming, Owed
  <1>5. CASE Ready
    <2>1. CASE writeBuffer = <<>>
      BY <1>5, <2>1 DEF Outgoing, Ready
    <2>2. CASE writeBuffer # <<>>
      <3>1. Outgoing = writeBuffer
        BY <2>2 DEF Outgoing
      <3>2. QED
        BY <1>3, <1>5, <2>2, <3>1 DEF Ready
    <2>3. QED
      BY <2>1, <2>2
  <1>6. QED
    BY <1>2, <1>4, <1>5

\* The response of the pending fields.
LEMMA AnswerTypes ==
    ASSUME TypeInv, N > 0, NEW r, r = [req |-> N, status |-> pending.status, keep |-> keep]
    PROVE  r \in Response /\ r.req = N /\ IsAnswer(r) /\ r.keep = keep
  <1>1. N \in 1..MaxSent
    BY DEF N, TypeInv, TypeOK
  <1>2. pending.status \in {200, 500, 503} /\ keep \in BOOLEAN
    BY DEF TypeInv, TypeOK
  <1>3. QED
    BY <1>1, <1>2 DEF Response, IsAnswer

LEMMA ShortLive ==
    ASSUME TypeInv, Policy, WriteShort, Alive, OnWire, Stage, AnswersInOrder
    PROVE  OnWire' /\ Stage' /\ AnswersInOrder' /\ EndIsLast'
  <1>1. PICK n \in 0..Len(Outgoing)-1 :
           wire' = wire \o SubSeq(Outgoing, 1, n) /\ writeBuffer' = Drop(Outgoing, n)
    BY DEF WriteShort
  <1>2. /\ kinds' = kinds /\ stream' = stream /\ readBuffer' = readBuffer
        /\ inFlight' = inFlight /\ keep' = keep /\ pending' = pending /\ served' = served
        /\ writing' = writing /\ delivered' = delivered /\ accepted' = accepted
        /\ maxServed' = maxServed /\ pc' = "wait" /\ WriteEvent
    BY DEF WriteShort, client, parser, sql, Policy
  <1>3. closedBy # "accept" /\ ~leftOver
    BY DEF Alive
  <1>4. Outgoing \in Seq(Response) /\ Len(Outgoing) \in Nat /\ wire \in Seq(Response)
        /\ n \in 0..Len(Outgoing) /\ n < Len(Outgoing) /\ served \in Nat
    BY OutgoingTypes DEF TypeInv, TypeOK
  <1>5. N > 0 /\ Below /\ N' = N
    BY <1>2, OutgoingLive, SameRequest
  <1> DEFINE out == SubSeq(Outgoing, 1, n)
             rest == Drop(Outgoing, n)
  <1>6. /\ out \in Seq(Response) /\ Len(out) = n /\ \A i \in 1..n : out[i] = Outgoing[i]
        /\ rest \in Seq(Response) /\ Len(rest) = Len(Outgoing) - n
        /\ \A i \in 1..Len(Outgoing) - n : rest[i] = Outgoing[i + n]
    <2>1. out \in Seq(Response) /\ Len(out) = n /\ \A i \in 1..n : out[i] = Outgoing[i]
      BY <1>4, TakeFacts
    <2>2. /\ rest \in Seq(Response) /\ Len(rest) = Len(Outgoing) - n
          /\ \A i \in 1..Len(Outgoing) - n : rest[i] = Outgoing[i + n]
      BY <1>4, DropFacts
    <2>3. QED
      BY <2>1, <2>2
  <1>7. CASE Refused(Outgoing) /\ Outgoing = writeBuffer /\ Len(writeBuffer) > 0
    <2> HIDE DEF out, rest
    <2>1. Refused(out) /\ Refused(rest)
      <3>1. \A i \in 1..Len(out) : i \in 1..Len(Outgoing) /\ out[i] = Outgoing[i]
        BY <1>4, <1>6
      <3>2. \A i \in 1..Len(rest) : i + n \in 1..Len(Outgoing) /\ rest[i] = Outgoing[i + n]
        BY <1>4, <1>6
      <3>3. QED
        BY SMTT(30), <1>7, <3>1, <3>2 DEF Refused
    <2>2. wire' = wire \o out /\ writeBuffer' = rest
      BY <1>1 DEF out, rest
    <2>3. /\ OnWire' /\ Below' /\ AnswersInOrder'
          /\ \A i \in 1..Len(wire) : i \in 1..Len(wire') /\ wire'[i] = wire[i]
      <3>1. served' \in Nat /\ served <= served'
        BY <1>2, <1>4
      <3>2. QED
        BY <1>2, <1>3, <1>5, <1>6, <2>1, <2>2, <3>1, RefusedOnWire
    <2>4. EndIsLast'
      BY <1>2, <1>6, <2>1, <2>2, EndOnWire
    <2>5. Refused(writeBuffer)'
      BY <1>2, <2>1, <2>2, SameRequest
    <2>6. HasBuffer'
      <3>1. Len(rest) # 0
        BY <1>4, <1>6
      <3>2. writeBuffer' # <<>>
        BY <1>6, <2>2, <3>1, NonEmpty
      <3>3. QED
        BY <3>2 DEF HasBuffer
    <2>7. Told => Told'
      <3>1. CASE \E i \in 1..Len(wire) : wire[i].req = N
        BY <1>5, <2>3, <3>1 DEF Told
      <3>2. ASSUME NEW i \in 1..Len(writeBuffer), writeBuffer[i].req = N
            PROVE  Told'
        <4>1. Len(rest) \in 1..Len(rest) /\ Len(rest) + n = Len(Outgoing)
          BY <1>4, <1>6
        <4>2. writeBuffer'[Len(rest)] = Outgoing[Len(Outgoing)]
          BY <1>6, <2>2, <4>1
        <4>3. Len(Outgoing) \in 1..Len(Outgoing)
          BY <1>4
        <4>4. Outgoing[Len(Outgoing)].req = N
          BY <1>7, <4>3 DEF Refused
        <4>5. QED
          BY <1>5, <2>2, <4>1, <4>2, <4>4 DEF Told
      <3>3. QED
        BY <3>1, <3>2 DEF Told
    <2>8. /\ Cut(inFlight, readBuffer, stream) => Cut(inFlight, readBuffer, stream)'
          /\ Left(readBuffer, stream) => Left(readBuffer, stream)'
      BY <1>2, SameRequest
    <2>9. Incoming => Incoming'
      BY <1>2, <1>5, <2>3, <2>5, <2>6, <2>7, <2>8 DEF Incoming, NoneDue
    <2>10. Owed => Owed'
      BY <1>2, <1>5, <2>3, <2>5, <2>6 DEF Owed, Consumed
    <2>11. Ready => Ready'
      BY <1>2, <1>5, <2>3, <2>5 DEF Ready, Consumed
    <2>12. Incoming \/ Owed \/ Ready
      BY <1>2, OutgoingLive
    <2>13. QED
      BY <2>3, <2>4, <2>9, <2>10, <2>11, <2>12 DEF Stage
  <1>8. CASE /\ Ready
             /\ Outgoing = <<[req |-> N, status |-> pending.status, keep |-> keep]>>
    <2>1. Len(Outgoing) = 1
      BY <1>8
    <2>2. n = 0
      BY <1>4, <2>1
    <2>3. out = <<>> /\ rest = Outgoing
      BY <1>4, <2>2, SubSeqFull, SubSeqEmpty DEF Drop
    <2>4. wire' = wire /\ writeBuffer' = Outgoing
      BY <1>1, <1>4, <2>3, ConcatEmptySeq
    <2>5. OnWire' /\ Below'
      BY <1>2, <1>5, <2>4, WireKept
    <2>6. AnswersInOrder'
      BY <1>3, <2>4 DEF AnswersInOrder
    <2>7. EndIsLast'
      <3>1. <<>> \in Seq(Response) /\ Len(<<>>) <= 1
        BY EmptySeq
      <3>2. wire' = wire \o <<>>
        BY <1>4, <2>4, ConcatEmptySeq
      <3>3. QED
        BY <1>2, <3>1, <3>2, EndOnWire
    <2>8. Ready'
      BY <1>2, <1>5, <1>8, <2>4, <2>5 DEF Ready, Consumed
    <2>9. QED
      BY <2>5, <2>6, <2>7, <2>8 DEF Stage
  <1>9. QED
    BY <1>2, <1>7, <1>8, OutgoingLive

\* Everything is written: what that makes of the wire.
LEMMA AllOnWire ==
    ASSUME TypeInv, Policy, WriteAll, Alive, OnWire, Stage, AnswersInOrder,
           served' \in Nat, served <= served'
    PROVE  /\ AnswersInOrder' /\ EndIsLast' /\ N' = N /\ N > 0
           /\ Incoming \/ Owed \/ Ready
           /\ \E i \in 1..Len(wire') : wire'[i].req = N
           /\ (keep /\ served' = served + 1) => OnWire'
           /\ Owed => Below'
  <1>1. /\ wire' = wire \o Outgoing /\ kinds' = kinds /\ maxServed' = maxServed /\ WriteEvent
    BY DEF WriteAll, client, Policy
  <1>2. closedBy # "accept" /\ ~leftOver
    BY DEF Alive
  <1>3. /\ Outgoing \in Seq(Response) /\ Len(Outgoing) \in Nat /\ wire \in Seq(Response)
        /\ served \in Nat /\ Len(Outgoing) > 0
    BY OutgoingTypes DEF TypeInv, TypeOK
  <1>4. N > 0 /\ Below /\ N' = N /\ (Incoming \/ Owed \/ Ready)
    BY <1>1, OutgoingLive, SameRequest
  <1>5. CASE Refused(Outgoing) /\ Outgoing = writeBuffer /\ Len(writeBuffer) > 0
    <2>1. EndIsLast'
      BY <1>1, <1>3, <1>5, EndOnWire
    <2>2. \E i \in 1..Len(wire') : wire'[i].req = N
      <3>1. /\ Len(wire') = Len(wire) + Len(Outgoing) /\ Len(wire) \in Nat
            /\ \A i \in 1..Len(wire') : i \notin 1..Len(wire) =>
                  i - Len(wire) \in 1..Len(Outgoing) /\ wire'[i] = Outgoing[i - Len(wire)]
        BY <1>1, <1>3, WireTypes
      <3>2. Len(wire) + 1 \in 1..Len(wire') /\ Len(wire) + 1 \notin 1..Len(wire)
        BY <1>3, <3>1
      <3>3. wire'[Len(wire) + 1].req = N
        BY <1>5, <3>1, <3>2 DEF Refused
      <3>4. QED
        BY <3>2, <3>3
    <2>3. OnWire' /\ Below' /\ AnswersInOrder'
      BY <1>1, <1>2, <1>3, <1>4, <1>5, RefusedOnWire
    <2>4. QED
      BY <1>4, <2>1, <2>2, <2>3
  <1>6. CASE /\ Ready
             /\ Outgoing = <<[req |-> N, status |-> pending.status, keep |-> keep]>>
    <2> DEFINE r == [req |-> N, status |-> pending.status, keep |-> keep]
    <2>1. r \in Response /\ r.req = N /\ IsAnswer(r) /\ r.keep = keep
      BY <1>4, AnswerTypes
    <2>2. wire' = wire \o <<r>>
      BY <1>1, <1>6
    <2> HIDE DEF r
    <2>3. /\ AnswersInOrder' /\ (\E i \in 1..Len(wire') : wire'[i].req = N)
          /\ (keep /\ served' = served + 1) => OnWire'
      BY <1>1, <1>2, <1>4, <2>1, <2>2, AnswerOnWire
    <2>4. EndIsLast'
      <3>1. Len(Outgoing) = 1
        BY <1>6
      <3>2. Len(Outgoing) <= 1
        BY <3>1
      <3>3. QED
        BY <1>1, <1>3, <3>2, EndOnWire
    <2>5. ~Owed
      BY <1>4, <1>6 DEF Ready, Owed, Default
    <2>6. QED
      BY <1>4, <2>3, <2>4, <2>5
  <1>7. QED
    BY <1>1, <1>5, <1>6, OutgoingLive

LEMMA AllKeepLive ==
    ASSUME TypeInv, Policy, WriteAllKeep, Alive, OnWire, Stage, AnswersInOrder
    PROVE  (Alive' => OnWire' /\ Stage') /\ AnswersInOrder' /\ EndIsLast'
  <1>1. /\ WriteAll /\ keep /\ served' = served + 1 /\ keep' = FALSE /\ pending' = Default
        /\ served \in Nat
    BY DEF WriteAllKeep, TypeInv, TypeOK
  <1>2. /\ kinds' = kinds /\ stream' = stream /\ readBuffer' = readBuffer
        /\ inFlight' = inFlight /\ delivered' = delivered /\ accepted' = accepted
        /\ writeBuffer' = <<>> /\ pc' = "wait"
    BY <1>1 DEF WriteAll, client, parser, sql
  <1>3. /\ AnswersInOrder' /\ EndIsLast' /\ N' = N /\ N > 0
        /\ Incoming \/ Owed \/ Ready
        /\ \E i \in 1..Len(wire') : wire'[i].req = N
        /\ OnWire' /\ (Owed => Below')
    <2>1. served' \in Nat /\ served <= served'
      BY <1>1
    <2>2. QED
      BY <1>1, <2>1, AllOnWire
  <1>4. ASSUME Alive'
        PROVE  Stage'
    <2>1. writing' = FALSE
      <3>1. closedBy' = "nobody"
        BY <1>2, <1>4 DEF Alive
      <3>2. CASE served' >= maxServed
        <4>1. CloseOwn
          BY <3>2 DEF WriteAllKeep
        <4>2. QED
          BY <3>1, <4>1 DEF CloseOwn, closing, TypeInv, Ends
      <3>3. CASE ~(served' >= maxServed)
        BY <3>3 DEF WriteAllKeep
      <3>4. QED
        BY <3>2, <3>3
    <2>2. CASE Owed
      <3>1. Refused(writeBuffer)'
        <4>1. ~ \E i \in 1..Len(<<>>) : TRUE
          OBVIOUS
        <4>2. QED
          BY <1>2, <4>1 DEF Refused
      <3>2. HasBuffer'
        BY <1>2, <2>1 DEF HasBuffer
      <3>3. Owed'
        BY <1>1, <1>2, <1>3, <2>2, <3>1, <3>2 DEF Owed, Consumed
      <3>4. QED
        BY <3>3 DEF Stage
    <2>3. CASE Ready
      <3>1. Idle'
        BY <1>1, <1>2, <1>3, <2>1, <2>3 DEF Ready, Idle, Consumed, NoneDue
      <3>2. QED
        BY <3>1 DEF Stage
    <2>4. ~Incoming
      BY <1>1 DEF Incoming
    <2>5. QED
      BY <1>3, <2>2, <2>3, <2>4
  <1>5. QED
    BY <1>3, <1>4

LEMMA AllCloseLive ==
    ASSUME TypeInv, Policy, WriteAllClose, Alive, OnWire, Stage, AnswersInOrder
    PROVE  ~Alive' /\ AnswersInOrder' /\ EndIsLast'
  <1>1. WriteAll /\ served' = served /\ CloseOwn /\ pc' = "wait"
    BY DEF WriteAllClose, WriteAll
  <1>2. served' \in Nat /\ served <= served'
    BY <1>1 DEF TypeInv, TypeOK
  <1>3. AnswersInOrder' /\ EndIsLast'
    BY <1>1, <1>2, AllOnWire
  <1>4. ~Alive'
    BY <1>1 DEF CloseOwn, closing, Alive, TypeInv, Ends
  <1>5. QED
    BY <1>3, <1>4

\* The steps that end the connection, and those that leave it as it is.
LEMMA OtherLive ==
    ASSUME TypeInv, TypeInv', Policy, Alive, LiveInv,
           \/ ClientClose \/ Quiet \/ Late \/ Executor
           \/ ReadEnd \/ ActiveError \/ Remove \/ IdleClose \/ WriteError
    PROVE  LiveInv'
  <1>1. OnWire /\ Stage /\ AnswersInOrder /\ EndIsLast /\ closedBy # "accept" /\ ~leftOver
    BY DEF LiveInv, AliveInv, Stage, Alive
  <1>2. wire' = wire /\ maxServed' = maxServed
    BY DEF ClientClose, Quiet, Late, Executor, ReadEnd, ActiveError, Remove, IdleClose, WriteError,
           Policy
  <1>3. AnswersInOrder' /\ EndIsLast'
    BY <1>1, <1>2, WireSame
  <1>4. CASE ClientClose \/ Quiet \/ Late \/ Executor \/ ReadEnd
    <2>1. UNCHANGED <<kinds, stream, readBuffer, inFlight, keep, pending, writeBuffer, wire, served,
                      delivered, accepted, writing>>
      BY <1>4 DEF ClientClose, Quiet, Late, Executor, ReadEnd, Sql!Answer, Sql!Close, client,
                  parser, reply, sql
    <2>2. pc' \in {"wait", "write"}
      BY DEF TypeInv, TypeOK
    <2>3. pc' = "write" => writing \/ pc = "write"
      BY <1>1, <1>4 DEF ClientClose, Quiet, Late, Executor, ReadEnd, SameEvent, Watched
    <2>4. OnWire' /\ Stage'
      BY <1>1, <2>1, <2>2, <2>3, StageSame
    <2>5. QED
      BY <1>3, <2>4 DEF LiveInv, AliveInv, Stage
  <1>5. CASE ActiveError \/ Remove \/ IdleClose \/ WriteError
    <2>1. ~Alive'
      BY <1>5 DEF ActiveError, Waiting, Remove, IdleClose, WriteError, CloseOwn, closing, Alive, TypeInv, Ends
    <2>2. QED
      BY <1>3, <2>1 DEF LiveInv, AliveInv
  <1>6. QED
    BY <1>4, <1>5

\* The steps of a connection that is alive.
LEMMA AliveStep ==
    ASSUME MaxAhead = 1, TypeInv, TypeInv', Next, Alive, LiveInv
    PROVE  LiveInv'
  <1>1. /\ OnWire /\ Stage /\ AnswersInOrder /\ EndIsLast /\ closedBy # "accept"
        /\ ~leftOver /\ Policy /\ maxServed' = maxServed
    BY DEF LiveInv, AliveInv, Stage, Alive, Next, Policy
  <1>2. ASSUME OnWire' /\ Stage', wire' = wire
        PROVE  LiveInv'
    BY <1>1, <1>2, WireSame DEF LiveInv, AliveInv, Stage
  <1>3. ASSUME NEW n, Read(n) \/ ReadAgain(n)
        PROVE  LiveInv'
    <2>1. wire' = wire
      BY <1>3 DEF Read, ReadAgain, ReadInvalid, ReadSync, ReadAsync, Complete, Received
    <2>2. OnWire' /\ Stage'
      BY <1>1, <1>3, AgainLive, InvalidLive, SyncLive, AsyncLive DEF Read
    <2>3. QED
      BY <1>2, <2>1, <2>2
  <1>4. CASE Send
    <2>1. wire' = wire
      BY <1>4 DEF Send
    <2>2. QED
      BY <1>1, <1>2, <1>4, <2>1, SendLive
  <1>5. CASE AsyncResult
    <2>1. wire' = wire
      BY <1>5 DEF AsyncResult
    <2>2. QED
      BY <1>1, <1>2, <1>5, <2>1, ResultLive
  <1>6. CASE WriteShort
    BY <1>1, <1>6, ShortLive DEF LiveInv, AliveInv, Stage
  <1>7. CASE WriteAllKeep
    BY <1>1, <1>7, AllKeepLive DEF LiveInv, AliveInv, Stage
  <1>8. CASE WriteAllClose
    BY <1>1, <1>8, AllCloseLive DEF LiveInv, AliveInv
  <1>9. CASE \/ ClientClose \/ Quiet \/ Late \/ Executor
             \/ ReadEnd \/ ActiveError \/ Remove \/ IdleClose \/ WriteError
    BY <1>1, <1>9, OtherLive
  <1>10. CASE \E n : Read(n) \/ ReadAgain(n)
    BY <1>3, <1>10
  <1>11. QED
    BY <1>4, <1>5, <1>6, <1>7, <1>8, <1>9, <1>10 DEF Next, Loop

LEMMA LiveInit == Init => LiveInv
  <1> SUFFICES ASSUME Init PROVE LiveInv
    OBVIOUS
  <1>1. kinds = <<>> /\ wire = <<>> /\ Len(<<>>) = 0 /\ N = 0
    BY EmptySeq DEF Init, N
  <1>2. AnswersInOrder /\ EndIsLast
    <2>1. ~ \E i \in 1..Len(wire) : TRUE
      BY <1>1
    <2>2. QED
      BY <2>1 DEF AnswersInOrder, EndIsLast
  <1>3. OnWire
    <2>1. ~ (\E i \in 1..Len(wire) : TRUE) /\ ~ (\E r \in 1..N-1 : TRUE)
      BY <1>1
    <2>2. Answers(wire) = {}
      BY <2>1 DEF Answers
    <2>3. Cardinality(Answers(wire)) = 0 /\ served = 0
      BY <2>2, FS_EmptySet DEF Init
    <2>4. QED
      BY <2>1, <2>3 DEF OnWire
  <1>4. Idle
    BY <1>1 DEF Init, Sql!Init, Idle, Consumed, NoneDue
  <1>5. QED
    BY <1>2, <1>3, <1>4 DEF LiveInv, AliveInv

LEMMA LiveStep ==
    ASSUME MaxAhead = 1, TypeInv, TypeInv', [Next]_vars, LiveInv
    PROVE  LiveInv'
  <1>1. CASE UNCHANGED vars
    <2>1. /\ UNCHANGED <<kinds, stream, readBuffer, inFlight, keep, pending, writeBuffer, wire, served,
                         delivered, accepted, writing>>
          /\ pc' = pc /\ closedBy' = closedBy /\ maxServed' = maxServed /\ leftOver' = leftOver
      BY <1>1 DEF vars
    <2>2. AnswersInOrder' /\ EndIsLast'
      BY <2>1 DEF LiveInv, AnswersInOrder, EndIsLast
    <2>3. pc' \in {"wait", "write"}
      BY DEF TypeInv, TypeOK
    <2>4. CASE Alive
      <3>1. OnWire' /\ Stage'
        BY <2>1, <2>3, <2>4, StageSame DEF LiveInv, AliveInv, Stage
      <3>2. QED
        BY <2>2, <3>1 DEF LiveInv, AliveInv, Stage
    <2>5. CASE ~Alive
      <3>1. ~Alive'
        BY <2>1, <2>5 DEF Alive
      <3>2. QED
        BY <2>2, <3>1 DEF LiveInv, AliveInv
    <2>6. QED
      BY <2>4, <2>5
  <1>2. CASE Next /\ Alive
    BY <1>2, AliveStep
  <1>3. CASE Next /\ ~Alive
    <2>1. /\ ~Alive' /\ maxServed' = maxServed
          /\ \/ closedBy' = "accept" \/ leftOver'
             \/ closedBy # "accept" /\ ~leftOver /\ wire' = wire
      BY <1>3, GoneStep
    <2>2. AnswersInOrder' /\ EndIsLast'
      BY <2>1 DEF LiveInv, AnswersInOrder, EndIsLast
    <2>3. QED
      BY <2>1, <2>2 DEF LiveInv, AliveInv
  <1>4. QED
    BY <1>1, <1>2, <1>3

\* With nothing left to do, what is unanswered is a request without headers
\* that waits for its second CRLF.
LEMMA SettledOwes == TypeInv /\ LiveInv => OwesNothing
  <1> SUFFICES ASSUME TypeInv, LiveInv, Settled, NEW r \in 1..Len(kinds), kinds[r] # "bare",
                      \A i \in 1..Len(wire) : wire[i].req # r
               PROVE  FALSE
    BY DEF OwesNothing
  <1>1. Alive
    BY DEF Settled, Watched, TypeInv, Ends, Alive
  <1>2. OnWire /\ Stage
    BY <1>1 DEF LiveInv, AliveInv, Stage
  <1>3. r = N /\ N > 0
    <2>1. Len(kinds) \in Nat
      BY DEF TypeInv, TypeOK
    <2>2. r \notin 1..N-1
      BY <1>2 DEF OnWire
    <2>3. QED
      BY <2>1, <2>2 DEF N
  <1>4. Len(Asked) \in {2, 3, 4} /\ Len(Asked) >= 3
    BY <1>3, AskedFacts DEF TypeInv, TypeOK
  <1>5. /\ Len(stream) = 0 /\ Len(writeBuffer) = 0 /\ ~writing /\ delivered = Len(accepted)
        /\ Len(readBuffer) \in Nat /\ delivered \in Nat
    BY EmptySeq DEF Settled, Watched, TypeInv, TypeOK
  <1>6. ~Cut(inFlight, readBuffer, stream)
    <2>1. CASE Untouched(inFlight, readBuffer, stream)
      <3>1. Len(readBuffer) = 0
        BY <2>1, EmptySeq DEF Untouched
      <3>2. Len(readBuffer) + Len(stream) + 0 = Len(Asked)
        BY <2>1 DEF Untouched, After
      <3>3. QED
        BY <1>4, <1>5, <3>1, <3>2
    <2>2. CASE InHead(inFlight, readBuffer, stream)
      <3>1. Len(readBuffer) <= 1 /\ Len(readBuffer) + Len(stream) + 1 = Len(Asked)
        BY <2>2 DEF InHead, After
      <3>2. QED
        BY <1>4, <1>5, <3>1
    <2>3. CASE InBody(inFlight, readBuffer, stream)
      <3>1. Len(readBuffer) = 0
        BY <2>3, EmptySeq DEF InBody
      <3>2. Len(readBuffer) + Len(stream) + 3 = Len(Asked) /\ Asked[2] = "length"
        BY <2>3 DEF InBody, After
      <3>3. Len(Asked) = 3
        BY <1>5, <3>1, <3>2
      <3>4. QED
        BY <1>3, <3>2, <3>3, AskedFacts DEF TypeInv, TypeOK
    <2>4. QED
      BY <2>1, <2>2, <2>3 DEF Cut
  <1>7. ~Told
    <2>1. ~ \E i \in 1..Len(writeBuffer) : TRUE
      BY <1>5
    <2>2. QED
      BY <1>3, <2>1 DEF Told
  <1>8. ~Incoming
    BY <1>6, <1>7 DEF Incoming
  <1>9. ~Owed /\ ~Ready /\ ~Idle
    BY <1>3, <1>5 DEF Owed, Ready, Idle
  <1>10. QED
    BY <1>2, <1>8, <1>9 DEF Stage

LEMMA LiveAlways ==
    ASSUME MaxAhead = 1
    PROVE  Spec => [](TypeInv /\ LiveInv)
  <1>1. Init => TypeInv /\ LiveInv
    BY InitTypes, LiveInit
  <1>2. TypeInv /\ LiveInv /\ [Next]_vars => TypeInv' /\ LiveInv'
    BY TypeStep, LiveStep
  <1>3. QED
    BY <1>1, <1>2, PTL DEF Spec

\* A client that waits for each response gets the answers of the handlers in
\* the order of its requests, each once and never the empty one: always with
\* poll and epoll, with select as long as writeSet_ keeps no write interest
\* that was given up (TcpConnection.cpp:257-275, 388-395, 423-427, 471-503;
\* SelectDispatcher.cpp:35-47, 66-71).
THEOREM EachAnswerInOrder ==
    ASSUME MaxAhead = 1
    PROVE  Spec => []AnswersInOrder
  <1>1. TypeInv /\ LiveInv => AnswersInOrder
    BY DEF LiveInv
  <1>2. QED
    BY <1>1, LiveAlways, PTL

\* The answer that ends the connection is the last on the wire, with select
\* as long as no write interest is left over (TcpConnection.cpp:409-430).
THEOREM NothingAfterTheEnd ==
    ASSUME MaxAhead = 1
    PROVE  Spec => []EndIsLast
  <1>1. TypeInv /\ LiveInv => EndIsLast
    BY DEF LiveInv
  <1>2. QED
    BY <1>1, LiveAlways, PTL

\* A connection with nothing left to do has answered every request with a
\* header, whichever way its bytes were cut (TcpConnection.cpp:210-312).
THEOREM NoRequestForgotten ==
    ASSUME MaxAhead = 1
    PROVE  Spec => []OwesNothing
  <1>1. TypeInv /\ LiveInv => OwesNothing
    BY SettledOwes
  <1>2. QED
    BY <1>1, LiveAlways, PTL
=============================================================================
