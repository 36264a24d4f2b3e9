---------------------------- MODULE BufferProofs ----------------------------
(***************************************************************************)
(* Proofs about Buffer, for every capacity, reserve and size of extraBuf:  *)
(* the indices stay inside the vector, the readable bytes are those put in *)
(* and not consumed, in order, and the vector stays within twice the       *)
(* largest backlog.                                                        *)
(***************************************************************************)
EXTENDS Buffer, TLAPS

USE BufferAssumption

\* A buffer whose indices are in order.
Shape(b) ==
    /\ b.size \in Nat /\ b.read \in Nat /\ b.write \in Nat
    /\ b = [size |-> b.size, mem |-> b.mem, read |-> b.read, write |-> b.write]
    /\ b.mem \in [0..b.size - 1 -> 0..MaxBytes]
    /\ kCheapPrepend <= b.read /\ b.read <= b.write /\ b.write <= b.size

\* Its data are the bytes of the stream that follow number t.
Holds(b, t) == \A i \in 0..b.write - b.read - 1 : b.mem[b.read + i] = t + i + 1

LEMMA Indices ==
    ASSUME NEW b, Shape(b)
    PROVE  /\ b.size \in Nat /\ b.read \in Nat /\ b.write \in Nat
           /\ kCheapPrepend <= b.read /\ b.read <= b.write /\ b.write <= b.size
           /\ b.write - b.read \in Nat /\ b.size - b.write \in Nat
  BY DEF Shape

\* Growing keeps the data where they are and makes room.
LEMMA GrowFacts ==
    ASSUME NEW b, Shape(b), NEW t \in Nat, Holds(b, t), NEW len \in Nat,
           b.size - b.write < len
    PROVE  /\ Shape(Grow(b, len)) /\ Holds(Grow(b, len), t)
           /\ Grow(b, len).read = b.read /\ Grow(b, len).write = b.write
           /\ Grow(b, len).size = b.write + len
  <1> DEFINE g == Grow(b, len)
             m == [i \in 0..b.write + len - 1 |-> IF i < b.size THEN b.mem[i] ELSE 0]
  <1>1. g = [size |-> b.write + len, mem |-> m, read |-> b.read, write |-> b.write]
    BY DEF Grow
  <1>2. m \in [0..b.write + len - 1 -> 0..MaxBytes]
    <2>1. b.mem \in [0..b.size - 1 -> 0..MaxBytes] /\ b.size \in Nat /\ b.write \in Nat
      BY DEF Shape
    <2>2. ASSUME NEW i \in 0..b.write + len - 1, i < b.size PROVE i \in 0..b.size - 1
      BY <2>1, <2>2
    <2>3. QED
      BY <2>1, <2>2
  <1> HIDE DEF m
  <1>3. g.size = b.write + len /\ g.mem = m /\ g.read = b.read /\ g.write = b.write
    BY <1>1
  <1>4. Shape(g)
    <2> HIDE DEF g
    <2>1. QED
      BY <1>1, <1>2, <1>3 DEF Shape
  <1>5. Holds(g, t)
    <2> HIDE DEF g
    <2>1. ASSUME NEW i \in 0..b.write - b.read - 1 PROVE m[b.read + i] = b.mem[b.read + i]
      <3>1. b.read + i \in 0..b.write + len - 1 /\ b.read + i < b.size
        BY Indices
      <3>2. QED
        BY <3>1 DEF m
    <2>2. QED
      BY <1>3, <2>1 DEF Holds
  <1>6. QED
    BY <1>3, <1>4, <1>5

\* Compacting moves the data to the front.
LEMMA CompactFacts ==
    ASSUME NEW b, Shape(b), NEW t \in Nat, Holds(b, t)
    PROVE  /\ Shape(Compact(b)) /\ Holds(Compact(b), t)
           /\ Compact(b).size = b.size /\ Compact(b).read = kCheapPrepend
           /\ Compact(b).write = kCheapPrepend + (b.write - b.read)
  <1> DEFINE end == kCheapPrepend + (b.write - b.read)
             m == [i \in 0..b.size - 1 |-> IF i \in kCheapPrepend..end - 1
                                           THEN b.mem[b.read + (i - kCheapPrepend)]
                                           ELSE b.mem[i]]
             c == Compact(b)
  <1>1. c = [size |-> b.size, mem |-> m, read |-> kCheapPrepend, write |-> end]
    BY DEF Compact, readableBytes
  <1>2. /\ b.size \in Nat /\ b.read \in Nat /\ b.write \in Nat /\ end \in Nat
        /\ kCheapPrepend <= end /\ end <= b.size /\ b.read <= b.write /\ b.write <= b.size
    BY DEF Shape
  <1>3. m \in [0..b.size - 1 -> 0..MaxBytes]
    <2>1. b.mem \in [0..b.size - 1 -> 0..MaxBytes]
      BY DEF Shape
    <2>2. ASSUME NEW i \in kCheapPrepend..end - 1
          PROVE  b.read + (i - kCheapPrepend) \in 0..b.size - 1
      BY <1>2
    <2> HIDE DEF end
    <2>3. QED
      BY <1>2, <2>1, <2>2
  <1>4. ASSUME NEW i \in 0..b.write - b.read - 1 PROVE m[kCheapPrepend + i] = t + i + 1
    <2>1. kCheapPrepend + i \in 0..b.size - 1 /\ kCheapPrepend + i \in kCheapPrepend..end - 1
      BY <1>2
    <2>2. m[kCheapPrepend + i] = b.mem[b.read + ((kCheapPrepend + i) - kCheapPrepend)]
      BY <2>1
    <2>3. b.read + ((kCheapPrepend + i) - kCheapPrepend) = b.read + i
      BY <1>2
    <2>4. QED
      BY <2>2, <2>3 DEF Holds
  <1> HIDE DEF m
  <1>5. c.size = b.size /\ c.mem = m /\ c.read = kCheapPrepend /\ c.write = end
    BY <1>1
  <1> HIDE DEF c
  <1>6. Shape(c)
    BY <1>1, <1>2, <1>3, <1>5 DEF Shape
  <1>7. Holds(c, t)
    <2>1. c.write - c.read = b.write - b.read
      BY <1>2, <1>5
    <2>2. QED
      BY <1>4, <1>5, <2>1 DEF Holds
  <1>8. QED
    BY <1>5, <1>6, <1>7 DEF c

\* Room for len bytes is made, the data stay, and a growth stays within the
\* data and twice what is added.
LEMMA EnsureFacts ==
    ASSUME NEW b, Shape(b), NEW t \in Nat, Holds(b, t), NEW len \in Nat
    PROVE  LET e == EnsureWriteable(b, len)
           IN  /\ Shape(e) /\ Holds(e, t)
               /\ e.write - e.read = b.write - b.read
               /\ e.write + len <= e.size
               /\ e.size = b.size \/ e.size < (b.write - b.read) + 2 * len + kCheapPrepend
               /\ e.size >= b.size /\ (len = 0 => e = b)
  <1> DEFINE e == EnsureWriteable(b, len)
  <1>1. CASE b.size - b.write >= len
    <2>1. e = b
      BY <1>1 DEF EnsureWriteable, writeableBytes, Shape
    <2>2. b.write + len <= b.size /\ b.size >= b.size
      BY <1>1, Indices
    <2> HIDE DEF e
    <2>3. QED
      BY <2>1, <2>2 DEF e
  <1>2. CASE b.size - b.write < len /\ b.read + (b.size - b.write) < len + kCheapPrepend
    <2>1. e = Grow(b, len)
      BY <1>2 DEF EnsureWriteable, MakeSpace, writeableBytes, prependableBytes
    <2>2. Shape(Grow(b, len)) /\ Holds(Grow(b, len), t)
      BY <1>2, GrowFacts
    <2>3. /\ Grow(b, len).read = b.read /\ Grow(b, len).write = b.write
          /\ Grow(b, len).size = b.write + len
      BY <1>2, GrowFacts
    <2>4. b.write + len < (b.write - b.read) + 2 * len + kCheapPrepend
      BY <1>2, Indices
    <2>5. b.write \in Nat /\ b.read \in Nat
      BY Indices
    <2> HIDE DEF e
    <2>6. e.write = b.write /\ e.read = b.read /\ e.size = b.write + len
      BY <2>1, <2>3
    <2>7. Shape(e) /\ Holds(e, t)
      BY <2>1, <2>2
    <2>8. b.write + len >= b.size /\ len # 0
      BY <1>2, Indices
    <2>9. QED
      BY <2>4, <2>5, <2>6, <2>7, <2>8 DEF e
  <1>3. CASE b.size - b.write < len /\ ~(b.read + (b.size - b.write) < len + kCheapPrepend)
    <2>1. e = Compact(b)
      BY <1>3 DEF EnsureWriteable, MakeSpace, writeableBytes, prependableBytes
    <2>2. /\ Shape(e) /\ Holds(e, t) /\ e.size = b.size /\ e.read = kCheapPrepend
          /\ e.write = kCheapPrepend + (b.write - b.read)
      BY <2>1, CompactFacts
    <2>3. kCheapPrepend + (b.write - b.read) + len <= b.size /\ len # 0
      BY <1>3, Indices
    <2> HIDE DEF e
    <2>4. e.write - e.read = b.write - b.read /\ e.write + len <= e.size /\ e.size >= b.size
      BY <2>2, <2>3, Indices
    <2>5. QED
      BY <2>2, <2>3, <2>4 DEF e
  <1>4. QED
    BY <1>1, <1>2, <1>3, Indices

\* Bytes copied behind the data prolong them.
LEMMA PutFacts ==
    ASSUME NEW b, Shape(b), NEW t \in Nat, Holds(b, t), NEW len \in Nat,
           b.write + len <= b.size, t + (b.write - b.read) + len <= MaxBytes
    PROVE  LET p == Put(b, len, t + (b.write - b.read) + 1)
           IN  /\ Shape(p) /\ Holds(p, t)
               /\ p.size = b.size /\ p.read = b.read /\ p.write = b.write + len
  <1> DEFINE n == t + (b.write - b.read) + 1
             p == Put(b, len, n)
             m == [i \in 0..b.size - 1 |-> IF i \in b.write..b.write + len - 1
                                           THEN n + (i - b.write) ELSE b.mem[i]]
  <1>1. p = [size |-> b.size, mem |-> m, read |-> b.read, write |-> b.write + len]
    BY DEF Put
  <1>0. /\ b.size \in Nat /\ b.read \in Nat /\ b.write \in Nat
        /\ b.read <= b.write /\ b.write <= b.size
    BY Indices
  <1>8. b.mem \in [0..b.size - 1 -> 0..MaxBytes]
    BY DEF Shape
  <1>2. m \in [0..b.size - 1 -> 0..MaxBytes]
    <2>1. ASSUME NEW i \in b.write..b.write + len - 1 PROVE n + (i - b.write) \in 0..MaxBytes
      BY <1>0
    <2> HIDE DEF n
    <2>2. QED
      BY <1>0, <1>8, <2>1
  <1>3. ASSUME NEW i \in 0..(b.write + len) - b.read - 1 PROVE m[b.read + i] = t + i + 1
    <2>1. b.read + i \in 0..b.size - 1
      BY <1>0
    <2>2. CASE b.read + i < b.write
      <3>1. b.read + i \notin b.write..b.write + len - 1 /\ i \in 0..b.write - b.read - 1
        BY <1>0, <2>2
      <3>2. m[b.read + i] = b.mem[b.read + i]
        BY <2>1, <3>1
      <3>3. QED
        BY <3>1, <3>2 DEF Holds
    <2>3. CASE b.read + i >= b.write
      <3>1. b.read + i \in b.write..b.write + len - 1
        BY <1>0, <2>3
      <3>2. m[b.read + i] = n + ((b.read + i) - b.write)
        BY <2>1, <3>1
      <3>3. n + ((b.read + i) - b.write) = t + i + 1
        BY <1>0
      <3>4. QED
        BY <3>2, <3>3
    <2>4. QED
      BY <1>0, <2>2, <2>3
  <1> HIDE DEF m
  <1>4. p.size = b.size /\ p.mem = m /\ p.read = b.read /\ p.write = b.write + len
    BY <1>1
  <1>5. Shape(p)
    <2> HIDE DEF p
    <2>1. QED
      BY <1>1, <1>2, <1>4 DEF Shape
  <1>6. Holds(p, t)
    <2> HIDE DEF p
    <2>1. QED
      BY <1>3, <1>4 DEF Holds
  <1>7. QED
    BY <1>4, <1>5, <1>6

\* The end of an append: room, then the bytes.
LEMMA AppendFacts ==
    ASSUME NEW b, Shape(b), NEW t \in Nat, Holds(b, t), NEW len \in Nat,
           t + (b.write - b.read) + len <= MaxBytes
    PROVE  LET a == append(b, len, t + (b.write - b.read) + 1)
           IN  /\ Shape(a) /\ Holds(a, t)
               /\ a.write - a.read = (b.write - b.read) + len
               /\ a.size = b.size \/ a.size < (b.write - b.read) + 2 * len + kCheapPrepend
               /\ a.size >= b.size /\ (len = 0 => a.read = b.read)
  <1> DEFINE e == EnsureWriteable(b, len)
             a == Put(e, len, t + (e.write - e.read) + 1)
  <1>1. /\ Shape(e) /\ Holds(e, t) /\ e.write - e.read = b.write - b.read
        /\ e.write + len <= e.size
        /\ e.size = b.size \/ e.size < (b.write - b.read) + 2 * len + kCheapPrepend
        /\ e.size >= b.size /\ (len = 0 => e = b)
    BY EnsureFacts
  <1>2. append(b, len, t + (b.write - b.read) + 1) = a
    BY <1>1 DEF append
  <1> HIDE DEF e
  <1>3. Shape(a) /\ Holds(a, t) /\ a.size = e.size /\ a.read = e.read /\ a.write = e.write + len
    BY <1>1, PutFacts
  <1> HIDE DEF a
  <1>4. a.write - a.read = (e.write - e.read) + len
    <2>1. e.write \in Nat /\ e.read \in Nat
      BY <1>1, Indices
    <2>2. QED
      BY <1>3, <2>1
  <1>5. QED
    BY <1>1, <1>2, <1>3, <1>4

\* Consuming bytes, all of them at the most.
LEMMA RetrieveFacts ==
    ASSUME NEW b, Shape(b), NEW t \in Nat, Holds(b, t), NEW len \in Nat
    PROVE  LET q == retrieve(b, len)
               n == IF len < b.write - b.read THEN len ELSE b.write - b.read
           IN  /\ Shape(q) /\ Holds(q, t + n) /\ q.size = b.size
               /\ q.write - q.read = (b.write - b.read) - n
               /\ q.read = q.write => q.read = kCheapPrepend
  <1> DEFINE q == retrieve(b, len)
  <1>0. /\ b.size \in Nat /\ b.read \in Nat /\ b.write \in Nat
        /\ kCheapPrepend <= b.read /\ b.read <= b.write /\ b.write <= b.size
    BY Indices
  <1>4. /\ b = [size |-> b.size, mem |-> b.mem, read |-> b.read, write |-> b.write]
        /\ b.mem \in [0..b.size - 1 -> 0..MaxBytes]
    BY DEF Shape
  <1>1. CASE len < b.write - b.read
    <2>1. q = [size |-> b.size, mem |-> b.mem, read |-> b.read + len, write |-> b.write]
      BY <1>1, <1>4 DEF retrieve, readableBytes
    <2> HIDE DEF q
    <2>2. q.size = b.size /\ q.mem = b.mem /\ q.read = b.read + len /\ q.write = b.write
      BY <2>1
    <2>3. Shape(q)
      BY <1>0, <1>1, <1>4, <2>1, <2>2 DEF Shape
    <2>4. Holds(q, t + len)
      <3>1. ASSUME NEW i \in 0..b.write - (b.read + len) - 1
            PROVE  b.mem[(b.read + len) + i] = (t + len) + i + 1
        <4>1. len + i \in 0..b.write - b.read - 1
          BY <1>0, <1>1
        <4>2. b.mem[b.read + (len + i)] = t + (len + i) + 1
          BY <4>1 DEF Holds
        <4>3. b.read + (len + i) = (b.read + len) + i /\ t + (len + i) + 1 = (t + len) + i + 1
          BY <1>0
        <4>4. QED
          BY <4>2, <4>3
      <3>2. QED
        BY <2>2, <3>1 DEF Holds
    <2>5. /\ q.write - q.read = (b.write - b.read) - len
          /\ ~(q.read = q.write)
      BY <1>0, <1>1, <2>2
    <2>6. QED
      BY <1>1, <2>2, <2>3, <2>4, <2>5 DEF q
  <1>2. CASE ~(len < b.write - b.read)
    <2>1. q = [size |-> b.size, mem |-> b.mem, read |-> kCheapPrepend, write |-> kCheapPrepend]
      BY <1>2, <1>4 DEF retrieve, retrieveAll, readableBytes
    <2> HIDE DEF q
    <2>2. /\ q.size = b.size /\ q.mem = b.mem
          /\ q.read = kCheapPrepend /\ q.write = kCheapPrepend
      BY <2>1
    <2>3. Shape(q)
      BY <1>0, <1>4, <2>1, <2>2 DEF Shape
    <2>4. Holds(q, t + (b.write - b.read))
      BY <2>2 DEF Holds
    <2>5. q.write - q.read = (b.write - b.read) - (b.write - b.read)
      BY <1>0, <2>2
    <2>6. QED
      BY <1>2, <2>2, <2>3, <2>4, <2>5 DEF q
  <1>3. QED
    BY <1>1, <1>2

-----------------------------------------------------------------------------
(* The invariant is inductive as it stands.                                 *)

Inv == TypeOK /\ Contents /\ MemoryBounded

LEMMA InvFacts ==
    ASSUME Inv
    PROVE  /\ Shape(buf) /\ Holds(buf, taken) /\ given \in Nat /\ taken \in Nat /\ peak \in Nat
           /\ given = taken + (buf.write - buf.read)
  BY DEF Inv, TypeOK, Contents, Shape, Holds, readableBytes

LEMMA InitInv == Init => Inv
  <1> SUFFICES ASSUME Init PROVE Inv
    OBVIOUS
  <1>1. /\ buf.size = kCheapPrepend + kInitialSize
        /\ buf.mem = [i \in 0..kCheapPrepend + kInitialSize - 1 |-> 0]
        /\ buf.read = kCheapPrepend /\ buf.write = kCheapPrepend
        /\ given = 0 /\ taken = 0 /\ peak = 0
    BY DEF Init
  <1>2. TypeOK
    BY <1>1 DEF Init, TypeOK
  <1>3. Contents /\ MemoryBounded
    BY <1>1 DEF Contents, MemoryBounded, readableBytes
  <1>4. QED
    BY <1>2, <1>3 DEF Inv

LEMMA PeekInside ==
    ASSUME NEW b, Shape(b), b.read = b.write => b.read = kCheapPrepend, kCheapPrepend < b.size
    PROVE  b.read < b.size
  BY Indices

\* What an operation has to do to keep the invariant.
LEMMA StepInv ==
    ASSUME Inv, Shape(buf'), Holds(buf', taken'), given' \in 0..MaxBytes, taken' \in Nat,
           given' = taken' + (buf'.write - buf'.read), buf'.size >= buf.size,
           buf'.read = buf'.write => buf'.read = kCheapPrepend,
           peak' \in Nat, peak' >= peak,
           \/ buf'.size = buf.size
           \/ buf'.size < 2 * (buf'.write - buf'.read) + kCheapPrepend
              /\ peak' >= buf'.write - buf'.read
    PROVE  Inv'
  <1>1. buf.read \in Nat /\ buf.size \in Nat /\ kCheapPrepend <= buf.read /\ buf.read < buf.size
    BY DEF Inv, TypeOK
  <1>2. buf'.read < buf'.size
    <2>1. buf'.size \in Nat
      BY Indices
    <2>2. kCheapPrepend < buf'.size
      BY <1>1, <2>1
    <2>3. QED
      BY <2>2, PeekInside
  <1>3. TypeOK'
    BY <1>2 DEF TypeOK, Shape
  <1>4. Contents'
    BY DEF Contents, Holds, readableBytes
  <1>5. MemoryBounded'
    <2>1. peak \in Nat /\ (buf.size = kCheapPrepend + kInitialSize
                            \/ buf.size < 2 * peak + kCheapPrepend)
      BY DEF Inv, TypeOK, MemoryBounded
    <2>2. buf'.size \in Nat /\ buf'.write - buf'.read \in Int
      BY DEF Shape
    <2>3. CASE buf'.size = buf.size
      BY <1>1, <2>1, <2>3 DEF MemoryBounded
    <2>4. CASE buf'.size < 2 * (buf'.write - buf'.read) + kCheapPrepend
               /\ peak' >= buf'.write - buf'.read
      BY <2>2, <2>4 DEF MemoryBounded
    <2>5. QED
      BY <2>3, <2>4
  <1>6. QED
    BY <1>3, <1>4, <1>5 DEF Inv

\* Input with a buffer that took n bytes keeps the invariant.
LEMMA InputInv ==
    ASSUME Inv, NEW n \in Nat, Input(n), Shape(buf'), Holds(buf', taken),
           buf'.write - buf'.read = (buf.write - buf.read) + n, buf'.size >= buf.size,
           n = 0 => buf'.read = buf.read,
           \/ buf'.size = buf.size
           \/ buf'.size < 2 * (buf'.write - buf'.read) + kCheapPrepend
    PROVE  Inv'
  <1>1. /\ given \in Nat /\ taken \in Nat /\ peak \in Nat /\ Shape(buf)
        /\ given = taken + (buf.write - buf.read)
    BY InvFacts
  <1>2. given' = given + n /\ given + n <= MaxBytes /\ taken' = taken
    BY DEF Input
  <1>3. buf'.write - buf'.read \in Nat
    BY DEF Shape
  <1>4. peak' \in Nat /\ peak' >= peak /\ peak' >= buf'.write - buf'.read
    BY <1>1, <1>3 DEF Input, readableBytes
  <1>5. buf'.read = buf'.write => buf'.read = kCheapPrepend
    <2>1. buf.read = buf.write => buf.read = kCheapPrepend
      BY DEF Inv, TypeOK
    <2>2. SUFFICES ASSUME buf'.read = buf'.write PROVE buf'.read = kCheapPrepend
      OBVIOUS
    <2>3. buf'.read \in Nat /\ buf.read \in Nat /\ buf.write \in Nat /\ buf.read <= buf.write
      BY <1>1 DEF Shape
    <2>4. n = 0 /\ buf.read = buf.write
      BY <2>2, <2>3
    <2>5. QED
      BY <2>1, <2>4
  <1>6. given' = taken' + (buf'.write - buf'.read)
    <2>1. buf.write - buf.read \in Int
      BY <1>1 DEF Shape
    <2>2. QED
      BY <1>1, <1>2, <1>3, <2>1
  <1>7. given' \in 0..MaxBytes /\ taken' \in Nat
    BY <1>1, <1>2
  <1>8. Holds(buf', taken')
    BY <1>2
  <1>9. QED
    BY <1>4, <1>5, <1>6, <1>7, <1>8, StepInv

LEMMA AppendInv == ASSUME Inv, NEW len \in Nat, Append(len) PROVE Inv'
  <1>1. /\ Shape(buf) /\ Holds(buf, taken) /\ given \in Nat /\ taken \in Nat
        /\ given = taken + (buf.write - buf.read)
    BY InvFacts
  <1>2. Input(len) /\ given + len <= MaxBytes
    BY DEF Append, Input
  <1>3. buf' = append(buf, len, taken + (buf.write - buf.read) + 1)
    BY <1>1 DEF Append
  <1>4. /\ Shape(buf') /\ Holds(buf', taken)
        /\ buf'.write - buf'.read = (buf.write - buf.read) + len
        /\ buf'.size = buf.size \/ buf'.size < (buf.write - buf.read) + 2 * len + kCheapPrepend
        /\ buf'.size >= buf.size /\ (len = 0 => buf'.read = buf.read)
    BY <1>1, <1>2, <1>3, AppendFacts
  <1>5. buf.write - buf.read \in Nat /\ buf'.size \in Nat
    <2>1. buf.write - buf.read \in Nat
      BY <1>1 DEF Shape
    <2>2. buf'.size \in Nat
      BY <1>4 DEF Shape
    <2>3. QED
      BY <2>1, <2>2
  <1>6. \/ buf'.size = buf.size
        \/ buf'.size < 2 * (buf'.write - buf'.read) + kCheapPrepend
    BY <1>4, <1>5
  <1>7. QED
    BY <1>2, <1>4, <1>6, InputInv

LEMMA ReadFdInv == ASSUME Inv, NEW n \in Nat, ReadFd(n) PROVE Inv'
  <1> DEFINE room == buf.size - buf.write
             t == taken
             r == buf.write - buf.read
  <1>1. /\ Shape(buf) /\ Holds(buf, t) /\ given \in Nat /\ t \in Nat /\ given = t + r
    BY InvFacts
  <1>2. Input(n) /\ given + n <= MaxBytes
    BY DEF ReadFd, Input
  <1>3. room \in Nat /\ r \in Nat
    BY <1>1, Indices
  <1>4. buf' = IF n <= room THEN Put(buf, n, t + r + 1)
               ELSE append(Put(buf, room, t + r + 1), n - room, t + r + 1 + room)
    BY <1>1 DEF ReadFd, writeableBytes
  <1>5. CASE n <= room
    <2>1. t + r + n <= MaxBytes /\ buf.write + n <= buf.size
      <3>1. buf.write + n <= buf.size
        BY <1>1, <1>5, Indices
      <3> HIDE DEF r, room
      <3>2. QED
        BY <3>1, <1>1, <1>2
    <2>2. /\ Shape(buf') /\ Holds(buf', t)
          /\ buf'.size = buf.size /\ buf'.read = buf.read /\ buf'.write = buf.write + n
      BY <1>1, <1>4, <1>5, <2>1, PutFacts
    <2>0. buf.size \in Nat /\ buf.write \in Nat /\ buf.read \in Nat
      BY <1>1, Indices
    <2>3. buf'.write - buf'.read = (buf.write - buf.read) + n /\ buf'.size >= buf.size
      BY <2>0, <2>2
    <2>4. QED
      BY <1>2, <2>2, <2>3, InputInv
  <1>6. CASE ~(n <= room)
    <2> DEFINE p == Put(buf, room, t + r + 1)
    <2>0. buf.write \in Nat /\ buf.size \in Nat
      BY <1>1, Indices
    <2>1. t + r + room <= MaxBytes /\ buf.write + room <= buf.size /\ n - room \in Nat
      <3>1. buf.write + room <= buf.size
        BY <2>0
      <3> HIDE DEF r, room
      <3>2. QED
        BY <3>1, <1>1, <1>2, <1>3, <1>6
    <2>2. /\ Shape(p) /\ Holds(p, t)
          /\ p.size = buf.size /\ p.read = buf.read /\ p.write = buf.write + room
      BY <1>1, <1>3, <2>1, PutFacts
    <2> HIDE DEF p
    <2>3. p.write - p.read = r + room
      BY <2>2, <2>0, <1>1, Indices
    <2>4. buf' = append(p, n - room, t + (p.write - p.read) + 1)
      <3>1. t + r + 1 + room = t + (r + room) + 1
        BY <1>1, <1>3
      <3>2. QED
        BY <1>4, <1>6, <2>3, <3>1 DEF p
    <2> HIDE DEF room, r
    <2>5. t + (p.write - p.read) + (n - room) <= MaxBytes
      BY <1>1, <1>2, <1>3, <2>1, <2>3
    <2>6. /\ Shape(buf') /\ Holds(buf', t)
          /\ buf'.write - buf'.read = (p.write - p.read) + (n - room)
          /\ \/ buf'.size = p.size
             \/ buf'.size < (p.write - p.read) + 2 * (n - room) + kCheapPrepend
          /\ buf'.size >= p.size
      BY <1>1, <2>1, <2>2, <2>4, <2>5, AppendFacts
    <2>7. buf'.size \in Nat /\ buf'.write - buf'.read = r + n /\ n # 0
      <3>1. buf'.size \in Nat
        BY <2>6, Indices
      <3>2. buf'.write - buf'.read = r + n /\ n # 0
        BY <1>3, <1>6, <2>1, <2>3, <2>6
      <3>3. QED
        BY <3>1, <3>2
    <2>8. \/ buf'.size = buf.size
          \/ buf'.size < 2 * (buf'.write - buf'.read) + kCheapPrepend
      BY <1>3, <2>1, <2>2, <2>3, <2>6, <2>7
    <2>9. buf'.write - buf'.read = (buf.write - buf.read) + n /\ buf'.size >= buf.size
      BY <2>2, <2>6, <2>7 DEF r
    <2>10. QED
      BY <1>2, <2>6, <2>7, <2>8, <2>9, InputInv
  <1>7. QED
    BY <1>5, <1>6

LEMMA RetrieveInv == ASSUME Inv, NEW len \in Nat, Retrieve(len) PROVE Inv'
  <1> DEFINE r == buf.write - buf.read
             n == IF len < r THEN len ELSE r
  <1>1. /\ Shape(buf) /\ Holds(buf, taken) /\ given \in Nat /\ taken \in Nat /\ peak \in Nat
        /\ given = taken + r
    BY InvFacts
  <1>2. r \in Nat /\ n \in Nat /\ n <= r
    BY <1>1 DEF Shape
  <1>3. buf' = retrieve(buf, len) /\ taken' = taken + n /\ given' = given /\ peak' = peak
    BY DEF Retrieve, readableBytes
  <1>4. /\ Shape(buf') /\ Holds(buf', taken + n) /\ buf'.size = buf.size
        /\ buf'.write - buf'.read = r - n
        /\ buf'.read = buf'.write => buf'.read = kCheapPrepend
    BY <1>1, <1>3, RetrieveFacts
  <1> HIDE DEF n, r
  <1>5. given' = taken' + (buf'.write - buf'.read) /\ taken' \in Nat
    BY <1>1, <1>2, <1>3, <1>4
  <1>6. given' \in 0..MaxBytes /\ peak' \in Nat /\ peak' >= peak /\ buf'.size >= buf.size
    BY <1>1, <1>3, <1>4 DEF Inv, TypeOK, Shape
  <1>7. Holds(buf', taken')
    BY <1>3, <1>4
  <1>8. QED
    BY <1>4, <1>5, <1>6, <1>7, StepInv

\* The inductive invariant: no part of it needs more than the three together.
THEOREM InvHolds == Spec => []Inv
  <1>1. Inv /\ [Next]_vars => Inv'
    <2> SUFFICES ASSUME Inv, [Next]_vars PROVE Inv'
      OBVIOUS
    <2>1. CASE UNCHANGED vars
      BY <2>1 DEF vars, Inv, TypeOK, Contents, MemoryBounded, readableBytes
    <2>2. ASSUME NEW n \in 0..MaxBytes, Append(n) PROVE Inv'
      BY <2>2, AppendInv
    <2>3. ASSUME NEW n \in 0..MaxBytes, ReadFd(n) PROVE Inv'
      BY <2>3, ReadFdInv
    <2>4. ASSUME NEW n \in 0..MaxBytes, Retrieve(n) \/ WriteFd(n) PROVE Inv'
      BY <2>4, RetrieveInv DEF WriteFd
    <2>5. QED
      BY <2>1, <2>2, <2>3, <2>4 DEF Next
  <1>2. QED
    BY InitInv, <1>1, PTL DEF Spec

\* The indices stay in order and inside the vector (TypeOK), so that no
\* subtraction of unsigned numbers wraps and peek() is a byte of the vector.
THEOREM IndicesInside == Spec => []TypeOK
  <1>1. Inv => TypeOK
    BY DEF Inv
  <1>2. QED
    BY InvHolds, <1>1, PTL

\* The readable bytes are those put in and not consumed, in order (Contents),
\* whatever the sizes of the vector, its reserve and extraBuf.
THEOREM ContentsKept == Spec => []Contents
  <1>1. Inv => Contents
    BY DEF Inv
  <1>2. QED
    BY InvHolds, <1>1, PTL

\* The vector stays within twice the largest backlog (MemoryBounded).
THEOREM MemoryIsBounded == Spec => []MemoryBounded
  <1>1. Inv => MemoryBounded
    BY DEF Inv
  <1>2. QED
    BY InvHolds, <1>1, PTL
=============================================================================
