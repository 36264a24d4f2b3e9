------------------------------- MODULE Buffer -------------------------------
(***************************************************************************)
(* core::Buffer, the read and write buffer of a connection: two indices    *)
(* into a vector that is compacted or grown when an append does not fit,   *)
(* and a readv that spills into a second array.                            *)
(*                                                                         *)
(* A byte is its number in the stream that was put in, so that content and *)
(* order show in the memory; 0 is memory nothing was written to.           *)
(***************************************************************************)
EXTENDS Integers

CONSTANTS
    kCheapPrepend,   \* bytes kept free in front of the data
    kInitialSize,    \* capacity of a new buffer
    ExtraSize,       \* extraBuf of readFd
    MaxBytes         \* bound: bytes put in during one behaviour

ASSUME BufferAssumption ==
    /\ kCheapPrepend \in Nat /\ kInitialSize \in Nat \ {0}
    /\ ExtraSize \in Nat /\ MaxBytes \in Nat

VARIABLES
    buf,     \* buffer_ (mem and its size), readIndex_, writeIndex_
    given,   \* bytes put in so far
    taken,   \* bytes consumed so far
    peak     \* the most bytes that were readable at once

vars == <<buf, given, taken, peak>>

readableBytes(b) == b.write - b.read
writeableBytes(b) == b.size - b.write
prependableBytes(b) == b.read

Init ==
    /\ buf = [size |-> kCheapPrepend + kInitialSize,
              mem |-> [i \in 0..kCheapPrepend + kInitialSize - 1 |-> 0],
              read |-> kCheapPrepend, write |-> kCheapPrepend]
    /\ given = 0 /\ taken = 0 /\ peak = 0

-----------------------------------------------------------------------------
(* Room for len more bytes.                                                 *)

Grow(b, len) ==
    [size |-> b.write + len,
     mem |-> [i \in 0..b.write + len - 1 |-> IF i < b.size THEN b.mem[i] ELSE 0],
     read |-> b.read, write |-> b.write]

Compact(b) ==
    LET end == kCheapPrepend + readableBytes(b)
    IN  [size |-> b.size,
         mem |-> [i \in 0..b.size - 1 |-> IF i \in kCheapPrepend..end - 1
                                          THEN b.mem[b.read + (i - kCheapPrepend)]
                                          ELSE b.mem[i]],
         read |-> kCheapPrepend, write |-> end]

\* Mutant: the consumed part is never used again.
MakeSpaceGrows(b, len) == Grow(b, len)

MakeSpace(b, len) ==
    IF prependableBytes(b) + writeableBytes(b) < len + kCheapPrepend
    THEN Grow(b, len) ELSE Compact(b)

\* Mutant: one byte too few is taken for enough.
EnsureWriteableShort(b, len) ==
    IF writeableBytes(b) + 1 < len THEN MakeSpace(b, len) ELSE b

EnsureWriteable(b, len) ==
    IF writeableBytes(b) < len THEN MakeSpace(b, len) ELSE b

\* len bytes of the stream, from number n on, are copied behind the data.
Put(b, len, n) ==
    [size |-> b.size,
     mem |-> [i \in 0..b.size - 1 |-> IF i \in b.write..b.write + len - 1
                                      THEN n + (i - b.write) ELSE b.mem[i]],
     read |-> b.read, write |-> b.write + len]

append(b, len, n) == Put(EnsureWriteable(b, len), len, n)

\* All data consumed: the whole vector is free again.
retrieveAll(b) == [b EXCEPT !.read = kCheapPrepend, !.write = kCheapPrepend]

retrieve(b, len) ==
    IF len < readableBytes(b) THEN [b EXCEPT !.read = b.read + len] ELSE retrieveAll(b)

-----------------------------------------------------------------------------
(* The operations                                                           *)

Input(n) ==
    /\ given + n <= MaxBytes
    /\ given' = given + n
    /\ peak' = IF readableBytes(buf') > peak THEN readableBytes(buf') ELSE peak
    /\ UNCHANGED taken

Append(len) ==
    /\ buf' = append(buf, len, given + 1)
    /\ Input(len)

\* Mutant: what does not fit is appended although writeIndex_ was not moved.
ReadFdOverwrites(n) ==
    LET room == writeableBytes(buf)
    IN  /\ n <= (IF room < ExtraSize THEN room + ExtraSize ELSE room)
        /\ buf' = IF n <= room THEN Put(buf, n, given + 1)
                  ELSE append(buf, n - room, given + 1 + room)
        /\ Input(n)

\* readv filled the free end of the vector, then extraBuf; n = 0 stands for
\* the end of the stream and for errors.
ReadFd(n) ==
    LET room == writeableBytes(buf)
    IN  /\ n <= (IF room < ExtraSize THEN room + ExtraSize ELSE room)
        /\ buf' = IF n <= room THEN Put(buf, n, given + 1)
                  ELSE append(Put(buf, room, given + 1), n - room, given + 1 + room)
        /\ Input(n)

\* retrieve, retrieveAll and retrieveAsString, which cuts len down first.
Retrieve(len) ==
    /\ buf' = retrieve(buf, len)
    /\ taken' = IF len < readableBytes(buf) THEN taken + len
                                            ELSE taken + readableBytes(buf)
    /\ UNCHANGED <<given, peak>>

\* The socket took n bytes.
WriteFd(n) == n \in 1..readableBytes(buf) /\ Retrieve(n)

Next ==
    \E n \in 0..MaxBytes : Append(n) \/ ReadFd(n) \/ Retrieve(n) \/ WriteFd(n)

Spec == Init /\ [][Next]_vars

-----------------------------------------------------------------------------
(* Properties                                                              *)

\* Types; the indices stay in order and inside the vector, also with the
\* subtractions of unsigned numbers in Buffer.cpp:24-32, and an empty buffer
\* is a reset one, so that peek() never points behind the vector.
TypeOK ==
    /\ given \in 0..MaxBytes /\ taken \in Nat /\ peak \in Nat
    /\ buf.size \in Nat /\ buf.read \in Nat /\ buf.write \in Nat
    /\ buf = [size |-> buf.size, mem |-> buf.mem, read |-> buf.read, write |-> buf.write]
    /\ buf.mem \in [0..buf.size - 1 -> 0..MaxBytes]
    /\ kCheapPrepend <= buf.read /\ buf.read <= buf.write /\ buf.write <= buf.size
    /\ buf.read = buf.write => buf.read = kCheapPrepend
    /\ buf.read < buf.size

\* What is readable is what was put in and not yet consumed, in that order,
\* through every growth, compaction and spill (Buffer.cpp:73-100, 140-177, 209-222).
Contents ==
    /\ given = taken + readableBytes(buf)
    /\ \A i \in 0..readableBytes(buf) - 1 : buf.mem[buf.read + i] = taken + i + 1

\* A connection that lives long costs no more memory than its largest backlog
\* did: the consumed part is used again before the vector grows, and a growth
\* copies less waste than it adds data (Buffer.cpp:209-222).
MemoryBounded ==
    \/ buf.size = kCheapPrepend + kInitialSize
    \/ buf.size < 2 * peak + kCheapPrepend
=============================================================================
