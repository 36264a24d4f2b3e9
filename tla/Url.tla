-------------------------------- MODULE Url --------------------------------
(***************************************************************************)
(* The conversions of utils/StringUtils.hpp and the cuts other files make  *)
(* in a URL.  A string is the sequence of its bytes.                       *)
(***************************************************************************)
EXTENDS Integers, Sequences, SequencesExt

Byte == 0..255
Bytes == Seq(Byte)

Space == 32
Hash == 35
Percent == 37
Amp == 38
Plus == 43
Dot == 46
Slash == 47
Colon == 58
Semicolon == 59
Equals == 61
Question == 63

Digit == 48..57
Upper == 65..90
Lower == 97..122

tolower(s) == [i \in DOMAIN s |-> IF s[i] \in Upper THEN s[i] + 32 ELSE s[i]]
toupper(s) == [i \in DOMAIN s |-> IF s[i] \in Lower THEN s[i] - 32 ELSE s[i]]

\* string::find of one byte, 0 for npos.
Find(s, c) == SelectInSeq(s, LAMBDA b : b = c)

\* What stands before the first c, or everything.
Before(s, c) == IF Find(s, c) = 0 THEN s ELSE SubSeq(s, 1, Find(s, c) - 1)

\* What stands after the first c, or nothing.
After(s, c) == IF Find(s, c) = 0 THEN <<>> ELSE SubSeq(s, Find(s, c) + 1, Len(s))

Occurs(sub, s) ==
    \E i \in 1..Len(s) - Len(sub) + 1 : SubSeq(s, i, i + Len(sub) - 1) = sub

\* s without its first n bytes.
Drop(s, n) == SubSeq(s, n + 1, Len(s))

\* The longest runs without c, in order: the parts of s, empty ones left out.
Parts(s, c) ==
    LET parts[t \in Bytes] ==
            IF t = <<>> THEN <<>>
            ELSE IF Head(t) = c THEN parts[Tail(t)]
            ELSE <<Before(t, c)>> \o parts[Drop(t, Len(Before(t, c)))]
    IN  parts[s]

hexValue(c) ==
    CASE c \in Digit -> c - 48
      [] c \in 97..102 -> c - 87
      [] c \in 65..70 -> c - 55
      [] OTHER -> -1

kHex(n) == IF n < 10 THEN 48 + n ELSE 55 + n

Unreserved(c) == c \in Digit \cup Upper \cup Lower \cup {45, 46, 95, 126}

\* Mutant: '+' and '%' are taken for harmless.
urlEncodeLess(in) ==
    FlattenSeq([i \in DOMAIN in |->
        IF Unreserved(in[i]) \/ in[i] \in {Plus, Percent} THEN <<in[i]>>
        ELSE <<Percent, kHex(in[i] \div 16), kHex(in[i] % 16)>>])

urlEncodePathComponent(in) ==
    FlattenSeq([i \in DOMAIN in |->
        IF Unreserved(in[i]) THEN <<in[i]>>
        ELSE <<Percent, kHex(in[i] \div 16), kHex(in[i] % 16)>>])

\* A '%' begins an escape only if two hexadecimal digits follow.
HasEscape(in) ==
    Len(in) >= 3 /\ in[1] = Percent /\ hexValue(in[2]) >= 0 /\ hexValue(in[3]) >= 0

urlDecode[in \in Bytes] ==
    IF in = <<>> THEN <<>>
    ELSE IF HasEscape(in)
    THEN <<16 * hexValue(in[2]) + hexValue(in[3])>> \o urlDecode[Drop(in, 3)]
    ELSE <<IF in[1] = Plus THEN Space ELSE in[1]>> \o urlDecode[Drop(in, 1)]
=============================================================================
