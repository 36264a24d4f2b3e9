----------------------------- MODULE SiteProofs -----------------------------
(***************************************************************************)
(* Proofs about Site, for every file tree, root, set of keywords and set   *)
(* of requests.  The operators of Site are recursive functions; the        *)
(* provers cannot use the induction theorems of the library, which take an *)
(* operator, so the first section states induction and recursion for sets  *)
(* and functions.                                                          *)
(***************************************************************************)
EXTENDS Site, TLAPS, SequenceTheorems, FiniteSetTheorems, WellFoundedInduction

-----------------------------------------------------------------------------
(* Induction and recursion.                                                 *)

\* The intervals below the numbers of a set are ordered like the numbers, and
\* finite sets are well-founded.
LEMMA Least ==
    ASSUME NEW T \in SUBSET Nat, T # {}
    PROVE  \E x \in T : \A y \in T : x <= y
  <1> DEFINE R == StrictSubsetOrdering(Nat)
             UpTo(n) == 1..n
             Intervals == {UpTo(n) : n \in T}
  <1>1. IsWellFoundedOn(R, FiniteSubsetsOf(Nat))
    BY FS_StrictSubsetOrderingWellFounded
  <1>2. Intervals \subseteq FiniteSubsetsOf(Nat) /\ Intervals # {}
    <2>1. ASSUME NEW n \in T
          PROVE  UpTo(n) \in FiniteSubsetsOf(Nat)
      <3>1. IsFiniteSet(UpTo(n))
        <4>1. 1 \in Int /\ n \in Int
          OBVIOUS
        <4>2. QED
          BY <4>1, FS_Interval
      <3>2. UpTo(n) \in SUBSET Nat
        OBVIOUS
      <3>3. QED
        BY <3>1, <3>2 DEF FiniteSubsetsOf
    <2>2. QED
      BY <2>1
  <1>3. PICK b \in Intervals : \A c \in Intervals : ~ (<<c, b>> \in R)
    <2> HIDE DEF R, Intervals
    <2>1. QED
      BY <1>1, <1>2, WFMin
  <1>4. PICK x \in T : b = UpTo(x)
    OBVIOUS
  <1>5. ASSUME NEW y \in T, y < x
        PROVE  FALSE
    <2>1. UpTo(y) \subseteq UpTo(x) /\ x \in UpTo(x) /\ x \notin UpTo(y)
      BY <1>5
    <2>2. UpTo(y) \in SUBSET Nat /\ UpTo(x) \in SUBSET Nat
      OBVIOUS
    <2>3. <<UpTo(y), UpTo(x)>> \in R
      BY <2>1, <2>2 DEF StrictSubsetOrdering
    <2>4. QED
      BY <1>3, <1>4, <2>3
  <1>6. \A y \in T : x <= y
    BY <1>5
  <1>7. QED
    BY <1>6

\* Whatever has a rank can be proved by induction on it.
LEMMA RankInduction ==
    ASSUME NEW D, NEW rank \in [D -> Nat], NEW S,
           \A d \in D : (\A e \in D : rank[e] < rank[d] => e \in S) => d \in S
    PROVE  D \subseteq S
  <1> SUFFICES ASSUME NEW c \in D, c \notin S
               PROVE  FALSE
    OBVIOUS
  <1> DEFINE T == {rank[d] : d \in D \ S}
  <1>1. T \in SUBSET Nat /\ T # {}
    OBVIOUS
  <1>2. PICK x \in T : \A y \in T : x <= y
    <2> HIDE DEF T
    <2>1. QED
      BY <1>1, Least
  <1>3. PICK d \in D \ S : x = rank[d]
    OBVIOUS
  <1>4. \A e \in D : rank[e] < rank[d] => e \in S
    <2>1. ASSUME NEW e \in D, rank[e] < rank[d], e \notin S
          PROVE  FALSE
      <3>1. rank[e] \in T /\ rank[e] \in Nat /\ rank[d] \in Nat
        BY <2>1
      <3>2. rank[d] <= rank[e]
        BY <1>2, <1>3, <3>1
      <3>3. QED
        BY <2>1, <3>1, <3>2
    <2>2. QED
      BY <2>1
  <1>5. QED
    BY <1>3, <1>4

LEMMA NatInduct ==
    ASSUME NEW S, 0 \in S, \A n \in Nat : n \in S => n + 1 \in S
    PROVE  Nat \subseteq S
  <1> DEFINE rank == [n \in Nat |-> n]
  <1>1. rank \in [Nat -> Nat]
    OBVIOUS
  <1>2. ASSUME NEW n \in Nat, \A m \in Nat : rank[m] < rank[n] => m \in S
        PROVE  n \in S
    <2>1. CASE n = 0
      BY <2>1
    <2>2. CASE n # 0
      <3>1. n - 1 \in Nat /\ rank[n - 1] < rank[n] /\ n - 1 + 1 = n
        BY <2>2
      <3>2. QED
        BY <1>2, <3>1
    <2>3. QED
      BY <2>1, <2>2
  <1>3. QED
    <2> HIDE DEF rank
    <2>1. QED
      BY <1>1, <1>2, RankInduction

\* A function that calls itself once, for something of a smaller rank, exists.
Recurs(f, D, S, E, onward, out, comb) ==
    /\ f \in [D -> S]
    /\ \A d \in E : f[d] = out[d]
    /\ \A d \in D \ E : f[d] = comb[<<d, f[onward[d]]>>]

LEMMA Recursion ==
    ASSUME NEW D, NEW S, NEW E \in SUBSET D, NEW rank \in [D -> Nat],
           NEW onward \in [D -> D], \A d \in D \ E : rank[onward[d]] < rank[d],
           NEW out \in [D -> S], NEW comb \in [D \X S -> S]
    PROVE  \E f : Recurs(f, D, S, E, onward, out, comb)
  <1> DEFINE Below(n) == {d \in D : rank[d] < n}
             Value(f, d) == IF d \in E THEN out[d] ELSE comb[<<d, f[onward[d]]>>]
             Fits(f, n) == f \in [Below(n) -> S] /\ \A d \in Below(n) : f[d] = Value(f, d)
             Have == {n \in Nat : \E f : Fits(f, n)}
  <1>1. \A n \in Nat : \A d \in Below(n) \ E : onward[d] \in Below(n) /\ onward[d] \in Below(rank[d])
    OBVIOUS
  <1>2. \A n \in Nat : \A f \in [Below(n) -> S] : \A d \in D :
            (d \notin E => onward[d] \in Below(n)) => Value(f, d) \in S
    OBVIOUS
  <1>3. 0 \in Have
    <2>1. Below(0) = {}
      OBVIOUS
    <2>2. Fits([d \in Below(0) |-> out[d]], 0)
      BY <2>1
    <2>3. QED
      BY <2>2
  <1>4. ASSUME NEW n \in Nat, n \in Have
        PROVE  n + 1 \in Have
    <2>1. PICK f : Fits(f, n)
      BY <1>4
    <2> DEFINE g == [d \in Below(n + 1) |-> IF d \in Below(n) THEN f[d] ELSE Value(f, d)]
    <2>2. \A d \in Below(n + 1) \ E : onward[d] \in Below(n)
      OBVIOUS
    <2>3. \A d \in Below(n) : d \in Below(n + 1) /\ g[d] = f[d]
      OBVIOUS
    <2>4. g \in [Below(n + 1) -> S]
      <3>1. \A d \in Below(n + 1) : (IF d \in Below(n) THEN f[d] ELSE Value(f, d)) \in S
        <4> HIDE DEF Below, Value
        <4>1. Below(n + 1) \subseteq D
          BY DEF Below
        <4>2. QED
          BY <1>2, <2>1, <2>2, <4>1
      <3>2. QED
        BY <3>1
    <2>5. \A d \in Below(n + 1) : g[d] = Value(g, d)
      <3>1. ASSUME NEW d \in Below(n + 1)
            PROVE  Value(g, d) = Value(f, d)
        BY <2>2, <2>3
      <3>2. ASSUME NEW d \in Below(n + 1)
            PROVE  g[d] = Value(f, d)
        <4> HIDE DEF Value
        <4>1. QED
          BY <2>1
      <3>3. QED
        BY <3>1, <3>2
    <2>6. Fits(g, n + 1)
      <3> HIDE DEF g, Below, Value
      <3>1. QED
        BY <2>4, <2>5
    <2>7. QED
      <3> HIDE DEF g, Fits
      <3>1. QED
        BY <2>6
  <1>5. Nat \subseteq Have
    <2> HIDE DEF Have
    <2>1. QED
      BY <1>3, <1>4, NatInduct
  <1>6. ASSUME NEW n \in Nat, NEW m \in Nat, NEW f, NEW g, Fits(f, n), Fits(g, m)
        PROVE  \A d \in Below(n) \cap Below(m) : f[d] = g[d]
    <2> DEFINE Same == {d \in D : d \in Below(n) \cap Below(m) => f[d] = g[d]}
    <2>1. ASSUME NEW d \in D, \A e \in D : rank[e] < rank[d] => e \in Same
          PROVE  d \in Same
      <3>1. SUFFICES ASSUME d \in Below(n) \cap Below(m)
                     PROVE  f[d] = g[d]
        OBVIOUS
      <3>2. CASE d \in E
        BY <1>6, <3>1, <3>2
      <3>3. CASE d \notin E
        <4>1. /\ onward[d] \in D /\ rank[onward[d]] < rank[d]
              /\ onward[d] \in Below(n) \cap Below(m)
          BY <3>1, <3>3
        <4>2. f[onward[d]] = g[onward[d]]
          BY <2>1, <4>1
        <4>3. QED
          BY <1>6, <3>1, <3>3, <4>2
      <3>4. QED
        BY <3>2, <3>3
    <2>2. D \subseteq Same
      <3> HIDE DEF Same
      <3>1. QED
        BY <2>1, RankInduction
    <2>3. QED
      BY <2>2
  <1> DEFINE Nth(n) == CHOOSE f : Fits(f, n)
             h == [d \in D |-> Nth(rank[d] + 1)[d]]
  <1>7. \A n \in Nat : Fits(Nth(n), n)
    <2> HIDE DEF Fits
    <2>1. QED
      BY <1>5
  <1>8. \A n \in Nat : \A d \in Below(n) : h[d] = Nth(n)[d]
    <2>1. ASSUME NEW n \in Nat, NEW d \in Below(n)
          PROVE  h[d] = Nth(n)[d]
      <3>1. rank[d] + 1 \in Nat /\ d \in Below(rank[d] + 1) /\ d \in D
        OBVIOUS
      <3>2. h[d] = Nth(rank[d] + 1)[d]
        <4> HIDE DEF Nth
        <4>1. QED
          BY <3>1
      <3>3. QED
        <4> HIDE DEF Nth, h, Fits, Below
        <4>1. QED
          BY <1>6, <1>7, <3>1, <3>2
    <2>2. QED
      <3> HIDE DEF Nth, h
      <3>1. QED
        BY <2>1
  <1>9. ASSUME NEW d \in D
        PROVE  h[d] \in S /\ h[d] = Value(h, d)
    <2> DEFINE n == rank[d] + 1
               f == Nth(n)
    <2>1. n \in Nat /\ d \in Below(n) /\ (d \notin E => onward[d] \in Below(n))
      BY <1>1
    <2>2. Fits(f, n)
      <3> HIDE DEF Nth, Fits
      <3>1. QED
        BY <1>7, <2>1
    <2>3. h[d] = f[d] /\ (d \notin E => h[onward[d]] = f[onward[d]])
      <3> HIDE DEF h, Nth, Below
      <3>1. QED
        BY <1>8, <2>1
    <2>4. QED
      <3> HIDE DEF h, f, n, Below
      <3>1. QED
        BY <2>1, <2>2, <2>3
  <1>10. h \in [D -> S]
    <2>1. h = [d \in D |-> h[d]]
      <3> HIDE DEF Nth
      <3>1. QED
        OBVIOUS
    <2>2. QED
      <3> HIDE DEF h
      <3>1. QED
        BY <1>9, <2>1
  <1>11. Recurs(h, D, S, E, onward, out, comb)
    <2> HIDE DEF h
    <2>1. QED
      BY <1>9, <1>10 DEF Recurs
  <1>12. QED
    <2> HIDE DEF h
    <2>1. QED
      BY <1>11

\* A function that does nothing after it has called itself exists even if the
\* calls never end.
Repeats(f, D, S, E, onward, out) ==
    /\ f \in [D -> S]
    /\ \A d \in E : f[d] = out[d]
    /\ \A d \in D \ E : f[d] = f[onward[d]]

LEMMA TailRecursion ==
    ASSUME NEW D, NEW S, NEW E \in SUBSET D, NEW out \in [D -> S], NEW onward \in [D -> D]
    PROVE  \E f : Repeats(f, D, S, E, onward, out)
  <1> DEFINE Closed(C) == \A c \in C \ E : onward[c] \in C
             Reach(d) == {e \in D : \A C \in SUBSET D : d \in C /\ Closed(C) => e \in C}
             Ends(d) == Reach(d) \cap E
             One(C) == IF C = {} THEN CHOOSE e : e \in D ELSE CHOOSE e : e \in C
             End(d) == One(Ends(d))
             f == [d \in D |-> out[End(d)]]
  <1>1. ASSUME NEW d \in E
        PROVE  Ends(d) = {d}
    <2>1. {d} \in SUBSET D /\ Closed({d})
      OBVIOUS
    <2>2. Reach(d) \subseteq {d}
      BY <2>1
    <2>3. d \in Reach(d)
      OBVIOUS
    <2>4. QED
      BY <2>2, <2>3
  <1>2. ASSUME NEW d \in D \ E
        PROVE  Ends(d) = Ends(onward[d])
    <2> DEFINE C == {d} \cup Reach(onward[d])
    <2>1. C \in SUBSET D /\ d \in C
      OBVIOUS
    <2>2. onward[d] \in Reach(onward[d])
      OBVIOUS
    <2>3. Closed(Reach(onward[d]))
      OBVIOUS
    <2>4. Closed(C)
      BY <2>2, <2>3
    <2>5. Reach(d) \subseteq C
      <3> HIDE DEF C
      <3>1. QED
        BY <2>1, <2>4
    <2>6. Reach(onward[d]) \subseteq Reach(d)
      OBVIOUS
    <2>7. QED
      BY <2>5, <2>6
  <1>3. /\ \A d \in E : End(d) = d
        /\ \A d \in D \ E : End(d) = End(onward[d])
        /\ \A d \in D : End(d) \in D
    <2>1. \A d \in D : Ends(d) \subseteq D
      OBVIOUS
    <2> HIDE DEF Ends
    <2>2. \A d \in E : End(d) = d
      BY <1>1
    <2>3. \A d \in D \ E : End(d) = End(onward[d])
      <3> HIDE DEF One
      <3>1. QED
        BY <1>2
    <2>4. \A d \in D : End(d) \in D
      BY <2>1
    <2>5. QED
      BY <2>2, <2>3, <2>4
  <1>4. f \in [D -> S]
    <2> HIDE DEF End
    <2>1. QED
      BY <1>3
  <1>5. (\A d \in E : f[d] = out[d]) /\ \A d \in D \ E : f[d] = f[onward[d]]
    <2> HIDE DEF End
    <2>1. QED
      BY <1>3
  <1>6. QED
    <2> HIDE DEF f
    <2>1. QED
      BY <1>4, <1>5 DEF Repeats

-----------------------------------------------------------------------------
(* Numbers and sequences.                                                   *)

LEMMA MinFacts ==
    ASSUME NEW T \in SUBSET Nat, T # {}
    PROVE  Min(T) \in T /\ \A y \in T : Min(T) <= y
  <1>1. \E x \in T : \A y \in T : x <= y
    BY Least
  <1>2. QED
    BY <1>1 DEF Min

LEMMA MaxFacts ==
    ASSUME NEW b \in Nat, NEW T \in SUBSET (0..b), T # {}
    PROVE  Max(T) \in T /\ \A y \in T : y <= Max(T)
  <1> DEFINE U == {b - y : y \in T}
  <1>1. U \in SUBSET Nat /\ U # {}
    <2>1. \A y \in T : b - y \in Nat
      <3>1. \A y \in T : y \in Nat /\ y <= b
        OBVIOUS
      <3>2. QED
        BY <3>1
    <2>2. QED
      BY <2>1
  <1>2. PICK x \in U : \A y \in U : x <= y
    <2> HIDE DEF U
    <2>1. QED
      BY <1>1, Least
  <1>3. PICK m \in T : x = b - m
    OBVIOUS
  <1>4. \A y \in T : m >= y
    <2>1. ASSUME NEW y \in T
          PROVE  m >= y
      <3>1. b - y \in U
        OBVIOUS
      <3>2. b - m <= b - y
        BY <1>2, <1>3, <3>1
      <3>3. m \in Int /\ y \in Int /\ b \in Int
        OBVIOUS
      <3>4. QED
        BY <3>2, <3>3
    <2>2. QED
      BY <2>1
  <1>5. \E z \in T : \A y \in T : z >= y
    BY <1>3, <1>4
  <1>6. Max(T) \in T /\ \A y \in T : Max(T) >= y
    BY <1>5 DEF Max
  <1>7. QED
    BY <1>6

LEMMA EmptyLength ==
    ASSUME NEW S, NEW s \in Seq(S)
    PROVE  Len(s) \in Nat /\ (s = <<>> <=> Len(s) = 0)
  BY EmptySeq

\* A part of a sequence.
LEMMA PartOf ==
    ASSUME NEW S, NEW s \in Seq(S), NEW m \in Nat \ {0}, NEW n \in 0..Len(s)
    PROVE  /\ SubSeq(s, m, n) \in Seq(S)
           /\ Len(SubSeq(s, m, n)) = IF m <= n THEN n - m + 1 ELSE 0
           /\ \A i \in 1..n - m + 1 : SubSeq(s, m, n)[i] = s[m + i - 1]
  <1>1. m \in Int /\ n \in Int /\ Len(s) \in Nat
    OBVIOUS
  <1>2. \A i \in m..n : s[i] \in S
    BY <1>1, ElementOfSeq
  <1>3. QED
    BY <1>1, <1>2, SubSeqProperties

\* Front and Last take a sequence apart, Head and Tail as well.
LEMMA FrontLast ==
    ASSUME NEW S, NEW s \in Seq(S), s # <<>>
    PROVE  /\ Len(s) \in Nat \ {0} /\ Front(s) \in Seq(S) /\ Last(s) \in S
           /\ Len(Front(s)) = Len(s) - 1
           /\ \A i \in 1..Len(s) - 1 : Front(s)[i] = s[i]
           /\ s = Append(Front(s), Last(s))
  <1>1. Len(s) \in Nat \ {0}
    BY EmptyLength
  <1>3. /\ Front(s) \in Seq(S) /\ Len(Front(s)) = Len(s) - 1
        /\ \A i \in 1..Len(s) - 1 : Front(s)[i] = s[i]
    <2>1. 1 \in Nat \ {0} /\ Len(s) - 1 \in 0..Len(s) /\ Len(s) - 1 - 1 + 1 = Len(s) - 1
      BY <1>1
    <2>2. /\ SubSeq(s, 1, Len(s) - 1) \in Seq(S)
          /\ Len(SubSeq(s, 1, Len(s) - 1)) = IF 1 <= Len(s) - 1 THEN Len(s) - 1 - 1 + 1 ELSE 0
          /\ \A i \in 1..Len(s) - 1 - 1 + 1 : SubSeq(s, 1, Len(s) - 1)[i] = s[1 + i - 1]
      BY <2>1, PartOf
    <2>3. QED
      BY <1>1, <2>1, <2>2 DEF Front
  <1>4. Last(s) \in S
    BY <1>1, ElementOfSeq DEF Last
  <1>5. /\ Append(Front(s), Last(s)) \in Seq(S) /\ Len(Append(Front(s), Last(s))) = Len(s)
        /\ \A i \in 1..Len(s) : Append(Front(s), Last(s))[i] = s[i]
    <2>1. \A i \in 1..Len(s) - 1 : Append(Front(s), Last(s))[i] = s[i]
      BY <1>1, <1>3, <1>4, AppendProperties
    <2>2. Append(Front(s), Last(s))[Len(s)] = s[Len(s)]
      BY <1>1, <1>3, <1>4, AppendProperties DEF Last
    <2>3. QED
      BY <1>1, <1>3, <1>4, <2>1, <2>2, AppendProperties
  <1>6. s = Append(Front(s), Last(s))
    BY <1>5, SeqEqual
  <1>7. QED
    BY <1>1, <1>3, <1>4, <1>6

LEMMA HeadTail ==
    ASSUME NEW S, NEW s \in Seq(S), s # <<>>
    PROVE  /\ Len(s) \in Nat \ {0} /\ Head(s) = s[1] /\ Head(s) \in S /\ Tail(s) \in Seq(S)
           /\ Len(Tail(s)) = Len(s) - 1 /\ \A i \in 1..Len(s) - 1 : Tail(s)[i] = s[i + 1]
  BY HeadTailProperties, EmptyLength

\* IsPrefix, element by element.
LEMMA PrefixFacts ==
    ASSUME NEW S, NEW s \in Seq(S), NEW t \in Seq(S)
    PROVE  IsPrefix(s, t) <=> Len(s) <= Len(t) /\ \A i \in 1..Len(s) : s[i] = t[i]
  <1>1. Len(s) \in Nat /\ Len(t) \in Nat
    OBVIOUS
  <1>2. SUFFICES ASSUME Len(s) <= Len(t)
                 PROVE  SubSeq(s, 1, Len(s)) = SubSeq(t, 1, Len(s))
                            <=> \A i \in 1..Len(s) : s[i] = t[i]
    BY <1>1 DEF IsPrefix
  <1>3. SubSeq(s, 1, Len(s)) = s
    BY SubSeqFull
  <1>4. /\ SubSeq(t, 1, Len(s)) \in Seq(S) /\ Len(SubSeq(t, 1, Len(s))) = Len(s)
        /\ \A i \in 1..Len(s) : SubSeq(t, 1, Len(s))[i] = t[i]
    <2>1. 1 \in Nat \ {0} /\ Len(s) \in 0..Len(t)
      BY <1>1, <1>2
    <2>2. QED
      BY <1>1, <2>1, PartOf
  <1>5. ASSUME \A i \in 1..Len(s) : s[i] = t[i]
        PROVE  s = SubSeq(t, 1, Len(s))
    BY <1>4, <1>5, SeqEqual
  <1>6. QED
    BY <1>3, <1>4, <1>5

-----------------------------------------------------------------------------
(* Lookups.                                                                 *)

LEMMA TreePaths ==
    /\ <<>> \in DOMAIN Tree /\ DOMAIN Tree \subseteq Path
    /\ \A p \in DOMAIN Tree : /\ Tree[p].to \in Path /\ \A i \in 1..Len(p) : Name(p[i])
                              /\ Tree[p].type \in {"dir", "file", "link"}
  <1>1. \A p \in DOMAIN Tree : p \in Path
    BY TreeAssumption
  <1>2. \A p \in DOMAIN Tree : DOMAIN p = 1..Len(p)
    BY <1>1, LenProperties DEF Path
  <1>3. \A p \in DOMAIN Tree : \A i \in 1..Len(p) : Name(p[i])
    <2>1. \A p \in DOMAIN Tree : \A i \in DOMAIN p : Name(p[i])
      BY TreeAssumption
    <2>2. QED
      BY <1>2, <2>1
  <1>4. <<>> \in DOMAIN Tree /\ \A p \in DOMAIN Tree : Tree[p].to \in Path
    BY TreeAssumption
  <1>5. \A p \in DOMAIN Tree : Tree[p].type \in {"dir", "file", "link"}
    BY TreeAssumption
  <1>6. QED
    BY <1>1, <1>3, <1>4, <1>5

LEMMA EnterType ==
    ASSUME NEW at \in Path, NEW e \in Bytes
    PROVE  Enter(at, e) \in Path
  <1>1. at # <<>> => Front(at) \in Path
    BY FrontLast DEF Path
  <1>2. Append(at, e) \in Path
    BY AppendProperties DEF Path
  <1>3. QED
    BY <1>1, <1>2 DEF Enter

\* Where a lookup ends.
Over(s) == s.rest = <<>> \/ Missing(s) \/ TooMany(s)

LEMMA OnwardType ==
    ASSUME NEW s \in Lookup, ~Over(s)
    PROVE  /\ Onward(s) \in Lookup /\ Onward(s).at \in DOMAIN Tree
           /\ \/ Onward(s).hops < s.hops
              \/ Onward(s).hops = s.hops /\ Len(Onward(s).rest) < Len(s.rest)
  <1>1. /\ s.at \in Path /\ s.rest \in Path /\ s.rest # <<>> /\ s.hops \in 0..MaxLinks
        /\ s = [at |-> s.at, rest |-> s.rest, hops |-> s.hops]
    BY DEF Lookup, Over
  <1>2. /\ Head(s.rest) \in Bytes /\ Tail(s.rest) \in Path
        /\ Len(Tail(s.rest)) = Len(s.rest) - 1 /\ Len(s.rest) \in Nat
    BY <1>1, HeadTail DEF Path
  <1>3. Entered(s) \in Path /\ Entered(s) \in DOMAIN Tree
    BY <1>1, <1>2, EnterType DEF Entered, Over, Missing
  <1>4. CASE AtLink(s)
    <2>1. s.hops # 0
      BY <1>4 DEF Over, TooMany
    <2>2. s.hops - 1 \in 0..MaxLinks /\ s.hops - 1 < s.hops
      BY <1>1, <2>1 DEF MaxLinks
    <2>3. <<>> \in Path /\ Tree[Entered(s)].to \o Tail(s.rest) \in Path
      BY <1>2, <1>3, TreePaths, ConcatProperties DEF Path
    <2>4. Onward(s) = [at |-> <<>>, rest |-> Tree[Entered(s)].to \o Tail(s.rest),
                       hops |-> s.hops - 1]
      BY <1>4 DEF Onward
    <2>5. Onward(s).at = <<>> /\ Onward(s).hops = s.hops - 1
      BY <2>4
    <2>6. Onward(s) \in Lookup
      BY <2>2, <2>3, <2>4 DEF Lookup
    <2>7. QED
      BY <2>2, <2>5, <2>6, TreePaths
  <1>5. CASE ~AtLink(s)
    <2>1. Onward(s) = [at |-> Entered(s), rest |-> Tail(s.rest), hops |-> s.hops]
      BY <1>1, <1>5 DEF Onward
    <2>2. QED
      BY <1>1, <1>2, <1>3, <2>1 DEF Lookup
  <1>6. QED
    BY <1>4, <1>5

LEMMA WalkDef ==
    ASSUME NEW s \in Lookup
    PROVE  Walk[s] = IF s.rest = <<>> THEN [is |-> "there", at |-> s.at]
                     ELSE IF Missing(s) THEN [is |-> "missing", at |-> s.at]
                     ELSE IF TooMany(s) THEN [is |-> "loop", at |-> s.at]
                     ELSE Walk[Onward(s)]
  <1> DEFINE E == {t \in Lookup : Over(t)}
             Result == [is : {"there", "missing", "loop"}, at : Path]
             out == [t \in Lookup |-> IF t.rest = <<>> THEN [is |-> "there", at |-> t.at]
                                      ELSE IF Missing(t) THEN [is |-> "missing", at |-> t.at]
                                      ELSE [is |-> "loop", at |-> t.at]]
             onward == [t \in Lookup |-> IF Over(t) THEN t ELSE Onward(t)]
             Equation(f) == [t \in Lookup |->
                            IF t.rest = <<>> THEN [is |-> "there", at |-> t.at]
                            ELSE IF Missing(t) THEN [is |-> "missing", at |-> t.at]
                            ELSE IF TooMany(t) THEN [is |-> "loop", at |-> t.at]
                            ELSE f[Onward(t)]]
  <1>1. E \in SUBSET Lookup /\ onward \in [Lookup -> Lookup] /\ out \in [Lookup -> Result]
    <2>1. \A t \in Lookup : (IF Over(t) THEN t ELSE Onward(t)) \in Lookup
      BY OnwardType
    <2>2. \A t \in Lookup : t.at \in Path
      BY DEF Lookup
    <2>3. QED
      BY <2>1, <2>2
  <1>2. PICK f : Repeats(f, Lookup, Result, E, onward, out)
    <2> HIDE DEF E, out, onward, Result
    <2>1. QED
      BY <1>1, TailRecursion
  <1>3. f = Equation(f)
    <2>1. ASSUME NEW t \in Lookup
          PROVE  f[t] = Equation(f)[t]
      <3>1. (t \in E => f[t] = out[t]) /\ (t \notin E => f[t] = f[onward[t]])
        <4> HIDE DEF E, out, onward
        <4>1. QED
          BY <1>2 DEF Repeats
      <3>2. QED
        BY <3>1 DEF Over
    <2>2. f = [t \in Lookup |-> f[t]]
      <3> HIDE DEF Result
      <3>1. QED
        BY <1>2 DEF Repeats
    <2>3. Equation(f) = [t \in Lookup |-> Equation(f)[t]]
      OBVIOUS
    <2>4. QED
      <3> HIDE DEF Equation
      <3>1. QED
        BY <2>1, <2>2, <2>3
  <1>4. Walk = CHOOSE w : w = Equation(w)
    BY DEF Walk
  <1>5. Walk = Equation(Walk)
    <2> HIDE DEF Equation
    <2>1. QED
      BY <1>3, <1>4
  <1>6. Walk[s] = Equation(Walk)[s]
    <2> HIDE DEF Equation
    <2>1. QED
      BY <1>5
  <1>7. QED
    BY <1>6

\* Every lookup comes to an end: it follows fewer links or has less left.
LEMMA LookupInduction ==
    ASSUME NEW S, \A s \in Lookup : Over(s) \/ Onward(s) \in S => s \in S
    PROVE  Lookup \subseteq S
  <1> DEFINE hops == [s \in Lookup |-> s.hops]
  <1>1. hops \in [Lookup -> Nat]
    BY DEF Lookup, MaxLinks
  <1>2. ASSUME NEW s \in Lookup, \A t \in Lookup : hops[t] < hops[s] => t \in S
        PROVE  s \in S
    <2> DEFINE Same == {t \in Lookup : t.hops = s.hops}
               left == [t \in Same |-> Len(t.rest)]
    <2>1. left \in [Same -> Nat]
      <3>1. \A t \in Lookup : Len(t.rest) \in Nat
        BY DEF Lookup, Path
      <3>2. QED
        BY <3>1
    <2>2. ASSUME NEW t \in Same, \A u \in Same : left[u] < left[t] => u \in S
          PROVE  t \in S
      <3>1. CASE Over(t)
        BY <3>1
      <3>2. CASE ~Over(t)
        <4> DEFINE u == Onward(t)
        <4>1. /\ u \in Lookup
              /\ u.hops < t.hops \/ (u.hops = t.hops /\ Len(u.rest) < Len(t.rest))
          <5>1. t \in Lookup
            OBVIOUS
          <5>2. QED
            BY <3>2, <5>1, OnwardType
        <4>2. u \in S
          <5> HIDE DEF u
          <5>1. CASE u.hops < t.hops
            BY <1>2, <4>1, <5>1
          <5>2. CASE u.hops = t.hops /\ Len(u.rest) < Len(t.rest)
            <6>1. u \in Same
              BY <4>1, <5>2
            <6>2. left[u] < left[t]
              BY <5>2, <6>1
            <6>3. QED
              BY <2>2, <6>1, <6>2
          <5>3. QED
            BY <4>1, <5>1, <5>2
        <4>3. QED
          BY <4>2
      <3>3. QED
        BY <3>1, <3>2
    <2>3. Same \subseteq S
      <3> HIDE DEF Same, left
      <3>1. QED
        BY <2>1, <2>2, RankInduction
    <2>4. QED
      BY <2>3
  <1>3. QED
    <2> HIDE DEF hops
    <2>1. QED
      BY <1>1, <1>2, RankInduction

Found == [is : {"there", "missing", "loop"}, at : DOMAIN Tree]

LEMMA RealType ==
    ASSUME NEW path \in Path
    PROVE  Real(path) \in Found
  <1> DEFINE S == {s \in Lookup : s.at \in DOMAIN Tree => Walk[s] \in Found}
             start == [at |-> <<>>, rest |-> path, hops |-> MaxLinks]
  <1>1. ASSUME NEW s \in Lookup, Over(s) \/ Onward(s) \in S
        PROVE  s \in S
    <2>1. SUFFICES ASSUME s.at \in DOMAIN Tree
                   PROVE  Walk[s] \in Found
      OBVIOUS
    <2>2. CASE Over(s)
      <3>1. \E is \in {"there", "missing", "loop"} : Walk[s] = [is |-> is, at |-> s.at]
        BY <2>2, WalkDef DEF Over
      <3>2. QED
        BY <2>1, <3>1 DEF Found
    <2>3. CASE ~Over(s)
      <3>1. Walk[s] = Walk[Onward(s)]
        BY <2>3, WalkDef DEF Over
      <3>2. QED
        BY <1>1, <2>3, <3>1, OnwardType
    <2>4. QED
      BY <2>2, <2>3
  <1>2. Lookup \subseteq S
    <2> HIDE DEF S
    <2>1. QED
      BY <1>1, LookupInduction
  <1>3. start \in Lookup /\ start.at \in DOMAIN Tree
    BY TreePaths DEF Lookup, MaxLinks, Path
  <1>4. Walk[start] \in Found
    BY <1>2, <1>3
  <1>5. QED
    BY <1>4 DEF Real

LEMMA RealEmpty == Real(<<>>) = [is |-> "there", at |-> <<>>]
  <1> DEFINE start == [at |-> <<>>, rest |-> <<>>, hops |-> MaxLinks]
  <1>1. start \in Lookup
    BY DEF Lookup, MaxLinks, Path
  <1>2. Walk[start] = [is |-> "there", at |-> <<>>]
    BY <1>1, WalkDef
  <1>3. QED
    BY <1>2 DEF Real

-----------------------------------------------------------------------------
(* std::filesystem.                                                         *)

LEMMA Dots == Here \in Bytes /\ Up \in Bytes /\ Here # Up /\ Here # <<>> /\ Up # <<>>
              /\ Head(Here) = Dot /\ Head(Up) = Dot
  <1>1. 46 \in Byte
    BY DEF Byte
  <1>2. <<46>> \in Seq(Byte) /\ <<46, 46>> \in Seq(Byte)
    BY <1>1
  <1>3. <<46>> # <<46, 46>>
    <2>1. Len(<<46>>) = 1 /\ Len(<<46, 46>>) = 2
      OBVIOUS
    <2>2. QED
      BY <2>1
  <1>4. Head(<<46>>) = 46 /\ Head(<<46, 46>>) = 46
    OBVIOUS
  <1>5. QED
    BY <1>2, <1>3, <1>4 DEF Here, Up, Dot, Bytes

LEMMA EnteringDef ==
    ASSUME NEW path \in Path
    PROVE  /\ Entering[path] \in Path
           /\ Entering[path] = IF path = <<>> THEN <<>>
                               ELSE Enter(Entering[Front(path)], Last(path))
  <1> DEFINE E == {<<>>}
             rank == [p \in Path |-> Len(p)]
             onward == [p \in Path |-> IF p = <<>> THEN p ELSE Front(p)]
             out == [p \in Path |-> <<>>]
             comb == [v \in Path \X Path |->
                         IF v[1] = <<>> THEN <<>> ELSE Enter(v[2], Last(v[1]))]
             Equation(f) == [p \in Path |->
                            IF p = <<>> THEN <<>> ELSE Enter(f[Front(p)], Last(p))]
  <1>1. \A p \in Path : p # <<>> => Front(p) \in Path /\ Last(p) \in Bytes
                                    /\ Len(Front(p)) < Len(p)
    BY FrontLast DEF Path
  <1>2. E \in SUBSET Path /\ rank \in [Path -> Nat]
    <2>1. <<>> \in Path /\ \A p \in Path : Len(p) \in Nat
      BY DEF Path
    <2>2. QED
      BY <2>1
  <1>3. onward \in [Path -> Path] /\ \A p \in Path \ E : rank[onward[p]] < rank[p]
    BY <1>1
  <1>4. out \in [Path -> Path] /\ comb \in [Path \X Path -> Path]
    <2>1. <<>> \in Path
      BY DEF Path
    <2>2. \A v \in Path \X Path :
              (IF v[1] = <<>> THEN <<>> ELSE Enter(v[2], Last(v[1]))) \in Path
      BY <1>1, <2>1, EnterType
    <2>3. QED
      BY <2>1, <2>2
  <1>5. PICK f : Recurs(f, Path, Path, E, onward, out, comb)
    <2> HIDE DEF E, rank, onward, out, comb
    <2>1. QED
      BY <1>2, <1>3, <1>4, Recursion
  <1>6. \A g : Recurs(g, Path, Path, E, onward, out, comb) <=> g \in [Path -> Path] /\ g = Equation(g)
    <2>1. ASSUME NEW g \in [Path -> Path]
          PROVE  Recurs(g, Path, Path, E, onward, out, comb) <=> g = Equation(g)
      <3>1. ASSUME NEW p \in Path
            PROVE  (IF p \in E THEN out[p] ELSE comb[<<p, g[onward[p]]>>]) = Equation(g)[p]
        <4>1. CASE p = <<>>
          BY <4>1
        <4>2. CASE p # <<>>
          <5>1. onward[p] = Front(p) /\ <<p, g[Front(p)]>> \in Path \X Path
            BY <1>1, <4>2
          <5>2. QED
            BY <4>2, <5>1
        <4>3. QED
          BY <4>1, <4>2
      <3>2. g = Equation(g) <=> \A p \in Path : g[p] = Equation(g)[p]
        <4>1. g = [p \in Path |-> g[p]] /\ Equation(g) = [p \in Path |-> Equation(g)[p]]
          OBVIOUS
        <4>2. QED
          <5> HIDE DEF Equation
          <5>1. QED
            BY <4>1
      <3>3. E \subseteq Path
        BY <1>2
      <3>4. QED
        <4> HIDE DEF E, out, comb, onward, Equation
        <4>1. QED
          BY <3>1, <3>2, <3>3 DEF Recurs
    <2>2. QED
      BY <2>1 DEF Recurs
  <1>7. Entering = CHOOSE g : g = Equation(g)
    BY DEF Entering
  <1>8. Entering = Equation(Entering)
    <2> HIDE DEF Equation, E, out, comb, onward
    <2>1. QED
      BY <1>5, <1>6, <1>7
  <1>9. \A p \in Path : Entering[p] = Equation(Entering)[p]
    <2> HIDE DEF Equation
    <2>1. QED
      BY <1>8
  <1>10. Path \subseteq {p \in Path : Entering[p] \in Path}
    <2> DEFINE Good == {p \in Path : Entering[p] \in Path}
    <2>1. ASSUME NEW p \in Path, \A q \in Path : rank[q] < rank[p] => q \in Good
          PROVE  p \in Good
      <3>1. CASE p = <<>>
        BY <1>9, <3>1
      <3>2. CASE p # <<>>
        <4>1. Entering[Front(p)] \in Path
          BY <1>1, <2>1, <3>2
        <4>2. QED
          BY <1>1, <1>9, <3>2, <4>1, EnterType
      <3>3. QED
        BY <3>1, <3>2
    <2>2. Path \subseteq Good
      <3> HIDE DEF Good, rank
      <3>1. QED
        BY <1>2, <2>1, RankInduction
    <2>3. QED
      BY <2>2
  <1>11. QED
    BY <1>9, <1>10

LEMMA NormalType ==
    ASSUME NEW path \in Path
    PROVE  lexically_normal(path) \in Path
  <1>1. Entering[path] \in Path
    BY EnteringDef
  <1>2. <<>> \in Bytes
    BY DEF Bytes
  <1>3. Append(Entering[path], <<>>) \in Path
    BY <1>1, <1>2, AppendProperties DEF Path
  <1>4. QED
    BY <1>1, <1>3 DEF lexically_normal

Resolved == [is : {"there", "missing", "loop"}, at : Path]

LEMMA CanonicalType ==
    ASSUME NEW path \in Path
    PROVE  /\ weakly_canonical(path) \in Resolved
           /\ weakly_canonical(path).is = Real(path).is
           /\ Real(path).is # "missing" => weakly_canonical(path) = Real(path)
  <1> DEFINE T == {k \in 0..Len(path) : Real(SubSeq(path, 1, k)).is = "there"}
             there == Max(T)
  <1>1. Real(path) \in Found /\ Found \subseteq Resolved
    BY RealType, TreePaths DEF Found, Resolved
  <1>2. there \in 0..Len(path)
    <2>1. SubSeq(path, 1, 0) = <<>>
      BY SubSeqEmpty
    <2>2. 0 \in T /\ Len(path) \in Nat
      <3>1. Len(path) \in Nat
        BY DEF Path
      <3>2. Real(SubSeq(path, 1, 0)).is = "there"
        <4>1. Real(SubSeq(path, 1, 0)) = Real(<<>>)
          BY <2>1, Zenon
        <4>2. QED
          BY <4>1, RealEmpty
      <3>3. QED
        BY <3>1, <3>2
    <2>3. QED
      <3>1. T \in SUBSET (0..Len(path)) /\ T # {}
        BY <2>2
      <3>2. Max(T) \in T
        <4> HIDE DEF T
        <4>1. QED
          BY <2>2, <3>1, MaxFacts
      <3>3. QED
        BY <3>2
  <1>3. Real(SubSeq(path, 1, there)).at \o SubSeq(path, there + 1, Len(path)) \in Path
    <2> HIDE DEF there
    <2>1. /\ 1 \in Nat \ {0} /\ there \in 0..Len(path) /\ there + 1 \in Nat \ {0}
          /\ Len(path) \in 0..Len(path)
      BY <1>2 DEF Path
    <2>2. SubSeq(path, 1, there) \in Path /\ SubSeq(path, there + 1, Len(path)) \in Path
      BY <2>1, PartOf DEF Path
    <2>3. Real(SubSeq(path, 1, there)).at \in Path
      BY <2>2, RealType, TreePaths DEF Found
    <2>4. QED
      BY <2>2, <2>3, ConcatProperties DEF Path
  <1>4. weakly_canonical(path) =
            IF Real(path).is # "missing" THEN Real(path)
            ELSE [is |-> "missing",
                  at |-> lexically_normal(Real(SubSeq(path, 1, there)).at
                                          \o SubSeq(path, there + 1, Len(path)))]
    BY DEF weakly_canonical
  <1>5. QED
    <2> HIDE DEF there
    <2>1. QED
      BY <1>1, <1>3, <1>4, NormalType DEF Resolved

LEMMA RootType == root_ \in Path
  BY CanonicalType, TreeAssumption DEF root_, Resolved

\* How a path reads from another one.
LEMMA RelativeFacts ==
    ASSUME NEW path \in Path, NEW base \in Path
    PROVE  LET rel == lexically_relative(path, base)
           IN  /\ rel \in Path /\ rel # <<>>
               /\ path = base => rel = <<Here>>
               /\ IsPrefix(base, path) /\ path # base =>
                      rel = SubSeq(path, Len(base) + 1, Len(path)) /\ Len(base) < Len(path)
               /\ ~IsPrefix(base, path) => rel[1] = Up
  <1> DEFINE both == Min({Len(path), Len(base)})
             T == {k \in 0..both : SubSeq(path, 1, k) = SubSeq(base, 1, k)}
             n == Max(T)
             ups == [i \in 1..Len(base) - n |-> Up]
             below == SubSeq(path, n + 1, Len(path))
             rel == lexically_relative(path, base)
  <1>1. Len(path) \in Nat /\ Len(base) \in Nat
    BY DEF Path
  <1>2. both \in Nat /\ both <= Len(path) /\ both <= Len(base)
        /\ (both = Len(path) \/ both = Len(base))
    <2> DEFINE L == {Len(path), Len(base)}
    <2>1. L \in SUBSET Nat /\ L # {}
      BY <1>1
    <2>2. Min(L) \in L /\ \A y \in L : Min(L) <= y
      <3> HIDE DEF L
      <3>1. QED
        BY <2>1, MinFacts
    <2>3. QED
      BY <1>1, <2>2
  <1>3. n \in T /\ \A k \in T : k <= n
    <2>1. SubSeq(path, 1, 0) = <<>> /\ SubSeq(base, 1, 0) = <<>>
      BY SubSeqEmpty
    <2>2. T \in SUBSET (0..both) /\ 0 \in T
      <3> HIDE DEF both
      <3>1. QED
        BY <1>2, <2>1
    <2>3. QED
      <3> HIDE DEF T, both
      <3>1. QED
        BY <1>2, <2>2, MaxFacts
  <1>4. n \in 0..Len(path) /\ n \in 0..Len(base) /\ SubSeq(path, 1, n) = SubSeq(base, 1, n)
    <2> HIDE DEF n, both
    <2>1. QED
      BY <1>1, <1>2, <1>3
  <1>5. below \in Path /\ ups \in Path /\ Len(ups) = Len(base) - n
    <2> HIDE DEF n
    <2>1. n + 1 \in Nat \ {0} /\ Len(path) \in 0..Len(path) /\ Len(base) - n \in Nat
      BY <1>1, <1>4
    <2>2. below \in Path
      BY <2>1, PartOf DEF Path
    <2>3. ups \in Path /\ Len(ups) = Len(base) - n
      <3> DEFINE m == Len(base) - n
      <3>1. m \in Nat
        BY <2>1
      <3> HIDE DEF m
      <3>2. [i \in 1..m |-> Up] \in Seq(Bytes) /\ Len([i \in 1..m |-> Up]) = m
        BY <3>1, Dots
      <3>3. QED
        BY <3>2 DEF Path, m
    <2>4. QED
      BY <2>2, <2>3
  <1>6. ups \o below \in Path /\ Len(ups \o below) = Len(ups) + Len(below)
        /\ \A i \in 1..Len(ups) : (ups \o below)[i] = ups[i]
    <2> HIDE DEF ups, below
    <2>1. Len(ups) \in Nat /\ Len(below) \in Nat
      BY <1>5 DEF Path
    <2>2. /\ ups \o below \in Seq(Bytes) /\ Len(ups \o below) = Len(ups) + Len(below)
          /\ \A i \in 1..Len(ups) + Len(below) :
                (ups \o below)[i] = IF i <= Len(ups) THEN ups[i] ELSE below[i - Len(ups)]
      BY <1>5, ConcatProperties DEF Path
    <2>3. \A i \in 1..Len(ups) : i \in 1..Len(ups) + Len(below) /\ i <= Len(ups)
      BY <2>1
    <2>4. QED
      BY <2>2, <2>3 DEF Path
  <1>7. rel = IF ups \o below = <<>> THEN <<Here>> ELSE ups \o below
    BY DEF lexically_relative
  <1>8. rel \in Path /\ rel # <<>>
    <2>1. <<Here>> \in Path /\ <<Here>> # <<>>
      BY Dots DEF Path
    <2>2. QED
      <3> HIDE DEF ups, below, rel
      <3>1. QED
        BY <1>6, <1>7, <2>1
  <1>9. ASSUME IsPrefix(base, path)
        PROVE  n = Len(base) /\ ups = <<>> /\ ups \o below = below
    <2>1. Len(base) <= Len(path) /\ SubSeq(path, 1, Len(base)) = SubSeq(base, 1, Len(base))
      BY <1>9 DEF IsPrefix
    <2>2. both = Len(base)
      <3> HIDE DEF both
      <3>1. QED
        BY <1>1, <1>2, <2>1
    <2>3. Len(base) \in T
      <3> HIDE DEF both
      <3>1. QED
        BY <1>1, <2>1, <2>2
    <2>4. n = Len(base)
      <3> HIDE DEF n, T
      <3>1. QED
        BY <1>1, <1>3, <1>4, <2>3
    <2>5. ups = <<>>
      <3> HIDE DEF n, ups
      <3>1. Len(ups) = 0
        BY <1>1, <1>5, <2>4
      <3>2. QED
        BY <1>5, <3>1, EmptyLength DEF Path
    <2>6. QED
      <3> HIDE DEF n, ups, below
      <3>1. QED
        BY <1>5, <2>4, <2>5, ConcatEmptySeq DEF Path
  <1>10. ASSUME path = base
         PROVE  rel = <<Here>>
    <2>1. IsPrefix(base, path)
      BY <1>10, PrefixFacts DEF Path
    <2>2. below = <<>>
      <3>1. n = Len(path)
        BY <1>9, <1>10, <2>1
      <3> HIDE DEF n
      <3>2. Len(path) < n + 1 /\ Len(path) \in Int /\ n + 1 \in Int
        BY <1>1, <3>1
      <3>3. QED
        BY <3>2, SubSeqEmpty
    <2>3. QED
      <3> HIDE DEF ups, below, rel, n
      <3>1. QED
        BY <1>7, <1>9, <2>1, <2>2
  <1>11. ASSUME IsPrefix(base, path), path # base
         PROVE  rel = SubSeq(path, Len(base) + 1, Len(path)) /\ Len(base) < Len(path)
    <2>1. Len(base) <= Len(path) /\ \A i \in 1..Len(base) : base[i] = path[i]
      BY <1>11, PrefixFacts DEF Path
    <2>2. Len(base) # Len(path)
      <3>1. ASSUME Len(base) = Len(path)
            PROVE  FALSE
        <4>1. path \in Seq(Bytes) /\ base \in Seq(Bytes)
          BY DEF Path
        <4>2. base = path
          BY <2>1, <3>1, <4>1, SeqEqual
        <4>3. QED
          BY <1>11, <4>2
      <3>2. QED
        BY <3>1
    <2>3. Len(base) < Len(path)
      BY <1>1, <2>1, <2>2
    <2>4. below = SubSeq(path, Len(base) + 1, Len(path))
      BY <1>9, <1>11
    <2>5. Len(SubSeq(path, Len(base) + 1, Len(path))) = Len(path) - (Len(base) + 1) + 1
      <3>1. Len(base) + 1 \in Nat \ {0} /\ Len(path) \in 0..Len(path)
            /\ Len(base) + 1 <= Len(path)
        BY <1>1, <2>3
      <3>2. QED
        BY <3>1, PartOf DEF Path
    <2>6. below # <<>>
      <3> HIDE DEF below
      <3>1. Len(below) > 0
        BY <1>1, <2>3, <2>4, <2>5
      <3>2. QED
        BY <1>5, <3>1, EmptyLength DEF Path
    <2>7. QED
      <3> HIDE DEF ups, below, rel, n
      <3>1. QED
        BY <1>7, <1>9, <1>11, <2>3, <2>4, <2>6
  <1>12. ASSUME ~IsPrefix(base, path)
         PROVE  rel[1] = Up
    <2>1. n # Len(base)
      <3> HIDE DEF n
      <3>1. QED
        BY <1>1, <1>4, <1>12 DEF IsPrefix
    <2>2. 1 \in 1..Len(base) - n /\ Len(base) - n \in Nat
      <3> HIDE DEF n
      <3>1. QED
        BY <1>1, <1>4, <2>1
    <2>3. ups[1] = Up
      <3> HIDE DEF n
      <3>1. QED
        BY <2>2
    <2>4. (ups \o below)[1] = Up /\ ups \o below # <<>>
      <3> HIDE DEF ups, below, n
      <3>1. (ups \o below)[1] = Up
        BY <1>5, <1>6, <2>2, <2>3
      <3>2. Len(ups \o below) > 0
        <4>1. Len(below) \in Nat
          BY <1>5 DEF Path
        <4>2. QED
          BY <1>5, <1>6, <2>2, <4>1
      <3>3. QED
        BY <1>6, <3>1, <3>2, EmptyLength DEF Path
    <2>5. QED
      <3> HIDE DEF ups, below, rel
      <3>1. QED
        BY <1>7, <2>4
  <1>13. QED
    BY <1>8, <1>10, <1>11, <1>12

-----------------------------------------------------------------------------
(* Strings.                                                                 *)

LEMMA FindFacts ==
    ASSUME NEW s \in Bytes, NEW c
    PROVE  /\ Find(s, c) \in 0..Len(s)
           /\ Find(s, c) = 0 => \A i \in 1..Len(s) : s[i] # c
           /\ Find(s, c) # 0 => s[Find(s, c)] = c /\ \A i \in 1..Find(s, c) - 1 : s[i] # c
  <1> DEFINE I == {i \in 1..Len(s) : s[i] = c}
  <1>1. Find(s, c) = IF I # {} THEN Min(I) ELSE 0
    BY DEF Find, SelectInSeq
  <1>2. Len(s) \in Nat
    BY DEF Bytes
  <1>3. CASE I = {}
    BY <1>1, <1>2, <1>3
  <1>4. CASE I # {}
    <2>1. I \in SUBSET Nat
      OBVIOUS
    <2>2. Find(s, c) \in I /\ \A y \in I : Find(s, c) <= y
      <3> HIDE DEF I
      <3>1. QED
        BY <1>1, <1>4, <2>1, MinFacts
    <2>3. QED
      BY <1>2, <2>2
  <1>5. QED
    BY <1>3, <1>4

LEMMA DropFacts ==
    ASSUME NEW s \in Bytes, NEW n \in 0..Len(s)
    PROVE  /\ Drop(s, n) \in Bytes /\ Len(Drop(s, n)) = Len(s) - n
           /\ \A i \in 1..Len(s) - n : Drop(s, n)[i] = s[n + i]
  <1>1. Len(s) \in Nat /\ n + 1 \in Nat \ {0} /\ Len(s) \in 0..Len(s)
    BY DEF Bytes
  <1>2. /\ SubSeq(s, n + 1, Len(s)) \in Bytes
        /\ Len(SubSeq(s, n + 1, Len(s))) = IF n + 1 <= Len(s) THEN Len(s) - (n + 1) + 1 ELSE 0
        /\ \A i \in 1..Len(s) - (n + 1) + 1 : SubSeq(s, n + 1, Len(s))[i] = s[n + 1 + i - 1]
    BY <1>1, PartOf DEF Bytes
  <1>3. /\ Len(s) - (n + 1) + 1 = Len(s) - n /\ \A i \in 1..Len(s) - n : n + 1 + i - 1 = n + i
        /\ (n + 1 <= Len(s) \/ Len(s) - n = 0)
    BY <1>1
  <1>4. QED
    BY <1>2, <1>3 DEF Drop

LEMMA BeforeFacts ==
    ASSUME NEW s \in Bytes, NEW c
    PROVE  /\ Before(s, c) \in Bytes /\ Len(Before(s, c)) \in 0..Len(s)
           /\ \A i \in 1..Len(Before(s, c)) : Before(s, c)[i] = s[i] /\ s[i] # c
           /\ Len(Before(s, c)) # Len(s) => s[Len(Before(s, c)) + 1] = c
           /\ s # <<>> /\ Head(s) # c => Before(s, c) # <<>> /\ Len(Before(s, c)) > 0
  <1> DEFINE f == Find(s, c)
  <1>1. Len(s) \in Nat
    BY DEF Bytes
  <1>2. CASE f = 0
    <2>1. Before(s, c) = s
      BY <1>2 DEF Before
    <2>2. s # <<>> => Len(s) > 0
      BY EmptyLength DEF Bytes
    <2>3. QED
      BY <1>1, <1>2, <2>1, <2>2, FindFacts
  <1>3. CASE f # 0
    <2>1. f \in 1..Len(s) /\ s[f] = c /\ \A i \in 1..f - 1 : s[i] # c
      BY <1>1, <1>3, FindFacts
    <2>2. Before(s, c) = SubSeq(s, 1, f - 1)
      BY <1>3 DEF Before
    <2> HIDE DEF f
    <2>3. /\ Before(s, c) \in Bytes /\ Len(Before(s, c)) = f - 1
          /\ \A i \in 1..f - 1 : Before(s, c)[i] = s[i]
      <3>1. 1 \in Nat \ {0} /\ f - 1 \in 0..Len(s) /\ f - 1 - 1 + 1 = f - 1 /\ (1 <= f - 1 \/ f - 1 = 0)
            /\ \A i \in 1..f - 1 : 1 + i - 1 = i
        BY <1>1, <2>1
      <3>2. /\ SubSeq(s, 1, f - 1) \in Bytes
            /\ Len(SubSeq(s, 1, f - 1)) = IF 1 <= f - 1 THEN f - 1 - 1 + 1 ELSE 0
            /\ \A i \in 1..f - 1 - 1 + 1 : SubSeq(s, 1, f - 1)[i] = s[1 + i - 1]
        BY <3>1, PartOf DEF Bytes
      <3>3. QED
        BY <2>2, <3>1, <3>2
    <2>4. s # <<>> /\ Head(s) # c => Before(s, c) # <<>> /\ Len(Before(s, c)) > 0
      <3>1. SUFFICES ASSUME s # <<>>, Head(s) # c
                     PROVE  Before(s, c) # <<>> /\ Len(Before(s, c)) > 0
        OBVIOUS
      <3>2. f # 1
        BY <2>1, <3>1, HeadTail DEF Bytes
      <3>3. Len(Before(s, c)) > 0
        BY <1>1, <2>1, <2>3, <3>2
      <3>4. QED
        BY <2>3, <3>3, EmptyLength DEF Bytes
    <2>5. f - 1 + 1 = f
      BY <1>1, <2>1
    <2>6. QED
      BY <1>1, <2>1, <2>3, <2>4, <2>5
  <1>4. QED
    BY <1>2, <1>3

LEMMA AfterType ==
    ASSUME NEW s \in Bytes, NEW c
    PROVE  After(s, c) \in Bytes
  <1>1. <<>> \in Bytes
    BY DEF Bytes
  <1>2. After(s, c) = IF Find(s, c) = 0 THEN <<>> ELSE Drop(s, Find(s, c))
    BY DEF After, Drop
  <1>3. QED
    BY <1>1, <1>2, FindFacts, DropFacts

LEMMA PartsDef ==
    ASSUME NEW s \in Bytes, NEW c
    PROVE  /\ Parts(s, c) \in Path
           /\ Parts(s, c) = IF s = <<>> THEN <<>>
                            ELSE IF Head(s) = c THEN Parts(Tail(s), c)
                            ELSE <<Before(s, c)>> \o Parts(Drop(s, Len(Before(s, c))), c)
  <1> DEFINE E == {<<>>}
             Rest(t) == IF Head(t) = c THEN Tail(t) ELSE Drop(t, Len(Before(t, c)))
             rank == [t \in Bytes |-> Len(t)]
             onward == [t \in Bytes |-> IF t = <<>> THEN t ELSE Rest(t)]
             out == [t \in Bytes |-> <<>>]
             With(t, v) == IF Head(t) = c THEN v ELSE <<Before(t, c)>> \o v
             comb == [v \in Bytes \X Path |-> With(v[1], v[2])]
             Equation(f) == [t \in Bytes |->
                            IF t = <<>> THEN <<>>
                            ELSE IF Head(t) = c THEN f[Tail(t)]
                            ELSE <<Before(t, c)>> \o f[Drop(t, Len(Before(t, c)))]]
             parts == CHOOSE g : g = Equation(g)
  <1>1. \A t \in Bytes : t # <<>> => Rest(t) \in Bytes /\ Len(Rest(t)) < Len(t)
    <2>1. ASSUME NEW t \in Bytes, t # <<>>
          PROVE  Rest(t) \in Bytes /\ Len(Rest(t)) < Len(t)
      <3>1. Tail(t) \in Bytes /\ Len(Tail(t)) = Len(t) - 1 /\ Len(t) \in Nat
        BY <2>1, HeadTail DEF Bytes
      <3>2. CASE Head(t) = c
        BY <3>1, <3>2
      <3>3. CASE Head(t) # c
        <4>1. Len(Before(t, c)) \in 0..Len(t) /\ Len(Before(t, c)) > 0
          BY <2>1, <3>3, BeforeFacts
        <4>2. /\ Drop(t, Len(Before(t, c))) \in Bytes
              /\ Len(Drop(t, Len(Before(t, c)))) = Len(t) - Len(Before(t, c))
          BY <4>1, DropFacts
        <4>3. QED
          BY <3>1, <3>3, <4>1, <4>2
      <3>4. QED
        BY <3>2, <3>3
    <2>2. QED
      <3> HIDE DEF Rest
      <3>1. QED
        BY <2>1
  <1>2. E \in SUBSET Bytes /\ rank \in [Bytes -> Nat] /\ <<>> \in Path
    <2>1. <<>> \in Bytes /\ \A t \in Bytes : Len(t) \in Nat
      BY DEF Bytes
    <2>2. <<>> \in Path
      BY DEF Path
    <2>3. QED
      BY <2>1, <2>2
  <1>3. onward \in [Bytes -> Bytes] /\ \A t \in Bytes \ E : rank[onward[t]] < rank[t]
    <2> HIDE DEF Rest
    <2>1. QED
      BY <1>1
  <1>4. \A t \in Bytes : \A v \in Path : With(t, v) \in Path
    <2>1. ASSUME NEW t \in Bytes, NEW v \in Path
          PROVE  With(t, v) \in Path
      <3>1. <<Before(t, c)>> \in Path
        BY BeforeFacts DEF Path
      <3>2. <<Before(t, c)>> \o v \in Path
        BY <3>1, ConcatProperties DEF Path
      <3>3. QED
        BY <3>2
    <2>2. QED
      <3> HIDE DEF With
      <3>1. QED
        BY <2>1
  <1>5. out \in [Bytes -> Path] /\ comb \in [Bytes \X Path -> Path]
    <2> HIDE DEF With
    <2>1. QED
      BY <1>2, <1>4
  <1>6. PICK f : Recurs(f, Bytes, Path, E, onward, out, comb)
    <2> HIDE DEF E, rank, onward, out, comb
    <2>1. QED
      BY <1>2, <1>3, <1>5, Recursion
  <1>7. \A g \in [Bytes -> Path] : Recurs(g, Bytes, Path, E, onward, out, comb) <=> g = Equation(g)
    <2>1. ASSUME NEW g \in [Bytes -> Path]
          PROVE  Recurs(g, Bytes, Path, E, onward, out, comb) <=> g = Equation(g)
      <3>1. ASSUME NEW t \in Bytes
            PROVE  (IF t \in E THEN out[t] ELSE comb[<<t, g[onward[t]]>>]) = Equation(g)[t]
        <4>1. CASE t = <<>>
          BY <4>1
        <4>2. CASE t # <<>>
          <5>1. onward[t] = Rest(t) /\ Rest(t) \in Bytes
            <6> HIDE DEF Rest
            <6>1. QED
              BY <1>1, <4>2
          <5>2. comb[<<t, g[Rest(t)]>>] = With(t, g[Rest(t)])
            <6> HIDE DEF Rest, With
            <6>1. QED
              BY <5>1
          <5>3. QED
            <6> HIDE DEF comb, onward
            <6>1. QED
              BY <4>2, <5>1, <5>2
        <4>3. QED
          BY <4>1, <4>2
      <3>2. g = Equation(g) <=> \A t \in Bytes : g[t] = Equation(g)[t]
        <4>1. g = [t \in Bytes |-> g[t]] /\ Equation(g) = [t \in Bytes |-> Equation(g)[t]]
          OBVIOUS
        <4>2. QED
          <5> HIDE DEF Equation
          <5>1. QED
            BY <4>1
      <3>3. E \subseteq Bytes
        BY <1>2
      <3>4. QED
        <4> HIDE DEF E, out, comb, onward, Equation
        <4>1. QED
          BY <3>1, <3>2, <3>3 DEF Recurs
    <2>2. QED
      <3> HIDE DEF E, out, comb, onward, Equation
      <3>1. QED
        BY <2>1
  <1>8. f \in [Bytes -> Path] /\ f = Equation(f)
    <2> HIDE DEF E, out, comb, onward, Equation
    <2>1. QED
      BY <1>6, <1>7 DEF Recurs
  <1>9. parts = Equation(parts)
    <2> HIDE DEF Equation
    <2>1. QED
      BY <1>8
  <1>10. \A t \in Bytes : parts[t] = Equation(parts)[t]
    <2> HIDE DEF Equation, parts
    <2>1. QED
      BY <1>9
  <1>11. \A t \in Bytes : parts[t] = Parts(t, c)
    BY DEF Parts
  <1>12. Bytes \subseteq {t \in Bytes : parts[t] \in Path}
    <2> DEFINE Good == {t \in Bytes : parts[t] \in Path}
    <2>1. ASSUME NEW t \in Bytes, \A u \in Bytes : rank[u] < rank[t] => u \in Good
          PROVE  t \in Good
      <3> HIDE DEF parts
      <3>1. CASE t = <<>>
        BY <1>2, <1>10, <3>1
      <3>2. CASE t # <<>>
        <4>1. Rest(t) \in Bytes /\ rank[Rest(t)] < rank[t]
          <5> HIDE DEF Rest
          <5>1. QED
            BY <1>1, <3>2
        <4>2. parts[Rest(t)] \in Path
          <5> HIDE DEF Rest, rank
          <5>1. QED
            BY <2>1, <4>1
        <4>3. parts[t] = With(t, parts[Rest(t)])
          BY <1>10, <3>2
        <4>4. QED
          <5> HIDE DEF With, Rest
          <5>1. QED
            BY <1>4, <4>2, <4>3
      <3>3. QED
        BY <3>1, <3>2
    <2>2. Bytes \subseteq Good
      <3> HIDE DEF Good, rank
      <3>1. QED
        BY <1>2, <2>1, RankInduction
    <2>3. QED
      BY <2>2
  <1>13. s # <<>> => Rest(s) \in Bytes
    <2> HIDE DEF Rest
    <2>1. QED
      BY <1>1
  <1>14. QED
    <2> HIDE DEF parts
    <2>1. QED
      BY <1>10, <1>11, <1>12, <1>13

\* FlattenSeq(ss) puts the members of ss together one after the other.
Flattens(f, ss, S) ==
    /\ f \in [0..Len(ss) -> Seq(S)] /\ f[0] = <<>> /\ f[Len(ss)] = FlattenSeq(ss)
    /\ \A k \in 1..Len(ss) : f[k] = f[k - 1] \o ss[k]

LEMMA FlattenFacts ==
    ASSUME NEW S, NEW ss \in Seq(Seq(S))
    PROVE  \E f : Flattens(f, ss, S)
  <1> DEFINE n == Len(ss)
             D == 1..n
             T == Seq(S)
             E == {i \in D : i = 1}
             rank == [i \in D |-> i]
             onward == [i \in D |-> IF i = 1 THEN i ELSE i - 1]
             out == [i \in D |-> ss[i]]
             comb == [v \in D \X T |-> v[2] \o ss[v[1]]]
             Equation(f) == [i \in D |-> IF i = 1 THEN ss[i] ELSE f[i - 1] \o ss[i]]
             flatten == CHOOSE g : g = Equation(g)
  <1>1. n \in Nat /\ \A i \in D : ss[i] \in T
    BY ElementOfSeq
  <1>2. /\ E \in SUBSET D /\ rank \in [D -> Nat] /\ onward \in [D -> D]
        /\ \A i \in D \ E : rank[onward[i]] < rank[i]
    BY <1>1
  <1>3. out \in [D -> T]
    BY <1>1
  <1>4. comb \in [D \X T -> T]
    <2>1. \A v \in D \X T : v[2] \o ss[v[1]] \in T
      <3> HIDE DEF D
      <3>1. QED
        BY <1>1, ConcatProperties
    <2>2. QED
      BY <2>1
  <1>5. PICK f : Recurs(f, D, T, E, onward, out, comb)
    <2> HIDE DEF D, T, E, rank, onward, out, comb
    <2>1. QED
      BY <1>2, <1>3, <1>4, Recursion
  <1>6. ASSUME NEW g \in [D -> T]
        PROVE  Recurs(g, D, T, E, onward, out, comb) <=> g = Equation(g)
    <2>1. ASSUME NEW i \in D
          PROVE  (IF i \in E THEN out[i] ELSE comb[<<i, g[onward[i]]>>]) = Equation(g)[i]
      <3>1. CASE i = 1
        BY <3>1
      <3>2. CASE i # 1
        <4>1. onward[i] = i - 1 /\ i - 1 \in D /\ i \notin E
          BY <1>1, <3>2
        <4>2. g[i - 1] \in T
          BY <4>1
        <4>3. comb[<<i, g[i - 1]>>] = g[i - 1] \o ss[i] /\ Equation(g)[i] = g[i - 1] \o ss[i]
          <5> HIDE DEF D, T
          <5>1. QED
            BY <3>2, <4>1, <4>2
        <4>4. QED
          <5> HIDE DEF D, T, E, comb, onward, Equation
          <5>1. QED
            BY <4>1, <4>3
      <3>3. QED
        BY <3>1, <3>2
    <2>2. g = Equation(g) <=> \A i \in D : g[i] = Equation(g)[i]
      <3>1. g = [i \in D |-> g[i]] /\ Equation(g) = [i \in D |-> Equation(g)[i]]
        OBVIOUS
      <3>2. QED
        <4> HIDE DEF Equation
        <4>1. QED
          BY <3>1
    <2>3. E \subseteq D
      BY <1>2
    <2>4. QED
      <3> HIDE DEF D, T, E, out, comb, onward, Equation
      <3>1. QED
        BY <2>1, <2>2, <2>3 DEF Recurs
  <1>7. f \in [D -> T] /\ f = Equation(f)
    <2> HIDE DEF D, T, E, out, comb, onward, Equation
    <2>1. QED
      BY <1>5, <1>6 DEF Recurs
  <1>8. flatten = Equation(flatten)
    <2> HIDE DEF Equation
    <2>1. QED
      BY <1>7
  <1>9. \A i \in D : flatten[i] = Equation(flatten)[i]
    <2> HIDE DEF Equation, flatten
    <2>1. QED
      BY <1>8
  <1> DEFINE Good == {i \in D : flatten[i] \in T}
             h == [k \in 0..n |-> IF k = 0 THEN <<>> ELSE flatten[k]]
  <1>10. D \subseteq Good
    <2>1. ASSUME NEW i \in D, \A j \in D : rank[j] < rank[i] => j \in Good
          PROVE  i \in Good
      <3> HIDE DEF flatten
      <3>1. CASE i = 1
        <4>1. flatten[i] = ss[i]
          BY <1>9, <3>1
        <4>2. QED
          BY <1>1, <4>1
      <3>2. CASE i # 1
        <4>1. i - 1 \in D /\ rank[i - 1] < rank[i]
          BY <1>1, <3>2
        <4>2. flatten[i] = flatten[i - 1] \o ss[i]
          BY <1>9, <3>2
        <4> HIDE DEF D, T, rank
        <4>3. flatten[i - 1] \in T /\ ss[i] \in T
          BY <1>1, <2>1, <4>1
        <4>4. flatten[i - 1] \o ss[i] \in T
          BY <4>3, ConcatProperties DEF T
        <4>5. QED
          BY <4>2, <4>4
      <3>3. QED
        BY <3>1, <3>2
    <2>2. QED
      <3> HIDE DEF Good, rank, D
      <3>1. QED
        BY <1>2, <2>1, RankInduction
  <1>11. h \in [0..n -> T] /\ h[0] = <<>>
    <2> HIDE DEF flatten
    <2>1. <<>> \in T
      OBVIOUS
    <2>2. QED
      BY <1>1, <1>10, <2>1
  <1>12. h[n] = FlattenSeq(ss)
    <2>1. FlattenSeq(ss) = IF n = 0 THEN ss ELSE flatten[n]
      BY DEF FlattenSeq
    <2>2. n = 0 => ss = <<>>
      BY EmptyLength
    <2>3. h[n] = IF n = 0 THEN <<>> ELSE flatten[n]
      <3> HIDE DEF flatten
      <3>1. QED
        BY <1>1
    <2>4. QED
      BY <2>1, <2>2, <2>3
  <1>13. ASSUME NEW k \in 1..n
         PROVE  h[k] = h[k - 1] \o ss[k]
    <2> HIDE DEF flatten
    <2>1. k \in D /\ k - 1 \in 0..n /\ k \in 0..n
      BY <1>1
    <2>2. CASE k = 1
      <3>1. h[k - 1] = <<>> /\ h[k] = ss[k] /\ ss[k] \in T
        BY <1>1, <1>9, <2>1, <2>2
      <3>2. <<>> \o ss[k] = ss[k]
        BY <3>1, ConcatEmptySeq
      <3>3. QED
        BY <3>1, <3>2
    <2>3. CASE k # 1
      <3>1. h[k - 1] = flatten[k - 1] /\ h[k] = flatten[k]
        BY <2>1, <2>3
      <3>2. QED
        BY <1>9, <2>1, <2>3, <3>1
    <2>4. QED
      BY <2>2, <2>3
  <1>14. Flattens(h, ss, S)
    <2> HIDE DEF h
    <2>1. QED
      BY <1>11, <1>12, <1>13 DEF Flattens
  <1>15. QED
    <2> HIDE DEF h
    <2>1. QED
      BY <1>14

LEMMA FlattenType ==
    ASSUME NEW S, NEW ss \in Seq(Seq(S))
    PROVE  FlattenSeq(ss) \in Seq(S)
  <1>1. PICK f : Flattens(f, ss, S)
    BY FlattenFacts
  <1>2. Len(ss) \in 0..Len(ss)
    OBVIOUS
  <1>3. QED
    BY <1>1, <1>2 DEF Flattens

Groups(S) == \A x, y, z \in Seq(S) : (x \o y) \o z = x \o (y \o z)

LEMMA ConcatRegroup ==
    ASSUME NEW S
    PROVE  Groups(S)
  BY ConcatAssociative DEF Groups

LEMMA FlattenConcat ==
    ASSUME NEW S, NEW ss \in Seq(Seq(S)), NEW tt \in Seq(Seq(S))
    PROVE  FlattenSeq(ss \o tt) = FlattenSeq(ss) \o FlattenSeq(tt)
  <1> DEFINE uu == ss \o tt
             m == Len(ss)
             n == Len(tt)
  <1>1. /\ uu \in Seq(Seq(S)) /\ m \in Nat /\ n \in Nat /\ Len(uu) = m + n
        /\ \A k \in 1..m : uu[k] = ss[k]
        /\ \A k \in 1..n : \A i \in 1..m + n : i = m + k => uu[i] = tt[k]
    <2>1. m \in Nat /\ n \in Nat
      OBVIOUS
    <2>2. /\ ss \o tt \in Seq(Seq(S)) /\ Len(ss \o tt) = m + n
          /\ \A i \in 1..m + n : (ss \o tt)[i] = IF i <= m THEN ss[i] ELSE tt[i - m]
      BY ConcatProperties
    <2>3. \A k \in 1..m : k \in 1..m + n /\ k <= m
      BY <2>1
    <2>4. \A k \in 1..n : \A i \in 1..m + n : i = m + k => ~ (i <= m) /\ i - m = k
      BY <2>1
    <2> HIDE DEF m, n
    <2>5. QED
      BY <2>1, <2>2, <2>3, <2>4
  <1>2. m \in Nat /\ n \in Nat
    OBVIOUS
  <1>3. Groups(S)
    BY ConcatRegroup
  <1> HIDE DEF uu, m, n
  <1>4. PICK f : Flattens(f, uu, S)
    BY <1>1, FlattenFacts
  <1>5. PICK g : Flattens(g, ss, S)
    BY FlattenFacts
  <1>6. PICK h : Flattens(h, tt, S)
    BY FlattenFacts
  <1> DEFINE A == {k \in Nat : k <= m => f[k] = g[k]}
             B == {k \in Nat : k <= n => f[m + k] = g[m] \o h[k]}
  <1>7. /\ \A k \in 1..m : f[k] = f[k - 1] \o ss[k] /\ g[k] = g[k - 1] \o ss[k]
        /\ f[0] = <<>> /\ g[0] = <<>> /\ h[0] = <<>> /\ g[m] \in Seq(S)
        /\ f[m + n] = FlattenSeq(uu) /\ g[m] = FlattenSeq(ss) /\ h[n] = FlattenSeq(tt)
    <2>1. m \in 0..m /\ \A k \in 1..m : k \in 1..m + n
      BY <1>1
    <2>2. QED
      BY <1>1, <1>4, <1>5, <1>6, <2>1 DEF Flattens, m, n
  <1>8. ASSUME NEW k \in 0..n, NEW j \in 1..n, j = k + 1
        PROVE  f[m + j] = f[m + k] \o tt[j] /\ h[j] = h[k] \o tt[j] /\ h[k] \in Seq(S) /\ tt[j] \in Seq(S)
    <2>1. PICK i \in 1..m + n : i = m + j /\ i - 1 = m + k
      <3>1. m + j \in 1..m + n /\ m + j - 1 = m + k
        BY <1>8, <1>2
      <3>2. QED
        BY <1>2, <3>1
    <2>2. f[i] = f[i - 1] \o uu[i]
      BY <1>1, <1>4 DEF Flattens
    <2>3. uu[i] = tt[j]
      <3>1. \A l \in 1..n : \A o \in 1..m + n : o = m + l => uu[o] = tt[l]
        BY <1>1
      <3>2. QED
        BY <2>1, <3>1
    <2>4. h[j] = h[j - 1] \o tt[j] /\ h[k] \in Seq(S) /\ tt[j] \in Seq(S)
      BY <1>6, ElementOfSeq DEF Flattens, n
    <2>5. j - 1 = k
      BY <1>8, <1>2
    <2>6. QED
      BY <2>1, <2>2, <2>3, <2>4, <2>5
  <1>9. (\A k \in Nat : k \in A <=> (k <= m => f[k] = g[k])) /\
        (\A k \in Nat : k \in B <=> (k <= n => f[m + k] = g[m] \o h[k]))
    OBVIOUS
  <1> HIDE DEF A, B
  <1>10. Nat \subseteq A
    <2>1. 0 \in A
      BY <1>7, <1>9
    <2>2. ASSUME NEW k \in Nat, k \in A
          PROVE  k + 1 \in A
      <3>1. PICK j \in Nat : j = k + 1
        OBVIOUS
      <3>2. ASSUME j <= m
            PROVE  f[j] = g[j]
        <4>1. j \in 1..m /\ j - 1 = k /\ k <= m
          BY <1>2, <3>1, <3>2
        <4>2. f[k] = g[k] /\ f[j] = f[j - 1] \o ss[j] /\ g[j] = g[j - 1] \o ss[j]
          BY <1>7, <1>9, <2>2, <4>1
        <4>3. QED
          BY <4>1, <4>2
      <3>3. j \in A
        BY <1>9, <3>2
      <3>4. QED
        BY <3>1, <3>3
    <2>3. QED
      BY <2>1, <2>2, NatInduct
  <1>11. Nat \subseteq B
    <2>1. 0 \in B
      <3>1. f[m] = g[m] /\ m + 0 = m
        BY <1>2, <1>9, <1>10
      <3>2. g[m] \o <<>> = g[m]
        BY <1>7, ConcatEmptySeq
      <3>3. QED
        BY <1>7, <1>9, <3>1, <3>2
    <2>2. ASSUME NEW k \in Nat, k \in B
          PROVE  k + 1 \in B
      <3>1. PICK j \in Nat : j = k + 1
        OBVIOUS
      <3>2. ASSUME j <= n
            PROVE  f[m + j] = g[m] \o h[j]
        <4>1. k \in 0..n /\ j \in 1..n /\ k <= n
          BY <1>1, <3>1, <3>2
        <4>2. f[m + k] = g[m] \o h[k]
          BY <1>9, <2>2, <4>1
        <4>3. /\ f[m + j] = f[m + k] \o tt[j] /\ h[j] = h[k] \o tt[j]
              /\ h[k] \in Seq(S) /\ tt[j] \in Seq(S)
          BY <1>8, <3>1, <4>1
        <4>4. (g[m] \o h[k]) \o tt[j] = g[m] \o (h[k] \o tt[j])
          <5>1. g[m] \in Seq(S) /\ h[k] \in Seq(S) /\ tt[j] \in Seq(S)
            BY <1>7, <4>3
          <5>2. QED
            BY <1>3, <5>1 DEF Groups
        <4>5. QED
          BY <4>2, <4>3, <4>4
      <3>3. j \in B
        BY <1>9, <3>2
      <3>4. QED
        BY <3>1, <3>3
    <2>3. QED
      BY <2>1, <2>2, NatInduct
  <1>12. f[m + n] = g[m] \o h[n]
    <2>1. n \in Nat /\ n <= n
      BY <1>1
    <2>2. n \in B
      BY <1>11, <2>1
    <2>3. QED
      BY <1>9, <2>1, <2>2
  <1>13. QED
    BY <1>7, <1>12 DEF uu

LEMMA FlattenOne ==
    ASSUME NEW S, NEW s \in Seq(S)
    PROVE  FlattenSeq(<<s>>) = s /\ FlattenSeq(<<>>) = <<>>
  <1>1. <<s>> \in Seq(Seq(S)) /\ Len(<<s>>) = 1 /\ <<s>>[1] = s
    OBVIOUS
  <1>2. PICK f : Flattens(f, <<s>>, S)
    BY <1>1, FlattenFacts
  <1>3. f[1] = f[0] \o s /\ f[0] = <<>> /\ f[1] = FlattenSeq(<<s>>)
    <2>1. 1 \in 1..Len(<<s>>) /\ 1 - 1 = 0
      BY <1>1
    <2>2. f[1] = f[1 - 1] \o <<s>>[1] /\ f[0] = <<>> /\ f[Len(<<s>>)] = FlattenSeq(<<s>>)
      BY <1>2, <2>1 DEF Flattens
    <2>3. QED
      BY <1>1, <2>1, <2>2
  <1>4. FlattenSeq(<<>>) = <<>>
    BY DEF FlattenSeq
  <1>5. QED
    BY <1>3, <1>4, ConcatEmptySeq

\* Induction from the end of a sequence.
LEMMA SeqInduct ==
    ASSUME NEW S, NEW G, <<>> \in G,
           \A b \in S : \A t \in Seq(S) : t \in G => <<b>> \o t \in G
    PROVE  Seq(S) \subseteq G
  <1> DEFINE rank == [s \in Seq(S) |-> Len(s)]
  <1>1. rank \in [Seq(S) -> Nat]
    OBVIOUS
  <1>2. ASSUME NEW s \in Seq(S), \A t \in Seq(S) : rank[t] < rank[s] => t \in G
        PROVE  s \in G
    <2>1. CASE s = <<>>
      BY <2>1
    <2>2. CASE s # <<>>
      <3>1. Head(s) \in S /\ Tail(s) \in Seq(S) /\ Len(Tail(s)) = Len(s) - 1 /\ Len(s) \in Nat
        BY <2>2, HeadTail
      <3>2. s = <<Head(s)>> \o Tail(s)
        BY <2>2, HeadTailAppend, ConcatSimplifications
      <3>3. Tail(s) \in G
        <4>1. rank[Tail(s)] < rank[s]
          BY <3>1
        <4> HIDE DEF rank
        <4>2. QED
          BY <1>2, <3>1, <4>1
      <3>4. QED
        BY <3>1, <3>2, <3>3
    <2>3. QED
      BY <2>1, <2>2
  <1> DEFINE D == Seq(S)
  <1>3. D \subseteq G
    <2> HIDE DEF rank
    <2>1. rank \in [D -> Nat] /\ \A s \in D : (\A t \in D : rank[t] < rank[s] => t \in G) => s \in G
      BY <1>1, <1>2
    <2> HIDE DEF D
    <2>2. QED
      BY <2>1, RankInduction
  <1>4. QED
    BY <1>3

\* Every member of s replaced by what e makes of it.
Replaced(e, s) == [i \in DOMAIN s |-> e[s[i]]]
Spread(e, s) == FlattenSeq(Replaced(e, s))

LEMMA MappedFacts ==
    ASSUME NEW S, NEW s \in Seq(S), NEW e
    PROVE  /\ Len(Replaced(e, s)) = Len(s)
           /\ \A i \in 1..Len(s) : Replaced(e, s)[i] = e[s[i]]
  <1> DEFINE n == Len(s)
             m == [i \in 1..n |-> e[s[i]]]
             R == {e[x] : x \in S}
  <1>1. Replaced(e, s) = m
    BY LenProperties DEF Replaced
  <1>2. n \in Nat
    OBVIOUS
  <1>3. m \in Seq(R) /\ Len(m) = n /\ \A i \in 1..n : m[i] = e[s[i]]
    <2>1. \A i \in 1..n : e[s[i]] \in R
      BY ElementOfSeq
    <2> HIDE DEF n
    <2> HIDE DEF R
    <2>2. QED
      BY <1>2, <2>1
  <1>4. QED
    BY <1>1, <1>3

LEMMA MappedRange ==
    ASSUME NEW S, NEW s \in Seq(S), NEW e
    PROVE  Replaced(e, s) \in Seq({e[x] : x \in S})
  <1> DEFINE n == Len(s)
             m == [i \in 1..n |-> e[s[i]]]
             R == {e[x] : x \in S}
  <1>1. Replaced(e, s) = m
    BY LenProperties DEF Replaced
  <1>2. n \in Nat
    OBVIOUS
  <1>3. m \in Seq(R)
    <2>1. \A i \in 1..n : e[s[i]] \in R
      BY ElementOfSeq
    <2> HIDE DEF n
    <2> HIDE DEF R
    <2>2. QED
      BY <1>2, <2>1
  <1>4. QED
    BY <1>1, <1>3

LEMMA MappedType ==
    ASSUME NEW S, NEW T, NEW e \in [S -> T], NEW s \in Seq(S)
    PROVE  Replaced(e, s) \in Seq(T)
  <1>1. \A i \in 1..Len(s) : e[s[i]] \in T
    BY ElementOfSeq
  <1> DEFINE n == Len(s)
             m == [i \in 1..n |-> e[s[i]]]
  <1>2. Replaced(e, s) = m
    BY LenProperties DEF Replaced
  <1>3. n \in Nat
    OBVIOUS
  <1>4. m \in Seq(T)
    <2>1. \A i \in 1..n : e[s[i]] \in T
      BY <1>1
    <2> HIDE DEF n
    <2>2. QED
      BY <1>3, <2>1
  <1>5. QED
    BY <1>2, <1>4

LEMMA SpreadType ==
    ASSUME NEW S, NEW T, NEW e \in [S -> Seq(T)], NEW s \in Seq(S)
    PROVE  Spread(e, s) \in Seq(T)
  <1>1. Replaced(e, s) \in Seq(Seq(T))
    BY MappedType
  <1>2. QED
    BY <1>1, FlattenType DEF Spread

LEMMA SpreadOne ==
    ASSUME NEW S, NEW T, NEW e \in [S -> Seq(T)], NEW b \in S
    PROVE  Spread(e, <<b>>) = e[b] /\ Spread(e, <<>>) = <<>>
  <1>1. <<b>> \in Seq(S) /\ Len(<<b>>) = 1 /\ <<b>>[1] = b /\ e[b] \in Seq(T)
    OBVIOUS
  <1>2. Replaced(e, <<b>>) = <<e[b]>>
    <2> DEFINE m == Replaced(e, <<b>>)
    <2>1. m \in Seq(Seq(T)) /\ Len(m) = 1 /\ m[1] = e[b]
      <3>1. 1 \in 1..Len(<<b>>)
        BY <1>1
      <3>2. m \in Seq(Seq(T))
        BY <1>1, MappedType
      <3>3. Len(m) = Len(<<b>>) /\ \A i \in 1..Len(<<b>>) : m[i] = e[<<b>>[i]]
        BY <1>1, MappedFacts
      <3> HIDE DEF m
      <3>4. QED
        BY <1>1, <3>1, <3>2, <3>3
    <2>2. <<e[b]>> \in Seq(Seq(T)) /\ Len(<<e[b]>>) = 1 /\ <<e[b]>>[1] = e[b]
      BY <1>1
    <2> HIDE DEF m
    <2>3. \A i \in 1..Len(m) : m[i] = <<e[b]>>[i]
      BY <2>1, <2>2
    <2>4. m = <<e[b]>>
      BY <2>1, <2>2, <2>3, SeqEqual
    <2>5. QED
      BY <2>4 DEF m
  <1>3. Replaced(e, <<>>) = <<>>
    <2>1. <<>> \in Seq(S) /\ Len(<<>>) = 0
      OBVIOUS
    <2>2. Replaced(e, <<>>) \in Seq(Seq(T)) /\ Len(Replaced(e, <<>>)) = 0
      BY <2>1, MappedFacts, MappedType
    <2>3. QED
      BY <2>2, EmptyLength
  <1>4. QED
    BY <1>1, <1>2, <1>3, FlattenOne DEF Spread

LEMMA ReplacedConcat ==
    ASSUME NEW S, NEW e, NEW s \in Seq(S), NEW t \in Seq(S)
    PROVE  Replaced(e, s \o t) = Replaced(e, s) \o Replaced(e, t)
  <1> DEFINE M(u) == Replaced(e, u)
             T == {e[x] : x \in S}
  <1>1. \A u \in Seq(S) : /\ M(u) \in Seq(T) /\ Len(M(u)) = Len(u)
                          /\ \A i \in 1..Len(u) : M(u)[i] = e[u[i]]
    <2>1. \A u \in Seq(S) : M(u) \in Seq(T)
      BY MappedRange
    <2>2. \A u \in Seq(S) : Len(M(u)) = Len(u) /\ \A i \in 1..Len(u) : M(u)[i] = e[u[i]]
      BY MappedFacts
    <2>3. QED
      BY <2>1, <2>2
  <1>2. Len(s) \in Nat /\ Len(t) \in Nat
    OBVIOUS
  <1>3. /\ s \o t \in Seq(S) /\ Len(s \o t) = Len(s) + Len(t)
        /\ \A i \in 1..Len(s) + Len(t) : (s \o t)[i] = IF i <= Len(s) THEN s[i] ELSE t[i - Len(s)]
    BY ConcatProperties
  <1> HIDE DEF M, T
  <1>4. /\ M(s) \o M(t) \in Seq(T) /\ Len(M(s) \o M(t)) = Len(s) + Len(t)
        /\ \A i \in 1..Len(s) + Len(t) :
              (M(s) \o M(t))[i] = IF i <= Len(s) THEN M(s)[i] ELSE M(t)[i - Len(s)]
    <2>1. M(s) \in Seq(T) /\ M(t) \in Seq(T) /\ Len(M(s)) = Len(s) /\ Len(M(t)) = Len(t)
      BY <1>1
    <2>2. /\ M(s) \o M(t) \in Seq(T) /\ Len(M(s) \o M(t)) = Len(M(s)) + Len(M(t))
          /\ \A i \in 1..Len(M(s)) + Len(M(t)) :
                (M(s) \o M(t))[i] = IF i <= Len(M(s)) THEN M(s)[i] ELSE M(t)[i - Len(M(s))]
      <3>1. \A x, y \in Seq(T) :
                /\ x \o y \in Seq(T) /\ Len(x \o y) = Len(x) + Len(y)
                /\ \A i \in 1..Len(x) + Len(y) :
                      (x \o y)[i] = IF i <= Len(x) THEN x[i] ELSE y[i - Len(x)]
        BY ConcatProperties
      <3>2. QED
        BY <2>1, <3>1
    <2>3. QED
      BY <2>1, <2>2
  <1>5. ASSUME NEW i \in 1..Len(s) + Len(t)
        PROVE  M(s \o t)[i] = (M(s) \o M(t))[i]
    <2>1. M(s \o t)[i] = e[(s \o t)[i]]
      BY <1>1, <1>3
    <2>2. CASE i <= Len(s)
      <3>1. i \in 1..Len(s) /\ (s \o t)[i] = s[i] /\ (M(s) \o M(t))[i] = M(s)[i]
        BY <1>2, <1>3, <1>4, <2>2
      <3>2. QED
        BY <1>1, <2>1, <3>1
    <2>3. CASE ~ (i <= Len(s))
      <3>1. PICK j \in 1..Len(t) : j = i - Len(s)
        <4>1. i - Len(s) \in 1..Len(t)
          BY <1>2, <2>3
        <4>2. QED
          BY <4>1
      <3>2. (s \o t)[i] = t[j] /\ (M(s) \o M(t))[i] = M(t)[j]
        BY <1>3, <1>4, <2>3, <3>1
      <3>3. QED
        BY <1>1, <2>1, <3>2
    <2>4. QED
      BY <2>2, <2>3
  <1>6. M(s \o t) = M(s) \o M(t)
    <2>1. M(s \o t) \in Seq(T) /\ Len(M(s \o t)) = Len(M(s) \o M(t))
      BY <1>1, <1>3, <1>4
    <2>2. \A i \in 1..Len(M(s \o t)) : M(s \o t)[i] = (M(s) \o M(t))[i]
      BY <1>1, <1>3, <1>5
    <2>3. QED
      BY <1>4, <2>1, <2>2, SeqEqual
  <1>7. QED
    BY <1>6 DEF M

LEMMA SpreadConcat ==
    ASSUME NEW S, NEW T, NEW e \in [S -> Seq(T)], NEW s \in Seq(S), NEW t \in Seq(S)
    PROVE  Spread(e, s \o t) = Spread(e, s) \o Spread(e, t)
  <1>1. Replaced(e, s \o t) = Replaced(e, s) \o Replaced(e, t)
    BY ReplacedConcat
  <1>2. Replaced(e, s) \in Seq(Seq(T)) /\ Replaced(e, t) \in Seq(Seq(T))
    BY MappedType
  <1>3. FlattenSeq(Replaced(e, s) \o Replaced(e, t))
            = FlattenSeq(Replaced(e, s)) \o FlattenSeq(Replaced(e, t))
    BY <1>2, FlattenConcat
  <1>4. FlattenSeq(Replaced(e, s \o t)) = FlattenSeq(Replaced(e, s) \o Replaced(e, t))
    BY <1>1
  <1>5. QED
    BY <1>3, <1>4 DEF Spread

\* Spreading over the strings of T, all that is used of it.
Spreading(e, S, T) ==
    /\ Spread(e, <<>>) = <<>> /\ \A b \in S : Spread(e, <<b>>) = e[b]
    /\ \A s, t \in Seq(S) : Spread(e, s \o t) = Spread(e, s) \o Spread(e, t)
    /\ \A s \in Seq(S) : Spread(e, s) \in Seq(T)

LEMMA Spreads ==
    ASSUME NEW S, NEW T, NEW e \in [S -> Seq(T)], NEW c \in S
    PROVE  Spreading(e, S, T)
  <1>1. \A b \in S : Spread(e, <<b>>) = e[b] /\ Spread(e, <<>>) = <<>>
    BY SpreadOne
  <1>2. ASSUME NEW s \in Seq(S), NEW t \in Seq(S)
        PROVE  Spread(e, s \o t) = Spread(e, s) \o Spread(e, t)
    BY SpreadConcat
  <1>3. ASSUME NEW s \in Seq(S)
        PROVE  Spread(e, s) \in Seq(T)
    BY SpreadType
  <1>4. QED
    BY <1>1, <1>2, <1>3 DEF Spreading

LEMMA hexType ==
    ASSUME NEW c \in Byte
    PROVE  hexValue(c) \in Int /\ hexValue(c) <= 15
  BY DEF hexValue, Byte, Digit

LEMMA DecodeDef ==
    ASSUME NEW s \in Bytes
    PROVE  /\ urlDecode[s] \in Bytes
           /\ urlDecode[s] =
                IF s = <<>> THEN <<>>
                ELSE IF HasEscape(s)
                THEN <<16 * hexValue(s[2]) + hexValue(s[3])>> \o urlDecode[Drop(s, 3)]
                ELSE <<IF s[1] = Plus THEN Space ELSE s[1]>> \o urlDecode[Drop(s, 1)]
  <1> DEFINE E == {<<>>}
             First1(t) == IF HasEscape(t) THEN 16 * hexValue(t[2]) + hexValue(t[3])
                          ELSE IF t[1] = Plus THEN Space ELSE t[1]
             Rest(t) == IF HasEscape(t) THEN Drop(t, 3) ELSE Drop(t, 1)
             rank == [t \in Bytes |-> Len(t)]
             onward == [t \in Bytes |-> IF t = <<>> THEN t ELSE Rest(t)]
             out == [t \in Bytes |-> <<>>]
             With(t, v) == IF t = <<>> THEN <<>> ELSE <<First1(t)>> \o v
             comb == [v \in Bytes \X Bytes |-> With(v[1], v[2])]
             Equation(f) == [in \in Bytes |->
                IF in = <<>> THEN <<>>
                ELSE IF HasEscape(in)
                THEN <<16 * hexValue(in[2]) + hexValue(in[3])>> \o f[Drop(in, 3)]
                ELSE <<IF in[1] = Plus THEN Space ELSE in[1]>> \o f[Drop(in, 1)]]
  <1>1. \A t \in Bytes : t # <<>> => /\ Rest(t) \in Bytes /\ Len(Rest(t)) < Len(t)
                                     /\ First1(t) \in Byte
    <2>1. ASSUME NEW t \in Bytes, t # <<>>
          PROVE  Rest(t) \in Bytes /\ Len(Rest(t)) < Len(t) /\ First1(t) \in Byte
      <3>1. Len(t) \in Nat \ {0} /\ \A i \in 1..Len(t) : t[i] \in Byte
        BY <2>1, EmptyLength, ElementOfSeq DEF Bytes
      <3>2. CASE HasEscape(t)
        <4>1. 3 \in 0..Len(t) /\ t[2] \in Byte /\ t[3] \in Byte
              /\ hexValue(t[2]) >= 0 /\ hexValue(t[3]) >= 0
          BY <3>1, <3>2 DEF HasEscape
        <4>2. Drop(t, 3) \in Bytes /\ Len(Drop(t, 3)) = Len(t) - 3
          BY <4>1, DropFacts
        <4>3. 16 * hexValue(t[2]) + hexValue(t[3]) \in Byte
          <5>1. \A c \in Byte : hexValue(c) >= 0 => hexValue(c) \in 0..15
            BY hexType
          <5>2. \A x, y \in 0..15 : 16 * x + y \in Byte
            BY DEF Byte
          <5>3. QED
            BY <4>1, <5>1, <5>2
        <4>4. QED
          BY <3>1, <3>2, <4>2, <4>3
      <3>3. CASE ~HasEscape(t)
        <4>1. 1 \in 0..Len(t) /\ t[1] \in Byte
          BY <3>1
        <4>2. Drop(t, 1) \in Bytes /\ Len(Drop(t, 1)) = Len(t) - 1
          BY <4>1, DropFacts
        <4>3. Space \in Byte
          BY DEF Space, Byte
        <4>4. QED
          BY <3>1, <3>3, <4>1, <4>2, <4>3
      <3>4. QED
        BY <3>2, <3>3
    <2>2. QED
      <3> HIDE DEF Rest, First1
      <3>1. QED
        BY <2>1
  <1>2. E \in SUBSET Bytes /\ rank \in [Bytes -> Nat] /\ <<>> \in Bytes
    BY DEF Bytes
  <1>3. onward \in [Bytes -> Bytes] /\ \A t \in Bytes \ E : rank[onward[t]] < rank[t]
    <2> HIDE DEF Rest
    <2>1. QED
      BY <1>1
  <1>4. \A t \in Bytes : \A v \in Bytes : With(t, v) \in Bytes
    <2>1. ASSUME NEW t \in Bytes, NEW v \in Bytes
          PROVE  With(t, v) \in Bytes
      <3> HIDE DEF First1
      <3>1. CASE t = <<>>
        BY <1>2, <3>1
      <3>2. CASE t # <<>>
        <4>1. <<First1(t)>> \in Seq(Byte)
          BY <1>1, <3>2
        <4>2. <<First1(t)>> \o v \in Bytes
          BY <4>1, ConcatProperties DEF Bytes
        <4>3. QED
          BY <3>2, <4>2
      <3>3. QED
        BY <3>1, <3>2
    <2>2. QED
      <3> HIDE DEF With
      <3>1. QED
        BY <2>1
  <1>5. out \in [Bytes -> Bytes] /\ comb \in [Bytes \X Bytes -> Bytes]
    <2> HIDE DEF With
    <2>1. QED
      BY <1>2, <1>4
  <1>6. PICK f : Recurs(f, Bytes, Bytes, E, onward, out, comb)
    <2> HIDE DEF E, rank, onward, out, comb
    <2>1. QED
      BY <1>2, <1>3, <1>5, Recursion
  <1>7. \A g : \A t \in Bytes : Equation(g)[t] = IF t = <<>> THEN <<>> ELSE With(t, g[Rest(t)])
    OBVIOUS
  <1>8. \A g \in [Bytes -> Bytes] : Recurs(g, Bytes, Bytes, E, onward, out, comb) <=> g = Equation(g)
    <2>1. ASSUME NEW g \in [Bytes -> Bytes]
          PROVE  Recurs(g, Bytes, Bytes, E, onward, out, comb) <=> g = Equation(g)
      <3>1. ASSUME NEW t \in Bytes
            PROVE  (IF t \in E THEN out[t] ELSE comb[<<t, g[onward[t]]>>]) = Equation(g)[t]
        <4>1. CASE t = <<>>
          BY <4>1
        <4>2. CASE t # <<>>
          <5>1. onward[t] = Rest(t) /\ Rest(t) \in Bytes
            <6> HIDE DEF Rest
            <6>1. QED
              BY <1>1, <4>2
          <5>2. comb[<<t, g[Rest(t)]>>] = With(t, g[Rest(t)])
            <6> HIDE DEF Rest, With
            <6>1. QED
              BY <5>1
          <5>3. QED
            <6> HIDE DEF comb, onward, Equation, With, Rest
            <6>1. QED
              BY <1>7, <4>2, <5>1, <5>2
        <4>3. QED
          BY <4>1, <4>2
      <3>2. g = Equation(g) <=> \A t \in Bytes : g[t] = Equation(g)[t]
        <4>1. g = [t \in Bytes |-> g[t]] /\ Equation(g) = [t \in Bytes |-> Equation(g)[t]]
          OBVIOUS
        <4>2. QED
          <5> HIDE DEF Equation
          <5>1. QED
            BY <4>1
      <3>3. E \subseteq Bytes
        BY <1>2
      <3>4. QED
        <4> HIDE DEF E, out, comb, onward, Equation
        <4>1. QED
          BY <3>1, <3>2, <3>3 DEF Recurs
    <2>2. QED
      <3> HIDE DEF E, out, comb, onward, Equation
      <3>1. QED
        BY <2>1
  <1>9. f \in [Bytes -> Bytes] /\ f = Equation(f)
    <2> HIDE DEF E, out, comb, onward, Equation
    <2>1. QED
      BY <1>6, <1>8 DEF Recurs
  <1>10. urlDecode = CHOOSE g : g = Equation(g)
    BY DEF urlDecode
  <1>11. urlDecode = Equation(urlDecode)
    <2> HIDE DEF Equation
    <2>1. QED
      BY <1>9, <1>10
  <1>12. \A t \in Bytes : urlDecode[t] = Equation(urlDecode)[t]
    <2> HIDE DEF Equation
    <2>1. QED
      BY <1>11
  <1>13. Bytes \subseteq {t \in Bytes : urlDecode[t] \in Bytes}
    <2> DEFINE Good == {t \in Bytes : urlDecode[t] \in Bytes}
    <2>1. ASSUME NEW t \in Bytes, \A u \in Bytes : rank[u] < rank[t] => u \in Good
          PROVE  t \in Good
      <3>1. CASE t = <<>>
        BY <1>2, <1>12, <3>1
      <3>2. CASE t # <<>>
        <4>1. Rest(t) \in Bytes /\ rank[Rest(t)] < rank[t]
          <5> HIDE DEF Rest
          <5>1. QED
            BY <1>1, <3>2
        <4>2. urlDecode[Rest(t)] \in Bytes
          <5> HIDE DEF Rest, rank
          <5>1. QED
            BY <2>1, <4>1
        <4>3. urlDecode[t] = With(t, urlDecode[Rest(t)])
          <5> HIDE DEF Rest, With, Equation
          <5>1. QED
            BY <1>7, <1>12, <3>2
        <4>4. QED
          <5> HIDE DEF With, Rest
          <5>1. QED
            BY <1>4, <4>2, <4>3
      <3>3. QED
        BY <3>1, <3>2
    <2>2. Bytes \subseteq Good
      <3> HIDE DEF Good, rank
      <3>1. QED
        BY <1>2, <2>1, RankInduction
    <2>3. QED
      BY <2>2
  <1>14. QED
    BY <1>12, <1>13

\* What urlEncodePathComponent() writes for a byte and Joined() for a segment.
Harmless == Byte \ {Plus, Hash, Question, Slash}
Encoded == [c \in Byte |-> IF Unreserved(c) THEN <<c>>
                           ELSE <<Percent, kHex(c \div 16), kHex(c % 16)>>]
Joint == [x \in Bytes |-> IF x = <<>> THEN <<>> ELSE <<Slash>> \o x]

LEMMA hexDigits ==
    ASSUME NEW c \in Byte
    PROVE  /\ c \div 16 \in 0..15 /\ c % 16 \in 0..15
           /\ \A q, r \in Int : q = c \div 16 /\ r = c % 16 => 16 * q + r = c
           /\ kHex(c \div 16) \in Harmless /\ kHex(c % 16) \in Harmless
           /\ hexValue(kHex(c \div 16)) = c \div 16 /\ hexValue(kHex(c % 16)) = c % 16
  <1>1. c \in Int /\ 0 <= c /\ c <= 255
    BY DEF Byte
  <1>2. c \div 16 \in Int /\ c \div 16 >= 0 /\ c \div 16 <= 15 /\ c % 16 \in 0..15
    BY <1>1
  <1>3. ASSUME NEW q \in Int, NEW r \in Int, q = c \div 16, r = c % 16
        PROVE  16 * q + r = c
    BY <1>1, <1>3
  <1>4. \A n \in 0..15 : kHex(n) \in Harmless
    BY DEF kHex, Harmless, Byte, Plus, Hash, Question, Slash
  <1>5. \A n \in 0..15 : hexValue(kHex(n)) = n
    <2>1. ASSUME NEW n \in 0..15, n < 10
          PROVE  hexValue(kHex(n)) = n
      <3>1. kHex(n) = 48 + n /\ 48 + n \in Digit
        BY <2>1 DEF kHex, Digit
      <3>2. hexValue(48 + n) = n
        BY <3>1 DEF hexValue, Digit
      <3>3. QED
        BY <3>1, <3>2
    <2>2. ASSUME NEW n \in 0..15, ~ (n < 10)
          PROVE  hexValue(kHex(n)) = n
      <3>1. kHex(n) = 55 + n /\ 55 + n \notin Digit /\ 55 + n \notin 97..102 /\ 55 + n \in 65..70
        BY <2>2 DEF kHex, Digit
      <3>2. hexValue(55 + n) = n
        BY <3>1 DEF hexValue
      <3>3. QED
        BY <3>1, <3>2
    <2>3. QED
      BY <2>1, <2>2
  <1>6. QED
    BY <1>2, <1>3, <1>4, <1>5

LEMMA EncodedType == Encoded \in [Byte -> Seq(Harmless)] /\ Harmless \subseteq Byte
  <1>1. ASSUME NEW c \in Byte
        PROVE  (IF Unreserved(c) THEN <<c>> ELSE <<Percent, kHex(c \div 16), kHex(c % 16)>>)
               \in Seq(Harmless)
    <2>1. CASE Unreserved(c)
      <3>1. c \in Harmless
        BY <2>1 DEF Unreserved, Digit, Upper, Lower, Harmless, Byte, Plus, Hash, Question, Slash
      <3>2. QED
        BY <2>1, <3>1
    <2>2. CASE ~Unreserved(c)
      <3>1. Percent \in Harmless /\ kHex(c \div 16) \in Harmless /\ kHex(c % 16) \in Harmless
        <4>1. Percent \in Harmless
          BY DEF Harmless, Byte, Percent, Plus, Hash, Question, Slash
        <4>2. QED
          BY <4>1, hexDigits
      <3>2. QED
        BY <2>2, <3>1
    <2>3. QED
      BY <2>1, <2>2
  <1>2. QED
    BY <1>1 DEF Encoded, Harmless

LEMMA EncodeIs ==
    ASSUME NEW in \in Bytes
    PROVE  urlEncodePathComponent(in) = Spread(Encoded, in)
           /\ urlEncodePathComponent(in) \in Seq(Harmless)
  <1>1. \A i \in DOMAIN in : in[i] \in Byte
    BY LenProperties, ElementOfSeq DEF Bytes
  <1>2. Spread(Encoded, in) = urlEncodePathComponent(in)
    BY <1>1 DEF Spread, Replaced, Encoded, urlEncodePathComponent
  <1>3. QED
    BY <1>2, EncodedType, SpreadType DEF Bytes

LEMMA HarmlessType == Seq(Harmless) \subseteq Bytes
  BY SeqMonotonic DEF Harmless, Bytes

LEMMA JointType == Joint \in [Bytes -> Seq(Byte)]
  <1>1. <<Slash>> \in Bytes /\ <<>> \in Bytes
    BY DEF Bytes, Byte, Slash
  <1>2. \A x \in Bytes : <<Slash>> \o x \in Bytes
    BY <1>1, ConcatProperties DEF Bytes
  <1>3. QED
    BY <1>1, <1>2 DEF Joint, Bytes

LEMMA JoinedIs ==
    ASSUME NEW segments \in Path
    PROVE  Joined(segments) = Spread(Joint, segments) /\ Joined(segments) \in Bytes
  <1>1. \A i \in DOMAIN segments : segments[i] \in Bytes
    BY LenProperties, ElementOfSeq DEF Path
  <1>2. Spread(Joint, segments) = Joined(segments)
    BY <1>1 DEF Spread, Replaced, Joint, Joined
  <1>3. Spread(Joint, segments) \in Bytes
    BY JointType, SpreadType DEF Path, Bytes
  <1>4. QED
    BY <1>2, <1>3

-----------------------------------------------------------------------------
(* Types of what the handler computes.                                      *)

LEMMA SlashType == <<Slash>> \in Bytes /\ <<>> \in Bytes /\ <<>> \in Path /\ << <<>> >> \in Path
  BY DEF Bytes, Byte, Slash, Path

LEMMA UrlTypes ==
    ASSUME NEW url \in Bytes
    PROVE  /\ normalizeUrlPath_(url) \in Bytes
           /\ Elements(url) \in Path
  <1>1. Before(Before(url, Question), Hash) \in Bytes
    BY BeforeFacts
  <1>2. <<Slash>> \o Before(Before(url, Question), Hash) \in Bytes
    BY <1>1, SlashType, ConcatProperties DEF Bytes
  <1>3. Parts(url, Slash) \in Path
    BY PartsDef
  <1>4. Parts(url, Slash) \o << <<>> >> \in Path /\ Parts(url, Slash) \o <<>> \in Path
    BY <1>3, SlashType, ConcatProperties DEF Path
  <1>5. QED
    BY <1>1, <1>2, <1>4 DEF normalizeUrlPath_, Elements

LEMMA RelativeType ==
    ASSUME NEW path \in Path
    PROVE  relative(path) \in Path
  BY CanonicalType, RootType, RelativeFacts DEF relative, Resolved

LEMMA FrontType ==
    ASSUME NEW path \in Path
    PROVE  Front(path) \in Path
  <1>1. CASE path = <<>>
    <2>1. Len(path) - 1 < 1 /\ Len(path) - 1 \in Int
      BY <1>1
    <2>2. Front(path) = <<>>
      BY <2>1, SubSeqEmpty DEF Front
    <2>3. QED
      BY <2>2, SlashType
  <1>2. CASE path # <<>>
    BY <1>2, FrontLast DEF Path
  <1>3. QED
    BY <1>1, <1>2

LEMMA NamesType ==
    ASSUME NEW at, NEW n \in Names(at)
    PROVE  n \in Bytes
  <1>1. PICK p \in DOMAIN Tree : p # <<>> /\ n = Last(p)
    BY DEF Names
  <1>2. QED
    BY <1>1, TreePaths, FrontLast DEF Path

LEMMA LinkTypes ==
    ASSUME NEW dir \in Path, NEW link \in buildDirHtml_(dir)
    PROVE  /\ link.href \in Bytes
           /\ \/ ~link.up /\ \E n \in Names(Real(dir).at) :
                    link = EntryLink(Append(dir, n)) /\ ~isDeniedByPolicy_(Append(dir, n))
              \/ link.up /\ link = ParentLink(dir) /\ dir # root_
  <1>1. CASE \E n \in Names(Real(dir).at) :
                link = EntryLink(Append(dir, n)) /\ ~isDeniedByPolicy_(Append(dir, n))
    <2>1. PICK n \in Names(Real(dir).at) :
                link = EntryLink(Append(dir, n)) /\ ~isDeniedByPolicy_(Append(dir, n))
      BY <1>1
    <2>2. Append(dir, n) \in Path
      BY NamesType, AppendProperties DEF Path
    <2> DEFINE segments == relative(Append(dir, n))
               encoded == [i \in DOMAIN segments |-> urlEncodePathComponent(segments[i])]
    <2>3. segments \in Seq(Bytes)
      BY <2>2, RelativeType DEF Path
    <2>4. encoded \in Path
      <3> HIDE DEF segments
      <3>1. DOMAIN segments = 1..Len(segments) /\ \A i \in 1..Len(segments) : segments[i] \in Bytes
        BY <2>3, LenProperties, ElementOfSeq
      <3>2. \A i \in 1..Len(segments) : urlEncodePathComponent(segments[i]) \in Bytes
        BY <3>1, EncodeIs, HarmlessType
      <3> DEFINE m == Len(segments)
      <3>3. m \in Nat
        BY <2>3
      <3> HIDE DEF m
      <3>4. [i \in 1..m |-> urlEncodePathComponent(segments[i])] \in Seq(Bytes)
        BY <3>2, <3>3 DEF m
      <3>5. QED
        BY <3>1, <3>4 DEF m, Path
    <2>5. link.href = Joined(encoded) \o (IF IsDirectory(Append(dir, n)) THEN <<Slash>> ELSE <<>>)
          /\ link.up = FALSE
      BY <2>1 DEF EntryLink
    <2>6. link.href \in Bytes
      <3> HIDE DEF encoded
      <3>1. Joined(encoded) \in Bytes
        BY <2>4, JoinedIs
      <3>2. Joined(encoded) \o <<Slash>> \in Bytes /\ Joined(encoded) \o <<>> \in Bytes
        BY <3>1, SlashType, ConcatProperties DEF Bytes
      <3>3. QED
        BY <2>5, <3>2
    <2>7. QED
      BY <1>1, <2>5, <2>6
  <1>2. CASE link = ParentLink(dir) /\ dir # root_
    <2> DEFINE segments == relative(Front(dir))
               way == IF segments = <<Here>> THEN <<>> ELSE Joined(segments)
    <2>1. segments \in Path
      BY FrontType, RelativeType
    <2>2. way \in Bytes
      <3> HIDE DEF segments
      <3>1. QED
        BY <2>1, JoinedIs, SlashType
    <2>3. link.href = way \o <<Slash>> /\ link.up = TRUE
      BY <1>2 DEF ParentLink
    <2>4. link.href \in Bytes
      <3> HIDE DEF way
      <3>1. QED
        BY <2>2, <2>3, SlashType, ConcatProperties DEF Bytes
    <2>5. QED
      BY <1>2, <2>3, <2>4
  <1>3. QED
    BY <1>1, <1>2 DEF buildDirHtml_

\* The policy lets pass exactly what is public, for whatever exists.
LEMMA PublicIsAllowed ==
    ASSUME NEW target \in Path, Real(target).is = "there"
    PROVE  Public(Real(target).at) <=> ~isDeniedByPolicy_(target)
  <1> DEFINE at == Real(target).at
             rel == relative(target)
             below == SubSeq(at, Len(root_) + 1, Len(at))
  <1>1. at \in DOMAIN Tree /\ at \in Path
    BY RealType, TreePaths DEF Found
  <1>2. weakly_canonical(target) = Real(target)
    BY CanonicalType
  <1>3. /\ rel \in Path /\ rel # <<>>
        /\ at = root_ => rel = <<Here>>
        /\ IsPrefix(root_, at) /\ at # root_ => rel = below /\ Len(root_) < Len(at)
        /\ ~IsPrefix(root_, at) => rel[1] = Up
    <2>1. rel = lexically_relative(at, root_)
      BY <1>2 DEF relative
    <2> HIDE DEF rel, at
    <2>2. QED
      BY <1>1, <2>1, RootType, RelativeFacts
  <1>4. isDeniedByPolicy_(target) <=>
            rel # <<Here>> /\ (tolower(Head(rel)) = CONFIG
                               \/ \E i \in DOMAIN rel : rel[i] # <<>> /\ Head(rel[i]) = Dot)
    <2>1. weakly_canonical(target).is # "loop"
      BY <1>2
    <2>2. QED
      BY <2>1 DEF isDeniedByPolicy_
  <1>5. Public(at) <=> IsPrefix(root_, at) /\ (below = <<>> \/ tolower(below[1]) # CONFIG)
                       /\ \A i \in DOMAIN below : Head(below[i]) # Dot
    BY DEF Public
  <1>6. Len(root_) \in Nat /\ Len(at) \in Nat
    BY <1>1, RootType DEF Path
  <1>7. DOMAIN rel = 1..Len(rel) /\ 1 \in DOMAIN rel /\ Head(rel) = rel[1]
    <2> HIDE DEF rel
    <2>1. QED
      BY <1>3, HeadTail, LenProperties DEF Path
  <1>8. CASE at = root_
    <2>1. IsPrefix(root_, at)
      BY <1>8, RootType, PrefixFacts DEF Path
    <2>2. below = <<>> /\ DOMAIN below = {}
      <3>1. Len(at) < Len(root_) + 1 /\ Len(at) \in Int /\ Len(root_) + 1 \in Int
        BY <1>6, <1>8
      <3>2. below = <<>>
        BY <3>1, SubSeqEmpty
      <3>3. QED
        BY <3>2
    <2> HIDE DEF at, rel, below
    <2>3. Public(at)
      BY <1>5, <2>1, <2>2
    <2>4. QED
      BY <1>3, <1>4, <1>8, <2>3 DEF at
  <1>9. CASE at # root_ /\ IsPrefix(root_, at)
    <2>1. rel = below /\ Len(root_) < Len(at)
      BY <1>3, <1>9
    <2>2. \A i \in DOMAIN rel : Name(rel[i])
      <3>1. Len(root_) + 1 \in Nat \ {0} /\ Len(at) \in 0..Len(at)
        BY <1>6
      <3>2. /\ Len(below) = IF Len(root_) + 1 <= Len(at) THEN Len(at) - (Len(root_) + 1) + 1 ELSE 0
            /\ \A i \in 1..Len(at) - (Len(root_) + 1) + 1 : below[i] = at[Len(root_) + 1 + i - 1]
        <4> HIDE DEF at
        <4>1. QED
          BY <1>1, <3>1, PartOf DEF Path
      <3>3. ASSUME NEW i \in DOMAIN rel
            PROVE  Name(rel[i])
        <4> HIDE DEF at, rel, below
        <4>1. i \in 1..Len(at) - (Len(root_) + 1) + 1
          BY <1>6, <1>7, <2>1, <3>2
        <4>2. PICK k \in 1..Len(at) : k = Len(root_) + 1 + i - 1
          <5>1. Len(root_) + 1 + i - 1 \in 1..Len(at)
            BY <1>6, <4>1
          <5>2. QED
            BY <5>1
        <4>3. rel[i] = at[k]
          BY <2>1, <3>2, <4>1, <4>2
        <4>4. QED
          BY <1>1, <4>3, TreePaths
      <3>4. QED
        BY <3>3
    <2>3. \A i \in DOMAIN rel : rel[i] # <<>> /\ rel[i] # Here
      BY <2>2 DEF Name
    <2>4. rel # <<Here>>
      <3>1. rel[1] # Here
        BY <1>7, <2>3
      <3>2. <<Here>>[1] = Here
        OBVIOUS
      <3>3. QED
        BY <3>1, <3>2
    <2> HIDE DEF at, rel, below
    <2>5. QED
      BY <1>3, <1>4, <1>5, <1>7, <1>9, <2>1, <2>3, <2>4 DEF at
  <1>10. CASE ~IsPrefix(root_, at)
    <2>1. rel[1] = Up
      BY <1>3, <1>10
    <2> HIDE DEF at, rel, below
    <2>2. rel # <<Here>> /\ rel[1] # <<>> /\ Head(rel[1]) = Dot
      <3>1. <<Here>>[1] = Here
        OBVIOUS
      <3>2. QED
        BY <2>1, <3>1, Dots
    <2>3. isDeniedByPolicy_(target) /\ ~Public(at)
      BY <1>4, <1>5, <1>7, <1>10, <2>2
    <2>4. QED
      BY <2>3 DEF at
  <1>11. QED
    <2> HIDE DEF at
    <2>1. at = root_ \/ (at # root_ /\ IsPrefix(root_, at)) \/ ~IsPrefix(root_, at)
      OBVIOUS
    <2>2. QED
      BY <1>8, <1>9, <1>10 DEF at

-----------------------------------------------------------------------------
(* The routes and the answers.                                              *)

LEMMA TableFacts ==
    ASSUME NEW enableSql \in BOOLEAN
    PROVE  LET t == Table(enableSql)
           IN  /\ Len(t) \in Nat \ {0} /\ DOMAIN t = 1..Len(t)
               /\ Len(t) = 3 <=> enableSql
               /\ t[Len(t)] = Route(<<>>, Prefix, TRUE, "staticHandler")
               /\ \A i \in 1..Len(t) : t[i].isPrefix => i = Len(t)
               /\ \A i \in 1..Len(t) : i # Len(t) => t[i].handler = "sqlHandler"
  <1> DEFINE r1 == Route(GET, QUERYPath, FALSE, "sqlHandler")
             r2 == Route(GET, SQLPath, FALSE, "sqlHandler")
             r3 == Route(<<>>, Prefix, TRUE, "staticHandler")
  <1>1. r1.isPrefix = FALSE /\ r1.handler = "sqlHandler" /\ r2.isPrefix = FALSE
        /\ r2.handler = "sqlHandler"
    BY DEF Route
  <1>2. Table(TRUE) = Append(Append(Append(<<>>, r1), r2), r3)
    BY DEF Table, addPrefix, get, addRoute
  <1>3. Table(FALSE) = Append(<<>>, r3)
    BY DEF Table, addPrefix
  <1> HIDE DEF r1, r2, r3
  <1> DEFINE R == {r1, r2, r3}
  <1>4. \A q \in Seq(R) : \A r \in R :
            /\ Append(q, r) \in Seq(R) /\ Len(Append(q, r)) = Len(q) + 1
            /\ \A i \in 1..Len(q) : Append(q, r)[i] = q[i]
            /\ Append(q, r)[Len(q) + 1] = r
    BY AppendProperties
  <1>5. r1 \in R /\ r2 \in R /\ r3 \in R /\ <<>> \in Seq(R) /\ Len(<<>>) = 0
    OBVIOUS
  <1> HIDE DEF R
  <1>6. CASE enableSql = TRUE
    <2> DEFINE t == Table(enableSql)
               t1 == Append(<<>>, r1)
               t2 == Append(t1, r2)
    <2>1. t1 \in Seq(R) /\ Len(t1) = 1 /\ t1[1] = r1
      <3>1. 0 + 1 = 1
        OBVIOUS
      <3>2. QED
        BY <1>4, <1>5, <3>1
    <2> HIDE DEF t1
    <2>2. t2 \in Seq(R) /\ Len(t2) = 2 /\ t2[1] = r1 /\ t2[2] = r2
      <3>1. /\ t2 \in Seq(R) /\ Len(t2) = Len(t1) + 1
            /\ \A i \in 1..Len(t1) : t2[i] = t1[i]
            /\ t2[Len(t1) + 1] = r2
        BY <1>4, <1>5, <2>1
      <3> HIDE DEF t2
      <3>2. /\ t2 \in Seq(R) /\ Len(t2) = 1 + 1
            /\ \A i \in 1..1 : t2[i] = t1[i]
            /\ t2[1 + 1] = r2
        BY <2>1, <3>1
      <3>3. 1 \in 1..1 /\ 1 + 1 = 2
        OBVIOUS
      <3>4. QED
        BY <2>1, <3>2, <3>3
    <2>3. t = Append(t2, r3)
      BY <1>2, <1>6 DEF t1
    <2> HIDE DEF t2, t
    <2>4. t \in Seq(R) /\ Len(t) = 3 /\ t[1] = r1 /\ t[2] = r2 /\ t[3] = r3
      <3>1. /\ t \in Seq(R) /\ Len(t) = Len(t2) + 1
            /\ \A i \in 1..Len(t2) : t[i] = t2[i]
            /\ t[Len(t2) + 1] = r3
        <4>1. t2 \in Seq(R) /\ r3 \in R
          BY <1>5, <2>2
        <4>2. /\ Append(t2, r3) \in Seq(R) /\ Len(Append(t2, r3)) = Len(t2) + 1
              /\ \A i \in 1..Len(t2) : Append(t2, r3)[i] = t2[i]
              /\ Append(t2, r3)[Len(t2) + 1] = r3
          BY <1>4, <4>1
        <4>3. QED
          BY <2>3, <4>2
      <3>2. /\ t \in Seq(R) /\ Len(t) = 2 + 1
            /\ \A i \in 1..2 : t[i] = t2[i]
            /\ t[2 + 1] = r3
        BY <2>2, <3>1
      <3>3. 1 \in 1..2 /\ 2 \in 1..2 /\ 2 + 1 = 3
        OBVIOUS
      <3>4. QED
        BY <2>2, <3>2, <3>3
    <2>5. DOMAIN t = 1..Len(t)
      BY <2>4, LenProperties
    <2>6. \A i \in 1..3 : i = 1 \/ i = 2 \/ i = 3
      OBVIOUS
    <2>7. /\ \A i \in 1..3 : t[i].isPrefix => i = 3
          /\ \A i \in 1..3 : i # 3 => t[i].handler = "sqlHandler"
      BY <1>1, <2>4, <2>6
    <2>8. /\ \A i \in 1..Len(t) : t[i].isPrefix => i = Len(t)
          /\ \A i \in 1..Len(t) : i # Len(t) => t[i].handler = "sqlHandler"
          /\ t[Len(t)] = r3
      BY <2>4, <2>7
    <2>9. Len(t) \in Nat \ {0} /\ (Len(t) = 3 <=> enableSql)
      BY <1>6, <2>4
    <2>10. QED
      BY <2>5, <2>8, <2>9 DEF t, r3
  <1>7. CASE enableSql = FALSE
    <2> DEFINE t == Table(enableSql)
    <2>1. t = Append(<<>>, r3)
      BY <1>3, <1>7
    <2> HIDE DEF t
    <2>2. t \in Seq(R) /\ Len(t) = 1 /\ t[1] = r3
      <3>1. 0 + 1 = 1
        OBVIOUS
      <3>2. QED
        BY <1>4, <1>5, <2>1, <3>1
    <2>3. DOMAIN t = 1..Len(t)
      BY <2>2, LenProperties
    <2>4. \A i \in 1..1 : i = 1
      OBVIOUS
    <2>5. /\ \A i \in 1..1 : t[i].isPrefix => i = 1
          /\ \A i \in 1..1 : i # 1 => t[i].handler = "sqlHandler"
      BY <2>4
    <2>6. QED
      BY <1>7, <2>2, <2>3, <2>5 DEF t, r3
  <1>8. QED
    BY <1>6, <1>7

LEMMA FirstFacts ==
    ASSUME NEW table, NEW n \in Nat, DOMAIN table = 1..n, NEW method, NEW url, NEW isPrefix
    PROVE  LET i == First(table, method, url, isPrefix)
           IN  /\ i = 0 \/ (i \in 1..n /\ table[i].isPrefix = isPrefix
                            /\ Matches(table[i], method, url))
               /\ i = 0 => \A k \in 1..n :
                      ~(table[k].isPrefix = isPrefix /\ Matches(table[k], method, url))
  <1> DEFINE fits == {i \in DOMAIN table : table[i].isPrefix = isPrefix
                                           /\ Matches(table[i], method, url)}
  <1>1. First(table, method, url, isPrefix) = IF fits = {} THEN 0 ELSE Min(fits)
    BY DEF First
  <1>2. fits \in SUBSET Nat /\ fits \in SUBSET (1..n)
    OBVIOUS
  <1>3. fits # {} => Min(fits) \in fits
    <2> HIDE DEF fits
    <2>1. QED
      BY <1>2, MinFacts
  <1>4. CASE fits = {}
    BY <1>1, <1>4
  <1>5. CASE fits # {}
    <2>1. First(table, method, url, isPrefix) \in fits
      BY <1>1, <1>3, <1>5
    <2>2. First(table, method, url, isPrefix) # 0
      BY <1>2, <2>1
    <2>3. QED
      BY <2>1, <2>2
  <1>6. QED
    BY <1>4, <1>5

LEMMA DispatchFacts ==
    ASSUME NEW enableSql \in BOOLEAN, NEW method, NEW url
    PROVE  LET t == Table(enableSql)
           IN  /\ dispatch(t, method, url) \in {"sqlHandler", "staticHandler", "nobody"}
               /\ dispatch(t, method, url) = "sqlHandler" => enableSql
  <1> DEFINE t == Table(enableSql)
             exact == First(t, method, url, FALSE)
             prefix == First(t, method, url, TRUE)
  <1>1. /\ Len(t) \in Nat \ {0} /\ DOMAIN t = 1..Len(t) /\ (Len(t) = 3 <=> enableSql)
        /\ t[Len(t)].handler = "staticHandler"
        /\ \A i \in 1..Len(t) : i # Len(t) => t[i].handler = "sqlHandler"
    <2>1. Route(<<>>, Prefix, TRUE, "staticHandler").handler = "staticHandler"
      BY DEF Route
    <2>2. QED
      BY <2>1, TableFacts
  <1>2. ~enableSql => Len(t) = 1
    <2>1. ASSUME enableSql = FALSE
          PROVE  Len(t) = 1
      BY <2>1 DEF Table, addPrefix
    <2>2. QED
      BY <2>1
  <1> HIDE DEF t
  <1>3. /\ exact = 0 \/ exact \in 1..Len(t)
        /\ prefix = 0 \/ prefix \in 1..Len(t)
    BY <1>1, FirstFacts
  <1>4. dispatch(t, method, url) = IF exact # 0 THEN t[exact].handler
                                   ELSE IF prefix # 0 THEN t[prefix].handler
                                   ELSE "nobody"
    BY DEF dispatch
  <1>5. \A i \in 1..Len(t) : /\ t[i].handler \in {"sqlHandler", "staticHandler"}
                             /\ t[i].handler = "sqlHandler" => enableSql
    <2>1. ASSUME NEW i \in 1..Len(t)
          PROVE  /\ t[i].handler \in {"sqlHandler", "staticHandler"}
                 /\ t[i].handler = "sqlHandler" => enableSql
      <3>1. CASE i = Len(t)
        BY <1>1, <3>1
      <3>2. CASE i # Len(t)
        <4>1. ASSUME Len(t) = 1
              PROVE  FALSE
          <5>1. i \in 1..1 /\ i # 1
            BY <3>2, <4>1
          <5>2. QED
            BY <5>1
        <4>2. enableSql
          BY <1>2, <4>1
        <4>3. QED
          BY <1>1, <3>2, <4>2
      <3>3. QED
        BY <3>1, <3>2
    <2>2. QED
      BY <2>1
  <1>6. QED
    <2> HIDE DEF exact, prefix
    <2>1. QED
      BY <1>3, <1>4, <1>5 DEF t

\* What a static answer says of the place it was given for.
LEMMA StaticFacts ==
    ASSUME NEW method \in Bytes, NEW url \in Bytes
    PROVE  LET a == StaticFileHandler_handle(method, url)
           IN  /\ a.kind # "job"
               /\ a.kind \in {"page", "file"} =>
                      /\ a.at \in Path /\ Real(a.at).is = "there"
                      /\ isWithinRoot_(a.at) /\ ~isDeniedByPolicy_(a.at)
               /\ a.kind = "page" => a.links = buildDirHtml_(a.at)
               /\ a.kind # "page" => a.links = {}
  <1> DEFINE urlPath == normalizeUrlPath_(url)
             steps == root_ \o Elements(urlDecode[urlPath])
             candidate == weakly_canonical(steps)
             a == StaticFileHandler_handle(method, url)
  <1>1. candidate \in Resolved
    <2>1. urlDecode[urlPath] \in Bytes
      BY UrlTypes, DecodeDef
    <2>2. Elements(urlDecode[urlPath]) \in Path
      <3> HIDE DEF urlPath
      <3>1. QED
        BY <2>1, UrlTypes
    <2>3. steps \in Path
      <3> HIDE DEF urlPath
      <3>1. QED
        BY <2>2, RootType, ConcatProperties DEF Path
    <2>4. QED
      <3> HIDE DEF steps
      <3>1. QED
        BY <2>3, CanonicalType
  <1> DEFINE Plainly == {Answer(405, "error", <<>>, {}), Answer(200, "health", <<>>, {}),
                         Answer(Throws, "error", <<>>, {}), Answer(403, "error", <<>>, {}),
                         Answer(404, "error", <<>>, {})}
  <1>2. a \in Plainly \/ (a = Serve(candidate.at) /\ ~Refused(candidate.at)
                          /\ Real(candidate.at).is = "there")
    BY DEF StaticFileHandler_handle
  <1>3. CASE a \in Plainly
    <2>1. \A b \in Plainly : b.kind \in {"error", "health"} /\ b.links = {}
      BY DEF Answer
    <2> HIDE DEF Plainly, a
    <2>2. QED
      BY <1>3, <2>1 DEF a
  <1>4. CASE a = Serve(candidate.at) /\ ~Refused(candidate.at) /\ Real(candidate.at).is = "there"
    <2> DEFINE d == candidate.at
    <2>1. d \in Path
      BY <1>1 DEF Resolved
    <2> HIDE DEF d
    <2>2. /\ Serve(d).at = d
          /\ \/ Serve(d).kind = "page" /\ Serve(d).links = buildDirHtml_(d)
             \/ Serve(d).kind \in {"file", "error"} /\ Serve(d).links = {}
      BY DEF Serve, Answer
    <2>3. a = Serve(d) /\ ~Refused(d) /\ Real(d).is = "there"
      BY <1>4 DEF d
    <2> HIDE DEF a
    <2>4. isWithinRoot_(d) /\ ~isDeniedByPolicy_(d)
      BY <2>3 DEF Refused
    <2>5. QED
      BY <2>1, <2>2, <2>3, <2>4 DEF a
  <1>5. QED
    BY <1>2, <1>3, <1>4

LEMMA SqlFacts ==
    ASSUME NEW method, NEW url, NEW only, NEW a \in SqlHandler_handle(method, url, only)
    PROVE  /\ a.kind \in {"json", "job"} /\ a.links = {}
           /\ a.kind = "job" =>
                  /\ a.status = 200 /\ a.stmt = extractSqlParam_(url)
                  /\ only => isReadOnlyStatement(a.stmt)
  BY DEF SqlHandler_handle, Reply

-----------------------------------------------------------------------------
(* The invariant: the last answer is one the handlers give to some request, *)
(* and the link that was followed is one of some page.                      *)

\* A directory a page was made of.
Shown(dir) ==
    Real(dir).is = "there" /\ isWithinRoot_(dir) /\ ~isDeniedByPolicy_(dir)

Answered(method, url) ==
    /\ answer \in Answers(method, url)
    /\ up = (answer.status # Throws)
    /\ \/ via = {}
       \/ \E dir \in Path : Shown(dir) /\ \E link \in buildDirHtml_(dir) :
             via = {link} /\ method = GET /\ url = link.href

SiteInv ==
    /\ \E enableSql \in BOOLEAN : routes = Table(enableSql)
    /\ readOnly \in BOOLEAN
    /\ \/ answer = Nothing /\ via = {}
       \/ \E method, url \in Bytes : Answered(method, url)

LEMMA AnswerFacts ==
    ASSUME NEW enableSql \in BOOLEAN, routes = Table(enableSql),
           NEW method \in Bytes, NEW url \in Bytes, NEW a \in Answers(method, url)
    PROVE  /\ \/ enableSql /\ a \in SqlHandler_handle(method, url, readOnly)
              \/ a = StaticFileHandler_handle(method, url)
              \/ a = Answer(404, "error", <<>>, {})
           /\ \A link \in a.links : \E dir \in Path : Shown(dir) /\ link \in buildDirHtml_(dir)
  <1>1. /\ dispatch(routes, method, url) \in {"sqlHandler", "staticHandler", "nobody"}
        /\ dispatch(routes, method, url) = "sqlHandler" => enableSql
    BY DispatchFacts
  <1>2. \/ enableSql /\ a \in SqlHandler_handle(method, url, readOnly)
        \/ a = StaticFileHandler_handle(method, url)
        \/ a = Answer(404, "error", <<>>, {})
    BY <1>1 DEF Answers
  <1>3. \A link \in a.links : \E dir \in Path : Shown(dir) /\ link \in buildDirHtml_(dir)
    <2>1. CASE a \in SqlHandler_handle(method, url, readOnly)
      BY <2>1, SqlFacts
    <2>2. CASE a = StaticFileHandler_handle(method, url)
      BY <2>2, StaticFacts DEF Shown
    <2>3. CASE a = Answer(404, "error", <<>>, {})
      BY <2>3 DEF Answer
    <2>4. QED
      BY <1>2, <2>1, <2>2, <2>3
  <1>4. QED
    BY <1>2, <1>3

LEMMA GETType == GET \in Bytes
  BY DEF GET, Bytes, Byte

LEMMA SiteInvInit == Init => SiteInv
  BY DEF Init, SiteInv

LEMMA SiteInvNext == SiteInv /\ [Next]_vars => SiteInv'
  <1> SUFFICES ASSUME SiteInv, [Next]_vars
               PROVE  SiteInv'
    OBVIOUS
  <1>1. PICK enableSql \in BOOLEAN : routes = Table(enableSql)
    BY DEF SiteInv
  <1>2. routes' = routes /\ readOnly' = readOnly /\ readOnly \in BOOLEAN
    BY DEF SiteInv, Next, Ask, Follow, Leave, Dispatch, vars
  <1>3. ASSUME NEW method \in Bytes, NEW url \in Bytes, Dispatch(method, url),
               \/ via' = {}
               \/ \E dir \in Path : Shown(dir) /\ \E link \in buildDirHtml_(dir) :
                     via' = {link} /\ method = GET /\ url = link.href
        PROVE  SiteInv'
    <2>1. answer' \in Answers(method, url)' /\ up' = (answer'.status # Throws)
      BY <1>2, <1>3 DEF Dispatch, Answers
    <2>2. Answered(method, url)'
      BY <1>3, <2>1 DEF Answered
    <2>3. QED
      BY <1>1, <1>2, <2>2 DEF SiteInv
  <1>4. CASE Ask
    <2>1. PICK request \in Requests : Dispatch(request[1], request[2]) /\ via' = {}
      BY <1>4 DEF Ask
    <2>2. request[1] \in Bytes /\ request[2] \in Bytes
      BY RequestsAssumption
    <2>3. QED
      BY <1>3, <2>1, <2>2
  <1>5. CASE Follow
    <2>1. PICK link \in answer.links : Dispatch(GET, link.href) /\ via' = {link}
      BY <1>5 DEF Follow
    <2>2. PICK dir \in Path : Shown(dir) /\ link \in buildDirHtml_(dir)
      <3>1. CASE answer = Nothing
        BY <2>1, <3>1 DEF Nothing, Answer
      <3>2. CASE \E method, url \in Bytes : Answered(method, url)
        BY <1>1, <2>1, <3>2, AnswerFacts DEF Answered
      <3>3. QED
        BY <3>1, <3>2 DEF SiteInv
    <2>3. link.href \in Bytes
      BY <2>2, LinkTypes
    <2>4. QED
      BY <1>3, <2>1, <2>2, <2>3, GETType
  <1>6. CASE Leave
    BY <1>1, <1>2, <1>6 DEF Leave, SiteInv, Nothing
  <1>7. CASE UNCHANGED vars
    <2>1. /\ routes' = routes /\ readOnly' = readOnly /\ up' = up
          /\ answer' = answer /\ via' = via
      BY <1>7 DEF vars
    <2>2. \A method, url \in Bytes : Answered(method, url)' <=> Answered(method, url)
      BY <2>1 DEF Answered, Answers
    <2>3. CASE answer = Nothing /\ via = {}
      BY <1>1, <1>2, <2>1, <2>3 DEF SiteInv, Nothing
    <2>4. CASE \E method, url \in Bytes : Answered(method, url)
      BY <1>1, <1>2, <2>2, <2>4 DEF SiteInv
    <2>5. QED
      BY <2>3, <2>4 DEF SiteInv
  <1>8. QED
    BY <1>4, <1>5, <1>6, <1>7 DEF Next

\* Every answer is one the router and the handlers give, and a link that was
\* followed stood on a page (main.cpp:148-164, HttpRouter.cpp:127-195).
THEOREM Answering == Spec => []SiteInv
  BY SiteInvInit, SiteInvNext, PTL DEF Spec

\* Whatever is served is public, and a page lists exactly the public ones of
\* its entries, for every tree, root and request (StaticFileHandler.cpp:98-162,
\* 203-210, 326-345).
THEOREM ServedIsPublicAlways == Spec => []ServedIsPublic
  <1>1. SiteInv => ServedIsPublic
    <2> SUFFICES ASSUME SiteInv, answer.kind \in {"page", "file"}
                 PROVE  LET place == Real(answer.at).at
                        IN  /\ Public(place)
                            /\ \A n \in Names(place) :
                                  LET target == Real(Append(answer.at, n))
                                  IN  answer.kind = "page" /\ target.is = "there" =>
                                          (Public(target.at) <=>
                                              \E l \in answer.links : l.name = n /\ ~l.up)
      BY DEF ServedIsPublic
    <2>1. answer # Nothing
      BY DEF Nothing, Answer
    <2>2. PICK method \in Bytes, url \in Bytes : answer \in Answers(method, url)
      BY <2>1 DEF SiteInv, Answered
    <2>3. PICK enableSql \in BOOLEAN : routes = Table(enableSql)
      BY DEF SiteInv
    <2>4. answer = StaticFileHandler_handle(method, url)
      <3>1. answer \notin SqlHandler_handle(method, url, readOnly)
        BY SqlFacts
      <3>2. answer # Answer(404, "error", <<>>, {})
        BY DEF Answer
      <3>3. QED
        BY <2>2, <2>3, <3>1, <3>2, AnswerFacts
    <2> DEFINE d == answer.at
               place == Real(d).at
    <2>5. /\ d \in Path /\ Real(d).is = "there" /\ ~isDeniedByPolicy_(d)
          /\ answer.kind = "page" => answer.links = buildDirHtml_(d)
      BY <2>4, StaticFacts
    <2> HIDE DEF d
    <2>6. Public(place)
      BY <2>5, PublicIsAllowed
    <2>7. ASSUME NEW n \in Names(place), answer.kind = "page", Real(Append(d, n)).is = "there"
          PROVE  Public(Real(Append(d, n)).at) <=> \E l \in answer.links : l.name = n /\ ~l.up
      <3>1. Append(d, n) \in Path
        BY <2>5, NamesType, AppendProperties DEF Path
      <3>2. Public(Real(Append(d, n)).at) <=> ~isDeniedByPolicy_(Append(d, n))
        BY <2>7, <3>1, PublicIsAllowed
      <3>3. \A k \in Names(place) : EntryLink(Append(d, k)).name = k
                                    /\ EntryLink(Append(d, k)).up = FALSE
        <4>1. ASSUME NEW k \in Names(place)
              PROVE  EntryLink(Append(d, k)).name = k /\ EntryLink(Append(d, k)).up = FALSE
          <5>1. k \in Bytes /\ d \in Seq(Bytes) /\ Len(d) \in Nat
            BY <2>5, NamesType DEF Path
          <5>2. Last(Append(d, k)) = k
            BY <5>1, AppendProperties DEF Last
          <5>3. QED
            BY <5>2 DEF EntryLink
        <4>2. QED
          BY <4>1
      <3>4. ParentLink(d).up = TRUE
        BY DEF ParentLink
      <3>5. answer.links = {EntryLink(e) : e \in {f \in {Append(d, k) : k \in Names(place)} :
                                                      ~isDeniedByPolicy_(f)}}
                           \cup (IF d = root_ THEN {} ELSE {ParentLink(d)})
        BY <2>5, <2>7 DEF buildDirHtml_
      <3> HIDE DEF place
      <3>6. ASSUME ~isDeniedByPolicy_(Append(d, n))
            PROVE  \E l \in answer.links : l.name = n /\ ~l.up
        <4>1. EntryLink(Append(d, n)) \in answer.links
          BY <2>7, <3>5, <3>6
        <4>2. QED
          BY <2>7, <3>3, <4>1
      <3>7. ASSUME NEW l \in answer.links, l.name = n, ~l.up
            PROVE  ~isDeniedByPolicy_(Append(d, n))
        <4>1. PICK k \in Names(place) :
                  l = EntryLink(Append(d, k)) /\ ~isDeniedByPolicy_(Append(d, k))
          BY <3>4, <3>5, <3>7
        <4>2. QED
          BY <3>3, <3>7, <4>1
      <3>8. QED
        BY <3>2, <3>6, <3>7
    <2>8. QED
      BY <2>6, <2>7 DEF d
  <1>2. QED
    BY <1>1, Answering, PTL

-----------------------------------------------------------------------------
(* Cutting strings that were put together.                                  *)

\* u is s followed by t, element by element.
Beside(s, t, u) ==
    /\ u \in Bytes /\ Len(s) \in Nat /\ Len(t) \in Nat
    /\ Len(u) = Len(s) + Len(t)
    /\ \A i \in 1..Len(s) : i \in 1..Len(u) /\ u[i] = s[i]
    /\ \A i \in 1..Len(u) : \A k \in 1..Len(t) : i = Len(s) + k => u[i] = t[k]
    /\ \A i \in 1..Len(u) : i <= Len(s) \/ \E k \in 1..Len(t) : i = Len(s) + k

LEMMA Both ==
    ASSUME NEW s \in Bytes, NEW t \in Bytes
    PROVE  Beside(s, t, s \o t)
  <1>1. Len(s) \in Nat /\ Len(t) \in Nat
    BY DEF Bytes
  <1>2. /\ s \o t \in Bytes /\ Len(s \o t) = Len(s) + Len(t)
        /\ \A i \in 1..Len(s) + Len(t) : (s \o t)[i] = IF i <= Len(s) THEN s[i] ELSE t[i - Len(s)]
    BY ConcatProperties DEF Bytes
  <1> DEFINE m == Len(s)
             n == Len(t)
             u == s \o t
  <1>3. m \in Nat /\ n \in Nat /\ Len(u) = m + n
        /\ \A i \in 1..m + n : u[i] = IF i <= m THEN s[i] ELSE t[i - m]
    BY <1>1, <1>2
  <1> HIDE DEF m, n, u
  <1>4. \A i \in 1..m : i \in 1..m + n /\ u[i] = s[i]
    BY <1>3
  <1>5. ASSUME NEW i \in 1..m + n, NEW k \in 1..n, i = m + k
        PROVE  u[i] = t[k]
    <2>1. i - m = k /\ ~ (i <= m)
      BY <1>3, <1>5
    <2>2. QED
      BY <1>3, <2>1
  <1>6. ASSUME NEW i \in 1..m + n, ~ (i <= m)
        PROVE  \E k \in 1..n : i = m + k
    <2>1. i - m \in 1..n /\ i = m + (i - m)
      BY <1>3, <1>6
    <2>2. QED
      BY <2>1
  <1>7. QED
    BY <1>1, <1>2, <1>3, <1>4, <1>5, <1>6 DEF m, n, u, Beside

LEMMA OneByte ==
    ASSUME NEW c \in Byte
    PROVE  <<c>> \in Bytes /\ <<c>> # <<>> /\ Len(<<c>>) = 1 /\ <<c>>[1] = c /\ Head(<<c>>) = c
  BY DEF Bytes

LEMMA CutConcat ==
    ASSUME NEW s \in Bytes, NEW t \in Bytes, NEW c, \A i \in 1..Len(s) : s[i] # c,
           t = <<>> \/ Head(t) = c
    PROVE  Before(s \o t, c) = s /\ Drop(s \o t, Len(s)) = t
  <1> DEFINE u == s \o t
             b == Before(u, c)
             d == Drop(u, Len(s))
  <1>1. /\ u \in Bytes /\ Len(s) \in Nat /\ Len(t) \in Nat /\ Len(u) = Len(s) + Len(t)
        /\ \A i \in 1..Len(s) : i \in 1..Len(u) /\ u[i] = s[i]
        /\ \A i \in 1..Len(u) : \A k \in 1..Len(t) : i = Len(s) + k => u[i] = t[k]
    <2>1. Beside(s, t, u)
      BY Both
    <2> HIDE DEF u
    <2>2. QED
      BY <2>1 DEF Beside
  <1> HIDE DEF u
  <1>2. /\ b \in Bytes /\ Len(b) \in 0..Len(u)
        /\ \A i \in 1..Len(b) : b[i] = u[i] /\ u[i] # c
        /\ Len(b) # Len(u) => u[Len(b) + 1] = c
    BY <1>1, BeforeFacts
  <1>3. t # <<>> => t[1] = c /\ Len(t) > 0
    BY <1>1, HeadTail, EmptyLength DEF Bytes
  <1> DEFINE n == Len(b)
  <1>4. n = Len(s)
    <2>1. n \in Nat /\ n <= Len(u)
      BY <1>1, <1>2
    <2>2. ASSUME n < Len(s)
          PROVE  FALSE
      <3>1. PICK i \in 1..Len(s) : i = n + 1
        <4>1. n + 1 \in 1..Len(s)
          BY <1>1, <2>1, <2>2
        <4>2. QED
          BY <4>1
      <3>2. n # Len(u)
        BY <1>1, <2>1, <2>2
      <3>3. u[i] = c /\ u[i] = s[i]
        BY <1>1, <1>2, <3>1, <3>2
      <3>4. QED
        BY <3>3
    <2>3. ASSUME n > Len(s)
          PROVE  FALSE
      <3>1. t # <<>>
        BY <1>1, <2>1, <2>3, EmptyLength DEF Bytes
      <3>2. PICK i \in 1..n : i = Len(s) + 1
        <4>1. Len(s) + 1 \in 1..n
          BY <1>1, <2>1, <2>3
        <4>2. QED
          BY <4>1
      <3>3. i \in 1..Len(u) /\ 1 \in 1..Len(t)
        BY <1>1, <1>3, <2>1, <3>1
      <3>4. u[i] = t[1]
        BY <1>1, <3>2, <3>3
      <3>5. QED
        BY <1>2, <1>3, <3>1, <3>4
    <2> HIDE DEF n
    <2>4. QED
      BY <1>1, <2>1, <2>2, <2>3
  <1>5. b = s
    <2>1. \A i \in 1..Len(s) : b[i] = s[i]
      BY <1>1, <1>2, <1>4
    <2> HIDE DEF b
    <2>2. QED
      BY <1>2, <1>4, <2>1, SeqEqual DEF Bytes, n
  <1>6. /\ d \in Bytes /\ Len(d) = Len(u) - Len(s)
        /\ \A i \in 1..Len(u) - Len(s) : d[i] = u[Len(s) + i]
    <2>1. Len(s) \in 0..Len(u)
      BY <1>1
    <2>2. QED
      BY <1>1, <2>1, DropFacts
  <1>7. d = t
    <2>1. Len(d) = Len(t) /\ Len(u) - Len(s) = Len(t)
      BY <1>1, <1>6
    <2>2. ASSUME NEW k \in 1..Len(t)
          PROVE  d[k] = t[k]
      <3>1. PICK i \in 1..Len(u) : i = Len(s) + k
        <4>1. Len(s) + k \in 1..Len(u)
          BY <1>1
        <4>2. QED
          BY <4>1
      <3>2. QED
        BY <1>1, <1>6, <2>1, <3>1
    <2> HIDE DEF d
    <2>3. QED
      BY <1>6, <2>1, <2>2, SeqEqual DEF Bytes
  <1>8. QED
    BY <1>5, <1>7 DEF u

LEMMA PartsSkip ==
    ASSUME NEW c \in Byte, NEW t \in Bytes
    PROVE  Parts(<<c>> \o t, c) = Parts(t, c)
  <1>1. <<c>> \o t \in Bytes /\ Len(<<c>> \o t) = 1 + Len(t) /\ (<<c>> \o t)[1] = c
        /\ Len(t) \in Nat
    <2>1. 1 \in 1..Len(<<c>>)
      BY OneByte
    <2>2. QED
      BY <2>1, OneByte, Both DEF Beside
  <1>2. <<c>> \o t # <<>> /\ Head(<<c>> \o t) = c
    <2> DEFINE u == <<c>> \o t
    <2> HIDE DEF u
    <2>1. u \in Bytes /\ Len(u) # 0 /\ u[1] = c
      BY <1>1 DEF u
    <2>2. u # <<>> /\ Head(u) = c
      BY <2>1, EmptyLength, HeadTail DEF Bytes
    <2>3. QED
      BY <2>2 DEF u
  <1>3. Tail(<<c>> \o t) = t
    <2>1. Tail(<<c>> \o t) = Drop(<<c>> \o t, 1)
      <3>1. Tail(<<c>> \o t) = SubSeq(<<c>> \o t, 2, Len(<<c>> \o t))
        BY <1>1, <1>2, TailIsSubSeq DEF Bytes
      <3>2. 1 + 1 = 2
        OBVIOUS
      <3>3. QED
        BY <3>1, <3>2 DEF Drop
    <2>2. /\ Drop(<<c>> \o t, 1) \in Bytes /\ Len(Drop(<<c>> \o t, 1)) = Len(<<c>> \o t) - 1
          /\ \A i \in 1..Len(<<c>> \o t) - 1 : Drop(<<c>> \o t, 1)[i] = (<<c>> \o t)[1 + i]
      <3>1. 1 \in 0..Len(<<c>> \o t)
        BY <1>1
      <3>2. QED
        BY <1>1, <3>1, DropFacts
    <2>3. /\ \A i \in 1..Len(<<c>> \o t) : \A k \in 1..Len(t) :
                i = Len(<<c>>) + k => (<<c>> \o t)[i] = t[k]
          /\ Len(<<c>>) = 1
      BY Both, OneByte DEF Beside
    <2> DEFINE u == <<c>> \o t
               d == Drop(u, 1)
    <2>4. /\ u \in Bytes /\ Len(u) = 1 + Len(t) /\ d \in Bytes /\ Len(d) = Len(u) - 1
          /\ \A i \in 1..Len(u) - 1 : d[i] = u[1 + i]
          /\ \A i \in 1..Len(u) : \A k \in 1..Len(t) : i = 1 + k => u[i] = t[k]
      BY <1>1, <2>2, <2>3
    <2> HIDE DEF u, d
    <2>5. Len(d) = Len(t) /\ Len(u) - 1 = Len(t)
      BY <1>1, <2>4
    <2>6. ASSUME NEW k \in 1..Len(t)
          PROVE  d[k] = t[k]
      <3>1. PICK i \in 1..Len(u) : i = 1 + k
        <4>1. 1 + k \in 1..Len(u)
          BY <1>1, <2>4
        <4>2. QED
          BY <4>1
      <3>2. QED
        BY <2>4, <2>5, <3>1
    <2>7. d = t
      BY <2>4, <2>5, <2>6, SeqEqual DEF Bytes
    <2>8. QED
      BY <2>1, <2>7 DEF d, u
  <1>4. QED
    BY <1>1, <1>2, <1>3, PartsDef

LEMMA PartsFirst ==
    ASSUME NEW s \in Bytes, NEW t \in Bytes, NEW c, s # <<>>, \A i \in 1..Len(s) : s[i] # c,
           t = <<>> \/ Head(t) = c
    PROVE  Parts(s \o t, c) = <<s>> \o Parts(t, c)
  <1> DEFINE u == s \o t
  <1>1. Before(u, c) = s /\ Drop(u, Len(s)) = t
    BY CutConcat
  <1>2. u \in Bytes /\ u # <<>> /\ Head(u) # c
    <2>1. /\ u \in Bytes /\ Len(u) = Len(s) + Len(t) /\ Len(s) \in Nat /\ Len(t) \in Nat
          /\ \A i \in 1..Len(s) : u[i] = s[i]
      BY Both DEF Beside
    <2>2. Len(s) # 0
      BY EmptyLength DEF Bytes
    <2>3. 1 \in 1..Len(s) /\ Len(u) # 0
      BY <2>1, <2>2
    <2>4. u[1] # c
      BY <2>1, <2>3
    <2> HIDE DEF u
    <2>5. QED
      BY <2>1, <2>3, <2>4, EmptyLength, HeadTail DEF Bytes
  <1> HIDE DEF u
  <1>3. Parts(u, c) = <<Before(u, c)>> \o Parts(Drop(u, Len(Before(u, c))), c)
    BY <1>2, PartsDef
  <1>4. QED
    BY <1>1, <1>3 DEF u

LEMMA PartsEmpty == \A c : Parts(<<>>, c) = <<>>
  BY PartsDef, SlashType

LEMMA PartsWhole ==
    ASSUME NEW s \in Bytes, NEW c, s # <<>>, \A i \in 1..Len(s) : s[i] # c
    PROVE  Parts(s, c) = <<s>>
  <1>1. s \o <<>> = s
    BY ConcatEmptySeq DEF Bytes
  <1>2. Parts(s \o <<>>, c) = <<s>> \o Parts(<<>>, c)
    BY PartsFirst, SlashType
  <1>3. <<s>> \o <<>> = <<s>>
    <2>1. <<s>> \in Seq(Bytes)
      OBVIOUS
    <2>2. QED
      BY <2>1, ConcatEmptySeq
  <1>4. QED
    BY <1>1, <1>2, <1>3, PartsEmpty

-----------------------------------------------------------------------------
(* What the guard looks at.                                                 *)

White == {c \in Byte : IsSpace(c)}
Blank == Seq(White)

LEMMA BlankFacts ==
    /\ Blank \subseteq Bytes /\ <<>> \in Blank
    /\ \A w \in Blank : \A i \in 1..Len(w) : w[i] \in Byte /\ IsSpace(w[i])
  <1>1. Blank \subseteq Bytes
    BY SeqMonotonic DEF Blank, White, Bytes
  <1>2. ASSUME NEW w \in Blank, NEW i \in 1..Len(w)
        PROVE  w[i] \in White
    BY ElementOfSeq DEF Blank
  <1>3. QED
    BY <1>1, <1>2 DEF White, Blank

\* The place of the first member of T, or of the last.
LEMMA FirstOf ==
    ASSUME NEW n \in Nat, NEW T \in SUBSET (1..n)
    PROVE  /\ LET i == IF T # {} THEN Min(T) ELSE 0
              IN  IF T = {} THEN i = 0 ELSE i \in T /\ \A y \in T : i <= y
           /\ LET i == IF T # {} THEN Max(T) ELSE 0
              IN  IF T = {} THEN i = 0 ELSE i \in T /\ \A y \in T : y <= i
  <1>1. CASE T = {}
    BY <1>1
  <1>2. CASE T # {}
    <2>1. T \in SUBSET Nat /\ T \in SUBSET (0..n)
      OBVIOUS
    <2>2. Min(T) \in T /\ \A y \in T : Min(T) <= y
      BY <1>2, <2>1, MinFacts
    <2>3. Max(T) \in T /\ \A y \in T : y <= Max(T)
      BY <1>2, <2>1, MaxFacts
    <2>4. QED
      BY <1>2, <2>2, <2>3
  <1>3. QED
    BY <1>1, <1>2

LEMMA SplitAt ==
    ASSUME NEW s \in Bytes, NEW n \in 0..Len(s)
    PROVE  /\ SubSeq(s, 1, n) \in Bytes /\ Drop(s, n) \in Bytes
           /\ Len(SubSeq(s, 1, n)) = n
           /\ \A i \in 1..n : SubSeq(s, 1, n)[i] = s[i]
           /\ s = SubSeq(s, 1, n) \o Drop(s, n)
  <1> DEFINE p == SubSeq(s, 1, n)
             d == Drop(s, n)
             u == p \o d
  <1>1. Len(s) \in Nat /\ n \in Nat /\ 1 \in Nat \ {0}
    BY DEF Bytes
  <1>2. p \in Bytes /\ Len(p) = n /\ \A i \in 1..n : p[i] = s[i]
    <2>1. /\ p \in Bytes /\ Len(p) = IF 1 <= n THEN n - 1 + 1 ELSE 0
          /\ \A i \in 1..n - 1 + 1 : p[i] = s[1 + i - 1]
      BY <1>1, PartOf DEF Bytes
    <2>2. n - 1 + 1 = n /\ (1 <= n \/ n = 0) /\ \A i \in 1..n : 1 + i - 1 = i
      BY <1>1
    <2>3. QED
      BY <2>1, <2>2
  <1>3. /\ d \in Bytes /\ Len(d) = Len(s) - n /\ \A i \in 1..Len(s) - n : d[i] = s[n + i]
    BY DropFacts
  <1> HIDE DEF p, d
  <1>4. /\ u \in Bytes /\ Len(u) = Len(p) + Len(d)
        /\ \A i \in 1..Len(p) : u[i] = p[i]
        /\ \A i \in 1..Len(u) : \A k \in 1..Len(d) : i = Len(p) + k => u[i] = d[k]
        /\ \A i \in 1..Len(u) : i <= Len(p) \/ \E k \in 1..Len(d) : i = Len(p) + k
    <2>1. Beside(p, d, u)
      BY <1>2, <1>3, Both
    <2> HIDE DEF u
    <2>2. QED
      BY <2>1 DEF Beside
  <1> HIDE DEF u
  <1>5. Len(u) = Len(s)
    BY <1>1, <1>2, <1>3, <1>4
  <1>6. ASSUME NEW i \in 1..Len(s)
        PROVE  u[i] = s[i]
    <2>1. CASE i <= n
      BY <1>1, <1>2, <1>4, <2>1
    <2>2. CASE ~ (i <= n)
      <3>1. PICK k \in 1..Len(d) : i = n + k
        BY <1>2, <1>4, <1>5, <2>2
      <3>2. u[i] = d[k] /\ d[k] = s[n + k]
        BY <1>2, <1>3, <1>4, <1>5, <3>1
      <3>3. QED
        BY <3>1, <3>2
    <2>3. QED
      BY <2>1, <2>2
  <1>7. u = s
    BY <1>4, <1>5, <1>6, SeqEqual DEF Bytes
  <1>8. QED
    BY <1>2, <1>3, <1>7 DEF p, d, u

LEMMA DropBlank ==
    ASSUME NEW s \in Bytes, NEW n \in 0..Len(s), \A i \in 1..Len(s) : i > n => IsSpace(s[i])
    PROVE  Drop(s, n) \in Blank
  <1>1. /\ Drop(s, n) \in Bytes /\ Len(Drop(s, n)) = Len(s) - n /\ Len(s) \in Nat
        /\ \A i \in 1..Len(s) - n : Drop(s, n)[i] = s[n + i]
    <2>1. Len(s) \in Nat
      BY DEF Bytes
    <2>2. QED
      BY <2>1, DropFacts
  <1> DEFINE d == Drop(s, n)
  <1>2. ASSUME NEW i \in 1..Len(d)
        PROVE  d[i] \in White
    <2>1. d[i] \in Byte
      BY <1>1, ElementOfSeq DEF Bytes
    <2>2. PICK k \in 1..Len(s) : k = n + i
      <3>1. n + i \in 1..Len(s)
        BY <1>1
      <3>2. QED
        BY <3>1
    <2>3. d[i] = s[k] /\ IsSpace(s[k])
      BY <1>1, <2>2
    <2>4. QED
      BY <2>1, <2>3 DEF White
  <1>3. QED
    BY <1>1, <1>2, IsASeq DEF Blank, Bytes

\* t is s without white space around it.
Around(s, t) == \E w, v \in Blank : s = (w \o t) \o v

LEMMA TrimFacts ==
    ASSUME NEW s \in Bytes
    PROVE  /\ trim(s) \in Bytes /\ Around(s, trim(s))
           /\ trim(s) # <<>> => ~IsSpace(trim(s)[1])
  <1> DEFINE n == Len(s)
             I == {i \in 1..n : ~IsSpace(s[i])}
             first == IF I # {} THEN Min(I) ELSE 0
             last == IF I # {} THEN Max(I) ELSE 0
  <1>1. trim(s) = IF first = 0 THEN <<>> ELSE SubSeq(s, first, last)
    BY DEF trim, SelectInSeq, SelectLastInSeq
  <1>2. n \in Nat /\ I \in SUBSET (1..n) /\ \A i \in 1..n : i \notin I => IsSpace(s[i])
    BY DEF Bytes
  <1>3. IF I = {} THEN first = 0 /\ last = 0
        ELSE first \in I /\ last \in I /\ \A y \in I : first <= y /\ y <= last
    <2> HIDE DEF I, n
    <2>1. QED
      BY <1>2, FirstOf
  <1>4. \A i \in I : i \in 1..n /\ ~IsSpace(s[i])
    OBVIOUS
  <1> HIDE DEF I, first, last
  <1>5. CASE I = {}
    <2>1. trim(s) = <<>>
      BY <1>1, <1>3, <1>5
    <2>2. s \in Blank
      <3>1. 0 \in 0..Len(s)
        BY <1>2
      <3>2. \A i \in 1..Len(s) : i > 0 => IsSpace(s[i])
        BY <1>2, <1>5
      <3>3. Drop(s, 0) \in Blank
        BY <3>1, <3>2, DropBlank
      <3>4. /\ Len(Drop(s, 0)) = Len(s) /\ Drop(s, 0) \in Bytes
            /\ \A i \in 1..Len(s) : Drop(s, 0)[i] = s[i]
        <4>1. /\ Drop(s, 0) \in Bytes /\ Len(Drop(s, 0)) = Len(s) - 0
              /\ \A i \in 1..Len(s) - 0 : Drop(s, 0)[i] = s[0 + i]
          BY <3>1, DropFacts
        <4>2. Len(s) - 0 = Len(s) /\ \A i \in 1..Len(s) : 0 + i = i
          BY <1>2
        <4>3. QED
          BY <4>1, <4>2
      <3>5. Drop(s, 0) = s
        BY <3>4, SeqEqual DEF Bytes
      <3>6. QED
        BY <3>3, <3>5
    <2>3. (s \o <<>>) \o <<>> = s
      BY ConcatEmptySeq DEF Bytes
    <2>4. QED
      BY <2>1, <2>2, <2>3, BlankFacts, SlashType DEF Around
  <1>6. CASE I # {}
    <2>1. first \in 1..n /\ last \in 1..n /\ first <= last /\ ~IsSpace(s[first])
      BY <1>3, <1>4, <1>6
    <2>2. trim(s) = SubSeq(s, first, last)
      BY <1>1, <2>1
    <2>3. PICK m \in 0..n : first = m + 1
      <3>1. first - 1 \in 0..n /\ first = (first - 1) + 1
        BY <1>2, <2>1
      <3>2. QED
        BY <3>1
    <2> DEFINE p == SubSeq(s, 1, last)
               v == Drop(s, last)
               w == SubSeq(p, 1, m)
    <2>4. /\ p \in Bytes /\ Len(p) = last /\ s = p \o v
          /\ \A i \in 1..last : p[i] = s[i]
      <3>1. last \in 0..Len(s)
        BY <1>2, <2>1
      <3>2. QED
        BY <3>1, SplitAt
    <2>5. v \in Blank
      <3>1. last \in 0..Len(s)
        BY <1>2, <2>1
      <3>2. \A i \in 1..Len(s) : i > last => IsSpace(s[i])
        <4>1. \A i \in 1..n : i > last => i \notin I
          BY <1>2, <1>3, <1>6, <2>1
        <4>2. QED
          BY <1>2, <4>1
      <3>3. QED
        BY <3>1, <3>2, DropBlank
    <2> HIDE DEF p, v
    <2>6. /\ w \in Bytes /\ Len(w) = m /\ p = w \o Drop(p, m)
          /\ \A i \in 1..m : w[i] = p[i]
      <3>1. m \in 0..Len(p)
        BY <2>1, <2>3, <2>4
      <3>2. QED
        BY <2>4, <3>1, SplitAt
    <2> HIDE DEF w
    <2>7. w \in Blank
      <3>1. \A i \in 1..m : i \in 1..n /\ i < first /\ i \in 1..last
        BY <1>2, <2>1, <2>3
      <3>2. \A i \in 1..m : IsSpace(s[i])
        <4>1. \A i \in 1..m : i \notin I
          BY <1>3, <1>6, <2>1, <3>1
        <4>2. QED
          BY <1>2, <3>1, <4>1
      <3>3. \A i \in 1..m : w[i] = s[i] /\ w[i] \in Byte
        BY <2>4, <2>6, <3>1, ElementOfSeq DEF Bytes
      <3>4. \A i \in 1..Len(w) : w[i] \in White
        BY <2>6, <3>2, <3>3 DEF White
      <3>5. QED
        BY <2>6, <3>4, IsASeq DEF Blank, Bytes
    <2>8. Drop(p, m) = SubSeq(s, first, last)
      <3> DEFINE d == Drop(p, m)
                 b == SubSeq(s, first, last)
      <3>1. /\ d \in Bytes /\ Len(d) = last - m
            /\ \A i \in 1..last - m : d[i] = p[m + i]
        <4>1. m \in 0..Len(p)
          BY <2>1, <2>3, <2>4
        <4>2. QED
          BY <2>4, <4>1, DropFacts
      <3>2. /\ b \in Bytes /\ Len(b) = IF first <= last THEN last - first + 1 ELSE 0
            /\ \A i \in 1..last - first + 1 : b[i] = s[first + i - 1]
        <4>1. first \in Nat \ {0} /\ last \in 0..Len(s)
          BY <1>2, <2>1
        <4>2. QED
          BY <4>1, PartOf DEF Bytes
      <3> HIDE DEF d, b
      <3>3. /\ last - first + 1 = last - m
            /\ \A i \in 1..last - m : first + i - 1 = m + i /\ m + i \in 1..last
        BY <1>2, <2>1, <2>3
      <3>4. Len(d) = Len(b)
        BY <2>1, <3>1, <3>2, <3>3
      <3>5. ASSUME NEW i \in 1..last - m
            PROVE  d[i] = b[i]
        <4>1. first + i - 1 = m + i /\ m + i \in 1..last /\ i \in 1..last - first + 1
          BY <3>3
        <4>2. b[i] = s[first + i - 1] /\ d[i] = p[m + i]
          BY <3>1, <3>2, <4>1
        <4>3. b[i] = s[m + i]
          BY <4>1, <4>2
        <4>4. QED
          BY <2>4, <4>1, <4>2, <4>3
      <3>6. d = b
        BY <3>1, <3>2, <3>4, <3>5, SeqEqual DEF Bytes
      <3>7. QED
        BY <3>6 DEF d, b
    <2>9. trim(s) \in Bytes /\ s = (w \o trim(s)) \o v
      <3>1. Drop(p, m) \in Bytes
        <4>1. m \in 0..Len(p)
          BY <2>1, <2>3, <2>4
        <4>2. QED
          BY <2>4, <4>1, DropFacts
      <3>2. QED
        BY <2>2, <2>4, <2>6, <2>8, <3>1
    <2>10. ~IsSpace(trim(s)[1])
      <3>1. /\ first \in Nat \ {0} /\ last \in 0..Len(s)
            /\ 1 \in 1..last - first + 1 /\ first + 1 - 1 = first
        BY <1>2, <2>1
      <3>2. \A i \in 1..last - first + 1 : SubSeq(s, first, last)[i] = s[first + i - 1]
        BY <3>1, PartOf DEF Bytes
      <3>3. SubSeq(s, first, last)[1] = s[first + 1 - 1]
        BY <3>1, <3>2
      <3>4. QED
        BY <2>1, <2>2, <3>1, <3>3
    <2>11. QED
      BY <2>5, <2>7, <2>9, <2>10 DEF Around
  <1>7. QED
    BY <1>5, <1>6

\* body is sql without white space around it and without a semicolon at its end.
Wrapped(sql, body, w, v, t) ==
    /\ w \in Blank /\ v \in Blank
    /\ t = <<>> \/ \E x \in Blank : t = <<Semicolon>> \o x
    /\ sql = ((w \o body) \o v) \o t

LEMMA SemicolonType == Semicolon \in Byte /\ Space \in Byte /\ Slash \in Byte /\ 42 \in Byte
  BY DEF Semicolon, Space, Slash, Byte

\* Under a name of its own: the provers would apply it without end.
Regroup(a, b, c) == (a \o b) \o c = a \o (b \o c)

LEMMA Associates ==
    /\ \A a, b, c \in Bytes : Regroup(a, b, c)
    /\ \A a, b \in Bytes : a \o b \in Bytes
    /\ \A a \in Bytes : a \o <<>> = a /\ <<>> \o a = a
  BY ConcatAssociative, ConcatProperties, ConcatEmptySeq DEF Bytes, Regroup

LEMMA BodyFacts ==
    ASSUME NEW sql \in Bytes
    PROVE  /\ Body(sql) \in Bytes
           /\ Body(sql) # <<>> => ~IsSpace(Body(sql)[1])
           /\ \E w, v, t : Wrapped(sql, Body(sql), w, v, t)
  <1> DEFINE s == trim(sql)
  <1>1. s \in Bytes /\ (s # <<>> => ~IsSpace(s[1])) /\ Around(sql, s)
    BY TrimFacts
  <1>2. PICK w \in Blank, z \in Blank : sql = (w \o s) \o z
    BY <1>1 DEF Around
  <1>3. w \in Bytes /\ z \in Bytes
    BY BlankFacts
  <1> HIDE DEF s
  <1>4. CASE s # <<>> /\ Last(s) = Semicolon
    <2> DEFINE b == trim(Front(s))
    <2>1. Body(sql) = b
      BY <1>4 DEF Body, s
    <2>2. Front(s) \in Bytes /\ s = Append(Front(s), Semicolon)
      BY <1>1, <1>4, FrontLast DEF Bytes
    <2>3. b \in Bytes /\ (b # <<>> => ~IsSpace(b[1])) /\ Around(Front(s), b)
      BY <2>2, TrimFacts
    <2> HIDE DEF b
    <2>4. PICK x \in Blank, v \in Blank : Front(s) = (x \o b) \o v
      BY <2>3 DEF Around
    <2>5. x \in Bytes /\ v \in Bytes /\ <<Semicolon>> \in Bytes
      BY BlankFacts, SemicolonType, OneByte
    <2>6. s = ((x \o b) \o v) \o <<Semicolon>>
      <3>1. Append(Front(s), Semicolon) = Front(s) \o <<Semicolon>>
        BY <2>2, SemicolonType, AppendIsConcat DEF Bytes
      <3>2. QED
        BY <2>2, <2>4, <3>1
    <2> DEFINE y == w \o x
               t == <<Semicolon>> \o z
    <2>7. y \in Blank
      BY ConcatProperties DEF Blank
    <2>8. sql = ((y \o b) \o v) \o t
      <3> DEFINE c == (x \o b) \o v
                 e == <<Semicolon>>
      <3>1. x \o b \in Bytes /\ c \in Bytes /\ e \in Bytes /\ t \in Bytes
        BY <1>3, <2>3, <2>5, Associates
      <3>2. Regroup(w, x \o b, v) /\ Regroup(w, x, b)
        BY <1>3, <2>3, <2>5, <3>1, Associates
      <3>3. w \o c = (y \o b) \o v
        BY <3>2 DEF Regroup
      <3> HIDE DEF c, e
      <3>4. w \o c \in Bytes
        BY <1>3, <3>1, Associates
      <3>5. Regroup(w, c, e) /\ Regroup(w \o c, e, z)
        BY <1>3, <3>1, <3>4, Associates
      <3>6. sql = (w \o c) \o t
        <4>1. sql = (w \o (c \o e)) \o z
          BY <1>2, <2>6 DEF c, e
        <4>2. sql = ((w \o c) \o e) \o z
          BY <3>5, <4>1 DEF Regroup
        <4>3. QED
          BY <3>5, <4>2 DEF Regroup, e
      <3>7. QED
        BY <3>3, <3>6
    <2>9. Wrapped(sql, b, y, v, t)
      BY <2>7, <2>8 DEF Wrapped
    <2>10. QED
      BY <2>1, <2>3, <2>9
  <1>5. CASE ~(s # <<>> /\ Last(s) = Semicolon)
    <2>1. Body(sql) = s
      BY <1>5 DEF Body, s
    <2>2. sql = ((w \o s) \o z) \o <<>>
      <3>1. (w \o s) \o z \in Bytes
        BY <1>1, <1>3, Associates
      <3>2. QED
        BY <1>2, <3>1, Associates
    <2>3. Wrapped(sql, s, w, z, <<>>)
      BY <2>2 DEF Wrapped
    <2>4. QED
      BY <1>1, <2>1, <2>3
  <1>6. QED
    BY <1>4, <1>5

\* The guard's words for a sequence of segments.
LEMMA ParamType ==
    ASSUME NEW url \in Bytes
    PROVE  extractSqlParam_(url) \in Bytes
  <1> DEFINE segments == Parts(After(url, Question), Amp)
             T == {i \in 1..Len(segments) :
                        Find(segments[i], Equals) # 0 /\ Before(segments[i], Equals) = SQL}
             named == IF T # {} THEN Min(T) ELSE 0
  <1>1. extractSqlParam_(url) =
            IF named = 0 THEN <<>> ELSE urlDecode[After(segments[named], Equals)]
    BY DEF extractSqlParam_, SelectInSeq
  <1>2. segments \in Path /\ Len(segments) \in Nat /\ T \in SUBSET (1..Len(segments))
    <2>1. segments \in Path
      BY AfterType, PartsDef
    <2>2. Len(segments) \in Nat
      BY <2>1 DEF Path
    <2>3. QED
      BY <2>1, <2>2
  <1>3. named = 0 \/ named \in 1..Len(segments)
    <2> DEFINE n == Len(segments)
    <2>1. n \in Nat /\ T \in SUBSET (1..n)
      BY <1>2
    <2> HIDE DEF n, T
    <2>2. QED
      BY <2>1, FirstOf DEF n
  <1> HIDE DEF segments, named
  <1>4. named # 0 => segments[named] \in Bytes
    BY <1>2, <1>3, ElementOfSeq DEF Path
  <1>5. QED
    BY <1>1, <1>4, AfterType, DecodeDef, SlashType

\* What is neither white space nor a semicolon belongs to the body.
LEMMA InBody ==
    ASSUME NEW sql \in Bytes, NEW body \in Bytes, NEW w, NEW v, NEW t,
           Wrapped(sql, body, w, v, t),
           NEW i \in 1..Len(sql), ~IsSpace(sql[i]), sql[i] # Semicolon
    PROVE  \E j \in 1..Len(body) : i = Len(w) + j /\ sql[i] = body[j]
  <1>1. w \in Blank /\ v \in Blank /\ w \in Bytes /\ v \in Bytes
    BY BlankFacts DEF Wrapped
  <1>2. t \in Bytes /\ \A k \in 1..Len(t) : IsSpace(t[k]) \/ t[k] = Semicolon
    <2>1. CASE t = <<>>
      BY <2>1, SlashType
    <2>2. CASE t # <<>>
      <3>1. PICK x \in Blank : t = <<Semicolon>> \o x
        BY <2>2 DEF Wrapped
      <3>2. x \in Bytes /\ \A k \in 1..Len(x) : IsSpace(x[k])
        BY BlankFacts
      <3> DEFINE a == <<Semicolon>>
      <3>3. a \in Bytes /\ Len(a) = 1 /\ a[1] = Semicolon
        BY SemicolonType, OneByte
      <3> HIDE DEF a
      <3>4. Beside(a, x, t)
        BY <3>1, <3>2, <3>3, Both DEF a
      <3>5. ASSUME NEW k \in 1..Len(t)
            PROVE  IsSpace(t[k]) \/ t[k] = Semicolon
        <4>1. CASE k <= Len(a)
          <5>1. k = 1 /\ k \in 1..Len(a)
            BY <3>3, <4>1
          <5>2. QED
            BY <3>3, <3>4, <5>1 DEF Beside
        <4>2. CASE ~ (k <= Len(a))
          BY <3>2, <3>4, <4>2 DEF Beside
        <4>3. QED
          BY <4>1, <4>2
      <3>6. QED
        BY <3>4, <3>5 DEF Beside
    <2>3. QED
      BY <2>1, <2>2
  <1> DEFINE p == w \o body
             q == p \o v
  <1>3. Beside(w, body, p)
    BY <1>1, Both
  <1> HIDE DEF p
  <1>4. Beside(p, v, q)
    <2>1. p \in Bytes
      BY <1>3 DEF Beside
    <2>2. QED
      BY <1>1, <2>1, Both
  <1> HIDE DEF q
  <1>5. Beside(q, t, sql)
    <2>1. q \in Bytes /\ sql = q \o t
      BY <1>4 DEF Beside, Wrapped, q, p
    <2>2. QED
      BY <1>2, <2>1, Both
  <1>6. i \in 1..Len(q) /\ q[i] = sql[i]
    <2>1. ASSUME NEW k \in 1..Len(t), i = Len(q) + k
          PROVE  FALSE
      BY <1>2, <1>5, <2>1 DEF Beside
    <2>2. i <= Len(q)
      BY <1>5, <2>1 DEF Beside
    <2>3. i \in 1..Len(q)
      BY <2>2, <1>4 DEF Beside
    <2>4. QED
      BY <2>3, <1>5 DEF Beside
  <1>7. i \in 1..Len(p) /\ p[i] = sql[i]
    <2>1. ASSUME NEW k \in 1..Len(v), i = Len(p) + k
          PROVE  FALSE
      <3>1. IsSpace(v[k])
        BY <1>1, BlankFacts
      <3>2. QED
        BY <1>4, <1>6, <2>1, <3>1 DEF Beside
    <2>2. i <= Len(p)
      BY <1>4, <1>6, <2>1 DEF Beside
    <2>3. i \in 1..Len(p)
      BY <2>2, <1>3 DEF Beside
    <2>4. QED
      BY <2>3, <1>4, <1>6 DEF Beside
  <1>8. ~(i <= Len(w))
    <2>1. ASSUME i \in 1..Len(w)
          PROVE  FALSE
      <3>1. IsSpace(w[i])
        BY <1>1, <2>1, BlankFacts
      <3>2. QED
        BY <1>3, <1>7, <2>1, <3>1 DEF Beside
    <2>2. QED
      BY <1>3, <2>1 DEF Beside
  <1>9. QED
    BY <1>3, <1>7, <1>8 DEF Beside

-----------------------------------------------------------------------------
(* What the database makes of a statement that passed.                      *)

Flat == [c \in Byte |-> IF IsSpace(c) THEN Space ELSE c]
Strip == [c \in Byte |-> IF IsSpace(c) THEN <<>> ELSE <<c>>]
StripSpace == [c \in Byte |-> IF c = Space THEN <<>> ELSE <<c>>]

LEMMA FlatTypes ==
    /\ Flat \in [Byte -> Byte] /\ Strip \in [Byte -> Seq(Byte)]
    /\ StripSpace \in [Byte -> Seq(Byte)]
    /\ \A s \in Bytes : Replaced(Flat, s) \in Bytes
  <1>1. Flat \in [Byte -> Byte] /\ Strip \in [Byte -> Seq(Byte)]
        /\ StripSpace \in [Byte -> Seq(Byte)]
    <2>1. \A c \in Byte : <<c>> \in Seq(Byte)
      OBVIOUS
    <2>2. <<>> \in Seq(Byte) /\ Space \in Byte
      BY SemicolonType
    <2>3. QED
      BY <2>1, <2>2 DEF Flat, Strip, StripSpace
  <1>2. QED
    BY <1>1, MappedType DEF Bytes

LEMMA FlatFacts ==
    ASSUME NEW s \in Bytes
    PROVE  /\ Replaced(Flat, s) \in Bytes /\ Len(Replaced(Flat, s)) = Len(s)
           /\ \A i \in 1..Len(s) : /\ s[i] \in Byte
                                   /\ Replaced(Flat, s)[i] = IF IsSpace(s[i]) THEN Space ELSE s[i]
  <1>1. \A i \in 1..Len(s) : s[i] \in Byte
    BY ElementOfSeq DEF Bytes
  <1>2. Len(Replaced(Flat, s)) = Len(s) /\ \A i \in 1..Len(s) : Replaced(Flat, s)[i] = Flat[s[i]]
    BY MappedFacts DEF Bytes
  <1>3. \A c \in Byte : Flat[c] = IF IsSpace(c) THEN Space ELSE c
    BY DEF Flat
  <1>4. QED
    BY <1>1, <1>2, <1>3, FlatTypes

\* A statement without the beginning of a comment.
LEMMA SeparatedIs ==
    ASSUME NEW s \in Bytes,
           ~ \E k \in 1..Len(s) : k < Len(s) /\ SubSeq(s, k, k + 1) = <<Slash, 42>>
    PROVE  Separated(s) = Replaced(Flat, s)
  <1>1. DOMAIN s = 1..Len(s) /\ \A i \in DOMAIN s : s[i] \in Byte
    BY LenProperties, ElementOfSeq DEF Bytes
  <1>2. Separated(s) = [i \in DOMAIN s |-> IF IsSpace(s[i]) THEN Space ELSE s[i]]
    BY <1>1 DEF Separated
  <1>3. QED
    BY <1>1, <1>2 DEF Replaced, Flat

LEMMA NoComment ==
    ASSUME NEW sql \in Bytes, NEW body \in Bytes, NEW w, NEW v, NEW t,
           Wrapped(sql, body, w, v, t), ~HasComment(body)
    PROVE  Separated(sql) = Replaced(Flat, sql)
  <1>1. ASSUME NEW k \in 1..Len(sql), k < Len(sql), SubSeq(sql, k, k + 1) = <<Slash, 42>>
        PROVE  FALSE
    <2>1. Len(sql) \in Nat /\ Len(body) \in Nat /\ w \in Bytes /\ Len(w) \in Nat
      <3>1. w \in Bytes
        BY BlankFacts DEF Wrapped
      <3>2. QED
        BY <3>1 DEF Bytes
    <2>2. PICK m \in 1..Len(sql) : m = k + 1
      <3>1. k + 1 \in 1..Len(sql)
        BY <1>1, <2>1
      <3>2. QED
        BY <3>1
    <2>3. sql[k] = Slash /\ sql[m] = 42
      <3>1. /\ Len(SubSeq(sql, k, m)) = IF k <= m THEN m - k + 1 ELSE 0
            /\ \A i \in 1..m - k + 1 : SubSeq(sql, k, m)[i] = sql[k + i - 1]
        BY <2>1, PartOf DEF Bytes
      <3>2. 1 \in 1..m - k + 1 /\ 2 \in 1..m - k + 1 /\ k + 1 - 1 = k /\ k + 2 - 1 = m
        BY <2>1, <2>2
      <3>3. SubSeq(sql, k, m)[1] = sql[k + 1 - 1] /\ SubSeq(sql, k, m)[2] = sql[k + 2 - 1]
        BY <3>1, <3>2
      <3>4. SubSeq(sql, k, m) = <<Slash, 42>>
        BY <1>1, <2>2
      <3>5. QED
        BY <3>2, <3>3, <3>4
    <2>4. ~IsSpace(Slash) /\ Slash # Semicolon /\ ~IsSpace(42) /\ 42 # Semicolon
      BY DEF IsSpace, Slash, Semicolon, Space
    <2>5. PICK i \in 1..Len(body) : k = Len(w) + i /\ body[i] = Slash
      BY <2>3, <2>4, InBody
    <2>6. PICK j \in 1..Len(body) : m = Len(w) + j /\ body[j] = 42
      BY <2>3, <2>4, InBody
    <2>7. j = i + 1 /\ i \in 1..Len(body) - 2 + 1 /\ i + 2 - 1 = j
      BY <2>1, <2>2, <2>5, <2>6
    <2> DEFINE c == <<Slash, 42>>
               p == SubSeq(body, i, j)
    <2>8. c \in Bytes /\ Len(c) = 2 /\ c[1] = Slash /\ c[2] = 42
      BY SemicolonType DEF Bytes
    <2>9. /\ p \in Bytes /\ Len(p) = 2 /\ \A n \in 1..2 : p[n] = body[i + n - 1]
      <3>1. i \in Nat \ {0} /\ j \in 0..Len(body) /\ i <= j /\ j - i + 1 = 2
        BY <2>1, <2>7
      <3>2. /\ p \in Bytes /\ Len(p) = IF i <= j THEN j - i + 1 ELSE 0
            /\ \A n \in 1..j - i + 1 : p[n] = body[i + n - 1]
        BY <3>1, PartOf DEF Bytes
      <3>3. QED
        BY <3>1, <3>2
    <2>10. p[1] = Slash /\ p[2] = 42
      <3>1. i + 1 - 1 = i /\ i + 2 - 1 = j /\ 1 \in 1..2 /\ 2 \in 1..2
        BY <2>7
      <3>2. p[1] = body[i + 1 - 1] /\ p[2] = body[i + 2 - 1]
        BY <2>9, <3>1
      <3>3. QED
        BY <2>5, <2>6, <3>1, <3>2
    <2> HIDE DEF p, c
    <2>11. p = c
      <3>1. \A n \in 1..2 : n = 1 \/ n = 2
        OBVIOUS
      <3>2. QED
        BY <2>8, <2>9, <2>10, <3>1, SeqEqual DEF Bytes
    <2>12. Occurs(c, body)
      <3>1. SubSeq(body, i, i + Len(c) - 1) = c /\ i \in 1..Len(body) - Len(c) + 1
        BY <2>7, <2>8, <2>11 DEF p
      <3>2. QED
        BY <3>1 DEF Occurs
    <2>13. HasComment(body)
      BY <2>12 DEF HasComment, Comments, c
    <2>14. QED
      BY <2>13
  <1>2. QED
    BY <1>1, SeparatedIs

\* Spaces before a string add no part, and a string of spaces has none.
LEMMA SpacesSkipped ==
    ASSUME NEW z \in Seq({Space}), NEW y \in Bytes
    PROVE  Parts(z \o y, Space) = Parts(y, Space)
  <1> DEFINE G == {s \in Seq({Space}) : Parts(s \o y, Space) = Parts(y, Space)}
  <1>1. <<>> \in G
    <2>1. <<>> \o y = y
      BY Associates
    <2>2. QED
      BY <2>1
  <1>2. ASSUME NEW b \in {Space}, NEW s \in Seq({Space}), s \in G
        PROVE  <<b>> \o s \in G
    <2>1. b = Space /\ <<b>> \in Bytes
      BY SemicolonType, OneByte
    <2>2. s \in Bytes
      BY SemicolonType, SeqMonotonic DEF Bytes
    <2>3. s \o y \in Bytes /\ Regroup(<<b>>, s, y)
      BY <2>1, <2>2, Associates
    <2>4. Parts(<<b>> \o (s \o y), Space) = Parts(s \o y, Space)
      BY <2>1, <2>3, PartsSkip, SemicolonType
    <2>5. Parts((<<b>> \o s) \o y, Space) = Parts(y, Space)
      BY <1>2, <2>3, <2>4 DEF Regroup
    <2>6. <<b>> \o s \in Seq({Space})
      <3>1. <<b>> \in Seq({Space})
        OBVIOUS
      <3>2. QED
        BY <3>1, ConcatProperties
    <2>7. QED
      BY <2>5, <2>6
  <1>3. Seq({Space}) \subseteq G
    <2> HIDE DEF G
    <2>1. QED
      BY <1>1, <1>2, SeqInduct
  <1>4. QED
    BY <1>3

LEMMA FlatBlank ==
    ASSUME NEW w \in Blank
    PROVE  Replaced(Flat, w) \in Seq({Space}) /\ Parts(Replaced(Flat, w), Space) = <<>>
  <1> DEFINE z == Replaced(Flat, w)
  <1>1. w \in Bytes /\ \A i \in 1..Len(w) : IsSpace(w[i])
    BY BlankFacts
  <1>2. z \in Bytes /\ \A i \in 1..Len(z) : z[i] \in {Space}
    BY <1>1, FlatFacts
  <1> HIDE DEF z
  <1>3. z \in Seq({Space})
    BY <1>2, IsASeq DEF Bytes
  <1>4. z \o <<>> = z /\ <<>> \in Bytes
    BY <1>2, Associates, SlashType
  <1>5. Parts(z \o <<>>, Space) = Parts(<<>>, Space)
    BY <1>3, <1>4, SpacesSkipped
  <1>6. QED
    BY <1>3, <1>4, <1>5, PartsEmpty DEF z

\* Spreading a string of bytes over strings of bytes.
LEMMA BytesSpread ==
    ASSUME NEW e \in [Byte -> Seq(Byte)]
    PROVE  /\ Spread(e, <<>>) = <<>> /\ \A b \in Byte : Spread(e, <<b>>) = e[b]
           /\ \A s, t \in Bytes : Spread(e, s \o t) = Spread(e, s) \o Spread(e, t)
           /\ \A s \in Bytes : Spread(e, s) \in Bytes
  <1>1. Spreading(e, Byte, Byte)
    BY Spreads, SemicolonType
  <1>2. QED
    BY <1>1 DEF Spreading, Bytes

LEMMA Strips ==
    \A e \in {Strip, StripSpace} :
        /\ Spread(e, <<>>) = <<>> /\ \A b \in Byte : Spread(e, <<b>>) = e[b]
        /\ \A s, t \in Bytes : Spread(e, s \o t) = Spread(e, s) \o Spread(e, t)
        /\ \A s \in Bytes : Spread(e, s) \in Bytes
  BY FlatTypes, BytesSpread

\* The parts put together are the string without what parted them.
LEMMA WithoutIs ==
    ASSUME NEW s \in Bytes, \A i \in 1..Len(s) : s[i] # Space
    PROVE  Spread(StripSpace, s) = s
  <1> DEFINE K == Byte \ {Space}
             G == {t \in Seq(K) : Spread(StripSpace, t) = t}
  <1>1. \A i \in 1..Len(s) : s[i] \in K
    BY ElementOfSeq DEF Bytes
  <1>2. s \in Seq(K)
    BY <1>1, IsASeq DEF Bytes
  <1>3. <<>> \in G
    BY Strips
  <1>4. ASSUME NEW b \in K, NEW t \in Seq(K), t \in G
        PROVE  <<b>> \o t \in G
    <2>1. b \in Byte /\ b # Space /\ t \in Bytes /\ <<b>> \in Bytes /\ <<b>> \in Seq(K)
      <3>1. t \in Bytes
        BY SeqMonotonic DEF Bytes
      <3>2. QED
        BY <3>1, OneByte
    <2>2. Spread(StripSpace, <<b>>) = <<b>>
      <3>1. StripSpace[b] = <<b>>
        BY <2>1 DEF StripSpace
      <3>2. QED
        BY <2>1, <3>1, Strips
    <2>3. Spread(StripSpace, <<b>> \o t) = Spread(StripSpace, <<b>>) \o Spread(StripSpace, t)
      BY <2>1, Strips
    <2>4. <<b>> \o t \in Seq(K)
      <3> HIDE DEF K
      <3>1. QED
        BY <2>1, ConcatProperties
    <2>5. QED
      BY <1>4, <2>2, <2>3, <2>4
  <1>5. Seq(K) \subseteq G
    <2> HIDE DEF G, K
    <2>1. QED
      BY <1>3, <1>4, SeqInduct
  <1>6. QED
    BY <1>2, <1>5

LEMMA WordsJoined ==
    ASSUME NEW u \in Bytes
    PROVE  FlattenSeq(Parts(u, Space)) = Spread(StripSpace, u)
  <1> DEFINE G == {s \in Bytes : FlattenSeq(Parts(s, Space)) = Spread(StripSpace, s)}
             rank == [s \in Bytes |-> Len(s)]
  <1>1. rank \in [Bytes -> Nat]
    BY DEF Bytes
  <1>2. ASSUME NEW s \in Bytes, \A t \in Bytes : rank[t] < rank[s] => t \in G
        PROVE  s \in G
    <2>1. CASE s = <<>>
      <3>1. FlattenSeq(Parts(<<>>, Space)) = <<>>
        <4>1. FlattenSeq(<<>>) = <<>>
          BY SlashType, FlattenOne DEF Bytes
        <4>2. QED
          BY <4>1, PartsEmpty
      <3>2. Spread(StripSpace, <<>>) = <<>>
        BY Strips
      <3>3. QED
        BY <2>1, <3>1, <3>2
    <2>2. CASE s # <<>> /\ Head(s) = Space
      <3>1. Tail(s) \in Bytes /\ Len(Tail(s)) < Len(s) /\ <<Space>> \in Bytes
            /\ s = <<Space>> \o Tail(s)
        <4>1. Tail(s) \in Bytes /\ Len(Tail(s)) = Len(s) - 1 /\ Len(s) \in Nat
          BY <2>2, HeadTail DEF Bytes
        <4>2. s = <<Head(s)>> \o Tail(s)
          BY <2>2, HeadTailAppend, ConcatSimplifications DEF Bytes
        <4>3. QED
          BY <2>2, <4>1, <4>2, OneByte, SemicolonType
      <3>2. Tail(s) \in G
        BY <1>2, <3>1
      <3>3. Parts(s, Space) = Parts(Tail(s), Space)
        BY <2>2, PartsDef
      <3>4. Spread(StripSpace, <<Space>>) = <<>>
        <4>1. StripSpace[Space] = <<>>
          BY SemicolonType DEF StripSpace
        <4>2. QED
          BY <4>1, Strips, SemicolonType
      <3>5. Spread(StripSpace, s) = <<>> \o Spread(StripSpace, Tail(s))
        <4>1. Spread(StripSpace, <<Space>> \o Tail(s))
                = Spread(StripSpace, <<Space>>) \o Spread(StripSpace, Tail(s))
          BY <3>1, Strips
        <4>2. QED
          BY <3>1, <3>4, <4>1
      <3>6. Spread(StripSpace, Tail(s)) \in Bytes
        BY <3>1, Strips
      <3>7. Spread(StripSpace, s) = Spread(StripSpace, Tail(s))
        BY <3>5, <3>6, Associates
      <3>8. QED
        BY <3>2, <3>3, <3>7
    <2>3. CASE s # <<>> /\ Head(s) # Space
      <3> DEFINE b == Before(s, Space)
                 d == Drop(s, Len(b))
      <3>1. b \in Bytes /\ Len(b) \in 0..Len(s) /\ Len(b) > 0
            /\ \A i \in 1..Len(b) : b[i] = s[i] /\ s[i] # Space
        BY <2>3, BeforeFacts
      <3>2. d \in Bytes /\ Len(d) < Len(s)
        <4>1. d \in Bytes /\ Len(d) = Len(s) - Len(b)
          BY <3>1, DropFacts
        <4>2. Len(s) \in Nat
          BY DEF Bytes
        <4>3. QED
          BY <3>1, <4>1, <4>2
      <3>3. s = b \o d
        <4>1. /\ SubSeq(s, 1, Len(b)) \in Bytes /\ Len(SubSeq(s, 1, Len(b))) = Len(b)
              /\ \A i \in 1..Len(b) : SubSeq(s, 1, Len(b))[i] = s[i]
              /\ s = SubSeq(s, 1, Len(b)) \o Drop(s, Len(b))
          BY <3>1, SplitAt
        <4> HIDE DEF b
        <4>2. SubSeq(s, 1, Len(b)) = b
          BY <3>1, <4>1, SeqEqual DEF Bytes
        <4>3. QED
          BY <4>1, <4>2
      <3>4. Parts(s, Space) = <<b>> \o Parts(d, Space) /\ Parts(d, Space) \in Path
        <4>1. Parts(s, Space) = <<b>> \o Parts(d, Space)
          BY <2>3, PartsDef
        <4>2. Parts(d, Space) \in Path
          BY <3>2, PartsDef
        <4>3. QED
          BY <4>1, <4>2
      <3> HIDE DEF b, d
      <3>5. d \in G
        BY <1>2, <3>2
      <3>6. FlattenSeq(<<b>> \o Parts(d, Space)) = FlattenSeq(<<b>>) \o FlattenSeq(Parts(d, Space))
        <4>1. <<b>> \in Seq(Seq(Byte)) /\ Parts(d, Space) \in Seq(Seq(Byte))
          BY <3>1, <3>4 DEF Bytes, Path
        <4>2. QED
          BY <4>1, FlattenConcat
      <3>7. FlattenSeq(<<b>>) = b
        BY <3>1, FlattenOne DEF Bytes
      <3>8. Spread(StripSpace, b) = b
        BY <3>1, WithoutIs
      <3>9. Spread(StripSpace, b \o d) = Spread(StripSpace, b) \o Spread(StripSpace, d)
        BY <3>1, <3>2, Strips
      <3>10. QED
        BY <3>3, <3>4, <3>5, <3>6, <3>7, <3>8, <3>9
    <2>4. QED
      BY <2>1, <2>2, <2>3
  <1>3. Bytes \subseteq G
    <2> HIDE DEF G, rank
    <2>1. QED
      BY <1>1, <1>2, RankInduction
  <1>4. QED
    BY <1>3

LEMMA BlankVanishes ==
    ASSUME NEW w \in Blank
    PROVE  Spread(Strip, w) = <<>>
  <1> DEFINE G == {t \in Blank : Spread(Strip, t) = <<>>}
  <1>1. <<>> \in G
    BY Strips, BlankFacts
  <1>2. ASSUME NEW b \in White, NEW t \in Seq(White), t \in G
        PROVE  <<b>> \o t \in G
    <2>1. b \in Byte /\ IsSpace(b) /\ <<b>> \in Bytes /\ <<b>> \in Blank /\ t \in Bytes
      <3>1. t \in Bytes
        BY BlankFacts DEF Blank
      <3>2. <<b>> \in Blank
        BY DEF Blank
      <3>3. QED
        BY <3>1, <3>2, OneByte DEF White
    <2>2. Spread(Strip, <<b>>) = <<>>
      <3>1. Strip[b] = <<>>
        BY <2>1 DEF Strip
      <3>2. QED
        BY <2>1, <3>1, Strips
    <2>3. Spread(Strip, <<b>> \o t) = Spread(Strip, <<b>>) \o Spread(Strip, t)
      BY <2>1, Strips
    <2>4. <<b>> \o t \in Blank
      BY <2>1, ConcatProperties DEF Blank
    <2>5. <<>> \o <<>> = <<>>
      BY Associates, SlashType
    <2>6. QED
      BY <1>2, <2>2, <2>3, <2>4, <2>5
  <1>3. Blank \subseteq G
    <2>1. Seq(White) \subseteq G
      <3> HIDE DEF G
      <3>1. QED
        BY <1>1, <1>2, SeqInduct
    <2>2. QED
      BY <2>1 DEF Blank
  <1>4. QED
    BY <1>3

\* Making white space spaces and leaving out the spaces leaves out white space.
LEMMA StripFlat ==
    ASSUME NEW s \in Bytes
    PROVE  Spread(StripSpace, Replaced(Flat, s)) = Spread(Strip, s)
           /\ Spread(Strip, s) = WithoutSpace(s) /\ WithoutSpace(s) \in Bytes
  <1>1. \A c \in Byte : Flat[c] \in Byte /\ StripSpace[Flat[c]] = Strip[c]
    <2>1. ASSUME NEW c \in Byte
          PROVE  Flat[c] \in Byte /\ StripSpace[Flat[c]] = Strip[c]
      <3>1. CASE IsSpace(c)
        BY <3>1, SemicolonType DEF Flat, StripSpace, Strip
      <3>2. CASE ~IsSpace(c)
        <4>1. c # Space
          BY <3>2 DEF IsSpace
        <4>2. QED
          BY <3>2, <4>1 DEF Flat, StripSpace, Strip
      <3>3. QED
        BY <3>1, <3>2
    <2>2. QED
      BY <2>1
  <1>2. DOMAIN s = 1..Len(s) /\ \A i \in DOMAIN s : s[i] \in Byte
    BY LenProperties, ElementOfSeq DEF Bytes
  <1>3. Replaced(StripSpace, Replaced(Flat, s)) = Replaced(Strip, s)
    BY <1>1, <1>2 DEF Replaced
  <1>4. Spread(Strip, s) = WithoutSpace(s)
    BY <1>2 DEF Spread, Replaced, Strip, WithoutSpace
  <1>5. Spread(Strip, s) \in Bytes
    BY Strips
  <1>6. QED
    BY <1>3, <1>4, <1>5 DEF Spread

-----------------------------------------------------------------------------
(* The word a statement begins with.                                        *)

\* r is what s begins with as long as there are letters.
Leading(r, s) ==
    /\ r \in Bytes /\ Len(r) <= Len(s)
    /\ \A i \in 1..Len(r) : r[i] = s[i] /\ IsAlpha(s[i])
    /\ \A i \in 1..Len(s) : i = Len(r) + 1 => ~IsAlpha(s[i])

LEMMA KeywordIs ==
    ASSUME NEW s \in Bytes
    PROVE  \E r : Leading(r, s) /\ Keyword(s) = toupper(r)
  <1> DEFINE n == Len(s)
             T == {i \in 1..n : ~IsAlpha(s[i])}
             stop == IF T # {} THEN Min(T) ELSE 0
             r == IF stop = 0 THEN s ELSE SubSeq(s, 1, stop - 1)
  <1>1. Keyword(s) = toupper(r)
    BY DEF Keyword, SelectInSeq
  <1>2. n \in Nat /\ T \in SUBSET (1..n) /\ \A i \in 1..n : i \in T <=> ~IsAlpha(s[i])
    BY DEF Bytes
  <1>3. IF T = {} THEN stop = 0 ELSE stop \in T /\ \A y \in T : stop <= y
    <2> HIDE DEF T, n
    <2>1. QED
      BY <1>2, FirstOf
  <1> HIDE DEF T, stop
  <1>4. CASE T = {}
    <2>1. r = s
      BY <1>3, <1>4
    <2> HIDE DEF r
    <2>2. \A i \in 1..n : IsAlpha(s[i]) /\ ~(i = n + 1)
      BY <1>2, <1>4
    <2>3. Leading(s, s)
      BY <1>2, <2>2 DEF Leading
    <2>4. QED
      BY <1>1, <2>1, <2>3
  <1>5. CASE T # {}
    <2>1. stop \in 1..n /\ ~IsAlpha(s[stop])
      BY <1>2, <1>3, <1>5
    <2>2. \A i \in 1..stop - 1 : i \in 1..n /\ IsAlpha(s[i])
      <3>1. \A i \in 1..stop - 1 : i \in 1..n /\ ~(stop <= i)
        BY <1>2, <2>1
      <3>2. QED
        BY <1>2, <1>3, <1>5, <3>1
    <2>3. r = SubSeq(s, 1, stop - 1)
      BY <2>1
    <2> HIDE DEF r
    <2>4. r \in Bytes /\ Len(r) = stop - 1 /\ \A i \in 1..stop - 1 : r[i] = s[i]
      <3>1. stop - 1 \in 0..Len(s)
        BY <1>2, <2>1
      <3>2. QED
        BY <2>3, <3>1, SplitAt
    <2>5. Len(r) <= Len(s) /\ Len(r) + 1 = stop
      BY <1>2, <2>1, <2>4
    <2>6. Leading(r, s)
      BY <2>1, <2>2, <2>4, <2>5 DEF Leading
    <2>7. QED
      BY <1>1, <2>6
  <1>6. QED
    BY <1>4, <1>5

LEMMA LeadingUnique ==
    ASSUME NEW s \in Bytes, NEW r, NEW q, Leading(r, s), Leading(q, s)
    PROVE  r = q
  <1>1. Len(r) \in Nat /\ Len(q) \in Nat /\ Len(s) \in Nat /\ r \in Bytes /\ q \in Bytes
    BY DEF Leading, Bytes
  <1>2. ASSUME NEW a, NEW b, Leading(a, s), Leading(b, s), Len(a) \in Nat, Len(b) \in Nat,
               Len(a) < Len(b)
        PROVE  FALSE
    <2>1. PICK i \in 1..Len(b) : i = Len(a) + 1
      <3>1. Len(a) + 1 \in 1..Len(b)
        BY <1>2
      <3>2. QED
        BY <3>1
    <2>2. i \in 1..Len(s)
      BY <1>1, <1>2, <2>1 DEF Leading
    <2>3. IsAlpha(s[i]) /\ ~IsAlpha(s[i])
      BY <1>2, <2>1, <2>2 DEF Leading
    <2>4. QED
      BY <2>3
  <1>3. ~(Len(r) < Len(q)) /\ ~(Len(q) < Len(r))
    BY <1>1, <1>2
  <1>4. Len(r) = Len(q)
    BY <1>1, <1>3
  <1>5. \A i \in 1..Len(r) : r[i] = q[i]
    BY <1>4 DEF Leading
  <1>6. QED
    BY <1>1, <1>4, <1>5, SeqEqual DEF Bytes

\* z is the first part of y, which is body with white space made spaces and
\* white space behind it: both begin with the same word.
LEMMA SameKeyword ==
    ASSUME NEW body \in Bytes, NEW v \in Blank, body # <<>>, ~IsSpace(body[1])
    PROVE  Keyword(Before(Replaced(Flat, body) \o Replaced(Flat, v), Space)) = Keyword(body)
  <1> DEFINE fb == Replaced(Flat, body)
             fv == Replaced(Flat, v)
             y == fb \o fv
             z == Before(y, Space)
  <1>1. v \in Bytes /\ \A i \in 1..Len(v) : IsSpace(v[i])
    BY BlankFacts
  <1>2. /\ fb \in Bytes /\ Len(fb) = Len(body)
        /\ \A i \in 1..Len(body) : fb[i] = IF IsSpace(body[i]) THEN Space ELSE body[i]
    BY FlatFacts
  <1>3. fv \in Bytes /\ \A i \in 1..Len(fv) : fv[i] = Space
    BY <1>1, FlatFacts
  <1> HIDE DEF fb, fv
  <1>4. Beside(fb, fv, y)
    BY <1>2, <1>3, Both
  <1> HIDE DEF y
  <1>5. /\ z \in Bytes /\ Len(z) \in 0..Len(y)
        /\ \A i \in 1..Len(z) : z[i] = y[i] /\ y[i] # Space
        /\ Len(z) # Len(y) => y[Len(z) + 1] = Space
    <2>1. y \in Bytes
      BY <1>4 DEF Beside
    <2>2. QED
      BY <2>1, BeforeFacts
  <1> HIDE DEF z
  <1>6. PICK r : Leading(r, body) /\ Keyword(body) = toupper(r)
    BY KeywordIs
  <1>7. PICK q : Leading(q, z) /\ Keyword(z) = toupper(q)
    BY <1>5, KeywordIs
  <1>8. /\ Len(body) \in Nat /\ Len(r) \in Nat /\ Len(z) \in Nat /\ Len(y) \in Nat
        /\ Len(body) <= Len(y) /\ Len(r) <= Len(body) /\ Len(z) <= Len(y)
    <2>1. r \in Bytes /\ Len(r) <= Len(body)
      BY <1>6 DEF Leading
    <2>2. Len(fv) \in Nat /\ Len(y) = Len(fb) + Len(fv) /\ Len(y) \in Nat
      BY <1>3, <1>4 DEF Beside, Bytes
    <2>3. Len(body) \in Nat /\ Len(r) \in Nat
      BY <2>1 DEF Bytes
    <2>4. QED
      BY <1>2, <1>5, <2>1, <2>2, <2>3
  <1>9. ~IsAlpha(Space) /\ \A c \in Byte : IsSpace(c) => ~IsAlpha(c)
    <2>1. ASSUME NEW c \in Byte, IsSpace(c)
          PROVE  ~IsAlpha(c)
      BY <2>1 DEF IsAlpha, IsSpace, Space, Upper, Lower, Byte
    <2>2. IsSpace(Space)
      BY DEF IsSpace
    <2>3. QED
      BY <2>1, <2>2, SemicolonType
  <1>10. \A i \in 1..Len(r) : i \in 1..Len(y) /\ i \in 1..Len(body) /\ y[i] = body[i]
                              /\ IsAlpha(y[i])
    <2>1. ASSUME NEW i \in 1..Len(r)
          PROVE  i \in 1..Len(y) /\ i \in 1..Len(body) /\ y[i] = body[i] /\ IsAlpha(y[i])
      <3>1. i \in 1..Len(body) /\ i \in 1..Len(y) /\ i \in 1..Len(fb)
        BY <1>2, <1>8
      <3>2. IsAlpha(body[i]) /\ body[i] \in Byte
        BY <1>6, <3>1, ElementOfSeq DEF Leading, Bytes
      <3>3. ~IsSpace(body[i])
        BY <1>9, <3>2
      <3>4. fb[i] = body[i]
        BY <1>2, <3>1, <3>3
      <3>5. QED
        BY <1>4, <3>1, <3>2, <3>4 DEF Beside
    <2>2. QED
      BY <2>1
  <1>11. Len(r) <= Len(z)
    <2>1. ASSUME Len(z) < Len(r)
          PROVE  FALSE
      <3>1. PICK i \in 1..Len(r) : i = Len(z) + 1
        <4>1. Len(z) + 1 \in 1..Len(r)
          BY <1>8, <2>1
        <4>2. QED
          BY <4>1
      <3>2. Len(z) # Len(y)
        BY <1>8, <2>1
      <3>3. y[i] = Space
        BY <1>5, <3>1, <3>2
      <3>4. QED
        BY <1>9, <1>10, <3>3
    <2>2. QED
      BY <1>8, <2>1
  <1>12. ASSUME NEW i \in 1..Len(z), i = Len(r) + 1
         PROVE  ~IsAlpha(z[i])
    <2>1. z[i] = y[i] /\ y[i] # Space /\ i \in 1..Len(y)
      BY <1>5, <1>8
    <2>2. CASE i <= Len(fb)
      <3>1. i \in 1..Len(body) /\ i \in 1..Len(fb)
        BY <1>2, <1>8, <2>2
      <3>2. y[i] = fb[i] /\ fb[i] = IF IsSpace(body[i]) THEN Space ELSE body[i]
        BY <1>2, <1>4, <3>1 DEF Beside
      <3>3. ~IsAlpha(body[i])
        BY <1>6, <1>12, <3>1 DEF Leading
      <3>4. QED
        BY <2>1, <3>2, <3>3
    <2>3. CASE ~(i <= Len(fb))
      <3>1. PICK k \in 1..Len(fv) : i = Len(fb) + k
        BY <1>4, <2>1, <2>3 DEF Beside
      <3>2. y[i] = fv[k] /\ fv[k] = Space
        BY <1>3, <1>4, <2>1, <3>1 DEF Beside
      <3>3. QED
        BY <2>1, <3>2
    <2>4. QED
      BY <2>2, <2>3
  <1>13. Leading(r, z)
    <2>1. ASSUME NEW i \in 1..Len(r)
          PROVE  r[i] = z[i] /\ IsAlpha(z[i])
      <3>1. i \in 1..Len(z)
        BY <1>8, <1>11
      <3>2. z[i] = y[i] /\ r[i] = body[i]
        BY <1>5, <1>6, <3>1 DEF Leading
      <3>3. QED
        BY <1>10, <3>2
    <2>2. QED
      BY <1>6, <1>11, <1>12, <2>1 DEF Leading
  <1>14. r = q
    BY <1>5, <1>7, <1>13, LeadingUnique
  <1>15. QED
    BY <1>6, <1>7, <1>14 DEF fb, fv, y, z

-----------------------------------------------------------------------------
(* What passes the guard only reads.                                        *)

LEMMA GuardedReads ==
    ASSUME NEW sql \in Bytes, isReadOnlyStatement(sql)
    PROVE  OnlyReads(sql)
  <1> DEFINE body == Body(sql)
  <1>1. /\ body # <<>> /\ Find(body, Semicolon) = 0 /\ ~HasComment(body)
        /\ Keyword(body) \in kReadKeywords
        /\ \A token \in kForbiddenTokens : ~Occurs(token, toupper(WithoutSpace(body)))
    BY DEF isReadOnlyStatement
  <1>2. /\ body \in Bytes /\ ~IsSpace(body[1])
        /\ \E w, v, t : Wrapped(sql, body, w, v, t)
    BY <1>1, BodyFacts
  <1> HIDE DEF body
  <1>3. PICK w, v, t : Wrapped(sql, body, w, v, t)
    BY <1>2
  <1>4. /\ w \in Blank /\ v \in Blank /\ w \in Bytes /\ v \in Bytes /\ t \in Bytes
        /\ sql = ((w \o body) \o v) \o t
    <2>1. \A x \in Blank : <<Semicolon>> \o x \in Bytes
      BY BlankFacts, SemicolonType, OneByte, Associates
    <2>2. QED
      BY <1>3, <2>1, BlankFacts, SlashType DEF Wrapped
  <1> DEFINE fw == Replaced(Flat, w)
             fb == Replaced(Flat, body)
             fv == Replaced(Flat, v)
             ft == Replaced(Flat, t)
             y == fb \o fv
             u == fw \o y
  <1>5. /\ fw \in Bytes /\ fb \in Bytes /\ fv \in Bytes /\ ft \in Bytes
        /\ y \in Bytes /\ u \in Bytes
    BY <1>2, <1>4, FlatTypes, Associates
  <1>0. \A a, b \in Bytes : Replaced(Flat, a \o b) = Replaced(Flat, a) \o Replaced(Flat, b)
    BY ReplacedConcat DEF Bytes
  <1>6. Separated(sql) = u \o ft
    <2>1. Separated(sql) = Replaced(Flat, sql)
      BY <1>1, <1>2, <1>3, NoComment
    <2>3. w \o body \in Bytes /\ (w \o body) \o v \in Bytes
      BY <1>2, <1>4, Associates
    <2>4. Replaced(Flat, sql) = ((fw \o fb) \o fv) \o ft
      <3>1. Replaced(Flat, w \o body) = fw \o fb
        BY <1>2, <1>4, <1>0
      <3> DEFINE p == w \o body
      <3> HIDE DEF p
      <3>2. Replaced(Flat, p \o v) = Replaced(Flat, p) \o fv /\ p \in Bytes
        BY <1>4, <1>0, <2>3 DEF p
      <3> DEFINE q == p \o v
      <3>3. q \in Bytes
        BY <2>3 DEF p
      <3> HIDE DEF q
      <3>4. Replaced(Flat, q \o t) = Replaced(Flat, q) \o ft
        BY <1>4, <1>0, <3>3
      <3>5. QED
        BY <1>4, <3>1, <3>2, <3>4 DEF q, p
    <2>5. Regroup(fw, fb, fv)
      BY <1>5, Associates
    <2>6. QED
      BY <2>1, <2>4, <2>5 DEF Regroup
  <1>7. u # <<>> /\ \A i \in 1..Len(u) : u[i] # Semicolon
    <2>1. /\ Len(fb) = Len(body) /\ Len(body) \in Nat \ {0}
          /\ \A i \in 1..Len(fb) : fb[i] # Semicolon
      <3>1. \A i \in 1..Len(body) : body[i] # Semicolon
        BY <1>1, <1>2, FindFacts
      <3>2. Space # Semicolon
        BY DEF Space, Semicolon
      <3>3. Len(fb) = Len(body)
            /\ \A i \in 1..Len(body) : fb[i] = IF IsSpace(body[i]) THEN Space ELSE body[i]
        BY <1>2, FlatFacts
      <3>4. Len(body) \in Nat \ {0}
        BY <1>1, <1>2, EmptyLength DEF Bytes
      <3>5. QED
        BY <3>1, <3>2, <3>3, <3>4
    <2>2. \A x \in Blank : \A i \in 1..Len(Replaced(Flat, x)) : Replaced(Flat, x)[i] # Semicolon
      <3>1. ASSUME NEW x \in Blank, NEW i \in 1..Len(Replaced(Flat, x))
            PROVE  Replaced(Flat, x)[i] = Space
        BY BlankFacts, FlatFacts
      <3>2. QED
        BY <3>1 DEF Space, Semicolon
    <2>3. \A i \in 1..Len(fw) : fw[i] # Semicolon
      BY <1>4, <2>2
    <2>4. \A i \in 1..Len(fv) : fv[i] # Semicolon
      BY <1>4, <2>2
    <2> HIDE DEF fb, fv, fw
    <2>5. Beside(fb, fv, y)
      BY <1>5, Both
    <2> HIDE DEF y
    <2>6. Beside(fw, y, u)
      BY <1>5, Both
    <2> HIDE DEF u
    <2>7. \A i \in 1..Len(y) : y[i] # Semicolon
      <3>1. ASSUME NEW i \in 1..Len(y)
            PROVE  y[i] # Semicolon
        <4>1. CASE i <= Len(fb)
          <5>1. i \in 1..Len(fb)
            BY <2>1, <4>1
          <5>2. QED
            BY <2>1, <2>5, <5>1 DEF Beside
        <4>2. CASE ~(i <= Len(fb))
          BY <2>4, <2>5, <4>2 DEF Beside
        <4>3. QED
          BY <4>1, <4>2
      <3>2. QED
        BY <3>1
    <2>8. \A i \in 1..Len(u) : u[i] # Semicolon
      <3>1. ASSUME NEW i \in 1..Len(u)
            PROVE  u[i] # Semicolon
        <4>1. CASE i <= Len(fw)
          <5>1. i \in 1..Len(fw)
            BY <2>6, <4>1 DEF Beside
          <5>2. QED
            BY <2>3, <2>6, <5>1 DEF Beside
        <4>2. CASE ~(i <= Len(fw))
          BY <2>7, <2>6, <4>2 DEF Beside
        <4>3. QED
          BY <4>1, <4>2
      <3>2. QED
        BY <3>1
    <2>9. Len(u) # 0
      BY <2>1, <2>5, <2>6 DEF Beside
    <2>10. QED
      BY <1>5, <2>8, <2>9, EmptyLength DEF Bytes
  <1>8. \/ Parts(u \o ft, Semicolon) = <<u>>
        \/ \E x \in Blank : Parts(u \o ft, Semicolon) = <<u>> \o <<Replaced(Flat, x)>>
    <2> HIDE DEF u
    <2>1. CASE t = <<>>
      <3>1. ft = <<>>
        <4>1. Len(<<>>) = 0 /\ Len(ft) = Len(t)
          BY <1>4, FlatFacts
        <4>2. QED
          BY <1>5, <2>1, <4>1, EmptyLength DEF Bytes
      <3>2. u \o ft = u
        BY <1>5, <3>1, Associates
      <3>3. Parts(u, Semicolon) = <<u>>
        BY <1>5, <1>7, PartsWhole
      <3>4. QED
        BY <3>2, <3>3
    <2>2. CASE t # <<>>
      <3>1. PICK x \in Blank : t = <<Semicolon>> \o x
        BY <1>3, <2>2 DEF Wrapped
      <3> DEFINE fx == Replaced(Flat, x)
                 e == <<Semicolon>>
      <3>2. x \in Bytes /\ fx \in Bytes /\ e \in Bytes
        BY BlankFacts, FlatTypes, SemicolonType, OneByte
      <3>3. ft = e \o fx
        <4>1. Replaced(Flat, e \o x) = Replaced(Flat, e) \o Replaced(Flat, x)
          <5> HIDE DEF e
          <5>1. QED
            BY <1>0, <3>2
        <4>2. Replaced(Flat, e) = e
          <5> DEFINE f == Replaced(Flat, e)
          <5>1. Len(e) = 1 /\ e[1] = Semicolon /\ ~IsSpace(Semicolon)
            BY SemicolonType, OneByte DEF IsSpace, Semicolon, Space
          <5>2. f \in Bytes /\ Len(f) = Len(e)
                /\ \A i \in 1..Len(e) : f[i] = IF IsSpace(e[i]) THEN Space ELSE e[i]
            BY <3>2, FlatFacts
          <5> HIDE DEF f, e
          <5>3. \A i \in 1..Len(e) : f[i] = e[i]
            BY <5>1, <5>2
          <5>4. f = e
            BY <3>2, <5>2, <5>3, SeqEqual DEF Bytes
          <5>5. QED
            BY <5>4 DEF f
        <4>3. QED
          BY <3>1, <4>1, <4>2
      <3>4. ft # <<>> /\ Head(ft) = Semicolon
        <4> HIDE DEF e
        <4>1. Beside(e, fx, ft)
          <5> HIDE DEF fx, ft
          <5>1. QED
            BY <3>2, <3>3, Both
        <4>2. Len(e) = 1 /\ e[1] = Semicolon
          BY SemicolonType, OneByte DEF e
        <4>3. 1 \in 1..Len(e)
          BY <4>2
        <4>4. Len(ft) # 0 /\ ft[1] = Semicolon
          BY <4>1, <4>2, <4>3 DEF Beside
        <4> HIDE DEF ft
        <4>5. QED
          BY <1>5, <4>4, EmptyLength, HeadTail DEF Bytes
      <3>5. Parts(u \o ft, Semicolon) = <<u>> \o Parts(ft, Semicolon)
        BY <1>5, <1>7, <3>4, PartsFirst
      <3>6. Parts(ft, Semicolon) = Parts(fx, Semicolon)
        BY <3>2, <3>3, PartsSkip, SemicolonType
      <3>7. CASE fx = <<>>
        <4>1. Parts(ft, Semicolon) = <<>>
          BY <3>6, <3>7, PartsEmpty
        <4>2. <<u>> \o <<>> = <<u>>
          <5>1. <<u>> \in Seq(Bytes)
            BY <1>5
          <5>2. QED
            BY <5>1, ConcatEmptySeq
        <4>3. QED
          BY <3>5, <4>1, <4>2
      <3>8. CASE fx # <<>>
        <4>1. ASSUME NEW i \in 1..Len(fx)
              PROVE  fx[i] # Semicolon
          <5>1. fx[i] = Space
            BY BlankFacts, FlatFacts
          <5>2. QED
            BY <5>1 DEF Space, Semicolon
        <4>2. Parts(fx, Semicolon) = <<fx>>
          BY <3>2, <3>8, <4>1, PartsWhole
        <4>3. QED
          BY <3>5, <3>6, <4>2
      <3>9. QED
        BY <3>7, <3>8
    <2>3. QED
      BY <2>1, <2>2
  <1>9. \A k \in DOMAIN Parts(u \o ft, Semicolon) :
            \/ Parts(u \o ft, Semicolon)[k] = u
            \/ Parts(Parts(u \o ft, Semicolon)[k], Space) = <<>>
    <2> DEFINE pp == Parts(u \o ft, Semicolon)
    <2> HIDE DEF u, ft, pp
    <2>1. CASE pp = <<u>>
      <3>1. DOMAIN pp = {1} /\ pp[1] = u
        BY <2>1
      <3>2. QED
        BY <3>1 DEF pp
    <2>2. CASE \E x \in Blank : pp = <<u>> \o <<Replaced(Flat, x)>>
      <3>1. PICK x \in Blank : pp = <<u>> \o <<Replaced(Flat, x)>>
        BY <2>2
      <3> DEFINE fx == Replaced(Flat, x)
      <3>2. Parts(fx, Space) = <<>>
        BY FlatBlank
      <3> HIDE DEF fx
      <3>3. DOMAIN pp = 1..2 /\ pp[1] = u /\ pp[2] = fx
        <4>1. fx \in Bytes
          BY BlankFacts, FlatTypes DEF fx
        <4>2. <<u>> \in Seq(Bytes) /\ <<fx>> \in Seq(Bytes) /\ Len(<<u>>) = 1 /\ Len(<<fx>>) = 1
              /\ <<u>>[1] = u /\ <<fx>>[1] = fx
          BY <1>5, <4>1
        <4>3. pp = <<u>> \o <<fx>>
          BY <3>1 DEF fx
        <4> DEFINE a == <<u>>
                   b == <<fx>>
        <4> HIDE DEF a, b
        <4>4. a \in Seq(Bytes) /\ b \in Seq(Bytes) /\ Len(a) = 1 /\ Len(b) = 1
              /\ a[1] = u /\ b[1] = fx /\ pp = a \o b
          BY <4>2, <4>3 DEF a, b
        <4>5. /\ pp \in Seq(Bytes) /\ Len(pp) = Len(a) + Len(b)
              /\ \A i \in 1..Len(a) + Len(b) : pp[i] = IF i <= Len(a) THEN a[i] ELSE b[i - Len(a)]
          BY <4>4, ConcatProperties
        <4>6. DOMAIN pp = 1..Len(pp) /\ Len(pp) = 2 /\ 1 \in 1..2 /\ 2 \in 1..2 /\ 2 - 1 = 1
              /\ 1 <= 1 /\ ~(2 <= 1) /\ 1 + 1 = 2
          BY <4>4, <4>5, LenProperties
        <4>7. QED
          BY <4>4, <4>5, <4>6
      <3>4. ASSUME NEW k \in DOMAIN pp
            PROVE  pp[k] = u \/ pp[k] = fx
        BY <3>3
      <3>5. QED
        BY <3>2, <3>4 DEF pp
    <2>3. QED
      BY <1>8, <2>1, <2>2 DEF pp
  <1>10. Keyword(Parts(u, Space)[1]) = Keyword(body)
    <2>1. Parts(u, Space) = Parts(y, Space)
      <3>1. fw \in Seq({Space})
        BY <1>4, FlatBlank
      <3> HIDE DEF fw, y
      <3>2. QED
        BY <1>5, <3>1, SpacesSkipped
    <2>2. y # <<>> /\ Head(y) # Space
      <3>1. 1 \in 1..Len(body) /\ Len(body) \in Nat
        BY <1>1, <1>2, EmptyLength DEF Bytes
      <3>2. Len(fb) = Len(body) /\ fb[1] = body[1]
        BY <1>2, <3>1, FlatFacts
      <3>3. Beside(fb, fv, y)
        <4> HIDE DEF fb, fv
        <4>1. QED
          BY <1>5, Both
      <3>4. body[1] # Space
        BY <1>2 DEF IsSpace
      <3> HIDE DEF y, fb
      <3>5. y[1] # Space /\ Len(y) # 0
        BY <3>1, <3>2, <3>3, <3>4 DEF Beside
      <3>6. QED
        BY <1>5, <3>5, EmptyLength, HeadTail DEF Bytes
    <2>3. Parts(y, Space)[1] = Before(y, Space)
      <3> HIDE DEF y
      <3> DEFINE b == Before(y, Space)
                 d == Parts(Drop(y, Len(b)), Space)
      <3>1. Parts(y, Space) = <<b>> \o d
        BY <1>5, <2>2, PartsDef
      <3>2. b \in Bytes /\ d \in Path
        <4>1. b \in Bytes /\ Len(b) \in 0..Len(y)
          BY <1>5, BeforeFacts
        <4>2. Drop(y, Len(b)) \in Bytes
          <5> HIDE DEF b
          <5>1. QED
            BY <1>5, <4>1, DropFacts
        <4>3. QED
          BY <4>1, <4>2, PartsDef
      <3> HIDE DEF b, d
      <3>3. (<<b>> \o d)[1] = b
        <4>1. <<b>> \in Seq(Bytes) /\ d \in Seq(Bytes) /\ Len(<<b>>) = 1 /\ <<b>>[1] = b
          BY <3>2 DEF Path
        <4>2. 1 \in 1..Len(<<b>>) + Len(d) /\ 1 <= Len(<<b>>)
          BY <4>1
        <4>3. QED
          BY <4>1, <4>2, ConcatProperties
      <3>4. QED
        BY <3>1, <3>3 DEF b
    <2>4. QED
      BY <1>1, <1>2, <1>4, <2>1, <2>3, SameKeyword
  <1>11. FlattenSeq(Parts(u, Space)) = WithoutSpace(body)
    <2>1. FlattenSeq(Parts(u, Space)) = Spread(StripSpace, u)
      <3> HIDE DEF u
      <3>1. QED
        BY <1>5, WordsJoined
    <2>2. \A x \in Bytes : /\ Spread(StripSpace, Replaced(Flat, x)) = Spread(Strip, x)
                           /\ Spread(Strip, x) = WithoutSpace(x) /\ WithoutSpace(x) \in Bytes
      BY StripFlat
    <2>3. Spread(StripSpace, fw) = <<>> /\ Spread(StripSpace, fv) = <<>>
      BY <1>4, <2>2, BlankVanishes
    <2>4. Spread(StripSpace, fb) = WithoutSpace(body) /\ WithoutSpace(body) \in Bytes
      BY <1>2, <2>2
    <2> HIDE DEF fw, fb, fv
    <2>5. Spread(StripSpace, fb \o fv) = Spread(StripSpace, fb) \o Spread(StripSpace, fv)
      BY <1>5, Strips
    <2>6. Spread(StripSpace, y) = WithoutSpace(body)
      BY <2>3, <2>4, <2>5, Associates
    <2> HIDE DEF y
    <2>7. Spread(StripSpace, fw \o y) = Spread(StripSpace, fw) \o Spread(StripSpace, y)
      BY <1>5, Strips
    <2>8. QED
      BY <2>1, <2>3, <2>4, <2>6, <2>7, Associates
  <1>12. QED
    <2> HIDE DEF u, ft
    <2> DEFINE statements == Parts(Separated(sql), Semicolon)
    <2>1. ASSUME NEW k \in DOMAIN statements, Parts(statements[k], Space) # <<>>
          PROVE  LET words == Parts(statements[k], Space)
                 IN  /\ Keyword(words[1]) \in kReadKeywords
                     /\ \A token \in kForbiddenTokens :
                            ~Occurs(token, toupper(FlattenSeq(words)))
      <3>1. statements[k] = u
        BY <1>6, <1>9, <2>1
      <3>2. QED
        BY <1>1, <1>10, <1>11, <3>1
    <2>2. QED
      BY <2>1 DEF OnlyReads

\* A statement reaches the executor only in a program that was started with
\* SQL and runs, and in read-only mode only if all the database would execute
\* of it reads, for every table of keywords and forbidden tokens
\* (SqlHandler.cpp:170-194, SqlStatementGuard.cpp:27-115).
THEOREM OnlyReadsSubmittedAlways == Spec => []OnlyReadsSubmitted
  <1>1. SiteInv => OnlyReadsSubmitted
    <2>1. SUFFICES ASSUME SiteInv, answer.kind = "job"
                   PROVE  /\ Len(routes) = 3 /\ up
                          /\ readOnly => OnlyReads(answer.stmt)
      BY DEF OnlyReadsSubmitted
    <2>2. PICK method \in Bytes, url \in Bytes : Answered(method, url)
      <3>1. answer # Nothing
        BY <2>1 DEF Nothing, Answer
      <3>2. QED
        BY <2>1, <3>1 DEF SiteInv
    <2>3. PICK enableSql \in BOOLEAN : routes = Table(enableSql)
      BY <2>1 DEF SiteInv
    <2>4. enableSql /\ answer \in SqlHandler_handle(method, url, readOnly)
      <3>1. answer # StaticFileHandler_handle(method, url)
        BY <2>1, StaticFacts
      <3>2. answer # Answer(404, "error", <<>>, {})
        BY <2>1 DEF Answer
      <3>3. answer \in Answers(method, url)
        BY <2>2 DEF Answered
      <3>4. QED
        BY <2>3, <3>1, <3>2, <3>3, AnswerFacts
    <2>5. /\ answer.status = 200 /\ answer.stmt = extractSqlParam_(url)
          /\ readOnly => isReadOnlyStatement(answer.stmt)
      BY <2>1, <2>4, SqlFacts
    <2>6. Len(routes) = 3
      BY <2>3, <2>4, TableFacts
    <2>7. up
      <3>1. answer.status # Throws
        BY <2>5 DEF Throws
      <3>2. up = (answer.status # Throws)
        BY <2>2 DEF Answered
      <3>3. QED
        BY <3>1, <3>2, Zenon
    <2>8. QED
      BY <2>5, <2>6, <2>7, ParamType, GuardedReads
  <1>2. QED
    BY <1>1, Answering, PTL

-----------------------------------------------------------------------------
(* Where lookups lead.                                                      *)

LEMMA Paths ==
    /\ \A a, b, c \in Path : Regroup(a, b, c)
    /\ \A a, b \in Path : a \o b \in Path /\ Len(a \o b) = Len(a) + Len(b)
    /\ \A a \in Path : a \o <<>> = a /\ <<>> \o a = a
    /\ \A b \in Bytes : <<b>> \in Path
    /\ <<>> \in Path
  <1>1. \A b \in Bytes : <<b>> \in Seq(Bytes)
    OBVIOUS
  <1>2. ASSUME NEW a \in Path, NEW b \in Path
        PROVE  a \o b \in Path /\ Len(a \o b) = Len(a) + Len(b)
    BY ConcatProperties DEF Path
  <1>3. ASSUME NEW a \in Path
        PROVE  a \o <<>> = a /\ <<>> \o a = a
    BY ConcatEmptySeq DEF Path
  <1>4. ASSUME NEW a \in Path, NEW b \in Path, NEW c \in Path
        PROVE  Regroup(a, b, c)
    BY ConcatAssociative DEF Path, Regroup
  <1>5. QED
    BY <1>1, <1>2, <1>3, <1>4, SlashType DEF Path

\* A sequence with one more member at its beginning, or at its end.
LEMMA WithHead ==
    ASSUME NEW S, NEW b \in S, NEW w \in Seq(S)
    PROVE  /\ <<b>> \o w \in Seq(S) /\ <<b>> \o w # <<>>
           /\ Head(<<b>> \o w) = b /\ Tail(<<b>> \o w) = w
  <1> DEFINE e == <<b>>
             u == e \o w
  <1>1. e \in Seq(S) /\ Len(e) = 1 /\ e[1] = b /\ Len(w) \in Nat
    OBVIOUS
  <1> HIDE DEF e
  <1>2. /\ u \in Seq(S) /\ Len(u) = Len(e) + Len(w)
        /\ \A i \in 1..Len(e) + Len(w) : u[i] = IF i <= Len(e) THEN e[i] ELSE w[i - Len(e)]
    BY <1>1, ConcatProperties
  <1> HIDE DEF u
  <1>3. Len(u) = 1 + Len(w) /\ u # <<>>
    BY <1>1, <1>2, EmptyLength
  <1>4. u[1] = b
    <2>1. 1 \in 1..Len(e) + Len(w) /\ 1 <= Len(e)
      BY <1>1
    <2>2. QED
      BY <1>1, <1>2, <2>1
  <1>5. /\ Head(u) = u[1] /\ Tail(u) \in Seq(S) /\ Len(Tail(u)) = Len(u) - 1
        /\ \A i \in 1..Len(u) - 1 : Tail(u)[i] = u[i + 1]
    BY <1>2, <1>3, HeadTail
  <1>6. ASSUME NEW i \in 1..Len(w)
        PROVE  Tail(u)[i] = w[i]
    <2>1. PICK j \in 1..Len(u) : j = i + 1
      <3>1. i + 1 \in 1..Len(u)
        BY <1>1, <1>3
      <3>2. QED
        BY <3>1
    <2>2. i \in 1..Len(u) - 1 /\ j - Len(e) = i /\ ~(j <= Len(e)) /\ j \in 1..Len(e) + Len(w)
      BY <1>1, <1>2, <1>3, <2>1
    <2>3. Tail(u)[i] = u[j] /\ u[j] = w[j - Len(e)]
      BY <1>2, <1>5, <2>1, <2>2
    <2>4. QED
      BY <2>2, <2>3
  <1>7. Tail(u) = w
    <2>1. Len(Tail(u)) = Len(w)
      BY <1>1, <1>3, <1>5
    <2>2. QED
      BY <1>5, <1>6, <2>1, SeqEqual
  <1>8. QED
    BY <1>2, <1>3, <1>4, <1>5, <1>7 DEF e, u

LEMMA WithLast ==
    ASSUME NEW S, NEW a \in Seq(S), NEW b \in S
    PROVE  /\ Append(a, b) = a \o <<b>> /\ a \o <<b>> \in Seq(S) /\ a \o <<b>> # <<>>
           /\ Front(a \o <<b>>) = a /\ Last(a \o <<b>>) = b
  <1> DEFINE u == Append(a, b)
  <1>1. u = a \o <<b>>
    BY AppendIsConcat
  <1>2. /\ u \in Seq(S) /\ Len(u) = Len(a) + 1 /\ Len(a) \in Nat /\ u[Len(a) + 1] = b
        /\ \A i \in 1..Len(a) : u[i] = a[i]
    BY AppendProperties
  <1> HIDE DEF u
  <1>3. u # <<>>
    BY <1>2, EmptyLength
  <1>4. Last(u) = b
    BY <1>2 DEF Last
  <1>5. Front(u) = a
    <2>1. /\ Front(u) \in Seq(S) /\ Len(Front(u)) = Len(u) - 1
          /\ \A i \in 1..Len(u) - 1 : Front(u)[i] = u[i]
      BY <1>2, <1>3, FrontLast
    <2>2. Len(Front(u)) = Len(a) /\ Len(u) - 1 = Len(a)
      BY <1>2, <2>1
    <2>3. \A i \in 1..Len(a) : Front(u)[i] = a[i]
      BY <1>2, <2>1, <2>2
    <2>4. QED
      BY <2>1, <2>2, <2>3, SeqEqual
  <1>6. QED
    BY <1>1, <1>2, <1>3, <1>4, <1>5 DEF u

LEMMA OneBefore ==
    /\ \A b \in Bytes, w \in Path :
          /\ <<b>> \o w \in Path /\ <<b>> \o w # <<>>
          /\ Head(<<b>> \o w) = b /\ Tail(<<b>> \o w) = w
    /\ \A b \in Byte, w \in Bytes :
          /\ <<b>> \o w \in Bytes /\ <<b>> \o w # <<>>
          /\ Head(<<b>> \o w) = b /\ Tail(<<b>> \o w) = w
  <1>1. ASSUME NEW b \in Bytes, NEW w \in Path
        PROVE  /\ <<b>> \o w \in Path /\ <<b>> \o w # <<>>
               /\ Head(<<b>> \o w) = b /\ Tail(<<b>> \o w) = w
    BY WithHead DEF Path
  <1>2. ASSUME NEW b \in Byte, NEW w \in Bytes
        PROVE  /\ <<b>> \o w \in Bytes /\ <<b>> \o w # <<>>
               /\ Head(<<b>> \o w) = b /\ Tail(<<b>> \o w) = w
    BY WithHead DEF Bytes
  <1>3. QED
    BY <1>1, <1>2

LEMMA OneMore ==
    /\ \A a \in Path, b \in Bytes :
          /\ Append(a, b) = a \o <<b>> /\ a \o <<b>> \in Path /\ a \o <<b>> # <<>>
          /\ Front(a \o <<b>>) = a /\ Last(a \o <<b>>) = b
    /\ \A a \in Bytes, b \in Byte :
          a \o <<b>> \in Bytes /\ a \o <<b>> # <<>> /\ Last(a \o <<b>>) = b
  <1>1. ASSUME NEW a \in Path, NEW b \in Bytes
        PROVE  /\ Append(a, b) = a \o <<b>> /\ a \o <<b>> \in Path /\ a \o <<b>> # <<>>
               /\ Front(a \o <<b>>) = a /\ Last(a \o <<b>>) = b
    BY WithLast DEF Path
  <1>2. ASSUME NEW a \in Bytes, NEW b \in Byte
        PROVE  a \o <<b>> \in Bytes /\ a \o <<b>> # <<>> /\ Last(a \o <<b>>) = b
    BY WithLast DEF Bytes
  <1>3. QED
    BY <1>1, <1>2

\* Whatever lies below another place lies in a directory.
LEMMA AboveIsDir ==
    ASSUME NEW x \in Path, NEW y \in Path, y # <<>>, x \o y \in DOMAIN Tree
    PROVE  x \in DOMAIN Tree /\ Tree[x].type = "dir"
  <1> DEFINE G == {t \in Path : t # <<>> /\ x \o t \in DOMAIN Tree
                                    => x \in DOMAIN Tree /\ Tree[x].type = "dir"}
             rank == [t \in Path |-> Len(t)]
  <1>1. rank \in [Path -> Nat]
    BY DEF Path
  <1>2. ASSUME NEW t \in Path, \A u \in Path : rank[u] < rank[t] => u \in G
        PROVE  t \in G
    <2>1. SUFFICES ASSUME t # <<>>, x \o t \in DOMAIN Tree
                   PROVE  x \in DOMAIN Tree /\ Tree[x].type = "dir"
      OBVIOUS
    <2>2. PICK f \in Path, e \in Bytes : t = f \o <<e>> /\ Len(f) < Len(t)
      <3>1. /\ Front(t) \in Path /\ Last(t) \in Bytes /\ Len(Front(t)) = Len(t) - 1
            /\ t = Append(Front(t), Last(t)) /\ Len(t) \in Nat
        BY <2>1, FrontLast DEF Path
      <3>2. Append(Front(t), Last(t)) = Front(t) \o <<Last(t)>>
        BY <3>1, OneMore
      <3>3. t = Front(t) \o <<Last(t)>> /\ Len(Front(t)) < Len(t)
        BY <3>1, <3>2
      <3>4. QED
        BY <3>1, <3>3
    <2>3. x \o t = (x \o f) \o <<e>> /\ x \o f \in Path
      <3>1. Regroup(x, f, <<e>>) /\ x \o f \in Path
        BY Paths
      <3>2. QED
        BY <2>2, <3>1 DEF Regroup
    <2>4. x \o t # <<>> /\ Front(x \o t) = x \o f
      BY <2>3, OneMore
    <2>5. x \o f \in DOMAIN Tree /\ Tree[x \o f].type = "dir"
      <3> DEFINE z == x \o t
      <3>1. z \in DOMAIN Tree /\ z # <<>> /\ Front(z) = x \o f
        BY <2>1, <2>4
      <3> HIDE DEF z
      <3>2. Front(z) \in DOMAIN Tree /\ Tree[Front(z)].type = "dir"
        BY <3>1, TreeAssumption
      <3>3. QED
        BY <3>1, <3>2
    <2>6. CASE f = <<>>
      <3>1. x \o f = x
        BY <2>6, Paths
      <3>2. QED
        BY <2>5, <3>1
    <2>7. CASE f # <<>>
      BY <1>2, <2>2, <2>5, <2>7
    <2>8. QED
      BY <2>6, <2>7
  <1>3. Path \subseteq G
    <2> HIDE DEF G, rank
    <2>1. QED
      BY <1>1, <1>2, RankInduction
  <1>4. QED
    BY <1>3

\* A place a lookup can be at: what it is a link to is looked up from there.
Solid(p) == p \in DOMAIN Tree /\ (p = <<>> \/ Tree[p].type # "link")

LEMMA WalkSolid ==
    ASSUME NEW s \in Lookup, Solid(s.at)
    PROVE  Solid(Walk[s].at)
  <1> DEFINE S == {t \in Lookup : Solid(t.at) => Solid(Walk[t].at)}
  <1>1. ASSUME NEW t \in Lookup, Over(t) \/ Onward(t) \in S
        PROVE  t \in S
    <2>1. SUFFICES ASSUME Solid(t.at)
                   PROVE  Solid(Walk[t].at)
      OBVIOUS
    <2>2. CASE Over(t)
      <3>1. \E is \in {"there", "missing", "loop"} : Walk[t] = [is |-> is, at |-> t.at]
        BY <2>2, WalkDef DEF Over
      <3>2. QED
        BY <2>1, <3>1
    <2>3. CASE ~Over(t)
      <3>1. Walk[t] = Walk[Onward(t)]
        BY <2>3, WalkDef DEF Over
      <3>2. Solid(Onward(t).at)
        <4>1. CASE AtLink(t)
          <5>1. Onward(t).at = <<>>
            BY <4>1 DEF Onward
          <5>2. QED
            BY <5>1, TreePaths DEF Solid
        <4>2. CASE ~AtLink(t)
          <5>1. Onward(t).at = Entered(t)
            BY <4>2 DEF Onward, Lookup
          <5>2. QED
            BY <2>3, <4>2, <5>1 DEF Solid, AtLink, Over, Missing
        <4>3. QED
          BY <4>1, <4>2
      <3>3. QED
        BY <1>1, <2>3, <3>1, <3>2
    <2>4. QED
      BY <2>2, <2>3
  <1>2. Lookup \subseteq S
    <2> HIDE DEF S
    <2>1. QED
      BY <1>1, LookupInduction
  <1>3. QED
    BY <1>2

\* The lookup of rest from at.
Ahead(at, rest, hops) == [at |-> at, rest |-> rest, hops |-> hops]

LEMMA AheadFacts ==
    ASSUME NEW at \in Path, NEW rest \in Path, NEW hops \in 0..MaxLinks
    PROVE  LET s == Ahead(at, rest, hops)
           IN  s \in Lookup /\ s.at = at /\ s.rest = rest /\ s.hops = hops
  BY DEF Ahead, Lookup

LEMMA RealIs ==
    ASSUME NEW path \in Path
    PROVE  /\ Real(path) = Walk[Ahead(<<>>, path, MaxLinks)]
           /\ Ahead(<<>>, path, MaxLinks) \in Lookup /\ Solid(Real(path).at)
  <1>1. <<>> \in Path /\ MaxLinks \in 0..MaxLinks
    BY Paths DEF MaxLinks
  <1>2. Real(path) = Walk[Ahead(<<>>, path, MaxLinks)]
    BY DEF Real, Ahead
  <1>3. Ahead(<<>>, path, MaxLinks) \in Lookup /\ Solid(Ahead(<<>>, path, MaxLinks).at)
    BY <1>1, AheadFacts, TreePaths DEF Solid
  <1>4. QED
    BY <1>2, <1>3, WalkSolid

\* A lookup whose elements are the names of the way to a place gets there.
LEMMA Straight ==
    ASSUME NEW r \in Path, NEW at \in Path, NEW m \in Path, NEW hops \in 0..MaxLinks,
           Solid(at \o r)
    PROVE  Walk[Ahead(at, r \o m, hops)] = Walk[Ahead(at \o r, m, hops)]
  <1> DEFINE G == {t \in Path : \A p \in Path : Solid(p \o t) =>
                      Walk[Ahead(p, t \o m, hops)] = Walk[Ahead(p \o t, m, hops)]}
  <1>1. <<>> \in G
    BY Paths
  <1>2. ASSUME NEW b \in Bytes, NEW t \in Path, t \in G
        PROVE  <<b>> \o t \in G
    <2>1. <<b>> \in Path /\ <<b>> \o t \in Path
      BY Paths
    <2>2. ASSUME NEW p \in Path, Solid(p \o (<<b>> \o t))
          PROVE  Walk[Ahead(p, (<<b>> \o t) \o m, hops)] = Walk[Ahead(p \o (<<b>> \o t), m, hops)]
      <3> DEFINE q == p \o <<b>>
                 s == Ahead(p, (<<b>> \o t) \o m, hops)
      <3>1. q \in Path /\ q \o t = p \o (<<b>> \o t) /\ q \o t \in Path
        <4>1. Regroup(p, <<b>>, t) /\ q \in Path
          BY <2>1, Paths
        <4>2. q \o t \in Path
          BY <4>1, Paths
        <4>3. QED
          BY <4>1, <4>2 DEF Regroup
      <3>2. q \o t \in DOMAIN Tree /\ Solid(q \o t)
        BY <2>2, <3>1 DEF Solid
      <3>3. /\ q = Append(p, b) /\ q # <<>> /\ Len(q) = Len(p) + 1 /\ Len(p) \in Nat
            /\ q[Len(p) + 1] = b
        <4>1. q = Append(p, b) /\ q # <<>>
          BY OneMore
        <4>2. Len(Append(p, b)) = Len(p) + 1 /\ Append(p, b)[Len(p) + 1] = b /\ Len(p) \in Nat
          BY AppendProperties DEF Path
        <4> HIDE DEF q
        <4>3. QED
          BY <4>1, <4>2
      <3>4. Solid(q) /\ q \in DOMAIN Tree
        <4>1. CASE t = <<>>
          <5>1. q \o t = q
            BY <3>1, <4>1, Paths
          <5>2. QED
            BY <3>2, <5>1 DEF Solid
        <4>2. CASE t # <<>>
          <5> HIDE DEF q
          <5>1. q \in DOMAIN Tree /\ Tree[q].type = "dir"
            BY <3>1, <3>2, <4>2, AboveIsDir
          <5>2. QED
            BY <5>1 DEF Solid
        <4>3. QED
          BY <4>1, <4>2
      <3>5. Tree[p].type = "dir"
        <4>1. <<b>> # <<>>
          OBVIOUS
        <4>2. QED
          BY <2>1, <3>4, <4>1, AboveIsDir
      <3>6. b \notin {<<>>, Here, Up}
        <4>1. Name(b)
          <5> HIDE DEF q
          <5>1. Len(p) + 1 \in 1..Len(q)
            BY <3>3
          <5>2. Name(q[Len(p) + 1])
            BY <3>4, <5>1, TreePaths
          <5>3. QED
            BY <3>3, <5>2
        <4>2. QED
          BY <4>1 DEF Name
      <3>7. /\ s.at = p /\ s.hops = hops /\ s \in Lookup /\ s.rest # <<>>
            /\ Head(s.rest) = b /\ Tail(s.rest) = t \o m /\ t \o m \in Path
        <4>1. Regroup(<<b>>, t, m) /\ t \o m \in Path
          BY <2>1, Paths
        <4>2. (<<b>> \o t) \o m = <<b>> \o (t \o m)
          BY <4>1 DEF Regroup
        <4> DEFINE w == t \o m
                   v == <<b>> \o w
        <4>3. v \in Path /\ v # <<>> /\ Head(v) = b /\ Tail(v) = w
          <5> HIDE DEF w
          <5>1. w \in Path
            BY <4>1 DEF w
          <5>2. QED
            BY <5>1, OneBefore
        <4>4. s = Ahead(p, v, hops)
          BY <4>2
        <4> HIDE DEF s, v, w
        <4>5. s.at = p /\ s.hops = hops /\ s.rest = v /\ s \in Lookup
          BY <4>3, <4>4, AheadFacts
        <4>6. QED
          BY <4>1, <4>3, <4>5 DEF w
      <3> HIDE DEF s
      <3>8. Entered(s) = q
        BY <3>3, <3>6, <3>7 DEF Entered, Enter
      <3> HIDE DEF q
      <3>9. ~AtLink(s) /\ ~Over(s)
        BY <3>3, <3>4, <3>5, <3>7, <3>8 DEF AtLink, Over, Missing, TooMany, Solid
      <3>10. Onward(s) = Ahead(q, t \o m, hops)
        <4>1. s = [at |-> s.at, rest |-> s.rest, hops |-> s.hops]
          BY <3>7 DEF Lookup
        <4>2. QED
          BY <3>7, <3>8, <3>9, <4>1 DEF Onward, Ahead
      <3>11. Walk[s] = Walk[Ahead(q, t \o m, hops)]
        BY <3>7, <3>9, <3>10, WalkDef DEF Over
      <3>12. Walk[Ahead(q, t \o m, hops)] = Walk[Ahead(q \o t, m, hops)]
        BY <1>2, <3>1, <3>2
      <3>13. QED
        BY <3>1, <3>11, <3>12 DEF s
    <2>3. QED
      BY <2>1, <2>2
  <1>3. Path \subseteq G
    <2>1. Seq(Bytes) \subseteq G
      <3>1. \A b \in Bytes : \A t \in Seq(Bytes) : t \in G => <<b>> \o t \in G
        BY <1>2 DEF Path
      <3> HIDE DEF G
      <3>2. QED
        BY <1>1, <3>1, SeqInduct
    <2>2. QED
      BY <2>1 DEF Path
  <1>4. QED
    BY <1>3

\* How a lookup ends that is over.
LEMMA WalkEnds ==
    ASSUME NEW s \in Lookup
    PROVE  /\ s.rest = <<>> => Walk[s] = [is |-> "there", at |-> s.at]
           /\ s.rest = <<>> => Walk[s].at = s.at
           /\ Walk[s].is = "there" => s.rest = <<>> \/ ~Over(s)
  <1>1. s.rest = <<>> => Walk[s] = [is |-> "there", at |-> s.at]
    BY WalkDef
  <1>2. s.rest # <<>> /\ Missing(s) => Walk[s] = [is |-> "missing", at |-> s.at]
    BY WalkDef
  <1>3. s.rest # <<>> /\ ~Missing(s) /\ TooMany(s) => Walk[s] = [is |-> "loop", at |-> s.at]
    BY WalkDef
  <1>4. QED
    BY <1>1, <1>2, <1>3 DEF Over

\* Empty elements and dots lead nowhere.
Idle == Seq({<<>>, Here})

LEMMA IdleFacts == Idle \subseteq Path /\ <<>> \in Idle /\ << <<>> >> \in Idle
                   /\ <<Here>> \in Idle /\ <<Here, <<>>>> \in Idle
  <1>1. {<<>>, Here} \subseteq Bytes
    BY Dots, SlashType
  <1>2. Idle \subseteq Path
    BY <1>1, SeqMonotonic DEF Idle, Path
  <1>3. QED
    BY <1>2 DEF Idle

LEMMA Idling ==
    ASSUME NEW p \in Path, p \in DOMAIN Tree, NEW hops \in 0..MaxLinks,
           NEW m \in Idle, m = <<>> \/ Tree[p].type = "dir"
    PROVE  Walk[Ahead(p, m, hops)] = [is |-> "there", at |-> p]
  <1> DEFINE There(t) == Walk[Ahead(p, t, hops)] = [is |-> "there", at |-> p]
             G == {t \in Idle : There(t)}
  <1>1. There(<<>>)
    <2> DEFINE s == Ahead(p, <<>>, hops)
    <2>1. s \in Lookup /\ s.at = p /\ s.rest = <<>>
      BY AheadFacts, Paths
    <2> HIDE DEF s
    <2>2. Walk[s] = [is |-> "there", at |-> s.at]
      BY <2>1, WalkEnds
    <2>3. QED
      BY <2>1, <2>2 DEF s
  <1>2. SUFFICES ASSUME Tree[p].type = "dir"
                 PROVE  There(m)
    BY <1>1
  <1>3. ASSUME NEW b \in {<<>>, Here}, NEW t \in Idle, t \in G
        PROVE  <<b>> \o t \in G
    <2>1. b \in Bytes /\ t \in Path
      BY IdleFacts, Dots, SlashType
    <2> DEFINE v == <<b>> \o t
               s == Ahead(p, v, hops)
    <2>2. v \in Path /\ v # <<>> /\ Head(v) = b /\ Tail(v) = t
      BY <2>1, OneBefore
    <2>3. v \in Idle
      <3>1. <<b>> \in Seq({<<>>, Here})
        OBVIOUS
      <3>2. QED
        BY <3>1, ConcatProperties DEF Idle
    <2> HIDE DEF v
    <2>4. s \in Lookup /\ s.at = p /\ s.rest = v /\ s.hops = hops
      BY <2>2, AheadFacts
    <2> HIDE DEF s
    <2>5. Entered(s) = p
      BY <2>2, <2>4 DEF Entered, Enter
    <2>6. ~AtLink(s) /\ ~Over(s)
      BY <1>2, <2>2, <2>4, <2>5 DEF AtLink, Over, Missing, TooMany
    <2>7. Onward(s) = Ahead(p, t, hops)
      <3>1. s = [at |-> s.at, rest |-> s.rest, hops |-> s.hops]
        BY <2>4 DEF Lookup
      <3>2. QED
        BY <2>2, <2>4, <2>5, <2>6, <3>1 DEF Onward, Ahead
    <2>8. Walk[s] = Walk[Ahead(p, t, hops)]
      BY <2>4, <2>6, <2>7, WalkDef DEF Over
    <2>9. There(v)
      BY <1>3, <2>8 DEF s
    <2>10. QED
      BY <2>3, <2>9 DEF v
  <1>4. <<>> \in G
    BY <1>1, IdleFacts
  <1>5. Seq({<<>>, Here}) \subseteq G
    <2>1. \A b \in {<<>>, Here} : \A t \in Seq({<<>>, Here}) : t \in G => <<b>> \o t \in G
      BY <1>3 DEF Idle
    <2> HIDE DEF G
    <2>2. QED
      BY <1>4, <2>1, SeqInduct
  <1>6. QED
    BY <1>5 DEF Idle

\* A place that is not a link is where its path leads.
LEMMA RealSolid ==
    ASSUME NEW p \in Path, Solid(p), NEW m \in Idle, m = <<>> \/ Tree[p].type = "dir"
    PROVE  Real(p \o m) = [is |-> "there", at |-> p]
  <1>1. m \in Path /\ <<>> \in Path /\ <<>> \o p = p /\ p \o m \in Path /\ MaxLinks \in 0..MaxLinks
    BY IdleFacts, Paths DEF MaxLinks
  <1>2. Real(p \o m) = Walk[Ahead(<<>>, p \o m, MaxLinks)]
    BY <1>1, RealIs
  <1>3. Walk[Ahead(<<>>, p \o m, MaxLinks)] = Walk[Ahead(<<>> \o p, m, MaxLinks)]
    <2> DEFINE at == <<>>
    <2>1. at \in Path /\ Solid(at \o p)
      BY <1>1
    <2> HIDE DEF at
    <2>2. Walk[Ahead(at, p \o m, MaxLinks)] = Walk[Ahead(at \o p, m, MaxLinks)]
      BY <1>1, <2>1, Straight
    <2>3. QED
      BY <2>2 DEF at
  <1>4. Walk[Ahead(p, m, MaxLinks)] = [is |-> "there", at |-> p]
    BY <1>1, Idling DEF Solid
  <1>5. QED
    BY <1>1, <1>2, <1>3, <1>4

\* A lookup that goes on after it has got somewhere.
GoesOn(s, m) ==
    \E h \in 0..MaxLinks :
        Walk[Ahead(s.at, s.rest \o m, s.hops)] = Walk[Ahead(Walk[s].at, m, h)]

LEMMA Continue ==
    ASSUME NEW s \in Lookup, Walk[s].is = "there", NEW m \in Path
    PROVE  GoesOn(s, m)
  <1> DEFINE S == {t \in Lookup : Walk[t].is = "there" => GoesOn(t, m)}
  <1>1. ASSUME NEW t \in Lookup, Over(t) \/ Onward(t) \in S
        PROVE  t \in S
    <2>1. SUFFICES ASSUME Walk[t].is = "there"
                   PROVE  GoesOn(t, m)
      OBVIOUS
    <2>2. t.at \in Path /\ t.rest \in Path /\ t.hops \in 0..MaxLinks
          /\ t = [at |-> t.at, rest |-> t.rest, hops |-> t.hops]
      BY DEF Lookup
    <2>3. CASE t.rest = <<>>
      <3>1. Walk[t].at = t.at
        BY <2>3, WalkEnds
      <3>2. t.rest \o m = m
        BY <2>3, Paths
      <3>3. QED
        BY <2>2, <3>1, <3>2 DEF GoesOn
    <2>4. CASE t.rest # <<>>
      <3>1. ~Over(t)
        BY <2>1, <2>4, WalkEnds
      <3> DEFINE u == Onward(t)
                 b == Head(t.rest)
                 r == Tail(t.rest)
                 x == r \o m
                 v == t.rest \o m
                 s2 == Ahead(t.at, v, t.hops)
      <3>2. Walk[t] = Walk[u] /\ u \in Lookup
        BY <3>1, WalkDef, OnwardType DEF Over
      <3>3. b \in Bytes /\ r \in Path /\ t.rest = <<b>> \o r
        <4>1. b \in Bytes /\ r \in Path
          BY <2>2, <2>4, HeadTail DEF Path
        <4>2. t.rest = <<b>> \o r
          BY <2>2, <2>4, HeadTailAppend, ConcatSimplifications DEF Path
        <4>3. QED
          BY <4>1, <4>2
      <3>4. v = <<b>> \o x /\ x \in Path
        <4>1. Regroup(<<b>>, r, m) /\ x \in Path
          BY <3>3, Paths
        <4>2. QED
          BY <3>3, <4>1 DEF Regroup
      <3>5. v \in Path /\ v # <<>> /\ Head(v) = b /\ Tail(v) = x
        <4> HIDE DEF x, v, b
        <4>1. QED
          BY <3>3, <3>4, OneBefore
      <3> HIDE DEF v
      <3>6. s2 \in Lookup /\ s2.at = t.at /\ s2.rest = v /\ s2.hops = t.hops
        BY <2>2, <3>5, AheadFacts
      <3> HIDE DEF s2
      <3>7. Entered(s2) = Entered(t)
        BY <3>5, <3>6 DEF Entered
      <3>8. (AtLink(s2) <=> AtLink(t)) /\ ~Over(s2)
        BY <2>2, <2>4, <3>1, <3>5, <3>6, <3>7 DEF AtLink, Over, Missing, TooMany
      <3>9. Onward(s2) = Ahead(u.at, u.rest \o m, u.hops)
        <4>1. CASE AtLink(t)
          <5> DEFINE to == Tree[Entered(t)].to
          <5>1. to \in Path
            BY <4>1, TreePaths DEF AtLink
          <5>2. u.at = <<>> /\ u.rest = to \o r /\ u.hops = t.hops - 1
            BY <4>1 DEF Onward
          <5>3. Onward(s2) = Ahead(<<>>, to \o x, t.hops - 1)
            BY <3>5, <3>6, <3>7, <3>8, <4>1 DEF Onward, Ahead
          <5>4. Regroup(to, r, m)
            <6> HIDE DEF to, r
            <6>1. QED
              BY <3>3, <5>1, Paths
          <5>5. QED
            BY <5>2, <5>3, <5>4 DEF Regroup
        <4>2. CASE ~AtLink(t)
          <5>1. u.at = Entered(t) /\ u.rest = r /\ u.hops = t.hops
            BY <2>2, <4>2 DEF Onward
          <5>2. s2 = [at |-> s2.at, rest |-> s2.rest, hops |-> s2.hops]
            BY <3>6 DEF Lookup
          <5>3. Onward(s2) = Ahead(Entered(t), x, t.hops)
            BY <3>5, <3>6, <3>7, <3>8, <4>2, <5>2 DEF Onward, Ahead
          <5>4. QED
            BY <5>1, <5>3
        <4>3. QED
          BY <4>1, <4>2
      <3>10. Walk[s2] = Walk[Ahead(u.at, u.rest \o m, u.hops)]
        BY <3>5, <3>6, <3>8, <3>9, WalkDef DEF Over
      <3>11. GoesOn(u, m)
        BY <1>1, <2>1, <3>1, <3>2
      <3>12. QED
        BY <3>2, <3>10, <3>11 DEF GoesOn, s2, v
    <2>5. QED
      BY <2>3, <2>4
  <1>2. Lookup \subseteq S
    <2> HIDE DEF S
    <2>1. QED
      BY <1>1, LookupInduction
  <1>3. QED
    BY <1>2

\* What a path with one more element leads to is in a directory.
LEMMA ParentIsDir ==
    ASSUME NEW f \in Path, NEW e \in Bytes, Real(f \o <<e>>).is = "there", Real(f).is = "there"
    PROVE  Tree[Real(f).at].type = "dir"
  <1> DEFINE s == Ahead(<<>>, f, MaxLinks)
             p == Real(f).at
  <1>1. s \in Lookup /\ s.at = <<>> /\ s.rest = f /\ s.hops = MaxLinks /\ Walk[s] = Real(f)
    <2>1. <<>> \in Path /\ MaxLinks \in 0..MaxLinks
      BY Paths DEF MaxLinks
    <2>2. s \in Lookup /\ s.at = <<>> /\ s.rest = f /\ s.hops = MaxLinks
      BY <2>1, AheadFacts
    <2>3. QED
      BY <2>2, RealIs
  <1>2. <<e>> \in Path /\ f \o <<e>> \in Path
    BY Paths
  <1>3. GoesOn(s, <<e>>)
    <2> HIDE DEF s
    <2>1. QED
      BY <1>1, <1>2, Continue
  <1>4. PICK h \in 0..MaxLinks :
            Walk[Ahead(<<>>, f \o <<e>>, MaxLinks)] = Walk[Ahead(p, <<e>>, h)]
    <2> HIDE DEF s
    <2>1. QED
      BY <1>1, <1>3 DEF GoesOn
  <1>5. p \in Path
    BY RealType, TreePaths DEF Found
  <1> DEFINE t == Ahead(p, <<e>>, h)
  <1> HIDE DEF p
  <1>6. t \in Lookup /\ t.at = p /\ t.rest = <<e>>
    BY <1>2, <1>5, AheadFacts
  <1>7. Walk[t].is = "there"
    BY <1>2, <1>4, RealIs
  <1> HIDE DEF t
  <1>8. ~Missing(t)
    <2>1. <<e>> # <<>>
      OBVIOUS
    <2>2. QED
      BY <1>6, <1>7, <2>1, WalkEnds DEF Over
  <1>9. QED
    BY <1>6, <1>8 DEF Missing, p

-----------------------------------------------------------------------------
(* What becomes of the bytes of a link.                                     *)

Clean == Byte \ {Hash, Question}
Written == [c \in Byte |-> IF c = Slash THEN <<Slash>> ELSE Encoded[c]]

LEMMA WrittenType == Written \in [Byte -> Seq(Clean)] /\ Written \in [Byte -> Seq(Byte)]
  <1>1. ASSUME NEW c \in Byte
        PROVE  Written[c] \in Seq(Clean) /\ Written[c] \in Seq(Byte)
    <2>1. Seq(Harmless) \subseteq Seq(Clean) /\ Seq(Clean) \subseteq Seq(Byte)
      BY SeqMonotonic DEF Harmless, Clean
    <2>2. CASE c = Slash
      <3>1. Slash \in Clean
        BY SemicolonType DEF Clean, Slash, Hash, Question
      <3>2. <<Slash>> \in Seq(Clean)
        BY <3>1
      <3>3. QED
        BY <2>1, <2>2, <3>2 DEF Written
    <2>3. CASE c # Slash
      <3>1. Encoded[c] \in Seq(Harmless)
        BY EncodedType
      <3>2. QED
        BY <2>1, <2>3, <3>1 DEF Written
    <2>4. QED
      BY <2>2, <2>3
  <1>2. QED
    BY <1>1 DEF Written

LEMMA Writes ==
    /\ Spread(Written, <<>>) = <<>> /\ \A b \in Byte : Spread(Written, <<b>>) = Written[b]
    /\ \A s, t \in Bytes : Spread(Written, s \o t) = Spread(Written, s) \o Spread(Written, t)
    /\ \A s \in Bytes : Spread(Written, s) \in Bytes
  BY WrittenType, BytesSpread

\* The ways to write a byte: as it is, or as an escape.
Writing(b, w) ==
    \/ w = <<b>> /\ b # Percent /\ b # Plus
    \/ w = <<Percent, kHex(b \div 16), kHex(b % 16)>>

\* Decoding takes back what encoding made of a byte.
LEMMA DecodeByte ==
    ASSUME NEW b \in Byte, NEW t \in Bytes, NEW w, Writing(b, w)
    PROVE  urlDecode[w \o t] = <<b>> \o urlDecode[t]
  <1>1. CASE w = <<b>> /\ b # Percent /\ b # Plus
    <2>1. w = <<b>> /\ b # Percent /\ b # Plus
      BY <1>1
    <2> DEFINE u == <<b>> \o t
    <2>2. u \in Bytes /\ u # <<>> /\ Head(u) = b /\ Tail(u) = t
      BY OneBefore
    <2> HIDE DEF u
    <2>3. u[1] = b /\ Drop(u, 1) = t
      <3>1. Head(u) = u[1] /\ Tail(u) = SubSeq(u, 2, Len(u))
        BY <2>2, HeadTail, TailIsSubSeq DEF Bytes
      <3>2. 1 + 1 = 2
        OBVIOUS
      <3>3. QED
        BY <2>2, <3>1, <3>2 DEF Drop
    <2>4. ~HasEscape(u)
      BY <2>1, <2>3 DEF HasEscape
    <2>5. urlDecode[u] = <<b>> \o urlDecode[t]
      BY <2>1, <2>2, <2>3, <2>4, DecodeDef
    <2>6. QED
      BY <2>1, <2>5 DEF u
  <1>2. CASE w = <<Percent, kHex(b \div 16), kHex(b % 16)>>
    <2> DEFINE h == kHex(b \div 16)
               l == kHex(b % 16)
               e == <<Percent, h, l>>
               u == e \o t
    <2>1. /\ h \in Harmless /\ l \in Harmless /\ h \in Byte /\ l \in Byte /\ Percent \in Byte
          /\ b \div 16 \in 0..15 /\ b % 16 \in 0..15
          /\ hexValue(h) = b \div 16 /\ hexValue(l) = b % 16
          /\ \A q, r \in Int : q = b \div 16 /\ r = b % 16 => 16 * q + r = b
      <3>1. /\ b \div 16 \in 0..15 /\ b % 16 \in 0..15
            /\ \A q, r \in Int : q = b \div 16 /\ r = b % 16 => 16 * q + r = b
            /\ h \in Harmless /\ l \in Harmless
            /\ hexValue(h) = b \div 16 /\ hexValue(l) = b % 16
        BY hexDigits
      <3>2. Percent \in Byte /\ Harmless \subseteq Byte
        BY DEF Percent, Byte, Harmless
      <3>3. QED
        BY <3>1, <3>2
    <2>2. w = e
      BY <1>2
    <2> HIDE DEF h, l
    <2>3. e \in Bytes /\ Len(e) = 3 /\ e[1] = Percent /\ e[2] = h /\ e[3] = l
      BY <2>1 DEF Bytes
    <2> HIDE DEF e
    <2>4. Beside(e, t, u)
      BY <2>3, Both
    <2> HIDE DEF u
    <2>5. /\ u \in Bytes /\ Len(u) = 3 + Len(t) /\ Len(t) \in Nat
          /\ u[1] = Percent /\ u[2] = h /\ u[3] = l
      <3>1. 1 \in 1..Len(e) /\ 2 \in 1..Len(e) /\ 3 \in 1..Len(e)
        BY <2>3
      <3>2. QED
        BY <2>3, <2>4, <3>1 DEF Beside
    <2>6. Drop(u, 3) = t
      <3> DEFINE d == Drop(u, 3)
      <3>1. d \in Bytes /\ Len(d) = Len(u) - 3 /\ \A i \in 1..Len(u) - 3 : d[i] = u[3 + i]
        <4>1. 3 \in 0..Len(u)
          BY <2>5
        <4>2. QED
          BY <2>5, <4>1, DropFacts
      <3> HIDE DEF d
      <3>2. Len(d) = Len(t) /\ Len(u) - 3 = Len(t)
        BY <2>5, <3>1
      <3>3. ASSUME NEW i \in 1..Len(t)
            PROVE  d[i] = t[i]
        <4>1. PICK j \in 1..Len(u) : j = 3 + i
          <5>1. 3 + i \in 1..Len(u)
            BY <2>5
          <5>2. QED
            BY <5>1
        <4>2. u[j] = t[i]
          BY <2>3, <2>4, <4>1 DEF Beside
        <4>3. d[i] = u[j]
          BY <3>1, <3>2, <4>1
        <4>4. QED
          BY <4>2, <4>3
      <3>4. d = t
        BY <3>1, <3>2, <3>3, SeqEqual DEF Bytes
      <3>5. QED
        BY <3>4 DEF d
    <2>7. HasEscape(u) /\ u # <<>>
      <3>1. Len(u) >= 3 /\ hexValue(h) >= 0 /\ hexValue(l) >= 0
        BY <2>1, <2>5
      <3>2. u # <<>>
        BY <2>5, EmptyLength DEF Bytes
      <3>3. QED
        BY <2>5, <3>1, <3>2 DEF HasEscape
    <2>8. urlDecode[u] = <<16 * hexValue(h) + hexValue(l)>> \o urlDecode[t]
      BY <2>5, <2>6, <2>7, DecodeDef
    <2>9. 16 * hexValue(h) + hexValue(l) = b
      <3> DEFINE q == b \div 16
                 r == b % 16
      <3>1. q \in Int /\ r \in Int /\ hexValue(h) = q /\ hexValue(l) = r
        BY <2>1
      <3>2. 16 * q + r = b
        BY <2>1, <3>1
      <3>3. QED
        BY <3>1, <3>2
    <2>10. QED
      BY <2>2, <2>8, <2>9 DEF u
  <1>3. QED
    BY <1>1, <1>2 DEF Writing

LEMMA DecodeEmpty == urlDecode[<<>>] = <<>>
  BY DecodeDef, SlashType

LEMMA DecodeSpread ==
    ASSUME NEW e \in [Byte -> Seq(Byte)], \A b \in Byte : Writing(b, e[b]), NEW s \in Bytes
    PROVE  urlDecode[Spread(e, s)] = s
  <1> DEFINE G == {t \in Bytes : urlDecode[Spread(e, t)] = t}
  <1>1. <<>> \in G
    BY BytesSpread, DecodeEmpty, SlashType
  <1>2. ASSUME NEW b \in Byte, NEW t \in Bytes, t \in G
        PROVE  <<b>> \o t \in G
    <2>1. <<b>> \in Bytes /\ <<b>> \o t \in Bytes
      BY OneByte, OneBefore
    <2>2. Spread(e, <<b>> \o t) = e[b] \o Spread(e, t)
      <3>1. Spread(e, <<b>> \o t) = Spread(e, <<b>>) \o Spread(e, t)
        BY <2>1, BytesSpread
      <3>2. Spread(e, <<b>>) = e[b]
        BY BytesSpread
      <3>3. QED
        BY <3>1, <3>2
    <2> DEFINE w == Spread(e, t)
    <2>3. w \in Bytes /\ urlDecode[w] = t
      BY <1>2, BytesSpread
    <2> HIDE DEF w
    <2>4. urlDecode[e[b] \o w] = <<b>> \o t
      BY <2>3, DecodeByte
    <2>5. QED
      BY <2>1, <2>2, <2>4 DEF w
  <1>3. Bytes \subseteq G
    <2>1. \A b \in Byte : \A t \in Seq(Byte) : t \in G => <<b>> \o t \in G
      BY <1>2 DEF Bytes
    <2> HIDE DEF G
    <2>2. Seq(Byte) \subseteq G
      BY <1>1, <2>1, SeqInduct
    <2>3. QED
      BY <2>2 DEF Bytes
  <1>4. QED
    BY <1>3

LEMMA Writings ==
    ASSUME NEW b \in Byte
    PROVE  Writing(b, Encoded[b]) /\ Writing(b, Written[b])
  <1>1. Unreserved(b) => b # Percent /\ b # Plus
    BY DEF Unreserved, Percent, Plus, Digit, Upper, Lower
  <1>2. Writing(b, Encoded[b])
    BY <1>1 DEF Writing, Encoded
  <1>3. CASE b = Slash
    BY <1>2, <1>3 DEF Writing, Written, Slash, Percent, Plus
  <1>4. CASE b # Slash
    BY <1>2, <1>4 DEF Written
  <1>5. QED
    BY <1>2, <1>3, <1>4

LEMMA DecodeWritten ==
    ASSUME NEW s \in Bytes
    PROVE  urlDecode[Spread(Written, s)] = s
  BY WrittenType, Writings, DecodeSpread

\* Decoding is the inverse of encoding, for every string of bytes
\* (StringUtils.hpp:45-103).
THEOREM EncodingIsUndone == \A s \in Bytes : urlDecode[urlEncodePathComponent(s)] = s
  <1>1. ASSUME NEW s \in Bytes
        PROVE  urlDecode[urlEncodePathComponent(s)] = s
    <2>1. Encoded \in [Byte -> Seq(Byte)]
      <3>1. Seq(Harmless) \subseteq Seq(Byte)
        BY SeqMonotonic DEF Harmless
      <3>2. QED
        BY <3>1, EncodedType
    <2>2. urlDecode[Spread(Encoded, s)] = s
      BY <2>1, Writings, DecodeSpread
    <2>3. QED
      BY <2>2, EncodeIs
  <1>2. QED
    BY <1>1

\* What contains neither a plus nor a percent sign stays as it is.
LEMMA DecodePlain ==
    ASSUME NEW s \in Seq(Byte \ {Plus, Percent})
    PROVE  urlDecode[s] = s
  <1> DEFINE K == Byte \ {Plus, Percent}
             G == {t \in Seq(K) : urlDecode[t] = t}
  <1>1. <<>> \in G
    BY DecodeEmpty
  <1>2. ASSUME NEW b \in K, NEW t \in Seq(K), t \in G
        PROVE  <<b>> \o t \in G
    <2>1. b \in Byte /\ b # Plus /\ b # Percent /\ t \in Bytes
      <3>1. t \in Bytes
        BY SeqMonotonic DEF Bytes
      <3>2. QED
        BY <3>1
    <2> DEFINE u == <<b>> \o t
    <2>2. u \in Bytes /\ u # <<>> /\ Head(u) = b /\ Tail(u) = t
      BY <2>1, OneBefore
    <2>3. u \in Seq(K)
      <3>1. <<b>> \in Seq(K)
        OBVIOUS
      <3> HIDE DEF K
      <3>2. QED
        BY <3>1, ConcatProperties
    <2> HIDE DEF u
    <2>4. u[1] = b /\ Drop(u, 1) = t
      <3>1. Head(u) = u[1] /\ Tail(u) = SubSeq(u, 2, Len(u))
        BY <2>2, HeadTail, TailIsSubSeq DEF Bytes
      <3>2. 1 + 1 = 2
        OBVIOUS
      <3>3. QED
        BY <2>2, <3>1, <3>2 DEF Drop
    <2>5. ~HasEscape(u)
      BY <2>1, <2>4 DEF HasEscape
    <2>6. urlDecode[u] = <<b>> \o urlDecode[t]
      BY <2>1, <2>2, <2>4, <2>5, DecodeDef
    <2>7. QED
      BY <1>2, <2>3, <2>6 DEF u
  <1>3. Seq(K) \subseteq G
    <2> HIDE DEF G, K
    <2>1. QED
      BY <1>1, <1>2, SeqInduct
  <1>4. QED
    BY <1>3

\* A URL that begins with a slash and has no query and no fragment.
LEMMA NormalUrl ==
    ASSUME NEW url \in Seq(Clean), url # <<>>, Head(url) = Slash
    PROVE  normalizeUrlPath_(url) = url /\ IsPrefix(<<Slash>>, url)
  <1>1. url \in Bytes /\ \A i \in 1..Len(url) : url[i] # Question /\ url[i] # Hash
    <2>1. url \in Bytes
      BY SeqMonotonic DEF Clean, Bytes
    <2>2. \A i \in 1..Len(url) : url[i] \in Clean
      BY ElementOfSeq
    <2>3. QED
      BY <2>1, <2>2 DEF Clean
  <1>2. \A c \in {Question, Hash} : Before(url, c) = url
    <2>1. ASSUME NEW c \in {Question, Hash}
          PROVE  Before(url, c) = url
      <3>1. Find(url, c) \in 0..Len(url) /\ (Find(url, c) # 0 => url[Find(url, c)] = c)
            /\ Len(url) \in Nat
        BY <1>1, FindFacts DEF Bytes
      <3>2. Find(url, c) = 0
        <4>1. Find(url, c) # 0 => Find(url, c) \in 1..Len(url)
          BY <3>1
        <4>2. QED
          BY <1>1, <3>1, <4>1
      <3>3. QED
        BY <3>2 DEF Before
    <2>2. QED
      BY <2>1
  <1>3. normalizeUrlPath_(url) = url
    BY <1>2 DEF normalizeUrlPath_
  <1>4. IsPrefix(<<Slash>>, url)
    <2> DEFINE e == <<Slash>>
    <2>1. e \in Bytes /\ Len(e) = 1 /\ e[1] = Slash
      BY OneByte, SemicolonType
    <2> HIDE DEF e
    <2>2. Len(url) \in Nat \ {0} /\ url[1] = Slash
      BY <1>1, HeadTail DEF Bytes
    <2>3. Len(e) <= Len(url) /\ \A i \in 1..Len(e) : e[i] = url[i]
      BY <2>1, <2>2
    <2>4. IsPrefix(e, url)
      BY <1>1, <2>1, <2>3, PrefixFacts DEF Bytes
    <2>5. QED
      BY <2>4 DEF e
  <1>5. QED
    BY <1>3, <1>4

\* An element of a path as it is in a URL: not empty, and without a slash.
Segment == {n \in Bytes : n # <<>> /\ \A k \in 1..Len(n) : n[k] # Slash}

LEMMA SegmentFacts ==
    /\ Seq(Segment) \subseteq Path /\ Here \in Segment
    /\ \A n : Name(n) => n \in Segment
  <1>1. Seq(Segment) \subseteq Path
    BY SeqMonotonic DEF Segment, Path
  <1>2. Here \in Segment
    <2>1. Here \in Bytes /\ Here # <<>> /\ \A k \in 1..Len(Here) : Here[k] # Slash
      BY Dots DEF Here, Dot, Slash
    <2>2. QED
      BY <2>1 DEF Segment
  <1>3. ASSUME NEW n, Name(n)
        PROVE  n \in Segment
    <2>1. DOMAIN n = 1..Len(n)
      BY <1>3, LenProperties DEF Name, Bytes
    <2>2. QED
      BY <1>3, <2>1 DEF Name, Segment
  <1>4. QED
    BY <1>1, <1>2, <1>3

\* Spreading a path over strings of bytes.
LEMMA PathSpread ==
    ASSUME NEW e \in [Bytes -> Seq(Byte)]
    PROVE  /\ Spread(e, <<>>) = <<>> /\ \A b \in Bytes : Spread(e, <<b>>) = e[b]
           /\ \A s, t \in Path : Spread(e, s \o t) = Spread(e, s) \o Spread(e, t)
  <1>1. Spreading(e, Bytes, Byte)
    BY Spreads, SlashType
  <1>2. QED
    BY <1>1 DEF Spreading, Path

LEMMA JoinedStep ==
    ASSUME NEW b \in Bytes, NEW t \in Path
    PROVE  /\ Joined(<<b>> \o t) = Joint[b] \o Joined(t)
           /\ Joined(<<>>) = <<>> /\ Joined(t) \in Bytes /\ Joint[b] \in Bytes
           /\ Joined(t \o <<b>>) = Joined(t) \o Joint[b]
  <1>1. Joint \in [Bytes -> Seq(Byte)] /\ <<b>> \in Path
    BY JointType, Paths
  <1>2. /\ Spread(Joint, <<b>>) = Joint[b] /\ Spread(Joint, <<>>) = <<>>
        /\ Spread(Joint, <<b>> \o t) = Spread(Joint, <<b>>) \o Spread(Joint, t)
        /\ Spread(Joint, t \o <<b>>) = Spread(Joint, t) \o Spread(Joint, <<b>>)
    BY <1>1, PathSpread
  <1>3. \A p \in Path : Joined(p) = Spread(Joint, p) /\ Joined(p) \in Bytes
    BY JoinedIs
  <1>4. <<b>> \o t \in Path /\ t \o <<b>> \in Path /\ <<>> \in Path
    BY Paths
  <1>5. Joint[b] \in Bytes
    BY JointType DEF Bytes
  <1>6. QED
    BY <1>2, <1>3, <1>4, <1>5

LEMMA SegmentJoint ==
    ASSUME NEW b \in Segment, NEW t \in Path
    PROVE  /\ Joined(<<b>> \o t) = (<<Slash>> \o b) \o Joined(t) /\ Joined(t) \in Bytes
           /\ Joined(t \o <<b>>) = Joined(t) \o (<<Slash>> \o b)
  <1>1. b \in Bytes /\ Joint[b] = <<Slash>> \o b
    BY DEF Segment, Joint
  <1>2. /\ Joined(<<b>> \o t) = Joint[b] \o Joined(t) /\ Joined(t) \in Bytes
        /\ Joined(t \o <<b>>) = Joined(t) \o Joint[b]
    BY <1>1, JoinedStep
  <1>3. QED
    BY <1>1, <1>2

\* A string of segments is cut at its slashes into these segments.
LEMMA PartsJoined ==
    ASSUME NEW segs \in Seq(Segment), NEW tail \in {<<>>, <<Slash>>}
    PROVE  Parts(Joined(segs) \o tail, Slash) = segs
  <1> DEFINE W(t) == Joined(t) \o tail
             Begins(z) == z = <<>> \/ Head(z) = Slash
             G == {t \in Seq(Segment) :
                      W(t) \in Bytes /\ Begins(W(t)) /\ Parts(W(t), Slash) = t}
  <1>1. tail \in Bytes /\ Begins(tail) /\ Parts(tail, Slash) = <<>>
    <2>1. CASE tail = <<>>
      BY <2>1, PartsEmpty, SlashType
    <2>2. CASE tail = <<Slash>>
      <3>1. <<Slash>> \o <<>> = <<Slash>> /\ <<Slash>> \in Bytes
        BY Associates, SlashType
      <3>2. Parts(<<Slash>> \o <<>>, Slash) = Parts(<<>>, Slash)
        BY PartsSkip, SemicolonType, SlashType
      <3>3. Head(<<Slash>>) = Slash
        BY OneByte, SemicolonType
      <3>4. QED
        BY <2>2, <3>1, <3>2, <3>3, PartsEmpty
    <2>3. QED
      BY <2>1, <2>2
  <1>2. <<>> \in G
    <2>1. Joined(<<>>) = <<>> /\ <<>> \o tail = tail
      BY <1>1, JoinedStep, Associates, SlashType
    <2>2. W(<<>>) = tail
      BY <2>1
    <2> HIDE DEF W, Begins
    <2>3. <<>> \in Seq(Segment)
      OBVIOUS
    <2>4. QED
      BY <1>1, <2>2, <2>3
  <1>3. ASSUME NEW b \in Segment, NEW t \in Seq(Segment), t \in G
        PROVE  <<b>> \o t \in G
    <2>1. b \in Bytes /\ b # <<>> /\ t \in Path /\ \A k \in 1..Len(b) : b[k] # Slash
      BY SegmentFacts DEF Segment
    <2> DEFINE z == W(t)
               y == b \o z
               j == Joined(t)
    <2>2. j \in Bytes /\ Joined(<<b>> \o t) = (<<Slash>> \o b) \o j
      BY <2>1, SegmentJoint
    <2>3. z \in Bytes /\ Begins(z) /\ Parts(z, Slash) = t
      BY <1>3
    <2> HIDE DEF j
    <2>4. y \in Bytes
      <3> HIDE DEF z
      <3>1. QED
        BY <2>1, <2>3, Associates
    <2>5. W(<<b>> \o t) = <<Slash>> \o y
      <3>1. <<Slash>> \in Bytes /\ <<Slash>> \o b \in Bytes
        BY <2>1, SlashType, Associates
      <3>2. Regroup(<<Slash>> \o b, j, tail) /\ Regroup(<<Slash>>, b, j \o tail) /\ j \o tail = z
        <4>1. j \o tail \in Bytes
          BY <1>1, <2>2, Associates
        <4>2. QED
          BY <1>1, <2>1, <2>2, <3>1, <4>1, Associates DEF j
      <3> HIDE DEF z
      <3>3. W(<<b>> \o t) = ((<<Slash>> \o b) \o j) \o tail
        BY <2>2
      <3>4. QED
        BY <3>2, <3>3 DEF Regroup
    <2>6. Parts(<<Slash>> \o y, Slash) = <<b>> \o t
      <3>1. Parts(<<Slash>> \o y, Slash) = Parts(y, Slash)
        <4> HIDE DEF y
        <4>1. QED
          BY <2>4, PartsSkip, SemicolonType
      <3>2. Parts(y, Slash) = <<b>> \o Parts(z, Slash)
        <4> HIDE DEF z
        <4>1. QED
          BY <2>1, <2>3, PartsFirst
      <3>3. QED
        BY <2>3, <3>1, <3>2
    <2>7. <<Slash>> \o y \in Bytes /\ Head(<<Slash>> \o y) = Slash
      <3> HIDE DEF y
      <3>1. QED
        BY <2>4, OneBefore, SemicolonType
    <2>8. <<b>> \o t \in Seq(Segment)
      <3>1. <<b>> \in Seq(Segment)
        OBVIOUS
      <3>2. QED
        BY <3>1, ConcatProperties
    <2> HIDE DEF y, W
    <2>9. QED
      BY <2>5, <2>6, <2>7, <2>8
  <1>4. Seq(Segment) \subseteq G
    <2> HIDE DEF G
    <2>1. QED
      BY <1>2, <1>3, SeqInduct
  <1>5. QED
    BY <1>4

LEMMA ElementsJoined ==
    ASSUME NEW segs \in Seq(Segment), NEW tail \in {<<>>, <<Slash>>}, segs # <<>> \/ tail # <<>>
    PROVE  Elements(Joined(segs) \o tail) = segs \o (IF tail = <<>> THEN <<>> ELSE << <<>> >>)
  <1> DEFINE p == Joined(segs) \o tail
             j == Joined(segs)
  <1>1. Parts(p, Slash) = segs
    BY PartsJoined
  <1>2. j \in Bytes /\ segs \in Path
    BY SegmentFacts, JoinedIs
  <1>3. CASE tail = <<Slash>>
    <2>1. p # <<>> /\ Last(p) = Slash
      <3> HIDE DEF j
      <3>1. p = j \o <<Slash>>
        BY <1>3 DEF j
      <3>2. QED
        BY <1>2, <3>1, OneMore, SemicolonType
    <2>2. tail # <<>>
      BY <1>3
    <2> HIDE DEF p
    <2>3. QED
      BY <1>1, <2>1, <2>2 DEF Elements, p
  <1>4. CASE tail = <<>>
    <2>1. p = j
      BY <1>2, <1>4, Associates
    <2>2. PICK f \in Path, n \in Segment : segs = f \o <<n>>
      <3>1. /\ Front(segs) \in Seq(Segment) /\ Last(segs) \in Segment
            /\ segs = Append(Front(segs), Last(segs))
        BY <1>4, FrontLast
      <3>2. Front(segs) \in Path /\ Last(segs) \in Bytes
        BY <3>1, SegmentFacts DEF Segment
      <3>3. Append(Front(segs), Last(segs)) = Front(segs) \o <<Last(segs)>>
        BY <3>2, OneMore
      <3>4. QED
        BY <3>1, <3>2, <3>3
    <2>3. n \in Bytes /\ n # <<>> /\ \A k \in 1..Len(n) : n[k] # Slash
      BY DEF Segment
    <2>4. PICK m \in Bytes, c \in Byte : n = m \o <<c>> /\ c # Slash
      <3>1. /\ Front(n) \in Bytes /\ Last(n) \in Byte /\ n = Append(Front(n), Last(n))
            /\ Len(n) \in Nat \ {0}
        BY <2>3, FrontLast DEF Bytes
      <3>2. Append(Front(n), Last(n)) = Front(n) \o <<Last(n)>>
        BY <3>1, AppendIsConcat DEF Bytes
      <3>3. Last(n) # Slash
        <4>1. Len(n) \in 1..Len(n)
          BY <3>1
        <4>2. QED
          BY <2>3, <4>1 DEF Last
      <3>4. QED
        BY <3>1, <3>2, <3>3
    <2> DEFINE g == Joined(f)
               x == <<Slash>> \o m
               w == g \o x
    <2>5. g \in Bytes /\ j = g \o (<<Slash>> \o n)
      BY <2>2, SegmentJoint
    <2> HIDE DEF g, j
    <2>6. x \in Bytes /\ w \in Bytes /\ <<c>> \in Bytes /\ <<Slash>> \in Bytes
      BY <2>4, <2>5, Associates, SlashType, OneByte
    <2>7. Regroup(<<Slash>>, m, <<c>>) /\ Regroup(g, x, <<c>>)
      <3> HIDE DEF x
      <3>1. QED
        BY <2>4, <2>5, <2>6, Associates
    <2>8. j = w \o <<c>>
      BY <2>4, <2>5, <2>7 DEF Regroup
    <2> HIDE DEF w
    <2>9. Last(j) # Slash
      BY <2>4, <2>6, <2>8, OneMore
    <2>10. segs \o <<>> = segs
      BY <1>2, Paths
    <2> HIDE DEF p
    <2>11. QED
      BY <1>1, <1>4, <2>1, <2>9, <2>10 DEF Elements, p
  <1>5. QED
    BY <1>3, <1>4

-----------------------------------------------------------------------------
(* What the way of a place becomes in a link, and back.                     *)

Encodes == [n \in Bytes |-> urlEncodePathComponent(n)]

LEMMA WrittenSegment ==
    ASSUME NEW b \in Segment
    PROVE  /\ Encodes[b] = Spread(Written, b)
           /\ Encodes[b] \in Bytes /\ Encodes[b] # <<>>
  <1>1. b \in Bytes /\ b # <<>> /\ \A k \in 1..Len(b) : b[k] # Slash
    BY DEF Segment
  <1>2. DOMAIN b = 1..Len(b) /\ \A k \in 1..Len(b) : b[k] \in Byte
    BY <1>1, LenProperties, ElementOfSeq DEF Bytes
  <1>3. Replaced(Encoded, b) = Replaced(Written, b)
    BY <1>1, <1>2 DEF Replaced, Written
  <1>4. Encodes[b] = Spread(Encoded, b)
    BY <1>1, EncodeIs DEF Encodes
  <1>5. Encodes[b] = Spread(Written, b)
    BY <1>3, <1>4 DEF Spread
  <1>6. Spread(Written, b) # <<>>
    BY <1>1, DecodeWritten, DecodeEmpty
  <1>7. QED
    BY <1>1, <1>5, <1>6, Writes

LEMMA EncodedStep ==
    ASSUME NEW b \in Segment, NEW t \in Seq(Segment)
    PROVE  /\ Replaced(Encodes, <<b>> \o t) = <<Encodes[b]>> \o Replaced(Encodes, t)
           /\ Replaced(Encodes, t) \in Path /\ Replaced(Encodes, <<>>) = <<>>
  <1> DEFINE S == Segment
             T == Bytes
             d == [n \in S |-> Encodes[n]]
  <1>1. d \in [S -> T]
    BY WrittenSegment
  <1>2. \A q \in Seq(S) : Replaced(d, q) = Replaced(Encodes, q)
    <2>1. ASSUME NEW q \in Seq(S)
          PROVE  Replaced(d, q) = Replaced(Encodes, q)
      <3>1. \A i \in DOMAIN q : q[i] \in S
        BY LenProperties, ElementOfSeq
      <3>2. QED
        BY <3>1 DEF Replaced
    <2>2. QED
      BY <2>1
  <1>3. d[b] = Encodes[b]
    OBVIOUS
  <1> HIDE DEF d, S, T
  <1>4. b \in S /\ t \in Seq(S) /\ <<b>> \in Seq(S) /\ <<>> \in Seq(S)
    BY DEF S
  <1>5. <<b>> \o t \in Seq(S)
    BY <1>4, WithHead
  <1>6. Replaced(d, <<b>> \o t) = Replaced(d, <<b>>) \o Replaced(d, t)
    <2>1. ASSUME NEW p \in Seq(S), NEW q \in Seq(S)
          PROVE  Replaced(d, p \o q) = Replaced(d, p) \o Replaced(d, q)
      BY ReplacedConcat
    <2>2. QED
      BY <1>4, <2>1
  <1>7. Replaced(d, <<b>>) = <<d[b]>>
    <2> DEFINE m == Replaced(d, <<b>>)
               e == <<b>>
    <2>1. m \in Seq(T) /\ Len(m) = Len(e) /\ \A i \in 1..Len(e) : m[i] = d[e[i]]
      BY <1>1, <1>4, MappedType, MappedFacts
    <2>2. Len(e) = 1 /\ e[1] = b /\ 1 \in 1..1
      OBVIOUS
    <2> HIDE DEF m, e
    <2>3. m \in Seq(T) /\ Len(m) = 1 /\ m[1] = d[b]
      BY <2>1, <2>2
    <2>4. d[b] \in T
      BY <1>1, <1>4
    <2>5. <<d[b]>> \in Seq(T) /\ Len(<<d[b]>>) = 1 /\ <<d[b]>>[1] = d[b]
      BY <2>4
    <2>6. \A i \in 1..Len(m) : m[i] = <<d[b]>>[i]
      BY <2>3, <2>5
    <2>7. m = <<d[b]>>
      BY <2>3, <2>5, <2>6, SeqEqual
    <2>8. QED
      BY <2>7 DEF m
  <1>8. Replaced(d, t) \in Seq(T)
    BY <1>1, <1>4, MappedType
  <1>9. Replaced(Encodes, <<>>) = <<>>
    BY DEF Replaced
  <1>10. QED
    BY <1>2, <1>3, <1>4, <1>5, <1>6, <1>7, <1>8, <1>9 DEF T, Path

\* Encoding the segments and putting them together is putting them together
\* and writing every byte but the slashes in code.
LEMMA EncodedJoined ==
    ASSUME NEW segs \in Seq(Segment)
    PROVE  Joined(Replaced(Encodes, segs)) = Spread(Written, Joined(segs))
  <1> DEFINE E(t) == Replaced(Encodes, t)
             G == {t \in Seq(Segment) : Joined(E(t)) = Spread(Written, Joined(t))}
  <1>1. <<>> \in G
    <2>1. E(<<>>) = <<>>
      BY DEF Replaced
    <2>2. Joined(<<>>) = <<>>
      BY JoinedStep, SlashType
    <2>3. Spread(Written, <<>>) = <<>>
      BY Writes
    <2> HIDE DEF E
    <2>4. <<>> \in Seq(Segment)
      OBVIOUS
    <2>5. QED
      BY <2>1, <2>2, <2>3, <2>4
  <1>2. ASSUME NEW b \in Segment, NEW t \in Seq(Segment), t \in G
        PROVE  <<b>> \o t \in G
    <2> DEFINE u == <<b>> \o t
               c == Encodes[b]
               r == E(t)
               j == Joined(t)
    <2>1. b \in Bytes /\ t \in Path /\ c \in Bytes /\ c # <<>> /\ c = Spread(Written, b)
      BY WrittenSegment, SegmentFacts DEF Segment
    <2>2. E(u) = <<c>> \o r /\ r \in Path
      BY EncodedStep
    <2>3. Joined(E(u)) = (<<Slash>> \o c) \o Joined(r)
      <3> HIDE DEF c, r, u
      <3>1. Joined(<<c>> \o r) = Joint[c] \o Joined(r)
        BY <2>1, <2>2, JoinedStep
      <3>2. Joint[c] = <<Slash>> \o c
        BY <2>1 DEF Joint
      <3>3. QED
        BY <2>2, <3>1, <3>2
    <2>4. Joined(u) = (<<Slash>> \o b) \o j /\ j \in Bytes
      <3>1. Joined(<<b>> \o t) = (<<Slash>> \o b) \o Joined(t) /\ Joined(t) \in Bytes
        BY <2>1, SegmentJoint
      <3>2. QED
        BY <3>1
    <2>5. Spread(Written, Joined(u)) = (Spread(Written, <<Slash>>) \o Spread(Written, b))
                                       \o Spread(Written, j)
      <3> HIDE DEF u, j
      <3> DEFINE x == <<Slash>> \o b
      <3>1. <<Slash>> \in Bytes /\ x \in Bytes
        BY <2>1, SlashType, Associates
      <3>2. Spread(Written, x) = Spread(Written, <<Slash>>) \o Spread(Written, b)
        BY <2>1, <3>1, Writes
      <3>3. Joined(u) = x \o j
        BY <2>4
      <3> HIDE DEF x
      <3>4. Spread(Written, x \o j) = Spread(Written, x) \o Spread(Written, j)
        BY <2>4, <3>1, Writes
      <3>5. QED
        BY <3>2, <3>3, <3>4
    <2>6. Spread(Written, <<Slash>>) = <<Slash>>
      BY Writes, SemicolonType DEF Written
    <2>7. Joined(r) = Spread(Written, j)
      BY <1>2
    <2>8. u \in Seq(Segment)
      BY WithHead
    <2> HIDE DEF E, u, c, j, r
    <2>9. Joined(E(u)) = Spread(Written, Joined(u))
      BY <2>1, <2>3, <2>5, <2>6, <2>7
    <2>10. u \in G
      BY <2>8, <2>9
    <2>11. QED
      BY <2>10 DEF u
  <1>3. Seq(Segment) \subseteq G
    <2> HIDE DEF G
    <2>1. QED
      BY <1>1, <1>2, SeqInduct
  <1>4. QED
    BY <1>3

\* A way begins with a slash.
LEMMA WayBegins ==
    ASSUME NEW segs \in Seq(Segment), NEW tail \in {<<>>, <<Slash>>}, segs # <<>> \/ tail # <<>>
    PROVE  /\ Joined(segs) \o tail \in Bytes
           /\ \E t \in Bytes : Joined(segs) \o tail = <<Slash>> \o t
  <1>1. tail \in Bytes /\ segs \in Path
    BY SlashType, SegmentFacts
  <1>2. Joined(segs) \in Bytes
    BY <1>1, JoinedIs
  <1>3. Joined(segs) \o tail \in Bytes
    BY <1>1, <1>2, Associates
  <1>4. CASE segs = <<>>
    <2>1. Joined(segs) = <<>> /\ tail = <<Slash>>
      BY <1>4, JoinedStep, SlashType
    <2>2. <<>> \o tail = tail /\ <<Slash>> \o <<>> = <<Slash>>
      BY <1>1, Associates, SlashType
    <2>3. QED
      BY <1>3, <2>1, <2>2, SlashType
  <1>5. CASE segs # <<>>
    <2> DEFINE b == Head(segs)
               t == Tail(segs)
    <2>1. b \in Segment /\ t \in Seq(Segment) /\ segs = <<b>> \o t
      <3>1. b \in Segment /\ t \in Seq(Segment)
        BY <1>5, HeadTail
      <3>2. segs = <<b>> \o t
        BY <1>5, HeadTailAppend, ConcatSimplifications
      <3>3. QED
        BY <3>1, <3>2
    <2> HIDE DEF b, t
    <2> DEFINE j == Joined(t)
               x == j \o tail
    <2>2. b \in Bytes /\ t \in Path
      BY <2>1, SegmentFacts DEF Segment
    <2>3. Joined(segs) = (<<Slash>> \o b) \o j /\ j \in Bytes
      BY <2>1, <2>2, SegmentJoint
    <2> HIDE DEF j
    <2>4. x \in Bytes /\ b \o x \in Bytes /\ <<Slash>> \in Bytes /\ <<Slash>> \o b \in Bytes
      <3>1. x \in Bytes
        BY <1>1, <2>3, Associates
      <3> HIDE DEF x
      <3>2. QED
        BY <2>2, <3>1, Associates, SlashType
    <2>5. Regroup(<<Slash>> \o b, j, tail) /\ Regroup(<<Slash>>, b, x)
      <3> HIDE DEF x
      <3>1. QED
        BY <1>1, <2>2, <2>3, <2>4, Associates
    <2>6. Joined(segs) \o tail = <<Slash>> \o (b \o x)
      BY <2>3, <2>5 DEF Regroup
    <2>7. QED
      BY <1>3, <2>4, <2>6
  <1>6. QED
    BY <1>4, <1>5

\* What the handler and the router make of the URL of a way.
Leads(url, segs, tail) ==
    /\ url \in Bytes /\ IsPrefix(Prefix, url) /\ normalizeUrlPath_(url) = url
    /\ Elements(urlDecode[url]) = segs \o (IF tail = <<>> THEN <<>> ELSE << <<>> >>)

LEMMA CleanFacts == Slash \in Clean /\ Seq(Clean) \subseteq Bytes
  <1>1. Seq(Clean) \subseteq Bytes
    BY SeqMonotonic DEF Clean, Bytes
  <1>2. QED
    BY <1>1, SemicolonType DEF Clean, Slash, Hash, Question

\* The encoded segments of a way are cut and decoded to these segments.
LEMMA EncodedLeads ==
    ASSUME NEW segs \in Seq(Segment), segs # <<>>, NEW tail \in {<<>>, <<Slash>>}
    PROVE  Leads(Joined(Replaced(Encodes, segs)) \o tail, segs, tail)
  <1> DEFINE way == Joined(segs) \o tail
             url == Joined(Replaced(Encodes, segs)) \o tail
  <1>1. Joined(segs) \in Bytes /\ tail \in Bytes
    BY SegmentFacts, JoinedIs, SlashType
  <1>2. way \in Bytes /\ \E t \in Bytes : way = <<Slash>> \o t
    BY WayBegins
  <1>3. Elements(way) = segs \o (IF tail = <<>> THEN <<>> ELSE << <<>> >>)
    BY ElementsJoined
  <1>4. url = Spread(Written, way)
    <2> DEFINE j == Joined(segs)
    <2>1. url = Spread(Written, j) \o tail
      BY EncodedJoined
    <2>2. Spread(Written, tail) = tail
      <3>1. CASE tail = <<>>
        BY <3>1, Writes
      <3>2. CASE tail = <<Slash>>
        BY <3>2, Writes, SemicolonType DEF Written
      <3>3. QED
        BY <3>1, <3>2
    <2>3. way = j \o tail /\ j \in Bytes
      BY <1>1
    <2> HIDE DEF way, url, j
    <2>4. Spread(Written, j \o tail) = Spread(Written, j) \o Spread(Written, tail)
      BY <1>1, <2>3, Writes
    <2>5. QED
      BY <2>1, <2>2, <2>3, <2>4
  <1> HIDE DEF way, url
  <1>5. url \in Seq(Clean)
    <2> DEFINE K == Clean
    <2>1. Written \in [Byte -> Seq(K)] /\ way \in Seq(Byte)
      BY <1>2, WrittenType DEF Bytes
    <2> HIDE DEF K
    <2>2. Spread(Written, way) \in Seq(K)
      BY <2>1, SpreadType
    <2>3. QED
      BY <1>4, <2>2 DEF K
  <1>6. url # <<>> /\ Head(url) = Slash
    <2>1. PICK t \in Bytes : way = <<Slash>> \o t
      BY <1>2
    <2>2. Spread(Written, <<Slash>> \o t) = Spread(Written, <<Slash>>) \o Spread(Written, t)
      BY SlashType, Writes
    <2>3. Spread(Written, <<Slash>>) = <<Slash>> /\ Spread(Written, t) \in Bytes
      BY Writes, SemicolonType DEF Written
    <2> DEFINE r == Spread(Written, t)
    <2>4. r \in Bytes /\ url = <<Slash>> \o r
      BY <1>4, <2>1, <2>2, <2>3
    <2> HIDE DEF r
    <2>5. QED
      BY <2>4, OneBefore, SemicolonType
  <1>7. urlDecode[url] = way
    BY <1>2, <1>4, DecodeWritten
  <1>8. normalizeUrlPath_(url) = url /\ IsPrefix(<<Slash>>, url) /\ url \in Bytes
    BY <1>5, <1>6, NormalUrl, CleanFacts
  <1>9. QED
    BY <1>3, <1>7, <1>8 DEF Leads, Prefix, url

\* So are segments that are not encoded, if they do without special bytes.
LEMMA PlainLeads ==
    ASSUME NEW segs \in Seq(Segment), Plain(segs)
    PROVE  Leads(Joined(segs) \o <<Slash>>, segs, <<Slash>>)
  <1> DEFINE K == Byte \ {Plus, Percent, Hash, Question}
             j == Joined(segs)
             url == j \o <<Slash>>
             n == Len(segs)
             m == [i \in 1..n |-> IF segs[i] = <<>> THEN <<>> ELSE <<Slash>> \o segs[i]]
  <1>1. n \in Nat /\ DOMAIN segs = 1..n /\ \A i \in 1..n : segs[i] \in Bytes
    <2>1. \A i \in 1..Len(segs) : segs[i] \in Segment
      BY ElementOfSeq
    <2>2. QED
      BY <2>1, LenProperties DEF Segment
  <1>2. Slash \in K /\ <<Slash>> \in Seq(K) /\ <<>> \in Seq(K)
    <2>1. Slash \in K
      BY SemicolonType DEF Slash, Plus, Percent, Hash, Question
    <2>2. QED
      BY <2>1
  <1>3. ASSUME NEW i \in 1..n
        PROVE  (IF segs[i] = <<>> THEN <<>> ELSE <<Slash>> \o segs[i]) \in Seq(K)
    <2>1. /\ segs[i] \in Bytes /\ DOMAIN segs[i] = 1..Len(segs[i])
          /\ \A k \in 1..Len(segs[i]) : segs[i][k] \in Byte
      BY <1>1, LenProperties, ElementOfSeq DEF Bytes
    <2>2. \A k \in 1..Len(segs[i]) : segs[i][k] \in K
      BY <1>1, <2>1 DEF Plain
    <2>3. segs[i] \in Seq(K)
      BY <2>1, <2>2, IsASeq DEF Bytes
    <2> HIDE DEF K
    <2>4. <<Slash>> \o segs[i] \in Seq(K)
      BY <1>2, <2>3, ConcatProperties
    <2>5. QED
      BY <1>2, <2>4
  <1>4. j \in Seq(K)
    <2>1. j = FlattenSeq(m)
      BY <1>1 DEF Joined
    <2> HIDE DEF K, n
    <2>2. m \in Seq(Seq(K))
      BY <1>1, <1>3
    <2> HIDE DEF m, j
    <2>3. FlattenSeq(m) \in Seq(K)
      BY <2>2, FlattenType
    <2>4. QED
      BY <2>1, <2>3
  <1>5. url \in Seq(K)
    <2> HIDE DEF K, j
    <2>1. QED
      BY <1>2, <1>4, ConcatProperties
  <1>6. url \in Bytes /\ \E t \in Bytes : url = <<Slash>> \o t
    BY WayBegins
  <1>7. Elements(url) = segs \o << <<>> >>
    <2>1. <<Slash>> # <<>>
      OBVIOUS
    <2>2. QED
      BY <2>1, ElementsJoined
  <1> HIDE DEF url
  <1>8. url # <<>> /\ Head(url) = Slash
    BY <1>6, OneBefore, SemicolonType
  <1>9. url \in Seq(Clean) /\ url \in Seq(Byte \ {Plus, Percent})
    <2>1. Seq(K) \subseteq Seq(Clean) /\ Seq(K) \subseteq Seq(Byte \ {Plus, Percent})
      BY SeqMonotonic DEF Clean
    <2>2. QED
      BY <1>5, <2>1
  <1>10. urlDecode[url] = url
    BY <1>9, DecodePlain
  <1>11. normalizeUrlPath_(url) = url /\ IsPrefix(<<Slash>>, url)
    BY <1>8, <1>9, NormalUrl
  <1>12. <<Slash>> # <<>>
    OBVIOUS
  <1>13. QED
    BY <1>6, <1>7, <1>10, <1>11, <1>12 DEF Leads, Prefix, url

-----------------------------------------------------------------------------
(* Following a link.                                                        *)

\* A place below the root is reached by the names that lead to it from there.
LEMMA BelowRoot ==
    ASSUME NEW at \in DOMAIN Tree, IsPrefix(root_, at), at # root_
    PROVE  LET below == lexically_relative(at, root_)
           IN  /\ below \in Seq(Segment) /\ below # <<>> /\ below # <<Here>>
               /\ root_ \o below = at
               /\ Plain(at) => Plain(below)
  <1> DEFINE below == lexically_relative(at, root_)
             r == Len(root_)
  <1>1. at \in Path /\ root_ \in Path /\ r \in Nat /\ Len(at) \in Nat
    BY TreePaths, RootType DEF Path
  <1>2. below \in Path /\ below # <<>> /\ below = SubSeq(at, r + 1, Len(at)) /\ r < Len(at)
    BY <1>1, RelativeFacts
  <1>3. /\ Len(below) = Len(at) - r
        /\ \A i \in 1..Len(at) - r : below[i] = at[r + i]
    <2> HIDE DEF r, below
    <2>1. r + 1 \in Nat \ {0} /\ Len(at) \in 0..Len(at) /\ r + 1 <= Len(at)
          /\ Len(at) - (r + 1) + 1 = Len(at) - r
      BY <1>1, <1>2
    <2>2. /\ Len(below) = Len(at) - (r + 1) + 1
          /\ \A i \in 1..Len(at) - (r + 1) + 1 : below[i] = at[r + 1 + i - 1]
      BY <1>1, <1>2, <2>1, PartOf DEF Path
    <2>3. ASSUME NEW i \in 1..Len(at) - r
          PROVE  below[i] = at[r + i]
      <3>1. r + 1 + i - 1 = r + i
        BY <1>1
      <3>2. QED
        BY <2>1, <2>2, <3>1
    <2>4. QED
      BY <2>1, <2>2, <2>3
  <1> HIDE DEF r, below
  <1>4. ASSUME NEW i \in 1..Len(below)
        PROVE  \E k \in 1..Len(at) : k = r + i /\ below[i] = at[k] /\ Name(at[k])
    <2>1. PICK k \in 1..Len(at) : k = r + i
      <3>1. r + i \in 1..Len(at)
        BY <1>1, <1>3
      <3>2. QED
        BY <3>1
    <2>2. below[i] = at[k]
      BY <1>3, <2>1
    <2>3. Name(at[k])
      BY TreePaths
    <2>4. QED
      BY <2>1, <2>2, <2>3
  <1>5. below \in Seq(Segment) /\ below # <<Here>>
    <2>1. \A i \in 1..Len(below) : below[i] \in Segment /\ below[i] # Here
      BY <1>4, SegmentFacts DEF Name
    <2>2. below \in Seq(Segment)
      <3> DEFINE K == Segment
      <3>1. below \in Seq(Bytes) /\ \A i \in 1..Len(below) : below[i] \in K
        BY <1>2, <2>1 DEF Path
      <3> HIDE DEF K
      <3>2. below \in Seq(K)
        BY <3>1, IsASeq
      <3>3. QED
        BY <3>2 DEF K
    <2>3. ASSUME below = <<Here>>
          PROVE  FALSE
      <3>1. Len(<<Here>>) = 1 /\ <<Here>>[1] = Here /\ 1 \in 1..1
        OBVIOUS
      <3>2. QED
        BY <2>1, <2>3, <3>1
    <2>4. QED
      BY <2>2, <2>3
  <1>6. root_ \o below = at
    <2>1. /\ root_ \o below \in Path /\ Len(root_ \o below) = r + Len(below)
          /\ \A i \in 1..r + Len(below) :
                (root_ \o below)[i] = IF i <= r THEN root_[i] ELSE below[i - r]
      BY <1>1, <1>2, ConcatProperties DEF Path, r
    <2>2. \A i \in 1..r : root_[i] = at[i]
      BY <1>1, PrefixFacts DEF Path, r
    <2>3. Len(root_ \o below) = Len(at) /\ r + Len(below) = Len(at)
      BY <1>1, <1>3, <2>1
    <2>4. ASSUME NEW i \in 1..Len(at)
          PROVE  (root_ \o below)[i] = at[i]
      <3>1. CASE i <= r
        <4>1. i \in 1..r
          BY <1>1, <3>1
        <4>2. QED
          BY <2>1, <2>2, <2>3, <3>1, <4>1
      <3>2. CASE ~(i <= r)
        <4>1. PICK k \in 1..Len(at) - r : k = i - r /\ r + k = i
          <5>1. i - r \in 1..Len(at) - r /\ r + (i - r) = i
            BY <1>1, <3>2
          <5>2. QED
            BY <5>1
        <4>2. below[k] = at[i]
          BY <1>3, <4>1
        <4>3. (root_ \o below)[i] = below[k]
          BY <2>1, <2>3, <3>2, <4>1
        <4>4. QED
          BY <4>2, <4>3
      <3>3. QED
        BY <3>1, <3>2
    <2>5. QED
      BY <1>1, <2>1, <2>3, <2>4, SeqEqual DEF Path
  <1>7. ASSUME Plain(at)
        PROVE  Plain(below)
    <2>1. DOMAIN at = 1..Len(at) /\ DOMAIN below = 1..Len(below)
      BY <1>1, <1>2, LenProperties DEF Path
    <2>2. QED
      BY <1>4, <1>7, <2>1 DEF Plain
  <1>8. QED
    BY <1>2, <1>5, <1>6, <1>7 DEF below

\* A URL the router has no exact route for goes to the static files.
LEMMA ToStatic ==
    ASSUME NEW enableSql \in BOOLEAN, NEW method, NEW url, IsPrefix(Prefix, url),
           First(Table(enableSql), method, url, FALSE) = 0
    PROVE  dispatch(Table(enableSql), method, url) = "staticHandler"
  <1> DEFINE t == Table(enableSql)
             prefix == First(t, method, url, TRUE)
             r == Route(<<>>, Prefix, TRUE, "staticHandler")
  <1>1. PICK n \in Nat \ {0} : /\ DOMAIN t = 1..n /\ t[n] = r
                                /\ \A i \in 1..n : t[i].isPrefix => i = n
    BY TableFacts
  <1>2. Matches(r, method, url) /\ r.isPrefix = TRUE /\ r.handler = "staticHandler"
    BY DEF Matches, MethodFits, Route
  <1> HIDE DEF t, r
  <1>3. /\ prefix = 0 \/ (prefix \in 1..n /\ t[prefix].isPrefix = TRUE
                            /\ Matches(t[prefix], method, url))
        /\ prefix = 0 => \A k \in 1..n :
               ~(t[k].isPrefix = TRUE /\ Matches(t[k], method, url))
    <2>1. n \in Nat
      OBVIOUS
    <2>2. QED
      BY <1>1, <2>1, FirstFacts
  <1> HIDE DEF prefix
  <1>4. prefix # 0 /\ t[prefix] = r
    <2>1. n \in 1..n
      OBVIOUS
    <2>2. prefix # 0
      BY <1>1, <1>2, <1>3, <2>1
    <2>3. QED
      BY <1>1, <1>3, <2>2
  <1>5. QED
    BY <1>2, <1>4 DEF dispatch, t, prefix

\* What the static files answer when the way of the URL leads to a place that
\* is public.
LEMMA LedTo ==
    ASSUME NEW url \in Bytes, url # HEALTHZ, normalizeUrlPath_(url) = url,
           NEW p \in Path, Solid(p), Public(p),
           Real(root_ \o Elements(urlDecode[url])) = [is |-> "there", at |-> p]
    PROVE  LET a == StaticFileHandler_handle(GET, url)
           IN  Real(a.at) = [is |-> "there", at |-> p] /\ a.status \notin {403, 404}
  <1> DEFINE steps == root_ \o Elements(urlDecode[url])
             found == [is |-> "there", at |-> p]
             a == StaticFileHandler_handle(GET, url)
  <1>1. steps \in Path
    <2>1. urlDecode[url] \in Bytes
      BY DecodeDef
    <2>2. Elements(urlDecode[url]) \in Path
      BY <2>1, UrlTypes
    <2>3. QED
      BY <2>2, RootType, Paths
  <1>2. Real(steps) = found /\ found.is = "there" /\ found.at = p
    OBVIOUS
  <1> HIDE DEF steps, found
  <1>3. weakly_canonical(steps) = found
    BY <1>1, <1>2, CanonicalType
  <1>4. Real(p) = found
    <2>1. <<>> \in Idle /\ p \o <<>> = p
      BY IdleFacts, Paths
    <2>2. Real(p \o <<>>) = found
      BY <2>1, RealSolid DEF found
    <2>3. QED
      BY <2>1, <2>2
  <1>5. ~Refused(p)
    <2>1. Public(p) <=> ~isDeniedByPolicy_(p)
      <3>1. Real(p).is = "there" /\ Real(p).at = p
        BY <1>2, <1>4
      <3>2. Public(Real(p).at) <=> ~isDeniedByPolicy_(p)
        BY <3>1, PublicIsAllowed
      <3>3. QED
        BY <3>1, <3>2
    <2>2. QED
      BY <2>1 DEF Refused, isWithinRoot_, Public
  <1>6. GET \in {<<71, 69, 84>>, <<103, 101, 116>>}
    BY DEF GET
  <1>7. a = Serve(p)
    BY <1>2, <1>3, <1>4, <1>5, <1>6 DEF StaticFileHandler_handle, steps
  <1>8. Serve(p).at = p /\ Serve(p).status \notin {403, 404}
    BY DEF Serve, Answer, Throws
  <1>9. QED
    BY <1>4, <1>7, <1>8 DEF found

\* What stands at the place target names, behind a link whose URL is url.
Good(url, target) ==
    /\ url \in Bytes /\ IsPrefix(Prefix, url) /\ normalizeUrlPath_(url) = url
    /\ Public(target.at) /\ Solid(target.at) /\ target.at \in Path
    /\ Real(root_ \o Elements(urlDecode[url])) = [is |-> "there", at |-> target.at]
    /\ target = [is |-> "there", at |-> target.at]

LEMMA TargetFacts ==
    ASSUME NEW path \in Path, Real(path).is = "there"
    PROVE  /\ Real(path).at \in DOMAIN Tree /\ Real(path).at \in Path /\ Solid(Real(path).at)
           /\ Real(path) = [is |-> "there", at |-> Real(path).at]
           /\ relative(path) = lexically_relative(Real(path).at, root_)
  <1>1. Real(path) \in Found /\ Solid(Real(path).at)
    BY RealType, RealIs
  <1>2. weakly_canonical(path) = Real(path)
    BY CanonicalType
  <1>3. QED
    BY <1>1, <1>2, TreePaths DEF Found, relative

\* A way from the root leads where its names lead, with or without a slash.
LEMMA WayLeads ==
    ASSUME NEW url, NEW target, target = [is |-> "there", at |-> target.at],
           target.at \in DOMAIN Tree, target.at \in Path, Solid(target.at), Public(target.at),
           NEW segs \in Seq(Segment), NEW tail \in {<<>>, <<Slash>>}, Leads(url, segs, tail),
           \/ root_ \o segs = target.at /\ segs \in Path
           \/ segs = <<Here>> /\ target.at = root_ /\ Tree[root_].type = "dir",
           tail = <<Slash>> => Tree[target.at].type = "dir"
    PROVE  Good(url, target)
  <1> DEFINE at == target.at
             m == IF tail = <<>> THEN <<>> ELSE << <<>> >>
             found == [is |-> "there", at |-> target.at]
  <1>1. m \in Idle /\ m \in Path /\ (m = <<>> \/ Tree[at].type = "dir") /\ root_ \in Path
    BY IdleFacts, RootType, Paths, SlashType
  <1>2. Elements(urlDecode[url]) = segs \o m
    BY DEF Leads
  <1>3. CASE root_ \o segs = at /\ segs \in Path
    <2>1. root_ \o (segs \o m) = at \o m
      <3> HIDE DEF m
      <3>1. Regroup(root_, segs, m)
        BY <1>1, <1>3, Paths
      <3>2. QED
        BY <1>3, <3>1 DEF Regroup
    <2>2. Real(at \o m) = found
      <3> HIDE DEF m
      <3>1. QED
        BY <1>1, RealSolid
    <2>3. QED
      BY <1>2, <2>1, <2>2 DEF Leads, Good
  <1>4. CASE segs = <<Here>> /\ at = root_ /\ Tree[root_].type = "dir"
    <2> DEFINE q == segs \o m
    <2>1. q \in Idle
      <3>1. segs \in Idle
        BY <1>4, IdleFacts
      <3> HIDE DEF m
      <3>2. QED
        BY <1>1, <3>1, ConcatProperties DEF Idle
    <2>2. Real(at \o q) = found
      <3> HIDE DEF q
      <3>1. QED
        BY <1>4, <2>1, RealSolid
    <2>3. QED
      BY <1>2, <1>4, <2>2 DEF Leads, Good
  <1>5. QED
    BY <1>3, <1>4

\* A page has entries only below a directory, and the root is above it.
LEMMA RootIsDir ==
    ASSUME NEW dir \in Path, Shown(dir), NEW n \in Names(Real(dir).at)
    PROVE  Tree[root_].type = "dir"
  <1> DEFINE place == Real(dir).at
  <1>1. Real(dir).is = "there" /\ ~isDeniedByPolicy_(dir)
    BY DEF Shown
  <1>2. place \in DOMAIN Tree /\ place \in Path
    BY <1>1, TargetFacts
  <1>3. IsPrefix(root_, place)
    <2>1. Public(place)
      BY <1>1, PublicIsAllowed
    <2>2. QED
      BY <2>1 DEF Public
  <1>4. PICK p \in DOMAIN Tree : p # <<>> /\ Front(p) = place /\ n = Last(p)
    BY DEF Names
  <1>5. Tree[place].type = "dir"
    BY <1>4, TreeAssumption
  <1> HIDE DEF place
  <1>6. CASE place = root_
    BY <1>5, <1>6
  <1>7. CASE place # root_
    <2> DEFINE below == lexically_relative(place, root_)
    <2>1. below \in Path /\ below # <<>> /\ root_ \o below = place
      BY <1>2, <1>3, <1>7, BelowRoot, SegmentFacts
    <2> HIDE DEF below
    <2>2. QED
      BY <1>2, <2>1, RootType, AboveIsDir
  <1>8. QED
    BY <1>6, <1>7

LEMMA EntryLeads ==
    ASSUME NEW dir \in Path, Shown(dir), NEW n \in Names(Real(dir).at),
           ~isDeniedByPolicy_(Append(dir, n)), Real(Append(dir, n)).is = "there"
    PROVE  Good(EntryLink(Append(dir, n)).href, Real(Append(dir, n)))
  <1> DEFINE path == Append(dir, n)
             target == Real(path)
             at == target.at
             segs == relative(path)
             tail == IF IsDirectory(path) THEN <<Slash>> ELSE <<>>
  <1>1. path \in Path
    BY NamesType, AppendProperties DEF Path
  <1>2. EntryLink(path).href = Joined([i \in DOMAIN segs |-> urlEncodePathComponent(segs[i])]) \o tail
    BY DEF EntryLink
  <1> HIDE DEF path
  <1>3. /\ at \in DOMAIN Tree /\ at \in Path /\ Solid(at)
        /\ target = [is |-> "there", at |-> at] /\ segs = lexically_relative(at, root_)
    BY <1>1, TargetFacts DEF path
  <1>4. Public(at)
    BY <1>1, PublicIsAllowed DEF path
  <1>5. tail \in {<<>>, <<Slash>>} /\ (tail = <<Slash>> => Tree[at].type = "dir")
    BY DEF IsDirectory
  <1>6. /\ segs \in Seq(Segment) /\ segs # <<>>
        /\ \/ root_ \o segs = at /\ segs \in Path
           \/ segs = <<Here>> /\ at = root_ /\ Tree[root_].type = "dir"
    <2> HIDE DEF at, segs
    <2>1. CASE at = root_
      <3>1. segs = <<Here>>
        BY <1>3, <2>1, RootType, RelativeFacts
      <3>2. Tree[root_].type = "dir"
        BY RootIsDir
      <3>3. <<Here>> \in Seq(Segment) /\ <<Here>> # <<>>
        BY SegmentFacts
      <3>4. QED
        BY <2>1, <3>1, <3>2, <3>3
    <2>2. CASE at # root_
      <3>1. IsPrefix(root_, at)
        BY <1>4 DEF Public
      <3>2. segs \in Seq(Segment) /\ segs # <<>> /\ root_ \o segs = at
        BY <1>3, <2>2, <3>1, BelowRoot
      <3>3. QED
        BY <3>2, SegmentFacts
    <2>3. QED
      BY <2>1, <2>2
  <1> HIDE DEF segs, tail
  <1>7. EntryLink(path).href = Joined(Replaced(Encodes, segs)) \o tail
    <2>1. \A i \in DOMAIN segs : Encodes[segs[i]] = urlEncodePathComponent(segs[i])
      <3>1. \A i \in 1..Len(segs) : segs[i] \in Segment
        BY <1>6, ElementOfSeq
      <3>2. QED
        BY <1>6, <3>1, LenProperties DEF Segment, Encodes
    <2>2. QED
      BY <1>2, <2>1 DEF Replaced
  <1>8. Leads(EntryLink(path).href, segs, tail)
    BY <1>5, <1>6, <1>7, EncodedLeads
  <1> HIDE DEF target
  <1>9. Good(EntryLink(path).href, target)
    BY <1>3, <1>4, <1>5, <1>6, <1>8, WayLeads
  <1>10. QED
    BY <1>9 DEF target, path

LEMMA ParentLeads ==
    ASSUME NEW dir \in Path, Shown(dir), dir # root_, Real(Front(dir)).is = "there",
           Plain(Real(Front(dir)).at), Public(Real(Front(dir)).at)
    PROVE  Good(ParentLink(dir).href, Real(Front(dir)))
  <1> DEFINE parent == Front(dir)
             target == Real(parent)
             at == target.at
             segs == relative(parent)
             way == IF segs = <<Here>> THEN <<>> ELSE segs
  <1>1. parent \in Path
    BY FrontType
  <1>2. Tree[at].type = "dir"
    <2>1. dir # <<>>
      <3>1. ASSUME dir = <<>>
            PROVE  FALSE
        <4>1. IsPrefix(root_, dir)
          BY DEF Shown, isWithinRoot_
        <4>2. Len(root_) <= Len(dir) /\ Len(dir) = 0 /\ Len(root_) \in Nat
          <5>1. root_ \in Path /\ Len(root_) \in Nat
            BY RootType DEF Path
          <5>2. Len(root_) <= Len(dir)
            BY <4>1, <5>1, PrefixFacts DEF Path
          <5>3. QED
            BY <3>1, <5>1, <5>2
        <4>3. root_ = <<>>
          BY <4>2, RootType, EmptyLength DEF Path
        <4>4. QED
          BY <3>1, <4>3
      <3>2. QED
        BY <3>1
    <2>2. PICK e \in Bytes : dir = parent \o <<e>>
      <3>1. Last(dir) \in Bytes /\ dir = Append(parent, Last(dir))
        BY <2>1, FrontLast DEF Path
      <3> HIDE DEF parent
      <3>2. Append(parent, Last(dir)) = parent \o <<Last(dir)>>
        BY <1>1, <3>1, OneMore
      <3>3. QED
        BY <3>1, <3>2
    <2>3. Real(dir).is = "there"
      BY DEF Shown
    <2>4. Real(parent \o <<e>>).is = "there" /\ Real(parent).is = "there"
      BY <2>2, <2>3
    <2> HIDE DEF parent
    <2>5. QED
      BY <1>1, <2>4, ParentIsDir
  <1>3. ParentLink(dir).href = (IF segs = <<Here>> THEN <<>> ELSE Joined(segs)) \o <<Slash>>
    BY DEF ParentLink
  <1>4. /\ at \in DOMAIN Tree /\ at \in Path /\ Solid(at) /\ Public(at) /\ Plain(at)
        /\ target = [is |-> "there", at |-> at] /\ segs = lexically_relative(at, root_)
    BY <1>1, TargetFacts
  <1> HIDE DEF parent, target, at, segs
  <1>5. /\ way \in Seq(Segment) /\ Plain(way) /\ root_ \o way = at /\ way \in Path
        /\ ParentLink(dir).href = Joined(way) \o <<Slash>>
    <2>1. CASE at = root_
      <3>1. segs = <<Here>>
        BY <1>4, <2>1, RootType, RelativeFacts
      <3>2. Joined(<<>>) = <<>>
        BY JoinedStep, SlashType
      <3>3. root_ \o <<>> = root_ /\ <<>> \in Path
        BY RootType, Paths
      <3>4. Plain(<<>>)
        BY DEF Plain
      <3>5. <<>> \in Seq(Segment)
        OBVIOUS
      <3>6. way = <<>>
        BY <3>1
      <3>7. ParentLink(dir).href = <<>> \o <<Slash>>
        BY <1>3, <3>1
      <3> HIDE DEF way
      <3>8. QED
        BY <2>1, <3>2, <3>3, <3>4, <3>5, <3>6, <3>7
    <2>2. CASE at # root_
      <3>1. IsPrefix(root_, at)
        BY <1>4 DEF Public
      <3>2. /\ segs \in Seq(Segment) /\ segs # <<Here>> /\ root_ \o segs = at /\ Plain(segs)
        BY <1>4, <2>2, <3>1, BelowRoot
      <3>3. QED
        BY <1>3, <3>2, SegmentFacts
    <2>3. QED
      BY <2>1, <2>2
  <1> HIDE DEF way
  <1>6. Leads(ParentLink(dir).href, way, <<Slash>>)
    BY <1>5, PlainLeads
  <1>7. Good(ParentLink(dir).href, target)
    <2> DEFINE tail == <<Slash>>
    <2>1. /\ tail \in {<<>>, <<Slash>>} /\ Leads(ParentLink(dir).href, way, tail)
          /\ Tree[target.at].type = "dir"
      BY <1>2, <1>6 DEF at
    <2> HIDE DEF tail
    <2>2. QED
      BY <1>4, <1>5, <2>1, WayLeads DEF at
  <1>8. QED
    BY <1>7 DEF target, parent

\* A link that was followed leads where its page says, whatever bytes the names
\* on the way consist of (StaticFileHandler.cpp:198, 226-272,
\* StringUtils.hpp:73-79).
THEOREM LinksLeadAlways == Spec => []LinksLead
  <1>1. ASSUME SiteInv, NEW link \in via,
               Real(link.to).is = "there", ~Kept(link.href),
               link.up => Plain(Real(link.to).at) /\ Public(Real(link.to).at)
        PROVE  Real(answer.at) = Real(link.to) /\ answer.status \notin {403, 404}
    <2>1. PICK enableSql \in BOOLEAN : routes = Table(enableSql)
      BY <1>1 DEF SiteInv
    <2>2. PICK method \in Bytes, url \in Bytes : Answered(method, url)
      BY <1>1 DEF SiteInv
    <2>3. PICK dir \in Path : /\ Shown(dir) /\ link \in buildDirHtml_(dir)
                              /\ method = GET /\ url = link.href
      BY <1>1, <2>2 DEF Answered
    <2> DEFINE target == Real(link.to)
    <2>4. Good(link.href, target)
      <3>1. \/ ~link.up /\ \E n \in Names(Real(dir).at) :
                    link = EntryLink(Append(dir, n)) /\ ~isDeniedByPolicy_(Append(dir, n))
            \/ link.up /\ link = ParentLink(dir) /\ dir # root_
        BY <2>3, LinkTypes
      <3>2. CASE \E n \in Names(Real(dir).at) :
                    link = EntryLink(Append(dir, n)) /\ ~isDeniedByPolicy_(Append(dir, n))
        <4>1. PICK n \in Names(Real(dir).at) :
                    link = EntryLink(Append(dir, n)) /\ ~isDeniedByPolicy_(Append(dir, n))
          BY <3>2
        <4>2. EntryLink(Append(dir, n)).to = Append(dir, n)
          BY DEF EntryLink
        <4>3. QED
          BY <1>1, <2>3, <4>1, <4>2, EntryLeads
      <3>3. CASE link.up /\ link = ParentLink(dir) /\ dir # root_
        <4>1. ParentLink(dir).to = Front(dir)
          BY DEF ParentLink
        <4>2. QED
          BY <1>1, <2>3, <3>3, <4>1, ParentLeads
      <3>4. QED
        BY <3>1, <3>2, <3>3
    <2>5. link.href # HEALTHZ /\ First(Table(enableSql), GET, link.href, FALSE) = 0
      BY <1>1, <2>1 DEF Kept
    <2>6. dispatch(Table(enableSql), GET, link.href) = "staticHandler"
      BY <2>4, <2>5, ToStatic DEF Good
    <2>7. answer = StaticFileHandler_handle(GET, link.href)
      BY <2>1, <2>2, <2>3, <2>6 DEF Answered, Answers
    <2> HIDE DEF target
    <2>8. Real(answer.at) = [is |-> "there", at |-> target.at]
          /\ answer.status \notin {403, 404}
      BY <2>4, <2>5, <2>7, LedTo DEF Good
    <2>9. QED
      BY <2>4, <2>8 DEF Good, target
  <1>2. SiteInv => LinksLead
    BY <1>1 DEF LinksLead
  <1>3. QED
    BY <1>2, Answering, PTL
=============================================================================
