---------------------------- MODULE ReceiveProof ----------------------------
(***************************************************************************)
(* Proofs about Receive, for any messages, rounds and bounds of the buffer   *)
(* and of the channels, and for each of the three networks.                  *)
(***************************************************************************)
EXTENDS Receive, FiniteSetTheorems, SequenceTheorems, WellFoundedInduction, TLAPS

(* Induction.  The library's least-element theorem for well-founded sets     *)
(* takes no operator, so it can be cited with a set of counterexamples.      *)

\* A set of natural numbers that is not empty has a least element.
LEMMA Least ==
    ASSUME NEW U, U \subseteq Nat, U # {}
    PROVE  \E n \in U : \A m \in U : n <= m
<1> DEFINE R == OpToRel(<, Nat)
<1>1. IsWellFoundedOn(R, Nat)
  BY NatLessThanWellFounded
<1>2. \A m, n \in Nat : <<m, n>> \in R <=> m < n
  BY DEF OpToRel
<1> HIDE DEF R
<1>3. PICK n \in U : \A m \in U : ~ (<<m, n>> \in R)
  BY <1>1, WFMin
<1>4. ASSUME NEW m \in U PROVE n <= m
  <2>1. ~ (<<m, n>> \in R) /\ m \in Nat /\ n \in Nat
    BY <1>3
  <2>2. ~ (m < n)
    BY <1>2, <2>1
  <2> QED
    BY <2>1, <2>2
<1> QED
  BY <1>4

\* What holds of 0, and of the next number whenever it holds of one, holds of
\* all up to a bound.
LEMMA UpTo ==
    ASSUME NEW n \in Nat, NEW U, 0 \in U, \A i \in 0 .. n - 1 : i \in U => i + 1 \in U
    PROVE  0 .. n \subseteq U
<1> SUFFICES ASSUME ~ 0 .. n \subseteq U PROVE FALSE
  OBVIOUS
<1> DEFINE X == (0 .. n) \ U
<1>1. X \subseteq Nat /\ X # {}
  OBVIOUS
<1>2. PICK k \in X : \A m \in X : k <= m
  <2> HIDE DEF X
  <2> QED
    BY <1>1, Least
<1>3. k # 0 /\ k - 1 \in 0 .. n - 1 /\ k - 1 \notin X
  BY <1>2
<1> QED
  BY <1>2, <1>3
-----------------------------------------------------------------------------
(* The size of a sequence of messages.                                       *)

\* f counts the size of the beginnings of s.
Counts(f, s) ==
    /\ f \in [0 .. Len(s) -> Nat]
    /\ f[0] = 0
    /\ \A i \in 1 .. Len(s) : f[i] = f[i - 1] + Size[s[i]]

\* There is such a function for every sequence.
LEMMA CountExists == \A s \in Seq(Message) : \E f : Counts(f, s)
<1> SUFFICES ASSUME NEW s \in Seq(Message) PROVE \E f : Counts(f, s)
  OBVIOUS
<1> DEFINE C(k, f) == /\ f \in [0 .. k -> Nat]
                      /\ f[0] = 0
                      /\ \A i \in 1 .. k : f[i] = f[i - 1] + Size[s[i]]
           U == {k \in 0 .. Len(s) : \E f : C(k, f)}
<1>1. 0 \in U
  <2> DEFINE z == [i \in 0 .. 0 |-> 0]
  <2>1. z \in [0 .. 0 -> Nat] /\ z[0] = 0 /\ 1 .. 0 = {}
    OBVIOUS
  <2> HIDE DEF z
  <2>2. C(0, z) /\ 0 \in 0 .. Len(s)
    BY <2>1
  <2> QED
    BY <2>2
<1>2. ASSUME NEW k \in 0 .. Len(s) - 1, k \in U PROVE k + 1 \in U
  <2>1. PICK f : C(k, f)
    BY <1>2
  <2> DEFINE g == [i \in 0 .. k + 1 |-> IF i = k + 1 THEN f[k] + Size[s[i]] ELSE f[i]]
  <2>2. k \in Nat /\ k + 1 \in 1 .. Len(s) /\ Size[s[k + 1]] \in Nat
    BY MessageAssumption
  <2>3. f[k] \in Nat
    BY <2>1, <2>2
  <2>4. g \in [0 .. k + 1 -> Nat] /\ g[0] = 0
    BY <2>1, <2>2, <2>3
  <2>5. ASSUME NEW i \in 1 .. k + 1 PROVE g[i] = g[i - 1] + Size[s[i]]
    <3>1. CASE i = k + 1
      BY <2>2, <3>1
    <3>2. CASE i # k + 1
      <4>1. i \in 1 .. k /\ i - 1 \in 0 .. k
        BY <2>2, <3>2
      <4>2. g[i] = f[i] /\ g[i - 1] = f[i - 1]
        BY <4>1
      <4> QED
        BY <2>1, <4>1, <4>2
    <3> QED
      BY <3>1, <3>2
  <2> HIDE DEF g
  <2>6. C(k + 1, g)
    BY <2>4, <2>5
  <2>7. k + 1 \in 0 .. Len(s)
    BY <2>2
  <2> QED
    BY <2>6, <2>7, Zenon
<1> HIDE DEF U
<1>3. 0 .. Len(s) \subseteq U
  BY <1>1, <1>2, UpTo
<1>4. Len(s) \in U
  BY <1>3
<1> QED
  BY <1>4 DEF U, Counts

\* The recursive function of SizeOf is the only one that counts.
LEMMA SizeCounts ==
    ASSUME NEW s \in Seq(Message), NEW f, Counts(f, s)
    PROVE  SizeOf(s) = f[Len(s)] /\ SizeOf(s) \in Nat
<1> DEFINE upTo == CHOOSE g : g = [i \in 0 .. Len(s) |-> IF i = 0 THEN 0 ELSE g[i - 1] + Size[s[i]]]
<1>1. f = [i \in 0 .. Len(s) |-> IF i = 0 THEN 0 ELSE f[i - 1] + Size[s[i]]]
  BY DEF Counts
<1>2. upTo = [i \in 0 .. Len(s) |-> IF i = 0 THEN 0 ELSE upTo[i - 1] + Size[s[i]]]
  BY <1>1
<1>3. SizeOf(s) = upTo[Len(s)]
  BY DEF SizeOf
<1> HIDE DEF upTo
<1> DEFINE U == {i \in 0 .. Len(s) : upTo[i] = f[i]}
<1>4. 0 \in U
  BY <1>2 DEF Counts
<1>5. ASSUME NEW i \in 0 .. Len(s) - 1, i \in U PROVE i + 1 \in U
  <2>1. upTo[i + 1] = upTo[i] + Size[s[i + 1]]
    BY <1>2
  <2>2. f[i + 1] = f[i] + Size[s[i + 1]]
    BY DEF Counts
  <2> QED
    BY <1>5, <2>1, <2>2
<1> HIDE DEF U
<1>6. 0 .. Len(s) \subseteq U
  BY <1>4, <1>5, UpTo
<1> QED
  BY <1>3, <1>6 DEF U, Counts

\* Sizes add up.
LEMMA SizeOfConcat ==
    ASSUME NEW s \in Seq(Message), NEW t \in Seq(Message)
    PROVE  /\ SizeOf(s) \in Nat /\ SizeOf(t) \in Nat
           /\ SizeOf(s \o t) = SizeOf(s) + SizeOf(t)
<1> DEFINE j == Len(s)
           k == Len(t)
<1>1. PICK f : Counts(f, s)
  BY CountExists
<1>2. PICK g : Counts(g, t)
  BY CountExists
<1>3. /\ s \o t \in Seq(Message) /\ Len(s \o t) = j + k
      /\ \A i \in 1 .. j + k : (s \o t)[i] = IF i <= j THEN s[i] ELSE t[i - j]
      /\ \A i \in 1 .. j : Size[s[i]] \in Nat
      /\ \A i \in 1 .. k : Size[t[i]] \in Nat
      /\ j \in Nat /\ k \in Nat
  BY MessageAssumption
<1>4. /\ \A i \in 0 .. j : f[i] \in Nat
      /\ \A i \in 0 .. k : g[i] \in Nat
      /\ f[0] = 0 /\ g[0] = 0
      /\ \A i \in 1 .. j : f[i] = f[i - 1] + Size[s[i]]
      /\ \A i \in 1 .. k : g[i] = g[i - 1] + Size[t[i]]
  BY <1>1, <1>2 DEF Counts
<1>5. SizeOf(s) = f[j] /\ SizeOf(t) = g[k] /\ f[j] \in Nat /\ g[k] \in Nat
  BY <1>1, <1>2, <1>3, <1>4, SizeCounts
<1> HIDE DEF j, k
<1> DEFINE h == [i \in 0 .. j + k |-> IF i <= j THEN f[i] ELSE f[j] + g[i - j]]
<1>6. h \in [0 .. j + k -> Nat] /\ h[0] = 0
  BY <1>3, <1>4, <1>5, SMTT(30)
<1>7. ASSUME NEW i \in 1 .. j + k PROVE h[i] = h[i - 1] + Size[(s \o t)[i]]
  <2>1. CASE i <= j
    BY <1>3, <1>4, <2>1, SMTT(30)
  <2>2. CASE i > j
    <3>1. i - j \in 1 .. k /\ (s \o t)[i] = t[i - j] /\ i - 1 \in 0 .. j + k /\ ~ i <= j
      BY <1>3, <2>2
    <3>2. g[i - j] = g[i - j - 1] + Size[t[i - j]]
      BY <1>4, <3>1
    <3>3. h[i] = f[j] + g[i - j]
      BY <1>3, <3>1
    <3>4. h[i - 1] = f[j] + g[i - j - 1]
      <4>1. CASE i - 1 = j
        BY <1>3, <1>4, <1>5, <3>1, <4>1, SMTT(30)
      <4>2. CASE i - 1 # j
        BY <1>3, <3>1, <4>2, SMTT(30)
      <4> QED
        BY <4>1, <4>2
    <3>5. f[j] \in Nat /\ g[i - j - 1] \in Nat /\ Size[t[i - j]] \in Nat
      <4>1. i - j - 1 \in 0 .. k
        BY <1>3, <3>1
      <4> QED
        BY <1>3, <1>4, <1>5, <3>1, <4>1
    <3> HIDE DEF h
    <3> QED
      BY <3>1, <3>2, <3>3, <3>4, <3>5, SMTT(30)
  <2> QED
    BY <1>3, <2>1, <2>2
<1>8. h[j + k] = f[j] + g[k]
  <2>1. CASE k = 0
    BY <1>3, <1>4, <1>5, <2>1
  <2>2. CASE k # 0
    BY <1>3, <2>2
  <2> QED
    BY <2>1, <2>2
<1> HIDE DEF h
<1>9. Counts(h, s \o t)
  BY <1>3, <1>6, <1>7 DEF Counts
<1>10. SizeOf(s \o t) = h[j + k]
  BY <1>3, <1>9, SizeCounts
<1> QED
  BY <1>5, <1>8, <1>10

\* One message, and none.
LEMMA SizeOfOne ==
    /\ SizeOf(<<>>) = 0
    /\ \A m \in Message : SizeOf(<<m>>) = Size[m] /\ Size[m] \in Nat
<1>1. SizeOf(<<>>) = 0
  <2>1. Counts([i \in 0 .. 0 |-> 0], <<>>)
    BY DEF Counts
  <2> QED
    BY <2>1, SizeCounts
<1>2. ASSUME NEW m \in Message PROVE SizeOf(<<m>>) = Size[m] /\ Size[m] \in Nat
  <2> DEFINE f == [i \in 0 .. 1 |-> IF i = 0 THEN 0 ELSE Size[m]]
  <2>1. Size[m] \in Nat
    BY MessageAssumption
  <2>2. Counts(f, <<m>>)
    BY <2>1 DEF Counts
  <2>3. SizeOf(<<m>>) = f[Len(<<m>>)]
    BY <2>2, SizeCounts
  <2> QED
    BY <2>1, <2>3
<1> QED
  BY <1>1, <1>2
-----------------------------------------------------------------------------
(* Sequences of messages.                                                    *)

\* No message is there twice.
Once(s) == \A i, j \in 1 .. Len(s) : s[i] = s[j] => i = j

\* Older rounds come first.
Ordered(s) == \A i, j \in 1 .. Len(s) : i <= j => Priority[s[i]] <= Priority[s[j]]

\* What is in a sequence.
LEMMA InRange ==
    ASSUME NEW s \in Seq(Message)
    PROVE  /\ Range(s) \subseteq Message /\ Len(s) \in Nat /\ DOMAIN s = 1 .. Len(s)
           /\ \A m : m \in Range(s) <=> \E i \in 1 .. Len(s) : s[i] = m
           /\ \A i \in 1 .. Len(s) : s[i] \in Message /\ s[i] \in Range(s)
  BY DEF Range

\* A message is appended.
LEMMA Appended ==
    ASSUME NEW s \in Seq(Message), NEW m \in Message
    PROVE  /\ Append(s, m) \in Seq(Message) /\ Len(Append(s, m)) = Len(s) + 1
           /\ Range(Append(s, m)) = Range(s) \union {m}
           /\ Once(s) /\ m \notin Range(s) => Once(Append(s, m))
<1> DEFINE t == Append(s, m)
<1>1. /\ t \in Seq(Message) /\ Len(t) = Len(s) + 1 /\ Len(s) \in Nat
      /\ \A i \in 1 .. Len(s) : t[i] = s[i]
      /\ t[Len(s) + 1] = m
  OBVIOUS
<1> HIDE DEF t
<1>2. \A x : x \in Range(t) <=> x \in Range(s) \union {m}
  <2>1. ASSUME NEW x, x \in Range(t) PROVE x \in Range(s) \union {m}
    BY <1>1, <2>1, InRange
  <2>2. ASSUME NEW x, x \in Range(s) \union {m} PROVE x \in Range(t)
    BY <1>1, <2>2, InRange
  <2> QED
    BY <2>1, <2>2
<1>3. ASSUME Once(s), m \notin Range(s) PROVE Once(t)
  BY <1>1, <1>3, InRange DEF Once
<1> QED
  BY <1>1, <1>2, <1>3 DEF t

\* t holds nothing but messages of s, in their order.
Kept(t, s) ==
    /\ t \in Seq(Message) /\ Range(t) \subseteq Range(s)
    /\ Once(s) => Once(t)
    /\ Ordered(s) => Ordered(t)
    /\ SizeOf(t) \in Nat /\ SizeOf(s) \in Nat /\ SizeOf(t) <= SizeOf(s)

\* The end of a sequence, behind a cut.
LEMMA Suffix ==
    ASSUME NEW s \in Seq(Message), NEW c \in 0 .. Len(s), NEW t, t = SubSeq(s, c + 1, Len(s))
    PROVE  /\ t \in Seq(Message) /\ Len(t) = Len(s) - c
           /\ \A i \in 1 .. Len(t) : t[i] = s[c + i] /\ c + i \in 1 .. Len(s)
           /\ Range(t) \subseteq Range(s)
           /\ (Once(s) => Once(t)) /\ (Ordered(s) => Ordered(t))
           /\ SizeOf(SubSeq(s, 1, c)) \in Nat /\ SizeOf(t) \in Nat
           /\ SizeOf(s) = SizeOf(SubSeq(s, 1, c)) + SizeOf(t)
           /\ Kept(t, s)
<1>1. /\ t \in Seq(Message) /\ Len(t) = Len(s) - c /\ Len(s) \in Nat
      /\ \A i \in 1 .. Len(t) : t[i] = s[c + i] /\ c + i \in 1 .. Len(s)
  OBVIOUS
<1>2. Range(t) \subseteq Range(s)
  <2> SUFFICES ASSUME NEW x \in Range(t) PROVE x \in Range(s)
    OBVIOUS
  <2>1. PICK i \in 1 .. Len(t) : t[i] = x
    BY <1>1, InRange
  <2>2. s[c + i] = x /\ c + i \in 1 .. Len(s)
    BY <1>1, <2>1
  <2> QED
    BY <2>2, InRange
<1>3. (Once(s) => Once(t)) /\ (Ordered(s) => Ordered(t))
  <2>1. ASSUME NEW i \in 1 .. Len(t), NEW j \in 1 .. Len(t)
        PROVE  (c + i = c + j => i = j) /\ (i <= j => c + i <= c + j)
    OBVIOUS
  <2>2. ASSUME Once(s) PROVE Once(t)
    <3> SUFFICES ASSUME NEW i \in 1 .. Len(t), NEW j \in 1 .. Len(t), t[i] = t[j] PROVE i = j
      BY DEF Once
    <3>1. s[c + i] = s[c + j] /\ c + i \in 1 .. Len(s) /\ c + j \in 1 .. Len(s)
      BY <1>1
    <3> QED
      BY <2>1, <2>2, <3>1 DEF Once
  <2>3. ASSUME Ordered(s) PROVE Ordered(t)
    <3> SUFFICES ASSUME NEW i \in 1 .. Len(t), NEW j \in 1 .. Len(t), i <= j
                 PROVE  Priority[t[i]] <= Priority[t[j]]
      BY DEF Ordered
    <3>1. /\ t[i] = s[c + i] /\ c + i \in 1 .. Len(s)
          /\ t[j] = s[c + j] /\ c + j \in 1 .. Len(s)
      BY <1>1
    <3> QED
      BY <2>1, <2>3, <3>1 DEF Ordered
  <2> QED
    BY <2>2, <2>3
<1>4. SubSeq(s, 1, c) \in Seq(Message) /\ SubSeq(s, 1, c) \o t = s
  <2>1. SubSeq(s, 1, c) \in Seq(Message)
    OBVIOUS
  <2>2. SubSeq(s, 1, c) \o SubSeq(s, c + 1, Len(s)) = SubSeq(s, 1, Len(s))
    <3>1. 1 \in 1 .. Len(s) + 1 /\ c \in 1 - 1 .. Len(s) /\ Len(s) \in c .. Len(s)
      BY <1>1
    <3> QED
      BY <3>1, ConcatAdjacentSubSeq
  <2>3. SubSeq(s, 1, Len(s)) = s
    BY SubSeqFull
  <2> QED
    BY <2>1, <2>2, <2>3
<1>5. /\ SizeOf(SubSeq(s, 1, c)) \in Nat /\ SizeOf(t) \in Nat
      /\ SizeOf(s) = SizeOf(SubSeq(s, 1, c)) + SizeOf(t)
  BY <1>1, <1>4, SizeOfConcat
<1>6. Kept(t, s)
  <2>1. SizeOf(t) <= SizeOf(s) /\ SizeOf(s) \in Nat
    BY <1>5
  <2> QED
    BY <1>1, <1>2, <1>3, <1>5, <2>1 DEF Kept
<1> QED
  BY <1>1, <1>2, <1>3, <1>5, <1>6

\* In an ordered sequence the messages that are not newer than a round are the
\* first ones.
LEMMA Place ==
    ASSUME NEW s \in Seq(Message), Ordered(s), NEW m \in Message, NEW k,
           k = Cardinality({i \in DOMAIN s : Priority[s[i]] <= Priority[m]})
    PROVE  /\ k \in 0 .. Len(s)
           /\ \A i \in 1 .. Len(s) : Priority[s[i]] <= Priority[m] <=> i <= k
<1> DEFINE p(i) == Priority[s[i]]
           X == {i \in 1 .. Len(s) : p(i) > Priority[m]}
<1>1. /\ Len(s) \in Nat /\ DOMAIN s = 1 .. Len(s) /\ Priority[m] \in Nat
      /\ \A i \in 1 .. Len(s) : p(i) \in Nat
  BY InRange, MessageAssumption
<1>2. PICK j \in 0 .. Len(s) : \A i \in 1 .. Len(s) : p(i) <= Priority[m] <=> i <= j
  <2>1. CASE X = {}
    <3>1. \A i \in 1 .. Len(s) : p(i) <= Priority[m]
      BY <1>1, <2>1
    <3>2. \A i \in 1 .. Len(s) : p(i) <= Priority[m] <=> i <= Len(s)
      BY <1>1, <3>1
    <3>3. Len(s) \in 0 .. Len(s)
      BY <1>1
    <3> HIDE DEF p
    <3> QED
      BY <3>2, <3>3
  <2>2. CASE X # {}
    <3>1. PICK x \in X : \A i \in X : x <= i
      <4>1. X \subseteq Nat
        BY <1>1
      <4> HIDE DEF X
      <4> QED
        BY <2>2, <4>1, Least
    <3>2. ASSUME NEW i \in 1 .. Len(s) PROVE p(i) <= Priority[m] <=> i <= x - 1
      <4>1. CASE i < x
        BY <1>1, <3>1, <4>1
      <4>2. CASE i >= x
        BY <1>1, <3>1, <4>2 DEF Ordered
      <4> QED
        BY <1>1, <3>1, <4>1, <4>2
    <3>3. x - 1 \in 0 .. Len(s)
      BY <1>1, <3>1
    <3> HIDE DEF p
    <3> QED
      BY <3>2, <3>3
  <2> QED
    BY <2>1, <2>2
<1>3. {i \in DOMAIN s : p(i) <= Priority[m]} = 1 .. j
  BY <1>1, <1>2
<1>4. Cardinality(1 .. j) = j
  BY <1>1, FS_Interval
<1> QED
  BY <1>2, <1>3, <1>4

\* What the sort leaves: the message is in its place, and nothing else has
\* changed.
LEMMA SortedIs ==
    ASSUME NEW s \in Seq(Message), Ordered(s), NEW m \in Message, NEW t, t = Sorted(s, m)
    PROVE  /\ t \in Seq(Message) /\ Len(t) = Len(s) + 1
           /\ Ordered(t)
           /\ Range(t) = Range(s) \union {m}
           /\ Once(s) /\ m \notin Range(s) => Once(t)
           /\ SizeOf(t) = SizeOf(s) + Size[m] /\ SizeOf(s) \in Nat /\ Size[m] \in Nat
<1>1. PICK k \in 0 .. Len(s) :
          /\ k = Cardinality({i \in DOMAIN s : Priority[s[i]] <= Priority[m]})
          /\ \A i \in 1 .. Len(s) : Priority[s[i]] <= Priority[m] <=> i <= k
  BY Place
<1> DEFINE a == SubSeq(s, 1, k)
           b == SubSeq(s, k + 1, Len(s))
<1>2. t = a \o <<m>> \o b
  BY <1>1 DEF Sorted
<1>3. /\ a \in Seq(Message) /\ b \in Seq(Message) /\ <<m>> \in Seq(Message)
      /\ Len(s) \in Nat /\ Len(a) = k /\ Len(b) = Len(s) - k
      /\ a \o <<m>> \in Seq(Message)
  OBVIOUS
<1>4. /\ t \in Seq(Message) /\ Len(t) = Len(s) + 1
      /\ \A i \in 1 .. Len(s) + 1 :
            t[i] = IF i <= k THEN s[i] ELSE IF i = k + 1 THEN m ELSE s[i - 1]
  <2>1. /\ \A i \in 1 .. k : a[i] = s[i]
        /\ \A i \in 1 .. Len(s) - k : b[i] = s[k + i]
    OBVIOUS
  <2> HIDE DEF a, b
  <2>2. /\ Len(a \o <<m>>) = k + 1 /\ a \o <<m>> \in Seq(Message)
        /\ \A i \in 1 .. k + 1 : (a \o <<m>>)[i] = IF i <= k THEN s[i] ELSE m
    BY <1>3, <2>1
  <2>3. /\ t \in Seq(Message) /\ Len(t) = Len(s) + 1
        /\ \A i \in 1 .. k + 1 : t[i] = (a \o <<m>>)[i]
        /\ \A i \in k + 2 .. Len(s) + 1 : t[i] = b[i - (k + 1)]
    BY <1>2, <1>3, <2>2
  <2>4. ASSUME NEW i \in k + 2 .. Len(s) + 1 PROVE t[i] = s[i - 1]
    <3>1. i - (k + 1) \in 1 .. Len(s) - k /\ k + (i - (k + 1)) = i - 1
      BY <1>3
    <3> QED
      BY <2>1, <2>3, <3>1
  <2>5. ASSUME NEW i \in 1 .. Len(s) + 1
        PROVE  t[i] = IF i <= k THEN s[i] ELSE IF i = k + 1 THEN m ELSE s[i - 1]
    <3>1. CASE i <= k + 1
      BY <1>3, <2>2, <2>3, <3>1
    <3>2. CASE i > k + 1
      BY <1>3, <2>4, <3>2
    <3> QED
      BY <1>3, <3>1, <3>2
  <2> QED
    BY <2>3, <2>5
<1>5. SizeOf(t) = SizeOf(s) + Size[m] /\ SizeOf(s) \in Nat /\ Size[m] \in Nat
  <2>1. SizeOf(s) = SizeOf(a) + SizeOf(b) /\ SizeOf(s) \in Nat
    BY Suffix, SizeOfConcat
  <2>2. SizeOf(t) = SizeOf(a) + SizeOf(<<m>>) + SizeOf(b) /\ SizeOf(a) \in Nat /\ SizeOf(b) \in Nat
    BY <1>2, <1>3, SizeOfConcat
  <2> QED
    BY <2>1, <2>2, SizeOfOne
<1> HIDE DEF a, b
<1> DEFINE Old(i) == IF i <= k THEN i ELSE i - 1
<1>6. /\ k + 1 \in 1 .. Len(t) /\ t[k + 1] = m
      /\ \A i \in 1 .. Len(t) : i # k + 1 => Old(i) \in 1 .. Len(s) /\ (Old(i) <= k <=> i < k + 1)
      /\ \A i, j \in 1 .. Len(t) : i # k + 1 /\ j # k + 1 =>
            (i <= j => Old(i) <= Old(j)) /\ (Old(i) = Old(j) => i = j)
      /\ \A j \in 1 .. Len(s) : \E i \in 1 .. Len(t) : i # k + 1 /\ Old(i) = j
  <2>1. k + 1 \in 1 .. Len(t) /\ t[k + 1] = m
    BY <1>3, <1>4
  <2>2. ASSUME NEW j \in 1 .. Len(s) PROVE \E i \in 1 .. Len(t) : i # k + 1 /\ Old(i) = j
    <3>1. CASE j <= k
      BY <1>3, <1>4, <3>1
    <3>2. CASE j > k
      <4>1. j + 1 \in 1 .. Len(t) /\ j + 1 # k + 1 /\ Old(j + 1) = j
        BY <1>3, <1>4, <3>2
      <4> QED
        BY <4>1
    <3> QED
      BY <1>3, <3>1, <3>2
  <2> QED
    BY <1>3, <1>4, <2>1, <2>2
<1>7. ASSUME NEW i \in 1 .. Len(t), i # k + 1 PROVE t[i] = s[Old(i)]
  BY <1>3, <1>4, <1>7
<1> HIDE DEF Old
<1>8. Ordered(t)
  <2>1. \A i \in 1 .. Len(s) : Priority[s[i]] \in Nat
    BY InRange, MessageAssumption
  <2>2. Priority[m] \in Nat
    BY MessageAssumption
  <2> SUFFICES ASSUME NEW i \in 1 .. Len(t), NEW j \in 1 .. Len(t), i <= j
               PROVE  Priority[t[i]] <= Priority[t[j]]
    BY DEF Ordered
  <2>3. CASE i # k + 1 /\ j # k + 1
    <3>1. /\ t[i] = s[Old(i)] /\ Old(i) \in 1 .. Len(s)
          /\ t[j] = s[Old(j)] /\ Old(j) \in 1 .. Len(s)
      BY <1>6, <1>7, <2>3
    <3>2. (i <= j => Old(i) <= Old(j)) /\ (Old(i) = Old(j) => i = j)
      BY <1>6, <2>3
    <3> QED
      BY <3>1, <3>2 DEF Ordered
  <2>4. CASE i = k + 1 /\ j = k + 1
    BY <1>6, <2>2, <2>4
  <2>5. CASE i # k + 1 /\ j = k + 1
    <3>1. i < k + 1
      BY <1>3, <2>5
    <3> QED
      BY <1>1, <1>6, <1>7, <2>5, <3>1
  <2>6. CASE i = k + 1 /\ j # k + 1
    <3>1. ~ j < k + 1
      BY <1>3, <2>6
    <3>2. Old(j) \in 1 .. Len(s) /\ ~ Priority[s[Old(j)]] <= Priority[m] /\ t[j] = s[Old(j)]
      BY <1>1, <1>6, <1>7, <2>6, <3>1
    <3> QED
      BY <1>6, <2>1, <2>2, <2>6, <3>2
  <2> QED
    BY <2>3, <2>4, <2>5, <2>6
<1>9. Range(t) = Range(s) \union {m}
  <2>1. ASSUME NEW x, x \in Range(t) PROVE x \in Range(s) \union {m}
    <3>1. PICK i \in 1 .. Len(t) : t[i] = x
      BY <1>4, <2>1, InRange
    <3> QED
      BY <1>6, <1>7, <3>1, InRange
  <2>2. ASSUME NEW x, x \in Range(s) PROVE x \in Range(t)
    <3>1. PICK j \in 1 .. Len(s) : s[j] = x
      BY <2>2, InRange
    <3>2. PICK i \in 1 .. Len(t) : i # k + 1 /\ Old(i) = j
      BY <1>6
    <3>3. t[i] = x
      BY <1>7, <3>1, <3>2
    <3> QED
      BY <1>4, <3>3, InRange
  <2>3. m \in Range(t)
    BY <1>4, <1>6, InRange
  <2> QED
    BY <2>1, <2>2, <2>3
<1>10. ASSUME Once(s), m \notin Range(s) PROVE Once(t)
  <2>1. \A i \in 1 .. Len(s) : s[i] # m
    BY <1>10, InRange
  <2> SUFFICES ASSUME NEW i \in 1 .. Len(t), NEW j \in 1 .. Len(t), t[i] = t[j] PROVE i = j
    BY DEF Once
  <2>2. CASE i # k + 1 /\ j # k + 1
    <3>1. /\ t[i] = s[Old(i)] /\ Old(i) \in 1 .. Len(s)
          /\ t[j] = s[Old(j)] /\ Old(j) \in 1 .. Len(s)
      BY <1>6, <1>7, <2>2
    <3>2. (i <= j => Old(i) <= Old(j)) /\ (Old(i) = Old(j) => i = j)
      BY <1>6, <2>2
    <3> QED
      BY <1>10, <3>1, <3>2 DEF Once
  <2>3. CASE i = k + 1 \/ j = k + 1
    <3>1. t[k + 1] = m
      BY <1>6
    <3>2. \A n \in 1 .. Len(t) : n # k + 1 => t[n] # m
      BY <1>6, <1>7, <2>1
    <3> QED
      BY <2>3, <3>1, <3>2
  <2> QED
    BY <2>2, <2>3
<1> QED
  BY <1>4, <1>5, <1>8, <1>9, <1>10

\* The end of a sequence keeps what it holds.
LEMMA SuffixKept ==
    ASSUME NEW s \in Seq(Message), NEW c \in 0 .. Len(s)
    PROVE  Kept(SubSeq(s, c + 1, Len(s)), s)
  BY Suffix

\* Both ways to cut a buffer that is too long keep what is left.
LEMMA CutKept ==
    ASSUME NEW s \in Seq(Message)
    PROVE  Kept(CutToCapacity(s), s) /\ Kept(CutOldest(s), s)
<1>1. SubSeq(s, 0 + 1, Len(s)) = s /\ Len(s) \in Nat /\ 0 \in 0 .. Len(s)
  BY SubSeqFull
<1>2. Kept(s, s)
  BY <1>1, SuffixKept
<1>3. ASSUME Len(s) > Capacity PROVE Kept(SubSeq(s, Len(s) - Capacity + 1, Len(s)), s)
  <2>1. Len(s) - Capacity \in 0 .. Len(s)
    BY <1>1, <1>3, BoundAssumption
  <2> QED
    BY <2>1, SuffixKept
<1> QED
  BY <1>2, <1>3 DEF CutToCapacity, CutOldest

\* The size of what lies behind an index does not grow with the index, and
\* shrinks by the message that the index passes.
LEMMA SizeBehind ==
    ASSUME NEW s \in Seq(Message), NEW d \in 0 .. Len(s), NEW c \in 0 .. d
    PROVE  /\ SizeOf(SubSeq(s, d + 1, Len(s))) <= SizeOf(SubSeq(s, c + 1, Len(s)))
           /\ d < Len(s) => SizeOf(SubSeq(s, d + 1, Len(s)))
                              = Size[s[d + 1]] + SizeOf(SubSeq(s, d + 2, Len(s)))
<1>1. ASSUME NEW i \in 0 .. Len(s)
      PROVE  /\ SizeOf(SubSeq(s, 1, i)) \in Nat /\ SizeOf(SubSeq(s, i + 1, Len(s))) \in Nat
             /\ SizeOf(s) = SizeOf(SubSeq(s, 1, i)) + SizeOf(SubSeq(s, i + 1, Len(s)))
  <2>1. PICK t : t = SubSeq(s, i + 1, Len(s))
    OBVIOUS
  <2> QED
    BY <2>1, Suffix
<1>2. ASSUME NEW i \in 0 .. Len(s), NEW j \in 0 .. Len(s),
             SizeOf(SubSeq(s, 1, i)) >= SizeOf(SubSeq(s, 1, j))
      PROVE  SizeOf(SubSeq(s, i + 1, Len(s))) <= SizeOf(SubSeq(s, j + 1, Len(s)))
  BY <1>1, <1>2, SMTT(30)
<1>3. SizeOf(SubSeq(s, 1, d)) >= SizeOf(SubSeq(s, 1, c))
  <2>1. SubSeq(s, 1, c) \o SubSeq(s, c + 1, d) = SubSeq(s, 1, d)
    <3>1. 1 \in 1 .. Len(s) + 1 /\ c \in 1 - 1 .. Len(s) /\ d \in c .. Len(s)
      OBVIOUS
    <3> QED
      BY <3>1, ConcatAdjacentSubSeq
  <2>2. SubSeq(s, c + 1, d) \in Seq(Message) /\ SubSeq(s, 1, c) \in Seq(Message)
    OBVIOUS
  <2>3. PICK a, b : a = SubSeq(s, 1, c) /\ b = SubSeq(s, c + 1, d)
    OBVIOUS
  <2>4. SizeOf(a) \in Nat /\ SizeOf(b) \in Nat /\ SizeOf(a \o b) = SizeOf(a) + SizeOf(b)
    BY <2>2, <2>3, SizeOfConcat
  <2>5. SizeOf(a \o b) >= SizeOf(a)
    BY <2>4
  <2> QED
    BY <2>1, <2>3, <2>5
<1>4. ASSUME d < Len(s)
      PROVE  SizeOf(SubSeq(s, d + 1, Len(s))) = Size[s[d + 1]] + SizeOf(SubSeq(s, d + 2, Len(s)))
  <2>1. s[d + 1] \in Message /\ SubSeq(s, 1, d) \in Seq(Message) /\ <<s[d + 1]>> \in Seq(Message)
    BY <1>4
  <2>2. SubSeq(s, 1, d + 1) = SubSeq(s, 1, d) \o <<s[d + 1]>>
    BY <1>4
  <2>3. /\ SizeOf(SubSeq(s, 1, d + 1)) = SizeOf(SubSeq(s, 1, d)) + Size[s[d + 1]]
        /\ Size[s[d + 1]] \in Nat
    BY <2>1, <2>2, SizeOfConcat, SizeOfOne
  <2>4. d + 1 \in 0 .. Len(s) /\ d + 1 + 1 = d + 2
    BY <1>4
  <2>5. PICK e : e = d + 1
    OBVIOUS
  <2>6. /\ SizeOf(SubSeq(s, 1, e)) \in Nat /\ SizeOf(SubSeq(s, e + 1, Len(s))) \in Nat
        /\ SizeOf(s) = SizeOf(SubSeq(s, 1, e)) + SizeOf(SubSeq(s, e + 1, Len(s)))
    BY <1>1, <2>4, <2>5
  <2>7. /\ SizeOf(SubSeq(s, 1, d)) \in Nat /\ SizeOf(SubSeq(s, d + 1, Len(s))) \in Nat
        /\ SizeOf(s) = SizeOf(SubSeq(s, 1, d)) + SizeOf(SubSeq(s, d + 1, Len(s)))
    BY <1>1
  <2>8. PICK x, y, z : /\ x = SizeOf(SubSeq(s, 1, d)) /\ y = SizeOf(SubSeq(s, d + 1, Len(s)))
                       /\ z = SizeOf(SubSeq(s, e + 1, Len(s)))
    OBVIOUS
  <2>9. x \in Nat /\ y \in Nat /\ z \in Nat /\ x + y = x + Size[s[d + 1]] + z
    BY <2>3, <2>5, <2>6, <2>7, <2>8
  <2>10. y = Size[s[d + 1]] + z
    BY <2>3, <2>9
  <2> QED
    BY <2>4, <2>5, <2>8, <2>10
<1> QED
  BY <1>2, <1>3, <1>4
-----------------------------------------------------------------------------
(* The invariant.                                                            *)

\* HandleProtoMsg with a call for help or an answer to one.
Helping == [Idle EXCEPT !.at = "help"]

\* What HandleProtoMsg holds.  Over the networks without priorities it sends with
\* both fields of RegisterCH read together.
HandOK ==
    /\ hand = Idle \/ hand = Helping \/ (hand.at \notin {"idle", "help"} /\ hand.msg \in Message)
    /\ network # 3 => /\ register.channel = register.priority
                      /\ hand.at = "send" => hand.to \in Round /\ lock = Handler
                      /\ hand.at = "announce" => lock = Handler

\* A registration holds the lock from the first write to the end of its loop.
Locked == \A r \in Round : goroutine[r].at \in {"writes", "scans"} <=> lock = r

StartedOnly == \A r \in Round : goroutine[r].at # "none" => round \in Nat /\ r <= round

\* The cursor of a registration: of its round, the priority network leaves
\* nothing between the cut and the cursor.
CursorOK ==
    \A r \in Round :
        IF goroutine[r].at = "scans"
        THEN /\ goroutine[r].next \in 1 .. Len(buf) + 1
             /\ goroutine[r].cut \in 0 .. goroutine[r].next - 1
             /\ network = 3 => \A i \in goroutine[r].cut + 1 .. goroutine[r].next - 1 :
                                   Priority[buf[i]] # r
        ELSE goroutine[r].next = 1 /\ goroutine[r].cut = 0

BufOrdered == network = 3 => Ordered(buf)

\* While a registration goes on MemUse counts what is behind its cut.
MemOK ==
    network = 3 =>
        /\ \A r \in Round : goroutine[r].at = "scans"
               => memUse >= SizeOf(SubSeq(buf, goroutine[r].cut + 1, Len(buf)))
        /\ ~ Scanning => memUse >= SizeOf(buf)

\* The rounds a message has come to.
Where(m) == InChannel(m) \union HandedOn(m)

Places ==
    /\ \A m \in Message : /\ \A r, q \in Where(m) : r = q
                          /\ InChannel(m) \intersect HandedOn(m) = {}
    /\ \A r \in Round : Once(channel[r])

\* What has not come yet, or is in HandleProtoMsg's hand, is nowhere else.
Fresh ==
    /\ hand.msg \notin coming
    /\ \A m \in Message : m \in coming \/ hand.msg = m => m \notin Buffered /\ Where(m) = {}

\* What is in the buffer and has come to a round was sent by its registration.
SentScanned ==
    \A i \in 1 .. Len(buf) : Where(buf[i]) # {} =>
        LET g == goroutine[Priority[buf[i]]]
        IN  (g.at = "scans" /\ i < g.next) \/ (network # 3 /\ g.at = "done")

Inv ==
    /\ TypeOK /\ HandOK /\ Locked /\ StartedOnly
    /\ CursorOK /\ BufOrdered /\ Once(buf) /\ MemOK
    /\ Places /\ Fresh /\ SentScanned
-----------------------------------------------------------------------------
(* What a step does to the buffer and to MemUse.                             *)

\* Who holds the lock is alone.
LEMMA Alone ==
    ASSUME Inv
    PROVE  /\ lock \notin Round => ~ Scanning
           /\ \A r, q \in Round : goroutine[r].at \in {"writes", "scans"} /\ q # r
                  => goroutine[q].at \notin {"writes", "scans"}
           /\ None \notin Round /\ Handler \notin Round /\ Handler # None
           /\ \A m \in Message : Priority[m] \in Round /\ m # None
           /\ Round \subseteq Nat
  BY MessageAssumption DEF Inv, Locked, Scanning, None, Handler

\* The cursor of a registration is within the buffer.
LEMMA Cursor ==
    ASSUME Inv, NEW r \in Round, goroutine[r].at = "scans"
    PROVE  /\ goroutine[r].next \in 1 .. Len(buf) + 1
           /\ goroutine[r].cut \in 0 .. Len(buf)
           /\ goroutine[r].cut <= goroutine[r].next - 1
           /\ ~ PastRound(r) => /\ goroutine[r].next \in 1 .. Len(buf)
                                /\ buf[goroutine[r].next] \in Message
                                /\ goroutine[r].cut \in 0 .. goroutine[r].next - 1
<1>1. /\ goroutine[r].next \in 1 .. Len(buf) + 1
      /\ goroutine[r].cut \in 0 .. goroutine[r].next - 1
      /\ buf \in Seq(Message)
  BY DEF Inv, CursorOK, TypeOK
<1>2. Len(buf) \in Nat /\ DOMAIN buf = 1 .. Len(buf) /\ \A i \in 1 .. Len(buf) : buf[i] \in Message
  BY <1>1
<1>3. ~ PastRound(r) => goroutine[r].next \in 1 .. Len(buf)
  BY <1>2 DEF PastRound
<1> QED
  BY <1>1, <1>2, <1>3

\* Store finds messages to throw away, or crashes.
LEMMA Stores ==
    ASSUME Inv, network = 3, Store
    PROVE  /\ hand.msg \in Message /\ ~ Scanning /\ crashed' \in BOOLEAN
           /\ \/ UNCHANGED <<buf, memUse>>
              \/ /\ Kept(buf', Sorted(buf, hand.msg))
                 /\ memUse' \in Nat /\ memUse' >= SizeOf(buf')
<1> DEFINE m == hand.msg
           s == CutToCapacity(Sorted(buf, m))
           use == memUse + Counted(m)
           Enough == {k \in 0 .. Len(s) : use - SizeOf(SubSeq(s, 1, k)) <= Volume}
<1>1. m \in Message /\ lock = None
  BY DEF Inv, HandOK, Idle, Helping, Store
<1>2. ~ Scanning
  BY <1>1, Alone
<1>3. /\ buf \in Seq(Message) /\ Ordered(buf) /\ memUse \in Nat /\ memUse >= SizeOf(buf)
      /\ crashed \in BOOLEAN
  BY <1>2 DEF Inv, TypeOK, BufOrdered, MemOK
<1>4. PICK t : t = Sorted(buf, m)
  OBVIOUS
<1>5. /\ t \in Seq(Message) /\ SizeOf(t) = SizeOf(buf) + Size[m]
      /\ SizeOf(buf) \in Nat /\ Size[m] \in Nat
  BY <1>1, <1>3, <1>4, SortedIs
<1>6. PICK u : u = s
  OBVIOUS
<1>7. Kept(u, t)
  BY <1>4, <1>5, <1>6, CutKept
<1>8. use \in Nat /\ SizeOf(u) \in Nat /\ use >= SizeOf(u)
  BY <1>3, <1>5, <1>7 DEF Kept, Counted
<1>9. CASE Enough = {}
  BY <1>1, <1>2, <1>9 DEF Store
<1>10. CASE Enough # {}
  <2> DEFINE k == CHOOSE k \in Enough : \A i \in Enough : k <= i
  <2>1. /\ buf' = SubSeq(s, k + 1, Len(s))
        /\ memUse' = use - SizeOf(SubSeq(s, 1, k))
        /\ UNCHANGED crashed
    BY <1>10 DEF Store
  <2>2. Enough \subseteq Nat
    OBVIOUS
  <2>3. k \in Enough
    <3> HIDE DEF Enough
    <3> QED
      BY <1>10, <2>2, Least
  <2>4. PICK c : c = k
    OBVIOUS
  <2>5. c \in 0 .. Len(u)
    BY <1>6, <2>3, <2>4
  <2>6. buf' = SubSeq(u, c + 1, Len(u)) /\ memUse' = use - SizeOf(SubSeq(u, 1, c))
    BY <1>6, <2>1, <2>4
  <2> HIDE DEF s, k, Enough
  <2>7. /\ SizeOf(SubSeq(u, 1, c)) \in Nat /\ SizeOf(buf') \in Nat
        /\ SizeOf(u) = SizeOf(SubSeq(u, 1, c)) + SizeOf(buf')
    BY <1>7, <2>5, <2>6, Suffix DEF Kept
  <2>8. Kept(buf', u)
    BY <1>7, <2>5, <2>6, SuffixKept DEF Kept
  <2>9. Kept(buf', t)
    BY <1>7, <2>8 DEF Kept
  <2>10. memUse' \in Nat /\ memUse' >= SizeOf(buf')
    <3> HIDE DEF use
    <3> QED
      BY <1>8, <2>6, <2>7
  <2> QED
    BY <1>1, <1>2, <1>3, <1>4, <2>1, <2>9, <2>10
<1> QED
  BY <1>9, <1>10

\* A registration that is over leaves what is behind its cut.
LEMMA CutOff ==
    ASSUME Inv, NEW r \in Round, goroutine[r].at = "scans",
           buf' = SubSeq(buf, goroutine[r].cut + 1, Len(buf))
    PROVE  /\ Kept(buf', buf) /\ Len(buf') = Len(buf) - goroutine[r].cut
           /\ \A i \in 1 .. Len(buf') : /\ goroutine[r].cut + i \in 1 .. Len(buf)
                                        /\ buf'[i] = buf[goroutine[r].cut + i]
<1>1. PICK c \in 0 .. Len(buf) : c = goroutine[r].cut
  BY Cursor
<1>2. buf \in Seq(Message) /\ buf' = SubSeq(buf, c + 1, Len(buf))
  BY <1>1 DEF Inv, TypeOK
<1>3. Kept(buf', buf)
  BY <1>2, SuffixKept
<1>4. /\ Len(buf') = Len(buf) - c
      /\ \A i \in 1 .. Len(buf') : c + i \in 1 .. Len(buf) /\ buf'[i] = buf[c + i]
  BY <1>2, Suffix
<1> QED
  BY <1>1, <1>3, <1>4

\* A step of the loop: what is left behind the cut stays counted.
LEMMA Scanned ==
    ASSUME Inv, network = 3, NEW r \in Round, Scan(r)
    PROVE  /\ memUse' \in Nat
           /\ memUse' >= SizeOf(SubSeq(buf, goroutine'[r].cut + 1, Len(buf)))
<1>1. /\ goroutine[r].at = "scans" /\ ~ PastRound(r) /\ buf \in Seq(Message) /\ memUse \in Nat
      /\ goroutine \in [Round -> [at : {"none", "waits", "writes", "scans", "done"},
                                  left : SUBSET {"priority", "channel"}, next : Nat, cut : Nat]]
      /\ memUse >= SizeOf(SubSeq(buf, goroutine[r].cut + 1, Len(buf)))
  BY DEF Scan, Inv, TypeOK, MemOK
<1>2. /\ goroutine[r].next \in 1 .. Len(buf) /\ buf[goroutine[r].next] \in Message
      /\ goroutine[r].cut \in 0 .. goroutine[r].next - 1
  BY <1>1, Cursor
<1>3. CASE Priority[buf[goroutine[r].next]] = r
  <2>1. PICK d : d = goroutine[r].next - 1
    OBVIOUS
  <2>2. PICK c : c = goroutine[r].cut
    OBVIOUS
  <2>3. d \in 0 .. Len(buf) /\ c \in 0 .. d /\ d < Len(buf) /\ goroutine[r].next = d + 1
    BY <1>2, <2>1, <2>2
  <2>4. /\ SizeOf(SubSeq(buf, d + 1, Len(buf))) <= SizeOf(SubSeq(buf, c + 1, Len(buf)))
        /\ SizeOf(SubSeq(buf, d + 1, Len(buf)))
             = Size[buf[d + 1]] + SizeOf(SubSeq(buf, d + 2, Len(buf)))
    BY <1>1, <2>3, SizeBehind
  <2>5. memUse' = memUse - Size[buf[d + 1]] /\ goroutine'[r].cut = d + 1 /\ d + 1 + 1 = d + 2
    BY <1>1, <1>3, <2>3 DEF Scan
  <2>6. /\ SizeOf(SubSeq(buf, d + 2, Len(buf))) \in Nat /\ Size[buf[d + 1]] \in Nat
        /\ SizeOf(SubSeq(buf, c + 1, Len(buf))) \in Nat
    <3>1. d + 1 \in 0 .. Len(buf) /\ d + 1 + 1 = d + 2 /\ c \in 0 .. Len(buf)
      BY <2>3
    <3>2. PICK e : e = d + 1
      OBVIOUS
    <3>3. Kept(SubSeq(buf, e + 1, Len(buf)), buf) /\ Kept(SubSeq(buf, c + 1, Len(buf)), buf)
      BY <1>1, <3>1, <3>2, SuffixKept
    <3> QED
      BY <1>2, <2>3, <3>1, <3>2, <3>3, SizeOfOne DEF Kept
  <2>7. PICK x, y, z : /\ x = SizeOf(SubSeq(buf, d + 2, Len(buf)))
                       /\ y = SizeOf(SubSeq(buf, c + 1, Len(buf)))
                       /\ z = Size[buf[d + 1]]
    OBVIOUS
  <2>8. x \in Nat /\ y \in Nat /\ z \in Nat /\ z + x <= y /\ y <= memUse
    BY <1>1, <2>2, <2>4, <2>6, <2>7
  <2>9. memUse - z \in Nat /\ memUse - z >= x
    BY <1>1, <2>8
  <2> QED
    BY <2>5, <2>7, <2>9
<1>4. CASE Priority[buf[goroutine[r].next]] # r
  BY <1>1, <1>4 DEF Scan
<1> QED
  BY <1>3, <1>4
\* Over the networks without priorities Push goes on with message m, at its start or
\* when the round of m is announced.
NormalTakes(m) == NormalPush(m) \/ (NormalAnnounce /\ hand.msg = m)

LEMMA Takes ==
    ASSUME Inv, network # 3, NEW m \in Message, NormalTakes(m)
    PROVE  /\ UNCHANGED <<network, round, open, channel, delivered, register, goroutine, memUse, crashed>>
           /\ m \in coming \/ hand.msg = m
           /\ m \notin coming' /\ coming' \subseteq coming
           /\ lock \notin Round /\ hand # Helping
           /\ maxPriority' = maxPriority \/ maxPriority' = Priority[m]
           /\ \/ /\ UNCHANGED buf /\ lock' = Handler /\ register.priority = Priority[m]
                 /\ hand' = [at |-> "send", msg |-> m, to |-> register.channel]
              \/ /\ UNCHANGED buf /\ lock' = Handler
                 /\ hand' = [at |-> "announce", msg |-> m, to |-> None]
              \/ /\ buf' = buf \/ buf' = CutOldest(Append(buf, m))
                 /\ lock' = None /\ hand' = Idle
<1>1. CASE NormalPush(m)
  <2>1. lock = None /\ hand = Idle /\ Idle # Helping
    BY <1>1 DEF NormalPush, Idle, Helping
  <2> QED
    BY <1>1, <2>1, Alone DEF NormalPush, SendOrStore
<1>2. CASE NormalAnnounce /\ hand.msg = m
  <2>1. lock = Handler /\ hand # Helping
    BY <1>2 DEF Inv, HandOK, NormalAnnounce, Helping, Idle
  <2>2. m \notin coming
    BY <1>2 DEF Inv, Fresh
  <2> QED
    BY <1>2, <2>1, <2>2, Alone DEF NormalAnnounce, SendOrStore
<1> QED
  BY <1>1, <1>2 DEF NormalTakes
-----------------------------------------------------------------------------
(* Types.                                                                    *)

\* The handler of the priority network keeps the types.
LEMMA HandlerTyped ==
    ASSUME Inv, network = 3, PriorityHandler
    PROVE  TypeOK'
<1>1. ASSUME NEW m \in Message, Push(m) PROVE TypeOK'
  <2>1. /\ coming' \subseteq Message /\ maxPriority' \in Round \union {None}
        /\ \E at \in {"announce", "compare"} : hand' = Idle \/ hand' = [hand EXCEPT !.at = at, !.msg = m]
    BY <1>1, Alone DEF Inv, TypeOK, Push
  <2>2. hand' \in [at : {"idle", "announce", "compare", "again", "channel", "send", "store", "help"},
                   msg : Message \union {None}, to : Round \union {None}]
    <3>1. hand \in [at : {"idle", "announce", "compare", "again", "channel", "send", "store", "help"},
                     msg : Message \union {None}, to : Round \union {None}]
      BY DEF Inv, TypeOK
    <3>2. ASSUME NEW at \in {"announce", "compare"}
          PROVE  [hand EXCEPT !.at = at, !.msg = m] \in [at : {"idle", "announce", "compare", "again", "channel", "send", "store", "help"},
                    msg : Message \union {None}, to : Round \union {None}]
      BY <3>1
    <3>3. Idle \in [at : {"idle", "announce", "compare", "again", "channel", "send", "store", "help"},
                        msg : Message \union {None}, to : Round \union {None}]
      BY DEF Idle
    <3> QED
      BY <2>1, <3>2, <3>3, Zenon
  <2> QED
    BY <1>1, <2>1, <2>2, ZenonT(60) DEF Inv, TypeOK, Push
<1>2. CASE Compare
  BY <1>2, ZenonT(60) DEF Inv, TypeOK, Compare, handMoves
<1>3. CASE CompareAgain
  BY <1>3, ZenonT(60) DEF Inv, TypeOK, CompareAgain, handMoves, Idle
<1>4. CASE ReadChannel
  BY <1>4 DEF Inv, TypeOK, ReadChannel, handMoves
<1>5. CASE Send
  <2>1. hand.msg \in Message /\ hand.to \in Round
    BY <1>5 DEF Inv, TypeOK, HandOK, Idle, Helping, Send
  <2>2. channel' \in [Round -> Seq(Message)] /\ \A r \in Round : Len(channel'[r]) <= ChannelSize
    <3>1. \A r \in Round : r # hand.to => channel'[r] = channel[r]
      BY <1>5, <2>1 DEF Inv, TypeOK, Send
    <3>2. /\ channel'[hand.to] = Append(channel[hand.to], hand.msg)
          /\ channel[hand.to] \in Seq(Message) /\ Len(channel[hand.to]) < ChannelSize
      BY <1>5, <2>1 DEF Inv, TypeOK, Send, HasRoom
    <3>3. /\ channel'[hand.to] \in Seq(Message)
          /\ Len(channel'[hand.to]) = Len(channel[hand.to]) + 1
          /\ Len(channel[hand.to]) \in Nat
      BY <2>1, <3>2
    <3>4. Len(channel'[hand.to]) <= ChannelSize
      BY <3>2, <3>3, BoundAssumption
    <3> QED
      BY <1>5, <2>1, <3>1, <3>3, <3>4 DEF Inv, TypeOK, Send
  <2> QED
    BY <1>5, <2>2 DEF Inv, TypeOK, Send, Idle
<1>6. CASE Store
  <2>1. buf' \in Seq(Message) /\ memUse' \in Nat /\ crashed' \in BOOLEAN
    BY <1>6, Stores DEF Inv, TypeOK, Kept
  <2> QED
    BY <1>6, <2>1 DEF Inv, TypeOK, Store, Idle
<1> QED
  BY <1>1, <1>2, <1>3, <1>4, <1>5, <1>6, Zenon DEF PriorityHandler

\* What a registration is, and what one is after a field of it has changed.
Registrations ==
    [at : {"none", "waits", "writes", "scans", "done"},
     left : SUBSET {"priority", "channel"}, next : Nat, cut : Nat]

LEMMA Parts ==
    /\ TypeOK => goroutine \in [Round -> Registrations]
    /\ NotStarted \in Registrations
    /\ \A g \in Registrations :
        /\ g.next \in Nat /\ g.cut \in Nat /\ g.left \subseteq {"priority", "channel"}
        /\ g.at \in {"none", "waits", "writes", "scans", "done"}
        /\ \A at \in {"none", "waits", "writes", "scans", "done"} : [g EXCEPT !.at = at] \in Registrations
        /\ \A left \in SUBSET {"priority", "channel"} : [g EXCEPT !.left = left] \in Registrations
        /\ \A i \in Nat : [g EXCEPT !.next = i] \in Registrations /\ [g EXCEPT !.cut = i] \in Registrations
<1>1. TypeOK => goroutine \in [Round -> Registrations]
  BY DEF TypeOK, Registrations
<1>2. NotStarted \in Registrations
  BY DEF NotStarted, Registrations
<1>3. ASSUME NEW g \in Registrations
      PROVE  /\ g.next \in Nat /\ g.cut \in Nat /\ g.left \subseteq {"priority", "channel"}
             /\ g.at \in {"none", "waits", "writes", "scans", "done"}
  BY DEF Registrations
<1>4. ASSUME NEW g \in Registrations, NEW at \in {"none", "waits", "writes", "scans", "done"}
      PROVE  [g EXCEPT !.at = at] \in Registrations
  BY DEF Registrations
<1>5. ASSUME NEW g \in Registrations, NEW left \in SUBSET {"priority", "channel"}
      PROVE  [g EXCEPT !.left = left] \in Registrations
  BY DEF Registrations
<1>6. ASSUME NEW g \in Registrations, NEW i \in Nat
      PROVE  [g EXCEPT !.next = i] \in Registrations /\ [g EXCEPT !.cut = i] \in Registrations
  BY DEF Registrations
<1> QED
  BY <1>1, <1>2, <1>3, <1>4, <1>5, <1>6

\* A message is appended to the channel of a round.
LEMMA ChannelTyped ==
    ASSUME TypeOK, NEW q \in Round, HasRoom(q), NEW m \in Message,
           channel' = [channel EXCEPT ![q] = Append(@, m)]
    PROVE  channel' \in [Round -> Seq(Message)] /\ \A r \in Round : Len(channel'[r]) <= ChannelSize
<1>1. /\ channel[q] \in Seq(Message) /\ Len(channel[q]) < ChannelSize /\ Len(channel[q]) \in Nat
      /\ channel \in [Round -> Seq(Message)]
      /\ \A r \in Round : Len(channel[r]) <= ChannelSize
  <2>1. channel \in [Round -> Seq(Message)] /\ \A r \in Round : Len(channel[r]) <= ChannelSize
    BY DEF TypeOK
  <2>2. channel[q] \in Seq(Message) /\ Len(channel[q]) < ChannelSize
    BY <2>1 DEF HasRoom
  <2> QED
    BY <2>1, <2>2
<1>2. PICK s : s = Append(channel[q], m)
  OBVIOUS
<1>3. s \in Seq(Message) /\ Len(s) <= ChannelSize
  BY <1>1, <1>2, BoundAssumption
<1> QED
  BY <1>1, <1>2, <1>3

\* A registration of the priority network keeps the types.
LEMMA RegistrationTyped ==
    ASSUME Inv, network = 3, NEW r \in Round, PriorityRegistration(r)
    PROVE  TypeOK'
<1>1. TypeOK /\ goroutine \in [Round -> Registrations] /\ goroutine[r] \in Registrations
  BY Parts DEF Inv
<1>2. ASSUME goroutine' \in [Round -> Registrations],
             channel' \in [Round -> Seq(Message)] /\ \A q \in Round : Len(channel'[q]) <= ChannelSize,
             register' \in [priority : Round \union {None}, channel : Round \union {None}],
             lock' \in Round \union {None, Handler}, buf' \in Seq(Message), memUse' \in Nat,
             UNCHANGED <<network, coming, round, open, delivered, hand, maxPriority, crashed>>
      PROVE  TypeOK'
  BY <1>1, <1>2 DEF TypeOK, Registrations
<1>3. CASE Lock(r)
  <2>1. PICK g \in Registrations : g = [goroutine[r] EXCEPT !.at = "writes"]
    BY <1>1, Parts
  <2>2. PICK h \in Registrations : h = [g EXCEPT !.left = {"priority", "channel"}]
    BY <2>1, Parts
  <2>3. goroutine' = [goroutine EXCEPT ![r] = h]
    BY <1>3, <2>1, <2>2 DEF Lock
  <2>4. goroutine' \in [Round -> Registrations]
    BY <1>1, <2>3
  <2>5. /\ channel' \in [Round -> Seq(Message)] /\ \A q \in Round : Len(channel'[q]) <= ChannelSize
        /\ register' \in [priority : Round \union {None}, channel : Round \union {None}]
        /\ lock' \in Round \union {None, Handler} /\ buf' \in Seq(Message) /\ memUse' \in Nat
        /\ UNCHANGED <<network, coming, round, open, delivered, hand, maxPriority, crashed>>
    BY <1>1, <1>3 DEF TypeOK, Lock
  <2> QED
    BY <1>2, <2>4, <2>5
<1>4. CASE WriteField(r)
  <2>1. PICK field \in goroutine[r].left :
            /\ register' = [register EXCEPT ![field] = r]
            /\ goroutine' = [goroutine EXCEPT ![r].left = @ \ {field},
                                ![r].at = IF goroutine[r].left = {field} THEN "scans" ELSE @]
    BY <1>4 DEF WriteField
  <2>2. goroutine[r].left \ {field} \in SUBSET {"priority", "channel"} /\ field \in {"priority", "channel"}
    BY <1>1, Parts
  <2>3. PICK g \in Registrations : g = [goroutine[r] EXCEPT !.left = @ \ {field}]
    BY <1>1, <2>2, Parts
  <2>4. PICK at \in {"none", "waits", "writes", "scans", "done"} :
            at = IF goroutine[r].left = {field} THEN "scans" ELSE g.at
    BY Parts
  <2>5. PICK h \in Registrations : h = [g EXCEPT !.at = at]
    BY <2>3, Parts
  <2>6. goroutine' = [goroutine EXCEPT ![r] = h]
    BY <1>1, <2>1, <2>3, <2>4, <2>5
  <2>7. register' \in [priority : Round \union {None}, channel : Round \union {None}]
    BY <1>1, <2>1, <2>2 DEF TypeOK
  <2> QED
    BY <1>1, <1>2, <1>4, <2>6, <2>7 DEF TypeOK, WriteField
<1>5. CASE Scan(r)
  <2>1. PICK i : i = goroutine[r].next
    OBVIOUS
  <2>2. i \in Nat /\ i + 1 \in Nat /\ buf[i] \in Message
    <3>1. i \in 1 .. Len(buf) /\ buf[i] \in Message
      BY <1>5, <2>1, Cursor DEF Scan
    <3> QED
      BY <3>1
  <2>3. PICK g \in Registrations : g = [goroutine[r] EXCEPT !.next = i + 1]
    BY <1>1, <2>2, Parts
  <2>4. PICK h \in Registrations : h = [g EXCEPT !.cut = i]
    BY <2>2, <2>3, Parts
  <2>5. goroutine' = [goroutine EXCEPT ![r] = g] \/ goroutine' = [goroutine EXCEPT ![r] = h]
    BY <1>1, <1>5, <2>1, <2>3, <2>4 DEF Scan
  <2>6. goroutine' \in [Round -> Registrations]
    BY <1>1, <2>5
  <2>7. channel' \in [Round -> Seq(Message)] /\ \A q \in Round : Len(channel'[q]) <= ChannelSize
    <3>1. CASE UNCHANGED channel
      BY <1>1, <3>1 DEF TypeOK
    <3>2. CASE channel' = [channel EXCEPT ![r] = Append(@, buf[i])] /\ HasRoom(r)
      BY <1>1, <2>2, <3>2, ChannelTyped
    <3> QED
      BY <1>5, <2>1, <3>1, <3>2 DEF Scan
  <2>8. memUse' \in Nat
    BY <1>5, Scanned
  <2>9. /\ register' \in [priority : Round \union {None}, channel : Round \union {None}]
        /\ lock' \in Round \union {None, Handler} /\ buf' \in Seq(Message)
        /\ UNCHANGED <<network, coming, round, open, delivered, hand, maxPriority, crashed>>
    BY <1>1, <1>5 DEF TypeOK, Scan
  <2> QED
    BY <1>2, <2>6, <2>7, <2>8, <2>9
<1>6. CASE Registered(r)
  <2>1. buf' \in Seq(Message)
    BY <1>6, CutOff DEF Registered, Kept
  <2>2. goroutine' = [goroutine EXCEPT ![r] = [NotStarted EXCEPT !.at = "done"]]
    BY <1>6 DEF Registered
  <2>3. PICK h \in Registrations : h = [NotStarted EXCEPT !.at = "done"]
    BY Parts
  <2>4. goroutine' \in [Round -> Registrations]
    BY <1>1, <2>2, <2>3
  <2> QED
    BY <1>1, <1>2, <1>6, <2>1, <2>4 DEF TypeOK, Registered
<1> QED
  BY <1>3, <1>4, <1>5, <1>6, Zenon DEF PriorityRegistration

\* The same for the networks without priorities.
LEMMA NormalTyped ==
    ASSUME Inv, network # 3,
           \/ NormalHandler \/ NormalAnnounce
           \/ \E r \in Round : NormalRegistration(r)
    PROVE  TypeOK'
<1>1. TypeOK /\ goroutine \in [Round -> Registrations] /\ buf \in Seq(Message)
  BY Parts DEF Inv, TypeOK
<1>2. ASSUME NEW m \in Message, NormalTakes(m) PROVE TypeOK'
  <2>1. /\ register.priority = Priority[m] => register.channel \in Round
        /\ Priority[m] \in Round
    BY Alone DEF Inv, HandOK
  <2>2. Append(buf, m) \in Seq(Message)
    BY <1>1
  <2>3. CutOldest(Append(buf, m)) \in Seq(Message)
    BY <2>2, CutKept DEF Kept
  <2>4. buf' \in Seq(Message)
    BY <1>1, <1>2, <2>3, Takes
  <2>5. hand' \in [at : {"idle", "announce", "compare", "again", "channel", "send", "store", "help"},
                   msg : Message \union {None}, to : Round \union {None}]
    <3>1. CASE /\ register.priority = Priority[m]
               /\ hand' = [at |-> "send", msg |-> m, to |-> register.channel]
      BY <2>1, <3>1
    <3>2. CASE hand' = [at |-> "announce", msg |-> m, to |-> None] \/ hand' = Idle
      BY <3>2 DEF Idle
    <3> QED
      BY <1>2, <3>1, <3>2, Takes
  <2>7. /\ lock' \in Round \union {None, Handler} /\ maxPriority' \in Round \union {None}
        /\ coming' \subseteq Message
    BY <1>1, <1>2, <2>1, Takes DEF TypeOK
  <2>6. UNCHANGED <<network, round, open, channel, delivered, register, goroutine, memUse, crashed>>
    BY <1>2, Takes
  <2> QED
    BY <1>1, <2>4, <2>5, <2>6, <2>7 DEF TypeOK
<1>3. CASE NormalSend
  <2>1. hand.msg \in Message /\ hand.to \in Round
    BY <1>3 DEF Inv, HandOK, Idle, Helping, NormalSend
  <2>2. channel' \in [Round -> Seq(Message)] /\ \A q \in Round : Len(channel'[q]) <= ChannelSize
    BY <1>1, <1>3, <2>1, ChannelTyped DEF NormalSend
  <2> QED
    BY <1>1, <1>3, <2>2 DEF TypeOK, NormalSend, Idle
<1>4. ASSUME NEW r \in Round, NormalRegistration(r) PROVE TypeOK'
  <2>1. goroutine[r] \in Registrations
    BY <1>1
  <2>2. ASSUME goroutine' \in [Round -> Registrations],
               channel' \in [Round -> Seq(Message)] /\ \A q \in Round : Len(channel'[q]) <= ChannelSize,
               register' \in [priority : Round \union {None}, channel : Round \union {None}],
               lock' \in Round \union {None, Handler}, buf' \in Seq(Message),
               UNCHANGED <<network, coming, round, open, delivered, hand, memUse, maxPriority, crashed>>
        PROVE  TypeOK'
    BY <1>1, <2>2 DEF TypeOK, Registrations
  <2>3. CASE NormalLock(r)
    <3>1. PICK g \in Registrations : g = [goroutine[r] EXCEPT !.at = "scans"]
      BY <2>1, Parts
    <3>2. goroutine' = [goroutine EXCEPT ![r] = g]
      BY <2>3, <3>1 DEF NormalLock
    <3>3. goroutine' \in [Round -> Registrations]
      BY <1>1, <3>2
    <3>4. /\ channel' \in [Round -> Seq(Message)] /\ \A q \in Round : Len(channel'[q]) <= ChannelSize
          /\ register' \in [priority : Round \union {None}, channel : Round \union {None}]
          /\ lock' \in Round \union {None, Handler} /\ buf' \in Seq(Message)
          /\ UNCHANGED <<network, coming, round, open, delivered, hand, memUse, maxPriority, crashed>>
      BY <1>1, <2>3 DEF TypeOK, NormalLock
    <3> QED
      BY <2>2, <3>3, <3>4
  <2>4. CASE NormalScan(r)
    <3>1. PICK i : i = goroutine[r].next
      OBVIOUS
    <3>2. i - 1 \in Nat /\ i + 1 \in Nat /\ buf[i] \in Message
      <4>1. i \in 1 .. Len(buf) /\ buf[i] \in Message
        BY <2>4, <3>1, Cursor DEF NormalScan
      <4> QED
        BY <4>1
    <3>3. PICK g \in Registrations : g = [goroutine[r] EXCEPT !.next = i + 1]
      BY <2>1, <3>2, Parts
    <3>4. PICK h \in Registrations : h = [g EXCEPT !.cut = i - 1]
      BY <3>2, <3>3, Parts
    <3>5. goroutine' = [goroutine EXCEPT ![r] = g] \/ goroutine' = [goroutine EXCEPT ![r] = h]
      BY <1>1, <2>4, <3>1, <3>3, <3>4 DEF NormalScan
    <3>6. goroutine' \in [Round -> Registrations]
      BY <1>1, <3>5
    <3>7. channel' \in [Round -> Seq(Message)] /\ \A q \in Round : Len(channel'[q]) <= ChannelSize
      <4>1. CASE UNCHANGED channel
        BY <1>1, <4>1 DEF TypeOK
      <4>2. CASE channel' = [channel EXCEPT ![r] = Append(@, buf[i])] /\ HasRoom(r)
        BY <1>1, <3>2, <4>2, ChannelTyped
      <4> QED
        BY <2>4, <3>1, <4>1, <4>2 DEF NormalScan
    <3>8. /\ register' \in [priority : Round \union {None}, channel : Round \union {None}]
          /\ lock' \in Round \union {None, Handler} /\ buf' \in Seq(Message)
          /\ UNCHANGED <<network, coming, round, open, delivered, hand, memUse, maxPriority, crashed>>
      BY <1>1, <2>4 DEF TypeOK, NormalScan
    <3> QED
      BY <2>2, <3>6, <3>7, <3>8
  <2>5. CASE NormalRegistered(r)
    <3>1. buf' \in Seq(Message)
      BY <2>5, CutOff DEF NormalRegistered, Kept
    <3>2. goroutine' = [goroutine EXCEPT ![r] = [NotStarted EXCEPT !.at = "done"]]
      BY <2>5 DEF NormalRegistered
    <3>3. PICK h \in Registrations : h = [NotStarted EXCEPT !.at = "done"]
      BY Parts
    <3>4. goroutine' \in [Round -> Registrations]
      BY <1>1, <3>2, <3>3
    <3> QED
      BY <1>1, <2>2, <2>5, <3>1, <3>4 DEF TypeOK, NormalRegistered
  <2> QED
    BY <1>4, <2>3, <2>4, <2>5, Zenon DEF NormalRegistration
<1> QED
  <2>1. ASSUME NEW m \in Message, NormalPush(m) PROVE TypeOK'
    BY <1>2, <2>1 DEF NormalTakes
  <2>2. ASSUME NormalAnnounce PROVE TypeOK'
    <3>1. hand.msg \in Message
      BY <2>2 DEF Inv, HandOK, NormalAnnounce, Idle, Helping
    <3> QED
      BY <1>2, <2>2, <3>1 DEF NormalTakes
  <2> QED
    BY <1>3, <1>4, <2>1, <2>2, Zenon DEF NormalHandler

\* Every step keeps the types.
LEMMA TypeStep ==
    ASSUME Inv, Next
    PROVE  TypeOK'
<1>1. ASSUME network = 3, PriorityHandler PROVE TypeOK'
  BY <1>1, HandlerTyped
<1>2. ASSUME network = 3, NEW r \in Round, PriorityRegistration(r) PROVE TypeOK'
  BY <1>2, RegistrationTyped
<1>3. ASSUME network # 3, NormalHandler \/ NormalAnnounce \/ \E r \in Round : NormalRegistration(r) PROVE TypeOK'
  BY <1>3, NormalTyped
<1>4. ASSUME NEW r \in Round, StartRound(r) PROVE TypeOK'
  <2>1. PICK g \in Registrations : g = [goroutine[r] EXCEPT !.at = "waits"]
    BY Parts DEF Inv
  <2>2. goroutine' = [goroutine EXCEPT ![r] = g]
    BY <1>4, <2>1 DEF StartRound
  <2>3. goroutine' \in [Round -> Registrations]
    BY <2>2, Parts DEF Inv
  <2>4. TypeOK
    BY DEF Inv
  <2> QED
    BY <1>4, <2>3, <2>4, ZenonT(60) DEF TypeOK, Registrations, StartRound
<1>5. CASE CloseRound
  BY <1>5, ZenonT(60) DEF Inv, TypeOK, CloseRound
<1>6. CASE Route
  <2>1. TypeOK /\ round \in Round \union {None}
    BY DEF Inv, TypeOK
  <2>2. channel' \in [Round -> Seq(Message)] /\ \A q \in Round : Len(channel'[q]) <= ChannelSize
    <3>1. channel \in [Round -> Seq(Message)] /\ \A q \in Round : Len(channel[q]) <= ChannelSize
      BY <2>1 DEF TypeOK
    <3>2. CASE round \in Round
      <4>1. PICK s : s = Tail(channel[round])
        OBVIOUS
      <4>2. s \in Seq(Message) /\ Len(s) <= Len(channel[round]) /\ Len(channel[round]) \in Nat /\ Len(s) \in Nat
        BY <1>6, <3>1, <3>2, <4>1 DEF Route
      <4>3. Len(s) <= ChannelSize
        BY <3>1, <3>2, <4>2, BoundAssumption
      <4>4. channel' = [channel EXCEPT ![round] = s]
        BY <1>6, <4>1 DEF Route
      <4> QED
        BY <3>1, <4>2, <4>3, <4>4
    <3>3. CASE round \notin Round
      <4>1. channel' = channel
        BY <1>6, <3>1, <3>3 DEF Route
      <4> QED
        BY <3>1, <4>1
    <3> QED
      BY <3>2, <3>3
  <2>3. delivered' \in [Round -> SUBSET Message]
    <3>1. channel \in [Round -> Seq(Message)] /\ delivered \in [Round -> SUBSET Message]
      BY <2>1 DEF TypeOK
    <3>2. CASE round \in Round
      <4>1. Head(channel[round]) \in Message
        BY <1>6, <3>1, <3>2 DEF Route
      <4>2. PICK m \in Message : m = Head(channel[round])
        BY <4>1
      <4>3. delivered' = delivered \/ delivered' = [delivered EXCEPT ![round] = @ \union {m}]
        BY <1>6, <4>2 DEF Route
      <4> QED
        BY <3>1, <4>3
    <3>3. CASE round \notin Round
      <4>1. delivered' = delivered
        BY <1>6, <3>1, <3>3 DEF Route
      <4> QED
        BY <3>1, <4>1
    <3> QED
      BY <3>2, <3>3
  <2> QED
    BY <1>6, <2>1, <2>2, <2>3, ZenonT(60) DEF TypeOK, Route
<1>7. CASE TakeHelp \/ PassHelp
  <2>1. hand' \in [at : {"idle", "announce", "compare", "again", "channel", "send", "store", "help"},
                   msg : Message \union {None}, to : Round \union {None}]
    BY <1>7 DEF TakeHelp, PassHelp, Idle
  <2> QED
    BY <1>7, <2>1, ZenonT(60) DEF Inv, TypeOK, TakeHelp, PassHelp
<1>8. CASE Announce
  BY <1>8, ZenonT(60) DEF Inv, TypeOK, Announce, handMoves
<1> QED
  BY <1>1, <1>2, <1>3, <1>4, <1>5, <1>6, <1>7, <1>8, Zenon DEF Next, Handle, Accept, Registration
-----------------------------------------------------------------------------
(* The registrations and the lock.                                           *)

\* What a step of a registration, or the start of its round, makes of it; the
\* others stay what they are.
LEMMA OneMoves ==
    ASSUME Inv, NEW r \in Round
    PROVE  /\ StartRound(r) \/ Lock(r) \/ WriteField(r) \/ NormalLock(r) =>
                /\ goroutine'[r].next = goroutine[r].next /\ goroutine'[r].cut = goroutine[r].cut
                /\ \A q \in Round : q # r => goroutine'[q] = goroutine[q]
           /\ StartRound(r) => goroutine'[r].at = "waits"
           /\ Lock(r) => goroutine'[r].at = "writes"
           /\ WriteField(r) => goroutine'[r].at \in {"writes", "scans"}
           /\ NormalLock(r) => goroutine'[r].at = "scans"
           /\ Scan(r) \/ NormalScan(r) =>
                /\ goroutine'[r].at = "scans" /\ goroutine'[r].next = goroutine[r].next + 1
                /\ Priority[buf[goroutine[r].next]] # r => goroutine'[r].cut = goroutine[r].cut
                /\ \A q \in Round : q # r => goroutine'[q] = goroutine[q]
           /\ Scan(r) /\ Priority[buf[goroutine[r].next]] = r => goroutine'[r].cut = goroutine[r].next
           /\ NormalScan(r) /\ Priority[buf[goroutine[r].next]] = r
                => goroutine'[r].cut = goroutine[r].next - 1
           /\ Registered(r) \/ NormalRegistered(r) =>
                /\ goroutine'[r].at = "done" /\ goroutine'[r].next = 1 /\ goroutine'[r].cut = 0
                /\ \A q \in Round : q # r => goroutine'[q] = goroutine[q]
<1>1. goroutine \in [Round -> Registrations] /\ goroutine[r] \in Registrations
  BY Parts DEF Inv
<1>2. ASSUME StartRound(r)
      PROVE  /\ goroutine'[r].next = goroutine[r].next /\ goroutine'[r].cut = goroutine[r].cut
             /\ \A q \in Round : q # r => goroutine'[q] = goroutine[q]
             /\ goroutine'[r].at = "waits"
  BY <1>1, <1>2 DEF StartRound, Registrations
<1>3. ASSUME Lock(r)
      PROVE  /\ goroutine'[r].next = goroutine[r].next /\ goroutine'[r].cut = goroutine[r].cut
             /\ \A q \in Round : q # r => goroutine'[q] = goroutine[q]
             /\ goroutine'[r].at = "writes"
  BY <1>1, <1>3 DEF Lock, Registrations
<1>4. ASSUME WriteField(r)
      PROVE  /\ goroutine'[r].next = goroutine[r].next /\ goroutine'[r].cut = goroutine[r].cut
             /\ \A q \in Round : q # r => goroutine'[q] = goroutine[q]
             /\ goroutine'[r].at \in {"writes", "scans"}
  BY <1>1, <1>4 DEF WriteField, Registrations
<1>5. ASSUME NormalLock(r)
      PROVE  /\ goroutine'[r].next = goroutine[r].next /\ goroutine'[r].cut = goroutine[r].cut
             /\ \A q \in Round : q # r => goroutine'[q] = goroutine[q]
             /\ goroutine'[r].at = "scans"
  BY <1>1, <1>5 DEF NormalLock, Registrations
<1>6. ASSUME Scan(r)
      PROVE  /\ goroutine'[r].at = "scans" /\ goroutine'[r].next = goroutine[r].next + 1
             /\ goroutine'[r].cut = IF Priority[buf[goroutine[r].next]] = r
                                    THEN goroutine[r].next ELSE goroutine[r].cut
             /\ \A q \in Round : q # r => goroutine'[q] = goroutine[q]
  BY <1>1, <1>6 DEF Scan, Registrations
<1>7. ASSUME NormalScan(r)
      PROVE  /\ goroutine'[r].at = "scans" /\ goroutine'[r].next = goroutine[r].next + 1
             /\ goroutine'[r].cut = IF Priority[buf[goroutine[r].next]] = r
                                    THEN goroutine[r].next - 1 ELSE goroutine[r].cut
             /\ \A q \in Round : q # r => goroutine'[q] = goroutine[q]
  BY <1>1, <1>7 DEF NormalScan, Registrations
<1>8. ASSUME Registered(r) \/ NormalRegistered(r)
      PROVE  /\ goroutine'[r].at = "done" /\ goroutine'[r].next = 1 /\ goroutine'[r].cut = 0
             /\ \A q \in Round : q # r => goroutine'[q] = goroutine[q]
  BY <1>1, <1>8 DEF Registered, NormalRegistered, Registrations, NotStarted
<1> QED
  BY <1>2, <1>3, <1>4, <1>5, <1>6, <1>7, <1>8

\* The actions over the priority network.
PriorityActions ==
    \/ (\E m \in Message : Push(m)) \/ Announce
    \/ Compare \/ CompareAgain \/ ReadChannel \/ Send \/ Store
    \/ \E r \in Round : Lock(r) \/ WriteField(r) \/ Scan(r) \/ Registered(r)

\* The actions over the others.
NormalActions ==
    \/ (\E m \in Message : NormalTakes(m)) \/ NormalSend
    \/ \E r \in Round : NormalLock(r) \/ NormalScan(r) \/ NormalRegistered(r)

LEMMA Actions ==
    ASSUME Inv, Next
    PROVE  \/ network = 3 /\ PriorityActions
           \/ network # 3 /\ NormalActions
           \/ CloseRound \/ Route \/ TakeHelp \/ PassHelp \/ \E r \in Round : StartRound(r)
<1>1. NormalAnnounce => hand.msg \in Message
  BY DEF Inv, HandOK, NormalAnnounce, Idle, Helping
<1>2. NormalAnnounce => \E m \in Message : NormalTakes(m)
  BY <1>1 DEF NormalTakes
<1>3. \A m \in Message : NormalPush(m) => NormalTakes(m)
  BY DEF NormalTakes
<1> QED
  BY <1>2, <1>3, Zenon
     DEF Next, Handle, Accept, Registration, PriorityHandler, PriorityRegistration,
         NormalHandler, NormalRegistration, PriorityActions, NormalActions

\* The steps that change nobody's registration, and neither the buffer nor the lock.
LEMMA HandSteps ==
    ASSUME \/ \E m \in Message : Push(m)
           \/ Announce \/ Compare \/ CompareAgain \/ ReadChannel \/ Send \/ CloseRound \/ Route
           \/ TakeHelp \/ PassHelp
    PROVE  UNCHANGED <<network, goroutine, register, lock, buf, memUse, round>>
  BY DEF Push, Announce, Compare, CompareAgain, ReadChannel, Send, CloseRound, Route, TakeHelp,
         PassHelp, handMoves

\* The invariants of the lock and of the hand.
LEMMA LockStep ==
    ASSUME Inv, Next
    PROVE  HandOK' /\ Locked' /\ StartedOnly'
<1>0. /\ HandOK /\ Locked /\ StartedOnly
      /\ hand \in [at : {"idle", "announce", "compare", "again", "channel", "send", "store", "help"},
                  msg : Message \union {None}, to : Round \union {None}]
  BY DEF Inv, TypeOK
<1>1. ASSUME UNCHANGED <<network, goroutine, lock, round>> PROVE Locked' /\ StartedOnly'
  BY <1>0, <1>1 DEF Locked, StartedOnly
<1>2. ASSUME UNCHANGED <<network, register, hand>>, network = 3 \/ UNCHANGED lock PROVE HandOK'
  BY <1>0, <1>2 DEF HandOK
<1>3. ASSUME NEW r \in Round, \A q \in Round : q # r => goroutine'[q] = goroutine[q],
             goroutine[r].at # "none", round' = round
      PROVE  StartedOnly'
  BY <1>0, <1>3 DEF StartedOnly
<1>4. ASSUME NEW r \in Round, \A q \in Round : q # r => goroutine'[q] = goroutine[q],
             lock = None \/ goroutine[r].at \in {"writes", "scans"},
             \/ goroutine'[r].at \in {"writes", "scans"} /\ lock' = r
             \/ goroutine'[r].at \notin {"writes", "scans"} /\ lock' = None
      PROVE  Locked'
  BY <1>0, <1>4, Alone DEF Locked
<1>5. ASSUME network = 3, PriorityActions PROVE HandOK' /\ Locked' /\ StartedOnly'
  <2>1. ASSUME NEW m \in Message, Push(m) PROVE HandOK' /\ Locked' /\ StartedOnly'
    <3>1. HandOK'
      BY <1>0, <1>5, <2>1 DEF HandOK, Push, Idle, Helping
    <3> QED
      BY <1>1, <2>1, <3>1, HandSteps
  <2>0. CASE Announce
    <3>1. Locked' /\ StartedOnly'
      BY <1>1, <2>0, HandSteps
    <3>2. hand.msg \in Message
      BY <1>0, <2>0 DEF HandOK, Announce, Idle, Helping
    <3>3. hand'.at \notin {"idle", "help"} /\ hand'.msg \in Message
      BY <1>0, <2>0, <3>2 DEF Announce
    <3> QED
      BY <1>5, <2>0, <3>1, <3>3, HandSteps DEF HandOK
  <2>2. CASE Compare
    <3>1. Locked' /\ StartedOnly'
      BY <1>1, <2>2, HandSteps
    <3>2. hand.msg \in Message
      BY <1>0, <2>2 DEF HandOK, Compare, Idle, Helping
    <3>3. hand' = Idle \/ (hand'.at \notin {"idle", "help"} /\ hand'.msg \in Message)
      BY <1>0, <2>2, <3>2 DEF Compare
    <3> QED
      BY <1>5, <2>2, <3>1, <3>3, HandSteps DEF HandOK
  <2>3. CASE CompareAgain
    <3>1. Locked' /\ StartedOnly'
      BY <1>1, <2>3, HandSteps
    <3>2. hand.msg \in Message
      BY <1>0, <2>3 DEF HandOK, CompareAgain, Idle, Helping
    <3>3. hand' = Idle \/ (hand'.at \notin {"idle", "help"} /\ hand'.msg \in Message)
      BY <1>0, <2>3, <3>2 DEF CompareAgain, Idle
    <3> QED
      BY <1>5, <2>3, <3>1, <3>3, HandSteps DEF HandOK
  <2>4. CASE ReadChannel
    <3>1. Locked' /\ StartedOnly'
      BY <1>1, <2>4, HandSteps
    <3>2. hand.msg \in Message
      BY <1>0, <2>4 DEF HandOK, ReadChannel, Idle, Helping
    <3>3. hand' = Idle \/ (hand'.at \notin {"idle", "help"} /\ hand'.msg \in Message)
      BY <1>0, <2>4, <3>2 DEF ReadChannel
    <3> QED
      BY <1>5, <2>4, <3>1, <3>3, HandSteps DEF HandOK
  <2>5. CASE Send
    <3>1. Locked' /\ StartedOnly'
      BY <1>1, <2>5, HandSteps
    <3>2. hand' = Idle /\ network' = 3
      BY <1>5, <2>5 DEF Send
    <3>3. HandOK'
      BY <3>2 DEF HandOK, Idle
    <3> QED
      BY <3>1, <3>3
  <2>6. CASE Store
    <3>1. Locked' /\ StartedOnly'
      BY <1>1, <2>6 DEF Store
    <3>2. hand' = Idle /\ network' = 3
      BY <1>5, <2>6 DEF Store
    <3>3. HandOK'
      BY <3>2 DEF HandOK, Idle
    <3> QED
      BY <3>1, <3>3
  <2>7. ASSUME NEW r \in Round, Lock(r) \/ WriteField(r) \/ Scan(r) \/ Registered(r)
        PROVE  HandOK' /\ Locked' /\ StartedOnly'
    <3>1. HandOK'
      BY <1>0, <1>5, <2>7 DEF HandOK, Lock, WriteField, Scan, Registered
    <3>2. StartedOnly'
      <4>1. goroutine[r].at # "none" /\ round' = round
        BY <2>7 DEF Lock, WriteField, Scan, Registered
      <4> QED
        BY <1>3, <2>7, <4>1, OneMoves
    <3>3. Locked'
      <4>1. \A q \in Round : q # r => goroutine'[q] = goroutine[q]
        BY <2>7, OneMoves
      <4>2. CASE Lock(r)
        BY <1>4, <4>1, <4>2, OneMoves DEF Lock
      <4>3. CASE WriteField(r) \/ Scan(r)
        <5>1. lock' = lock /\ goroutine[r].at \in {"writes", "scans"}
          BY <4>3 DEF WriteField, Scan
        <5>2. goroutine'[r].at \in {"writes", "scans"}
          BY <4>3, OneMoves
        <5> QED
          BY <1>0, <4>1, <5>1, <5>2 DEF Locked
      <4>4. CASE Registered(r)
        BY <1>4, <4>1, <4>4, OneMoves DEF Registered
      <4> QED
        BY <2>7, <4>2, <4>3, <4>4
    <3> QED
      BY <3>1, <3>2, <3>3
  <2> QED
    BY <1>5, <2>0, <2>1, <2>2, <2>3, <2>4, <2>5, <2>6, <2>7 DEF PriorityActions
<1>6. ASSUME network # 3, NormalActions PROVE HandOK' /\ Locked' /\ StartedOnly'
  <2>1. ASSUME NEW m \in Message, NormalTakes(m) PROVE HandOK' /\ Locked' /\ StartedOnly'
    <3>1. UNCHANGED <<network, register, goroutine, round>> /\ lock \notin Round
      BY <1>6, <2>1, Takes
    <3>2. \/ /\ lock' = Handler /\ register.priority = Priority[m]
             /\ hand' = [at |-> "send", msg |-> m, to |-> register.channel]
          \/ lock' = Handler /\ hand' = [at |-> "announce", msg |-> m, to |-> None]
          \/ lock' = None /\ hand' = Idle
      BY <1>6, <2>1, Takes
    <3>3. HandOK'
      <4>1. register'.channel = register'.priority /\ (register.priority = Priority[m] => register.channel \in Round)
        BY <1>0, <1>6, <3>1, Alone DEF HandOK
      <4> QED
        BY <1>6, <3>1, <3>2, <4>1 DEF HandOK, Idle
    <3>4. Locked' /\ StartedOnly'
      <4>1. lock' \notin Round
        BY <3>2, Alone
      <4> QED
        BY <1>0, <3>1, <4>1 DEF Locked, StartedOnly
    <3> QED
      BY <3>3, <3>4
  <2>2. CASE NormalSend
    <3>1. lock = Handler /\ hand' = Idle /\ lock' = None /\ hand.at = "send"
          /\ UNCHANGED <<network, register, goroutine, round>>
      BY <1>0, <1>6, <2>2 DEF HandOK, NormalSend
    <3>2. HandOK'
      <4>1. register'.channel = register'.priority
        BY <1>0, <1>6, <3>1 DEF HandOK
      <4>2. hand' = Idle /\ Idle.at \notin {"send", "announce"}
        BY <3>1 DEF Idle
      <4> QED
        BY <4>1, <4>2 DEF HandOK
    <3>3. Locked'
      BY <1>0, <3>1, Alone DEF Locked
    <3>4. StartedOnly'
      BY <1>0, <3>1 DEF StartedOnly
    <3> QED
      BY <3>2, <3>3, <3>4
  <2>3. ASSUME NEW r \in Round, NormalLock(r) \/ NormalScan(r) \/ NormalRegistered(r)
        PROVE  HandOK' /\ Locked' /\ StartedOnly'
    <3>1. HandOK'
      <4>1. hand.at # "send" /\ hand.at # "announce"
        BY <1>0, <1>6, <2>3, Alone DEF HandOK, Locked, NormalLock, NormalScan, NormalRegistered
      <4> QED
        BY <1>0, <1>6, <2>3, <4>1 DEF HandOK, NormalLock, NormalScan, NormalRegistered
    <3>2. StartedOnly'
      <4>1. goroutine[r].at # "none" /\ round' = round
        BY <2>3 DEF NormalLock, NormalScan, NormalRegistered
      <4> QED
        BY <1>3, <2>3, <4>1, OneMoves
    <3>3. Locked'
      <4>1. \A q \in Round : q # r => goroutine'[q] = goroutine[q]
        BY <2>3, OneMoves
      <4>2. CASE NormalLock(r)
        BY <1>4, <4>1, <4>2, OneMoves DEF NormalLock
      <4>3. CASE NormalScan(r)
        BY <1>0, <1>4, <4>1, <4>3, OneMoves DEF NormalScan, Locked
      <4>4. CASE NormalRegistered(r)
        BY <1>4, <4>1, <4>4, OneMoves DEF NormalRegistered
      <4> QED
        BY <2>3, <4>2, <4>3, <4>4
    <3> QED
      BY <3>1, <3>2, <3>3
  <2> QED
    BY <1>6, <2>1, <2>2, <2>3 DEF NormalActions
<1>7. CASE CloseRound \/ Route
  BY <1>1, <1>2, <1>7, HandSteps DEF CloseRound, Route
<1>9. CASE TakeHelp \/ PassHelp
  <2>1. hand' \in {Idle, Helping} /\ UNCHANGED <<network, register, goroutine, lock, round>>
    BY <1>9 DEF TakeHelp, PassHelp, Helping
  <2>2. HandOK'
    BY <1>0, <2>1 DEF HandOK, Idle, Helping
  <2> QED
    BY <1>1, <2>1, <2>2
<1>8. ASSUME NEW r \in Round, StartRound(r) PROVE HandOK' /\ Locked' /\ StartedOnly'
  <2>1. goroutine[r].at = "none" /\ r \in Nat /\ round' = r /\ r > round
        /\ \A q \in Round : goroutine[q].at # "none" => round \in Nat /\ q <= round /\ q \in Nat
    BY <1>0, <1>8, Alone DEF StartedOnly, StartRound
  <2>2. StartedOnly'
    BY <1>8, <2>1, OneMoves DEF StartedOnly
  <2>3. Locked'
    BY <1>0, <1>8, <2>1, OneMoves DEF Locked, StartRound
  <2> QED
    BY <1>2, <1>8, <2>2, <2>3 DEF StartRound
<1> QED
  BY <1>5, <1>6, <1>7, <1>8, <1>9, Actions
-----------------------------------------------------------------------------
(* The buffer.                                                               *)

\* A sequence keeps what it holds.
LEMMA KeptSelf ==
    ASSUME NEW s \in Seq(Message)
    PROVE  Kept(s, s)
<1>1. SubSeq(s, 0 + 1, Len(s)) = s /\ 0 \in 0 .. Len(s)
  BY SubSeqFull
<1> QED
  BY <1>1, SuffixKept

\* A step takes nothing into the buffer but a message that has been nowhere before.
LEMMA NewBuffer ==
    ASSUME Inv, Next
    PROVE  \/ Kept(buf', buf)
           \/ \E m \in Message :
                /\ m \notin Buffered /\ Where(m) = {} /\ m \notin coming' /\ hand'.msg # m
                /\ m \in coming \/ hand.msg = m
                /\ \/ network = 3 /\ Kept(buf', Sorted(buf, m))
                   \/ network # 3 /\ Kept(buf', Append(buf, m))
<1>1. buf \in Seq(Message)
  BY DEF Inv, TypeOK
<1>2. ASSUME UNCHANGED buf PROVE Kept(buf', buf)
  BY <1>1, <1>2, KeptSelf
<1>3. ASSUME network = 3, PriorityActions, ~ Kept(buf', buf)
      PROVE  \E m \in Message :
                /\ m \notin Buffered /\ Where(m) = {} /\ m \notin coming' /\ hand'.msg # m
                /\ m \in coming \/ hand.msg = m
                /\ Kept(buf', Sorted(buf, m))
  <2>1. ASSUME Store
        PROVE  /\ hand.msg \in Message /\ Kept(buf', Sorted(buf, hand.msg))
               /\ hand.msg \notin Buffered /\ Where(hand.msg) = {}
               /\ hand.msg \notin coming' /\ hand'.msg # hand.msg
    <3>1. hand.msg \in Message /\ Kept(buf', Sorted(buf, hand.msg))
      BY <1>2, <1>3, <2>1, Stores
    <3>2. hand.msg \notin Buffered /\ Where(hand.msg) = {} /\ hand.msg \notin coming
      BY <3>1 DEF Inv, Fresh
    <3>3. coming' = coming /\ hand'.msg = None
      BY <2>1 DEF Store, Idle
    <3> QED
      BY <3>1, <3>2, <3>3, Alone
  <2>2. ASSUME NEW r \in Round, Registered(r) PROVE FALSE
    BY <1>3, <2>2, CutOff DEF Registered
  <2>3. ASSUME NEW r \in Round, Lock(r) \/ WriteField(r) \/ Scan(r) PROVE UNCHANGED buf
    BY <2>3 DEF Lock, WriteField, Scan
  <2> QED
    BY <1>2, <1>3, <2>1, <2>2, <2>3, HandSteps DEF PriorityActions
<1>4. ASSUME network # 3, NormalActions, ~ Kept(buf', buf)
      PROVE  \E m \in Message :
                /\ m \notin Buffered /\ Where(m) = {} /\ m \notin coming' /\ hand'.msg # m
                /\ m \in coming \/ hand.msg = m
                /\ Kept(buf', Append(buf, m))
  <2>1. ASSUME NEW m \in Message, NormalTakes(m)
        PROVE  /\ m \notin Buffered /\ Where(m) = {} /\ m \notin coming' /\ hand'.msg # m
               /\ m \in coming \/ hand.msg = m
               /\ Kept(buf', Append(buf, m))
    <3>1. /\ buf' = CutOldest(Append(buf, m)) /\ (m \in coming \/ hand.msg = m)
          /\ m \notin coming' /\ hand' = Idle
      BY <1>2, <1>4, <2>1, Takes
    <3>2. m \notin Buffered /\ Where(m) = {}
      BY <3>1 DEF Inv, Fresh
    <3>3. Append(buf, m) \in Seq(Message)
      BY <1>1
    <3>4. Kept(buf', Append(buf, m))
      BY <3>1, <3>3, CutKept
    <3> QED
      BY <3>1, <3>2, <3>4, Alone DEF Idle
  <2>2. ASSUME NEW r \in Round, NormalRegistered(r) PROVE FALSE
    BY <1>4, <2>2, CutOff DEF NormalRegistered
  <2>3. ASSUME NormalSend \/ \E r \in Round : NormalLock(r) \/ NormalScan(r) PROVE UNCHANGED buf
    BY <2>3 DEF NormalSend, NormalLock, NormalScan
  <2> QED
    BY <1>2, <1>4, <2>1, <2>2, <2>3 DEF NormalActions
<1>5. ASSUME CloseRound \/ Route \/ TakeHelp \/ PassHelp \/ \E r \in Round : StartRound(r)
      PROVE  Kept(buf', buf)
  BY <1>2, <1>5 DEF CloseRound, Route, TakeHelp, PassHelp, StartRound
<1> QED
  BY <1>3, <1>4, <1>5, Actions

\* The network is chosen once, and what the handler holds or has not seen becomes less.
LEMMA Onwards ==
    ASSUME Inv, Next
    PROVE  /\ network' = network /\ coming' \subseteq coming
           /\ \A m \in Message : hand'.msg = m => m \in coming \/ hand.msg = m
           /\ hand'.msg \notin coming'
<1>1. /\ hand.msg \notin coming /\ coming \subseteq Message /\ None \notin Message
      /\ hand \in [at : {"idle", "announce", "compare", "again", "channel", "send", "store", "help"},
                   msg : Message \union {None}, to : Round \union {None}]
  BY MessageAssumption DEF Inv, TypeOK, Fresh
<1>2. ASSUME UNCHANGED <<network, coming>>, hand' = hand \/ hand' = Idle \/ hand'.msg = hand.msg
      PROVE  /\ network' = network /\ coming' \subseteq coming
             /\ \A m \in Message : hand'.msg = m => m \in coming \/ hand.msg = m
             /\ hand'.msg \notin coming'
  BY <1>1, <1>2 DEF Idle
<1>3. CASE PriorityActions
  <2>1. ASSUME NEW m \in Message, Push(m)
        PROVE  /\ network' = network /\ coming' \subseteq coming
               /\ \A n \in Message : hand'.msg = n => n \in coming \/ hand.msg = n
               /\ hand'.msg \notin coming'
    BY <1>1, <2>1 DEF Push, Idle
  <2>2. ASSUME \/ Announce \/ Compare \/ CompareAgain \/ ReadChannel \/ Send \/ Store
               \/ \E r \in Round : Lock(r) \/ WriteField(r) \/ Scan(r) \/ Registered(r)
        PROVE  UNCHANGED <<network, coming>> /\ (hand' = hand \/ hand' = Idle \/ hand'.msg = hand.msg)
    BY <1>1, <2>2 DEF Announce, Compare, CompareAgain, ReadChannel, Send, Store, Lock, WriteField, Scan,
                      Registered, handMoves
  <2> QED
    BY <1>2, <1>3, <2>1, <2>2 DEF PriorityActions
<1>4. CASE network # 3 /\ NormalActions
  <2>1. ASSUME NEW m \in Message, network # 3, NormalTakes(m)
        PROVE  /\ network' = network /\ coming' \subseteq coming
               /\ \A n \in Message : hand'.msg = n => n \in coming \/ hand.msg = n
               /\ hand'.msg \notin coming'
    BY <1>1, <2>1, Takes DEF Idle
  <2>2. ASSUME NormalSend \/ \E r \in Round : NormalLock(r) \/ NormalScan(r) \/ NormalRegistered(r)
        PROVE  UNCHANGED <<network, coming>> /\ (hand' = hand \/ hand' = Idle)
    BY <2>2 DEF NormalSend, NormalLock, NormalScan, NormalRegistered
  <2> QED
    BY <1>2, <1>4, <2>1, <2>2 DEF NormalActions
<1>5. ASSUME CloseRound \/ Route \/ TakeHelp \/ PassHelp \/ \E r \in Round : StartRound(r)
      PROVE  UNCHANGED <<network, coming>> /\ (hand' = hand \/ hand' = Idle \/ hand'.msg = hand.msg)
  BY <1>5 DEF CloseRound, Route, TakeHelp, PassHelp, StartRound, Idle
<1> QED
  BY <1>2, <1>3, <1>4, <1>5, Actions

\* The buffer stays in order, and holds nothing twice.
LEMMA OrderStep ==
    ASSUME Inv, Next
    PROVE  BufOrdered' /\ Once(buf)'
<1>1. /\ buf \in Seq(Message) /\ Once(buf) /\ (network = 3 => Ordered(buf)) /\ network' = network
  BY Onwards DEF Inv, TypeOK, BufOrdered
<1>2. CASE Kept(buf', buf)
  BY <1>1, <1>2 DEF Kept, BufOrdered
<1>3. ASSUME NEW m \in Message, m \notin Buffered, network = 3, Kept(buf', Sorted(buf, m))
      PROVE  BufOrdered' /\ Once(buf)'
  <2>1. PICK t : t = Sorted(buf, m)
    OBVIOUS
  <2>2. Ordered(t) /\ (Once(buf) /\ m \notin Range(buf) => Once(t))
    BY <1>1, <1>3, <2>1, SortedIs
  <2> QED
    BY <1>1, <1>3, <2>1, <2>2, Zenon DEF Kept, BufOrdered, Buffered
<1>4. ASSUME NEW m \in Message, m \notin Buffered, network # 3, Kept(buf', Append(buf, m))
      PROVE  BufOrdered' /\ Once(buf)'
  <2>1. Once(buf) /\ m \notin Range(buf) => Once(Append(buf, m))
    BY <1>1, Appended
  <2> QED
    BY <1>1, <1>4, <2>1 DEF Kept, BufOrdered, Buffered
<1> QED
  BY <1>2, <1>3, <1>4, NewBuffer

\* Nothing changes for a registration that is in its loop.
LEMMA CursorSame ==
    ASSUME Inv, network' = network, NEW q \in Round,
           goroutine'[q].at = goroutine[q].at,
           goroutine'[q].next = goroutine[q].next, goroutine'[q].cut = goroutine[q].cut,
           goroutine[q].at = "scans" => buf' = buf
    PROVE  IF goroutine'[q].at = "scans"
           THEN /\ goroutine'[q].next \in 1 .. Len(buf') + 1
                /\ goroutine'[q].cut \in 0 .. goroutine'[q].next - 1
                /\ network' = 3 => \A i \in goroutine'[q].cut + 1 .. goroutine'[q].next - 1 :
                                       Priority[buf'[i]] # q
           ELSE goroutine'[q].next = 1 /\ goroutine'[q].cut = 0
  BY DEF Inv, CursorOK

\* The cursor moves over the messages one by one.
LEMMA CursorStep ==
    ASSUME Inv, Next
    PROVE  CursorOK'
<1>1. network' = network
  BY Onwards
<1>2. ASSUME UNCHANGED goroutine, UNCHANGED buf \/ ~ Scanning PROVE CursorOK'
  <2>1. ASSUME NEW q \in Round PROVE goroutine[q].at = "scans" => buf' = buf
    BY <1>2 DEF Scanning
  <2> QED
    BY <1>1, <1>2, <2>1, CursorSame DEF CursorOK
<1>3. ASSUME NEW r \in Round, UNCHANGED buf, \A q \in Round : q # r => goroutine'[q] = goroutine[q],
             goroutine[r].at # "scans",
             goroutine'[r].next = goroutine[r].next, goroutine'[r].cut = goroutine[r].cut
      PROVE  CursorOK'
  <2>1. buf \in Seq(Message) /\ goroutine'[r].next = 1 /\ goroutine'[r].cut = 0
    BY <1>3 DEF Inv, CursorOK, TypeOK
  <2>2. 1 \in 1 .. Len(buf') + 1 /\ 0 \in 0 .. 1 - 1 /\ 0 + 1 .. 1 - 1 = {}
    BY <1>3, <2>1
  <2>3. ASSUME NEW q \in Round, q # r
        PROVE  IF goroutine'[q].at = "scans"
               THEN /\ goroutine'[q].next \in 1 .. Len(buf') + 1
                    /\ goroutine'[q].cut \in 0 .. goroutine'[q].next - 1
                    /\ network' = 3 => \A i \in goroutine'[q].cut + 1 .. goroutine'[q].next - 1 :
                                           Priority[buf'[i]] # q
               ELSE goroutine'[q].next = 1 /\ goroutine'[q].cut = 0
    BY <1>1, <1>3, <2>3, CursorSame
  <2> QED
    BY <2>1, <2>2, <2>3 DEF CursorOK
<1>4. ASSUME NEW r \in Round, (network = 3 /\ Scan(r)) \/ (network # 3 /\ NormalScan(r))
      PROVE  CursorOK'
  <2>1. /\ goroutine[r].at = "scans" /\ ~ PastRound(r) /\ UNCHANGED buf
        /\ goroutine'[r].at = "scans" /\ goroutine'[r].next = goroutine[r].next + 1
        /\ \A q \in Round : q # r => goroutine'[q] = goroutine[q]
    BY <1>4, OneMoves DEF Scan, NormalScan
  <2>2. PICK i, c : i = goroutine[r].next /\ c = goroutine[r].cut
    OBVIOUS
  <2>3. i \in 1 .. Len(buf) /\ c \in 0 .. i - 1 /\ Len(buf) \in Nat
    BY <2>1, <2>2, Cursor DEF Inv, TypeOK
  <2>4. network = 3 => \A j \in c + 1 .. i - 1 : Priority[buf[j]] # r
    BY <2>1, <2>2 DEF Inv, CursorOK
  <2>5. \/ goroutine'[r].cut = c /\ Priority[buf[i]] # r
        \/ goroutine'[r].cut = i /\ network = 3
        \/ goroutine'[r].cut = i - 1 /\ network # 3
    BY <1>4, <2>2, OneMoves
  <2>6. /\ goroutine'[r].next \in 1 .. Len(buf') + 1
        /\ goroutine'[r].cut \in 0 .. goroutine'[r].next - 1
        /\ network' = 3 => \A j \in goroutine'[r].cut + 1 .. goroutine'[r].next - 1 :
                               Priority[buf'[j]] # r
    <3>1. goroutine'[r].next - 1 = i /\ goroutine'[r].next \in 1 .. Len(buf') + 1
      BY <2>1, <2>2, <2>3
    <3>2. goroutine'[r].cut \in 0 .. i
      BY <2>3, <2>5
    <3>3. ASSUME network = 3, NEW j \in goroutine'[r].cut + 1 .. i PROVE Priority[buf[j]] # r
      <4>1. goroutine'[r].cut = c /\ Priority[buf[i]] # r
        BY <2>3, <2>5, <3>3
      <4>2. j = i \/ j \in c + 1 .. i - 1
        BY <2>3, <3>3, <4>1
      <4> QED
        BY <2>4, <3>3, <4>1, <4>2
    <3> QED
      BY <1>1, <2>1, <3>1, <3>2, <3>3, Zenon
  <2>7. ASSUME NEW q \in Round, q # r
        PROVE  IF goroutine'[q].at = "scans"
               THEN /\ goroutine'[q].next \in 1 .. Len(buf') + 1
                    /\ goroutine'[q].cut \in 0 .. goroutine'[q].next - 1
                    /\ network' = 3 => \A j \in goroutine'[q].cut + 1 .. goroutine'[q].next - 1 :
                                           Priority[buf'[j]] # q
               ELSE goroutine'[q].next = 1 /\ goroutine'[q].cut = 0
    BY <1>1, <2>1, <2>7, CursorSame
  <2> QED
    BY <2>1, <2>6, <2>7 DEF CursorOK
<1>5. ASSUME NEW r \in Round, Registered(r) \/ NormalRegistered(r) PROVE CursorOK'
  <2>1. /\ goroutine'[r].at = "done" /\ goroutine'[r].next = 1 /\ goroutine'[r].cut = 0
        /\ goroutine[r].at = "scans" /\ \A q \in Round : q # r => goroutine'[q] = goroutine[q]
    BY <1>5, OneMoves DEF Registered, NormalRegistered
  <2>2. \A q \in Round : q # r => goroutine[q].at # "scans"
    BY <2>1, Alone
  <2>3. ASSUME NEW q \in Round, q # r
        PROVE  goroutine'[q].at # "scans" /\ goroutine'[q].next = 1 /\ goroutine'[q].cut = 0
    BY <2>1, <2>2, <2>3 DEF Inv, CursorOK
  <2> QED
    BY <2>1, <2>3 DEF CursorOK
<1>6. CASE network = 3 /\ PriorityActions
  <2>1. ASSUME Store PROVE CursorOK'
    BY <1>2, <1>6, <2>1, Stores DEF Store
  <2>2. ASSUME NEW r \in Round, Lock(r) \/ WriteField(r) PROVE CursorOK'
    BY <1>3, <2>2, OneMoves DEF Lock, WriteField
  <2> QED
    BY <1>2, <1>4, <1>5, <1>6, <2>1, <2>2, HandSteps DEF PriorityActions
<1>7. CASE network # 3 /\ NormalActions
  <2>1. ASSUME NEW m \in Message, NormalTakes(m) PROVE CursorOK'
    BY <1>2, <1>7, <2>1, Alone, Takes
  <2>2. ASSUME NormalSend PROVE CursorOK'
    BY <1>2, <2>2 DEF NormalSend
  <2>3. ASSUME NEW r \in Round, NormalLock(r) PROVE CursorOK'
    BY <1>3, <2>3, OneMoves DEF NormalLock
  <2> QED
    BY <1>4, <1>5, <1>7, <2>1, <2>2, <2>3 DEF NormalActions
<1>8. ASSUME NEW r \in Round, StartRound(r) PROVE CursorOK'
  <2>1. goroutine[r].at # "scans"
    BY <1>8, Alone DEF Inv, StartedOnly, StartRound
  <2> QED
    BY <1>3, <1>8, <2>1, OneMoves DEF StartRound
<1> QED
  BY <1>2, <1>6, <1>7, <1>8, Actions, HandSteps

\* MemUse covers the buffer, and what a registration leaves of it.
LEMMA MemStep ==
    ASSUME Inv, Next
    PROVE  MemOK'
<1> SUFFICES ASSUME network' = 3 PROVE MemOK'
  BY DEF MemOK
<1>1. /\ network = 3 /\ buf \in Seq(Message) /\ Locked
      /\ \A r \in Round : goroutine[r].at = "scans"
             => memUse >= SizeOf(SubSeq(buf, goroutine[r].cut + 1, Len(buf)))
      /\ ~ Scanning => memUse >= SizeOf(buf)
  BY Onwards DEF Inv, TypeOK, MemOK
<1>2. ASSUME UNCHANGED <<buf, memUse>>,
             \A r \in Round : /\ goroutine'[r].at = "scans" <=> goroutine[r].at = "scans"
                              /\ goroutine[r].at = "scans" => goroutine'[r].cut = goroutine[r].cut
      PROVE  MemOK'
  BY <1>1, <1>2 DEF MemOK, Scanning
<1>3. ASSUME NEW r \in Round, Lock(r) PROVE MemOK'
  <2>1. \A q \in Round : goroutine[q].at # "scans"
    BY <1>3, Alone DEF Lock, Scanning
  <2>2. \A q \in Round : goroutine'[q].at # "scans"
    BY <1>3, <2>1, OneMoves
  <2> QED
    BY <1>2, <1>3, <2>1, <2>2 DEF Lock
<1>4. ASSUME NEW r \in Round, WriteField(r) PROVE MemOK'
  <2>1. goroutine[r].at = "writes" /\ UNCHANGED <<buf, memUse>>
    BY <1>4 DEF WriteField
  <2>2. goroutine[r].cut = 0 /\ \A q \in Round : goroutine[q].at # "scans"
    BY <2>1, Alone DEF Inv, CursorOK
  <2>3. memUse >= SizeOf(buf)
    BY <1>1, <2>2 DEF Scanning
  <2>4. goroutine'[r].cut = 0 /\ \A q \in Round : q # r => goroutine'[q].at # "scans"
    BY <1>4, <2>2, OneMoves
  <2>5. SubSeq(buf, 0 + 1, Len(buf)) = buf
    BY <1>1, SubSeqFull
  <2> QED
    BY <2>1, <2>3, <2>4, <2>5 DEF MemOK
<1>5. ASSUME NEW r \in Round, Scan(r) PROVE MemOK'
  <2>1. /\ goroutine[r].at = "scans" /\ UNCHANGED buf /\ goroutine'[r].at = "scans"
        /\ \A q \in Round : q # r => goroutine'[q] = goroutine[q]
    BY <1>5, OneMoves DEF Scan
  <2>2. \A q \in Round : q # r => goroutine'[q].at # "scans"
    BY <2>1, Alone
  <2>3. memUse' >= SizeOf(SubSeq(buf, goroutine'[r].cut + 1, Len(buf)))
    BY <1>1, <1>5, Scanned
  <2> QED
    BY <2>1, <2>2, <2>3 DEF MemOK, Scanning
<1>6. ASSUME NEW r \in Round, Registered(r) PROVE MemOK'
  <2>1. /\ goroutine[r].at = "scans" /\ UNCHANGED memUse /\ goroutine'[r].at = "done"
        /\ buf' = SubSeq(buf, goroutine[r].cut + 1, Len(buf))
        /\ \A q \in Round : q # r => goroutine'[q] = goroutine[q]
    BY <1>6, OneMoves DEF Registered
  <2>2. \A q \in Round : goroutine'[q].at # "scans"
    BY <2>1, Alone
  <2> QED
    BY <1>1, <2>1, <2>2 DEF MemOK
<1>7. ASSUME Store PROVE MemOK'
  <2>1. /\ ~ Scanning /\ UNCHANGED goroutine
        /\ UNCHANGED <<buf, memUse>> \/ memUse' >= SizeOf(buf')
    BY <1>1, <1>7, Stores DEF Store
  <2>2. memUse' >= SizeOf(buf')
    BY <1>1, <2>1
  <2> QED
    BY <2>1, <2>2 DEF MemOK, Scanning
<1>8. ASSUME NEW r \in Round, StartRound(r) PROVE MemOK'
  <2>1. goroutine[r].at # "scans" /\ goroutine'[r].at # "scans"
    BY <1>8, Alone, OneMoves DEF Inv, StartedOnly, StartRound
  <2> QED
    BY <1>2, <1>8, <2>1, OneMoves DEF StartRound
<1> QED
  BY <1>1, <1>2, <1>3, <1>4, <1>5, <1>6, <1>7, <1>8, Actions, HandSteps DEF PriorityActions
-----------------------------------------------------------------------------
(* Where the messages are.                                                   *)

\* What is left when the first message of a sequence is taken.
LEMMA TailIs ==
    ASSUME NEW s \in Seq(Message), s # <<>>, Once(s)
    PROVE  /\ Tail(s) \in Seq(Message) /\ Range(Tail(s)) \subseteq Range(s) /\ Once(Tail(s))
           /\ Head(s) \in Message /\ Head(s) \in Range(s) /\ Head(s) \notin Range(Tail(s))
<1>1. PICK t : t = Tail(s)
  OBVIOUS
<1>2. /\ t \in Seq(Message) /\ Len(t) = Len(s) - 1 /\ Len(s) \in Nat /\ Len(s) >= 1
      /\ Head(s) = s[1] /\ s[1] \in Message
      /\ \A i \in 1 .. Len(t) : t[i] = s[i + 1] /\ i + 1 \in 1 .. Len(s)
  BY <1>1
<1>3. Head(s) \in Range(s)
  BY <1>2, InRange
<1>4. \A x \in Range(t) : \E i \in 1 .. Len(t) : t[i] = x
  BY <1>2, InRange
<1>5. Range(t) \subseteq Range(s)
  BY <1>2, <1>4, InRange
<1>6. Head(s) \notin Range(t)
  <2> SUFFICES ASSUME Head(s) \in Range(t) PROVE FALSE
    OBVIOUS
  <2>1. PICK i \in 1 .. Len(t) : t[i] = Head(s)
    BY <1>4
  <2>2. s[i + 1] = s[1] /\ i + 1 \in 1 .. Len(s) /\ 1 \in 1 .. Len(s) /\ i + 1 # 1
    BY <1>2, <2>1
  <2> QED
    BY <2>2 DEF Once
<1>7. Once(t)
  <2> SUFFICES ASSUME NEW i \in 1 .. Len(t), NEW j \in 1 .. Len(t), t[i] = t[j] PROVE i = j
    BY DEF Once
  <2>1. s[i + 1] = s[j + 1] /\ i + 1 \in 1 .. Len(s) /\ j + 1 \in 1 .. Len(s)
    BY <1>2
  <2>2. i + 1 = j + 1
    BY <2>1 DEF Once
  <2> QED
    BY <2>2
<1> QED
  BY <1>1, <1>2, <1>3, <1>5, <1>6, <1>7

\* A message that has been nowhere comes into one channel.
LEMMA PutInto ==
    ASSUME Inv, NEW q \in Round, NEW m \in Message, Where(m) = {}, UNCHANGED delivered,
           channel' = [channel EXCEPT ![q] = Append(@, m)]
    PROVE  /\ Places'
           /\ \A x \in Message : x # m => Where(x)' = Where(x)
<1>1. /\ channel \in [Round -> Seq(Message)] /\ \A r \in Round : Once(channel[r])
      /\ \A x \in Message : /\ \A r, p \in Where(x) : r = p
                            /\ InChannel(x) \intersect HandedOn(x) = {}
  BY DEF Inv, TypeOK, Places
<1>2. m \notin Range(channel[q])
  BY DEF Where, InChannel
<1>3. PICK s : s = Append(channel[q], m)
  OBVIOUS
<1>4. Range(s) = Range(channel[q]) \union {m} /\ Once(s)
  <2>1. channel[q] \in Seq(Message) /\ Once(channel[q])
    BY <1>1
  <2> QED
    BY <1>2, <1>3, <2>1, Appended, Zenon
<1>5. channel' = [channel EXCEPT ![q] = s]
  BY <1>3
<1>6. channel'[q] = s /\ \A r \in Round : r # q => channel'[r] = channel[r]
  BY <1>1, <1>5
<1>7. ASSUME NEW x \in Message, x # m
      PROVE  InChannel(x)' = InChannel(x) /\ HandedOn(x)' = HandedOn(x) /\ Where(x)' = Where(x)
  <2>1. \A r \in Round : x \in Range(channel'[r]) <=> x \in Range(channel[r])
    BY <1>4, <1>6, <1>7
  <2> QED
    BY <2>1 DEF Where, InChannel, HandedOn
<1>8. InChannel(m)' \subseteq {q} /\ HandedOn(m)' = {}
  <2>1. \A r \in Round : r # q => m \notin Range(channel'[r])
    BY <1>6 DEF Where, InChannel
  <2>2. HandedOn(m)' = {}
    BY DEF Where, HandedOn
  <2> QED
    BY <2>1, <2>2 DEF InChannel
<1>9. \A x \in Message : /\ (\A r, p \in Where(x) : r = p)'
                         /\ (InChannel(x) \intersect HandedOn(x) = {})'
  BY <1>1, <1>7, <1>8 DEF Where
<1>10. \A r \in Round : Once(channel'[r])
  BY <1>1, <1>4, <1>6
<1> QED
  BY <1>7, <1>9, <1>10 DEF Places

\* The MsgRouter takes a message from a channel and hands it on, or drops it.
LEMMA Routed ==
    ASSUME Inv, Route
    PROVE  Places' /\ \A x \in Message : Where(x)' \subseteq Where(x)
<1>1. /\ channel \in [Round -> Seq(Message)] /\ \A r \in Round : Once(channel[r])
      /\ delivered \in [Round -> SUBSET Message]
      /\ \A x \in Message : /\ \A r, p \in Where(x) : r = p
                            /\ InChannel(x) \intersect HandedOn(x) = {}
  BY DEF Inv, TypeOK, Places
<1>2. CASE round \notin Round
  <2>1. channel' = channel /\ delivered' = delivered
    BY <1>1, <1>2 DEF Route
  <2>2. \A x \in Message : InChannel(x)' = InChannel(x) /\ HandedOn(x)' = HandedOn(x)
    BY <2>1 DEF InChannel, HandedOn
  <2> QED
    BY <1>1, <2>1, <2>2 DEF Places, Where
<1>3. CASE round \in Round
  <2>1. PICK m, s : m = Head(channel[round]) /\ s = Tail(channel[round])
    OBVIOUS
  <2>2. /\ s \in Seq(Message) /\ Range(s) \subseteq Range(channel[round]) /\ Once(s)
        /\ m \in Message /\ m \in Range(channel[round]) /\ m \notin Range(s)
    <3>1. channel[round] \in Seq(Message) /\ channel[round] # <<>> /\ Once(channel[round])
      BY <1>1, <1>3 DEF Route
    <3> QED
      BY <2>1, <3>1, TailIs
  <2>3. /\ channel' = [channel EXCEPT ![round] = s]
        /\ delivered' = delivered \/ delivered' = [delivered EXCEPT ![round] = @ \union {m}]
    BY <2>1 DEF Route
  <2>4. channel'[round] = s /\ \A r \in Round : r # round => channel'[r] = channel[r]
    BY <1>1, <1>3, <2>3
  <2>5. \A x \in Message : InChannel(x)' \subseteq InChannel(x)
    BY <2>2, <2>4 DEF InChannel
  <2>6. \A x \in Message : x # m => HandedOn(x)' = HandedOn(x)
    BY <1>1, <2>3, SMTT(30) DEF HandedOn
  <2>7. HandedOn(m)' \subseteq HandedOn(m) \union {round}
    BY <1>1, <2>3 DEF HandedOn
  <2>8. round \in InChannel(m) /\ round \notin InChannel(m)'
    BY <1>3, <2>2, <2>4 DEF InChannel
  <2>9. \A x \in Message : Where(x)' \subseteq Where(x)
    BY <2>2, <2>5, <2>6, <2>7, <2>8 DEF Where
  <2>10. InChannel(m)' = {}
    BY <1>1, <2>2, <2>5, <2>8 DEF Where
  <2>11. \A x \in Message : (InChannel(x) \intersect HandedOn(x) = {})'
    BY <1>1, <2>5, <2>6, <2>10
  <2>12. \A r \in Round : Once(channel'[r])
    BY <1>1, <2>2, <2>4
  <2> QED
    BY <1>1, <2>9, <2>11, <2>12 DEF Places
<1> QED
  BY <1>2, <1>3

\* A message comes into a channel from the handler's hand, or from the buffer.
LEMMA NewPlaces ==
    ASSUME Inv, Next
    PROVE  /\ Places'
           /\ \/ \A x \in Message : Where(x)' \subseteq Where(x)
              \/ \E m \in Message :
                    /\ \A x \in Message : x # m => Where(x)' = Where(x)
                    /\ \/ /\ hand.msg = m /\ hand' = Idle
                          /\ UNCHANGED <<network, goroutine, buf>>
                       \/ \E r \in Round :
                            /\ goroutine[r].at = "scans" /\ Priority[m] = r
                            /\ goroutine[r].next \in 1 .. Len(buf) /\ buf[goroutine[r].next] = m
                            /\ (network = 3 /\ Scan(r)) \/ (network # 3 /\ NormalScan(r))
<1>1. ASSUME UNCHANGED <<channel, delivered>>
      PROVE  Places' /\ \A x \in Message : Where(x)' \subseteq Where(x)
  BY <1>1 DEF Inv, Places, Where, InChannel, HandedOn
<1>2. ASSUME (network = 3 /\ Send) \/ (network # 3 /\ NormalSend)
      PROVE  /\ Places' /\ hand.msg \in Message /\ hand' = Idle
             /\ UNCHANGED <<network, goroutine, buf>>
             /\ \A x \in Message : x # hand.msg => Where(x)' = Where(x)
  <2>1. hand.msg \in Message /\ hand.to \in Round
    BY <1>2 DEF Inv, TypeOK, HandOK, Idle, Helping, Send, NormalSend
  <2>2. Where(hand.msg) = {}
    BY <2>1 DEF Inv, Fresh
  <2>3. /\ UNCHANGED <<delivered, network, goroutine, buf>> /\ hand' = Idle
        /\ channel' = [channel EXCEPT ![hand.to] = Append(@, hand.msg)]
    BY <1>2 DEF Send, NormalSend
  <2> QED
    BY <2>1, <2>2, <2>3, PutInto
<1>3. ASSUME NEW r \in Round, (network = 3 /\ Scan(r)) \/ (network # 3 /\ NormalScan(r)),
             ~ UNCHANGED <<channel, delivered>>
      PROVE  \E m \in Message :
                /\ Places' /\ \A x \in Message : x # m => Where(x)' = Where(x)
                /\ goroutine[r].at = "scans" /\ Priority[m] = r
                /\ goroutine[r].next \in 1 .. Len(buf) /\ buf[goroutine[r].next] = m
  <2>1. goroutine[r].at = "scans" /\ ~ PastRound(r) /\ UNCHANGED delivered
    BY <1>3 DEF Scan, NormalScan
  <2>2. PICK i : i = goroutine[r].next
    OBVIOUS
  <2>3. i \in 1 .. Len(buf) /\ buf[i] \in Message
    BY <2>1, <2>2, Cursor
  <2>4. Priority[buf[i]] = r /\ channel' = [channel EXCEPT ![r] = Append(@, buf[i])]
    BY <1>3, <2>2 DEF Scan, NormalScan
  <2>5. Where(buf[i]) = {}
    <3>1. ~ i < goroutine[r].next
      BY <2>2, <2>3
    <3> QED
      BY <2>1, <2>3, <2>4, <3>1 DEF Inv, SentScanned
  <2>6. Places' /\ \A x \in Message : x # buf[i] => Where(x)' = Where(x)
    BY <2>1, <2>3, <2>4, <2>5, PutInto
  <2> QED
    BY <2>1, <2>2, <2>3, <2>4, <2>6
<1>4. CASE Route
  BY <1>4, Routed
<1>5. ASSUME \/ \E m \in Message : Push(m) \/ NormalTakes(m)
             \/ Announce \/ Compare \/ CompareAgain \/ ReadChannel \/ Store \/ CloseRound
             \/ TakeHelp \/ PassHelp
             \/ \E r \in Round : \/ StartRound(r) \/ Lock(r) \/ WriteField(r) \/ Registered(r)
                                 \/ NormalLock(r) \/ NormalRegistered(r)
      PROVE  UNCHANGED <<channel, delivered>>
  BY <1>5 DEF Push, NormalTakes, NormalPush, NormalAnnounce, Announce, Compare, CompareAgain,
              ReadChannel, Store, CloseRound, TakeHelp, PassHelp, StartRound,
              Lock, WriteField, Registered, NormalLock, NormalRegistered, handMoves
<1>6. CASE network = 3 /\ PriorityActions
  BY <1>1, <1>2, <1>3, <1>5, <1>6, Zenon DEF PriorityActions
<1>7. CASE network # 3 /\ NormalActions
  BY <1>1, <1>2, <1>3, <1>5, <1>7, Zenon DEF NormalActions
<1> QED
  BY <1>1, <1>4, <1>5, <1>6, <1>7, Actions, Zenon

\* What has not come yet stays out of the buffer and of the channels.
LEMMA FreshStep ==
    ASSUME Inv, Next
    PROVE  Fresh'
<1>1. hand'.msg \notin coming'
  BY Onwards
<1>2. ASSUME NEW x \in Message, x \in coming' \/ hand'.msg = x
      PROVE  /\ x \notin Buffered /\ Where(x) = {}
             /\ x \in coming \/ hand.msg = x
  BY <1>2, Onwards DEF Inv, Fresh
<1>3. ASSUME NEW x \in Message, x \in coming' \/ hand'.msg = x PROVE x \notin Range(buf')
  <2>1. CASE Kept(buf', buf)
    BY <1>2, <1>3, <2>1 DEF Kept, Buffered
  <2>2. ASSUME NEW m \in Message, m \notin coming', hand'.msg # m,
               \/ network = 3 /\ Kept(buf', Sorted(buf, m))
               \/ network # 3 /\ Kept(buf', Append(buf, m))
        PROVE  x \notin Range(buf')
    <3>1. Range(buf') \subseteq Range(buf) \union {m}
      <4>1. buf \in Seq(Message) /\ (network = 3 => Ordered(buf))
        BY DEF Inv, TypeOK, BufOrdered
      <4>2. PICK t, u : t = Sorted(buf, m) /\ u = Append(buf, m)
        OBVIOUS
      <4>3. Range(u) = Range(buf) \union {m}
        BY <4>1, <4>2, Appended
      <4>4. network = 3 => Range(t) = Range(buf) \union {m}
        BY <4>1, <4>2, SortedIs
      <4> QED
        BY <2>2, <4>2, <4>3, <4>4 DEF Kept
    <3>2. x # m
      BY <1>3, <2>2
    <3> QED
      BY <1>2, <1>3, <3>1, <3>2 DEF Buffered
  <2> QED
    BY <2>1, <2>2, NewBuffer
<1>4. ASSUME NEW x \in Message, x \in coming' \/ hand'.msg = x PROVE Where(x)' = {}
  <2>1. CASE Where(x)' \subseteq Where(x)
    BY <1>2, <1>4, <2>1
  <2>2. ASSUME NEW m \in Message, x # m => Where(x)' = Where(x), hand.msg = m, hand' = Idle
        PROVE  Where(x)' = {}
    <3>1. x # m
      BY <1>4, <2>2, Onwards, Alone DEF Idle, Inv, Fresh
    <3> QED
      BY <1>2, <1>4, <2>2, <3>1
  <2>3. ASSUME NEW m \in Message, x # m => Where(x)' = Where(x), NEW i \in 1 .. Len(buf), buf[i] = m
        PROVE  Where(x)' = {}
    <3>1. m \in Buffered
      BY <2>3, InRange DEF Buffered, Inv, TypeOK
    <3> QED
      BY <1>2, <1>4, <2>3, <3>1
  <2> QED
    BY <2>1, <2>2, <2>3, NewPlaces
<1> QED
  BY <1>1, <1>3, <1>4 DEF Fresh, Buffered

\* What the buffer holds and a round has got is behind the cursor of that round's
\* registration; the networks without priorities keep it beyond.
LEMMA SentStep ==
    ASSUME Inv, Next
    PROVE  SentScanned'
<1>1. /\ network' = network /\ buf \in Seq(Message) /\ Once(buf) /\ TypeOK'
      /\ \A i \in 1 .. Len(buf) : Where(buf[i]) # {} =>
            \/ goroutine[Priority[buf[i]]].at = "scans" /\ i < goroutine[Priority[buf[i]]].next
            \/ network # 3 /\ goroutine[Priority[buf[i]]].at = "done"
  BY Onwards, TypeStep DEF Inv, TypeOK, SentScanned
<1>2. \A i \in 1 .. Len(buf) : buf[i] \in Message /\ Priority[buf[i]] \in Round /\ buf[i] \in Buffered
  BY <1>1, InRange, Alone DEF Buffered
<1>3. \A x \in Buffered : Where(x) # {} =>
          \E i \in 1 .. Len(buf) :
             /\ buf[i] = x
             /\ \/ goroutine[Priority[x]].at = "scans" /\ i < goroutine[Priority[x]].next
                \/ network # 3 /\ goroutine[Priority[x]].at = "done"
  <2> SUFFICES ASSUME NEW x \in Buffered, Where(x) # {}
               PROVE  \E i \in 1 .. Len(buf) :
                          /\ buf[i] = x
                          /\ \/ goroutine[Priority[x]].at = "scans" /\ i < goroutine[Priority[x]].next
                             \/ network # 3 /\ goroutine[Priority[x]].at = "done"
    OBVIOUS
  <2>1. PICK i \in 1 .. Len(buf) : buf[i] = x
    BY <1>1, InRange DEF Buffered
  <2> QED
    BY <1>1, <2>1
<1>4. /\ buf' \in Seq(Message)
      /\ \A i \in 1 .. Len(buf') : buf'[i] \in Message /\ buf'[i] \in Range(buf')
  <2>1. buf' \in Seq(Message)
    BY <1>1 DEF TypeOK
  <2> QED
    BY <2>1, InRange
<1>5. ASSUME \A i \in 1 .. Len(buf') : \A x \in Message : x = buf'[i] /\ Where(x)' # {} =>
                \/ goroutine'[Priority[x]].at = "scans" /\ i < goroutine'[Priority[x]].next
                \/ network # 3 /\ goroutine'[Priority[x]].at = "done"
      PROVE  SentScanned'
  BY <1>1, <1>4, <1>5 DEF SentScanned
<1>6. ASSUME UNCHANGED <<goroutine, buf>>, \A x \in Buffered : Where(x)' \subseteq Where(x)
      PROVE  SentScanned'
  <2> SUFFICES ASSUME NEW i \in 1 .. Len(buf'), NEW x \in Message, x = buf'[i], Where(x)' # {}
               PROVE  \/ goroutine'[Priority[x]].at = "scans" /\ i < goroutine'[Priority[x]].next
                      \/ network # 3 /\ goroutine'[Priority[x]].at = "done"
    BY <1>5
  <2>1. Where(buf[i]) # {} /\ x = buf[i] /\ i \in 1 .. Len(buf)
    BY <1>2, <1>6
  <2> QED
    BY <1>1, <1>6, <2>1
<1>7. ASSUME UNCHANGED <<goroutine, channel, delivered>>, ~ Scanning PROVE SentScanned'
  <2> SUFFICES ASSUME NEW i \in 1 .. Len(buf'), NEW x \in Message, x = buf'[i], Where(x)' # {}
               PROVE  network # 3 /\ goroutine'[Priority[x]].at = "done"
    BY <1>5
  <2>1. Where(x) # {}
    BY <1>7 DEF Where, InChannel, HandedOn
  <2>2. x \in Buffered
    <3>1. x \in Range(buf')
      BY <1>4
    <3>2. CASE Kept(buf', buf)
      BY <3>1, <3>2 DEF Kept, Buffered
    <3>3. ASSUME NEW m \in Message, Where(m) = {},
                 \/ network = 3 /\ Kept(buf', Sorted(buf, m))
                 \/ network # 3 /\ Kept(buf', Append(buf, m))
          PROVE  x \in Buffered
      <4>1. network = 3 => Ordered(buf)
        BY DEF Inv, BufOrdered
      <4>2. PICK t, u : t = Sorted(buf, m) /\ u = Append(buf, m)
        OBVIOUS
      <4>3. Range(u) = Range(buf) \union {m}
        BY <1>1, <4>2, Appended
      <4>4. network = 3 => Range(t) = Range(buf) \union {m}
        BY <1>1, <4>1, <4>2, SortedIs
      <4>5. x \in Range(buf) \union {m} /\ x # m
        BY <2>1, <3>1, <3>3, <4>2, <4>3, <4>4 DEF Kept
      <4> QED
        BY <4>5 DEF Buffered
    <3> QED
      BY <3>2, <3>3, NewBuffer
  <2>3. Priority[x] \in Round
    BY Alone
  <2> QED
    BY <1>3, <1>7, <2>1, <2>2, <2>3 DEF Scanning
<1>8. ASSUME UNCHANGED <<buf, channel, delivered>>, NEW r \in Round,
             goroutine[r].at \notin {"scans", "done"},
             \A q \in Round : q # r => goroutine'[q] = goroutine[q]
      PROVE  SentScanned'
  <2> SUFFICES ASSUME NEW i \in 1 .. Len(buf'), NEW x \in Message, x = buf'[i], Where(x)' # {}
               PROVE  \/ goroutine'[Priority[x]].at = "scans" /\ i < goroutine'[Priority[x]].next
                      \/ network # 3 /\ goroutine'[Priority[x]].at = "done"
    BY <1>5
  <2>1. Where(x) # {} /\ x = buf[i] /\ i \in 1 .. Len(buf)
    BY <1>8 DEF Where, InChannel, HandedOn
  <2> QED
    BY <1>1, <1>2, <1>8, <2>1
<1>9. ASSUME NEW r \in Round, (network = 3 /\ Scan(r)) \/ (network # 3 /\ NormalScan(r))
      PROVE  SentScanned'
  <2>1. /\ UNCHANGED buf /\ goroutine[r].at = "scans" /\ ~ PastRound(r)
        /\ goroutine'[r].at = "scans" /\ goroutine'[r].next = goroutine[r].next + 1
        /\ \A q \in Round : q # r => goroutine'[q] = goroutine[q]
    BY <1>9, OneMoves DEF Scan, NormalScan
  <2>2. PICK n : n = goroutine[r].next
    OBVIOUS
  <2>3. n \in 1 .. Len(buf) /\ goroutine'[r].next = n + 1
    BY <2>1, <2>2, Cursor
  <2>4. \A x \in Message : ~ Where(x)' \subseteq Where(x) => x = buf[n] /\ Priority[x] = r
    <3>1. CASE \A x \in Message : Where(x)' \subseteq Where(x)
      BY <3>1
    <3>2. ASSUME NEW m \in Message, \A x \in Message : x # m => Where(x)' = Where(x),
                 UNCHANGED goroutine
          PROVE  FALSE
      BY <2>1, <2>2, <2>3, <3>2
    <3>3. ASSUME NEW m \in Message, \A x \in Message : x # m => Where(x)' = Where(x),
                 NEW q \in Round, goroutine[q].at = "scans", Priority[m] = q,
                 buf[goroutine[q].next] = m
          PROVE  \A x \in Message : ~ Where(x)' \subseteq Where(x) => x = buf[n] /\ Priority[x] = r
      <4>1. q = r
        BY <2>1, <3>3, Alone
      <4> QED
        BY <2>2, <3>3, <4>1
    <3> QED
      BY <3>1, <3>2, <3>3, NewPlaces
  <2> SUFFICES ASSUME NEW i \in 1 .. Len(buf'), NEW x \in Message, x = buf'[i], Where(x)' # {}
               PROVE  \/ goroutine'[Priority[x]].at = "scans" /\ i < goroutine'[Priority[x]].next
                      \/ network # 3 /\ goroutine'[Priority[x]].at = "done"
    BY <1>5
  <2>5. x = buf[i] /\ i \in 1 .. Len(buf)
    BY <2>1
  <2>6. CASE Where(x)' \subseteq Where(x)
    <3>1. Where(buf[i]) # {} /\ Priority[buf[i]] \in Round
      BY <1>2, <2>5, <2>6
    <3>2. CASE Priority[x] = r
      <4>1. i < n
        BY <1>1, <2>1, <2>2, <2>5, <3>1, <3>2
      <4>2. i < n + 1
        BY <2>3, <2>5, <4>1
      <4> QED
        BY <2>1, <2>3, <3>2, <4>2
    <3>3. CASE Priority[x] # r
      BY <1>1, <2>1, <2>5, <3>1, <3>3
    <3> QED
      BY <3>2, <3>3
  <2>7. CASE ~ Where(x)' \subseteq Where(x)
    <3>1. buf[i] = buf[n] /\ Priority[x] = r
      BY <2>4, <2>5, <2>7
    <3>2. i = n
      BY <1>1, <2>3, <2>5, <3>1 DEF Once
    <3> QED
      BY <2>1, <2>3, <3>1, <3>2
  <2> QED
    BY <2>6, <2>7
<1>10. ASSUME NEW r \in Round,
              (network = 3 /\ Registered(r)) \/ (network # 3 /\ NormalRegistered(r))
       PROVE  SentScanned'
  <2>1. /\ goroutine[r].at = "scans" /\ goroutine'[r].at = "done" /\ UNCHANGED <<channel, delivered>>
        /\ buf' = SubSeq(buf, goroutine[r].cut + 1, Len(buf))
        /\ \A q \in Round : q # r => goroutine'[q] = goroutine[q]
    BY <1>10, OneMoves DEF Registered, NormalRegistered
  <2> SUFFICES ASSUME NEW i \in 1 .. Len(buf'), NEW x \in Message, x = buf'[i], Where(x)' # {}
               PROVE  network # 3 /\ goroutine'[Priority[x]].at = "done"
    BY <1>5
  <2>2. PICK j : j = goroutine[r].cut + i
    OBVIOUS
  <2>3. /\ j \in 1 .. Len(buf) /\ x = buf[j] /\ Where(x) # {} /\ Priority[x] \in Round
        /\ j \in goroutine[r].cut + 1 .. Len(buf)
    <3>1. j \in 1 .. Len(buf) /\ x = buf[j]
      BY <2>1, <2>2, CutOff
    <3>2. Where(x) # {} /\ Priority[x] \in Round
      BY <2>1, Alone DEF Where, InChannel, HandedOn
    <3>3. goroutine[r].cut \in 0 .. Len(buf) /\ i \in Nat /\ i >= 1
      BY <1>4, <2>1, Cursor
    <3> QED
      BY <2>2, <3>1, <3>2, <3>3
  <2>4. CASE goroutine[Priority[x]].at = "scans" /\ j < goroutine[Priority[x]].next
    <3>1. Priority[x] = r
      BY <2>1, <2>3, <2>4, Alone
    <3>2. network # 3
      <4>1. goroutine[r].next \in 1 .. Len(buf) + 1
        BY <2>1, Cursor
      <4>2. j \in goroutine[r].cut + 1 .. goroutine[r].next - 1
        BY <2>3, <2>4, <3>1, <4>1
      <4> QED
        BY <2>1, <2>3, <3>1, <4>2 DEF Inv, CursorOK
    <3> QED
      BY <2>1, <3>1, <3>2
  <2>5. CASE network # 3 /\ goroutine[Priority[x]].at = "done"
    BY <2>1, <2>3, <2>5
  <2> QED
    BY <1>1, <2>3, <2>4, <2>5
<1>11. ASSUME \/ \E m \in Message : Push(m)
              \/ Announce \/ Compare \/ CompareAgain \/ ReadChannel \/ Send \/ NormalSend
              \/ CloseRound \/ Route \/ TakeHelp \/ PassHelp
       PROVE  SentScanned'
  <2>1. UNCHANGED <<goroutine, buf>>
    BY <1>11, HandSteps DEF NormalSend
  <2>2. CASE \A x \in Message : Where(x)' \subseteq Where(x)
    BY <1>1, <1>6, <2>1, <2>2, InRange DEF Buffered
  <2>3. ASSUME NEW m \in Message, \A x \in Message : x # m => Where(x)' = Where(x), hand.msg = m
        PROVE  SentScanned'
    <3>1. m \notin Buffered
      BY <2>3 DEF Inv, Fresh
    <3> QED
      BY <1>1, <1>6, <2>1, <2>3, <3>1, InRange DEF Buffered
  <2>4. ASSUME NEW r \in Round, goroutine[r].at = "scans", goroutine[r].next \in 1 .. Len(buf),
               Scan(r) \/ NormalScan(r)
        PROVE  FALSE
    BY <2>1, <2>4, OneMoves
  <2> QED
    BY <2>2, <2>3, <2>4, NewPlaces
<1>12. CASE network = 3 /\ PriorityActions
  <2>1. CASE Store
    BY <1>7, <1>12, <2>1, Stores DEF Store
  <2>2. ASSUME NEW r \in Round, Lock(r) \/ WriteField(r) PROVE SentScanned'
    BY <1>8, <2>2, OneMoves DEF Lock, WriteField
  <2> QED
    BY <1>9, <1>10, <1>11, <1>12, <2>1, <2>2, Zenon DEF PriorityActions
<1>13. CASE network # 3 /\ NormalActions
  <2>1. ASSUME NEW m \in Message, NormalTakes(m) PROVE SentScanned'
    BY <1>7, <1>13, <2>1, Alone, Takes
  <2>2. ASSUME NEW r \in Round, NormalLock(r) PROVE SentScanned'
    BY <1>8, <2>2, OneMoves DEF NormalLock
  <2> QED
    BY <1>9, <1>10, <1>11, <1>13, <2>1, <2>2, Zenon DEF NormalActions
<1>14. ASSUME NEW r \in Round, StartRound(r) PROVE SentScanned'
  <2>1. goroutine[r].at = "none"
    BY <1>14, Alone DEF Inv, StartedOnly, StartRound
  <2> QED
    BY <1>8, <1>14, <2>1, OneMoves DEF StartRound
<1> QED
  BY <1>11, <1>12, <1>13, <1>14, Actions
-----------------------------------------------------------------------------
(* The theorems.                                                             *)

\* The first state: nothing has come.
LEMMA InvInit == Init => Inv
<1> SUFFICES ASSUME Init PROVE Inv
  OBVIOUS
<1>1. /\ network \in 1 .. 3 /\ coming = Message /\ round = None /\ open = FALSE
      /\ channel = [r \in Round |-> <<>>] /\ delivered = [r \in Round |-> {}]
      /\ register = [priority |-> None, channel |-> None]
      /\ goroutine = [r \in Round |-> NotStarted]
      /\ lock = None /\ hand = Idle /\ buf = <<>> /\ memUse = 0 /\ maxPriority = None
      /\ crashed = FALSE
  BY DEF Init
<1>2. \A r \in Round : /\ goroutine[r].at = "none" /\ goroutine[r].next = 1 /\ goroutine[r].cut = 0
                       /\ channel[r] = <<>> /\ delivered[r] = {} /\ r # None
  BY <1>1, MessageAssumption DEF NotStarted
<1>3. Len(<<>>) = 0 /\ 1 .. 0 = {} /\ Range(<<>>) = {} /\ <<>> \in Seq(Message)
  BY DEF Range
<1>4. TypeOK
  <2>1. channel \in [Round -> Seq(Message)] /\ \A r \in Round : Len(channel[r]) <= ChannelSize
    BY <1>1, <1>3, BoundAssumption
  <2>2. goroutine \in [Round -> Registrations]
    BY <1>1, Parts
  <2> QED
    BY <1>1, <1>3, <2>1, <2>2 DEF TypeOK, Registrations, Idle
<1>5. HandOK /\ Locked /\ StartedOnly
  BY <1>1, <1>2 DEF HandOK, Locked, StartedOnly, Idle
<1>6. CursorOK /\ BufOrdered /\ Once(buf)
  BY <1>1, <1>2, <1>3 DEF CursorOK, BufOrdered, Once, Ordered
<1>7. MemOK
  BY <1>1, <1>2, SizeOfOne DEF MemOK
<1>8. \A m : InChannel(m) = {} /\ HandedOn(m) = {}
  BY <1>2, <1>3 DEF InChannel, HandedOn
<1>9. Places /\ Fresh /\ SentScanned
  <2>1. \A r \in Round : Once(channel[r])
    BY <1>2, <1>3 DEF Once
  <2>2. hand.msg \notin coming
    BY <1>1, MessageAssumption DEF Idle
  <2> QED
    BY <1>1, <1>3, <1>8, <2>1, <2>2 DEF Places, Fresh, SentScanned, Where, Buffered
<1> QED
  BY <1>4, <1>5, <1>6, <1>7, <1>9 DEF Inv

\* Every step keeps the invariant.
LEMMA InvStep == Inv /\ [~ crashed /\ Next]_vars => Inv'
<1> SUFFICES ASSUME Inv, [~ crashed /\ Next]_vars PROVE Inv'
  OBVIOUS
<1>1. CASE Next
  BY <1>1, TypeStep, LockStep, CursorStep, OrderStep, MemStep, FreshStep, SentStep, NewPlaces, Zenon
     DEF Inv
<1>2. CASE UNCHANGED vars
  <2>1. UNCHANGED <<network, coming, round, open, channel, delivered, register, goroutine, lock, hand,
                    buf, memUse, maxPriority, crashed>>
    BY <1>2 DEF vars
  <2>2. \A m : InChannel(m)' = InChannel(m) /\ HandedOn(m)' = HandedOn(m) /\ Where(m)' = Where(m)
    BY <2>1 DEF Where, InChannel, HandedOn
  <2>3. TypeOK' /\ HandOK' /\ Locked' /\ StartedOnly' /\ CursorOK' /\ BufOrdered' /\ Once(buf)'
    BY <2>1 DEF Inv, TypeOK, HandOK, Idle, Locked, StartedOnly, CursorOK, BufOrdered
  <2>4. MemOK'
    BY <2>1 DEF Inv, MemOK, Scanning
  <2>5. Places' /\ Fresh'
    BY <2>1, <2>2 DEF Inv, Places, Fresh, Buffered
  <2>6. SentScanned'
    BY <2>1 DEF Inv, SentScanned, Where, InChannel, HandedOn
  <2> QED
    BY <2>3, <2>4, <2>5, <2>6 DEF Inv
<1> QED
  BY <1>1, <1>2

\* The inductive invariant holds of the three networks, for any messages, bounds and
\* interleaving of Push and the registrations.
THEOREM Invariance == Spec => []Inv
  BY InvInit, InvStep, PTL DEF Spec

\* Receiving hands no message to two rounds, nor twice to one, and over the priority
\* network none that has come to a round is still in the buffer (main.go:157,
\* priorityqueue.go:433-442).
THEOREM OneRoundOnce == Spec => []NothingTwice
<1>1. ASSUME Inv PROVE NothingTwice
  <2>1. /\ TypeOK /\ buf \in Seq(Message) /\ channel \in [Round -> Seq(Message)]
        /\ \A r \in Round : Once(channel[r])
    BY <1>1 DEF Inv, TypeOK, Places
  <2>2. ASSUME NEW m \in Message, NEW r \in InChannel(m)
        PROVE  Cardinality({i \in DOMAIN channel[r] : channel[r][i] = m}) = 1
    <3>1. r \in Round /\ m \in Range(channel[r]) /\ channel[r] \in Seq(Message)
      BY <2>1 DEF InChannel
    <3>2. DOMAIN channel[r] = 1 .. Len(channel[r])
      BY <3>1
    <3>3. PICK i \in 1 .. Len(channel[r]) : channel[r][i] = m
      BY <3>1, InRange
    <3>4. {j \in DOMAIN channel[r] : channel[r][j] = m} = {i}
      BY <2>1, <3>1, <3>2, <3>3 DEF Once
    <3> QED
      BY <3>4, FS_Singleton
  <2>3. ASSUME NEW m \in Message
        PROVE  /\ Cardinality(InChannel(m) \union HandedOn(m)) <= 1
               /\ InChannel(m) \intersect HandedOn(m) = {}
    <3>1. /\ \A r, q \in Where(m) : r = q
          /\ InChannel(m) \intersect HandedOn(m) = {}
      BY <1>1 DEF Inv, Places
    <3>2. Where(m) = {} \/ \E r : Where(m) = {r}
      BY <3>1
    <3>3. Cardinality(Where(m)) = 0 \/ Cardinality(Where(m)) = 1
      BY <3>2, FS_EmptySet, FS_Singleton
    <3> QED
      BY <3>1, <3>3 DEF Where
  <2>4. ASSUME NEW m \in Message, network = 3, ~ Scanning, m \in Buffered
        PROVE  InChannel(m) \union HandedOn(m) = {}
    <3>1. PICK i \in 1 .. Len(buf) : buf[i] = m
      BY <2>1, <2>4, InRange DEF Buffered
    <3>2. Priority[m] \in Round
      BY <1>1, Alone
    <3>3. Where(buf[i]) = {}
      BY <1>1, <2>4, <3>1, <3>2 DEF Inv, SentScanned, Scanning
    <3> QED
      BY <3>1, <3>3 DEF Where
  <2> QED
    BY <2>1, <2>2, <2>3, <2>4 DEF NothingTwice
<1> QED
  BY <1>1, Invariance, PTL

\* MemUse is at least the size of what the buffer of the priority network holds, so
\* that the bound on it bounds the buffer (priorityqueue.go:409-422, 435).
THEOREM MemoryCovered == Spec => []MemUseCovers
<1>1. Inv => MemUseCovers
  BY DEF Inv, MemOK, MemUseCovers
<1> QED
  BY <1>1, Invariance, PTL

\* The registration of a round over the priority network leaves no message of the
\* round in the buffer (priorityqueue.go:424-446).
THEOREM TakesAll == Spec => RegistrationTakesAll
<1> DEFINE Left == \A r \in Round :
                       network = 3 /\ goroutine[r].at # "done" /\ goroutine'[r].at = "done"
                           => \A m \in Range(buf') : Priority[m] # r
<1>1. ASSUME Inv, Next, network = 3, NEW r \in Round, goroutine[r].at # "done",
             goroutine'[r].at = "done"
      PROVE  \A m \in Range(buf') : Priority[m] # r
  <2>1. Registered(r)
    <3>1. ASSUME NEW q \in Round, StartRound(q) \/ Lock(q) \/ WriteField(q) \/ Scan(q) PROVE FALSE
      BY <1>1, <3>1, OneMoves
    <3>2. ASSUME NEW q \in Round, Registered(q) PROVE q = r
      BY <1>1, <3>2, OneMoves
    <3>3. ASSUME Store PROVE FALSE
      BY <1>1, <3>3 DEF Store
    <3> QED
      BY <1>1, <3>1, <3>2, <3>3, Actions, HandSteps DEF PriorityActions
  <2>2. /\ goroutine[r].at = "scans" /\ PastRound(r) /\ buf' = SubSeq(buf, goroutine[r].cut + 1, Len(buf))
        /\ buf \in Seq(Message) /\ Ordered(buf)
    BY <1>1, <2>1 DEF Registered, Inv, TypeOK, BufOrdered
  <2>3. PICK c, n : c = goroutine[r].cut /\ n = goroutine[r].next
    OBVIOUS
  <2>4. /\ n \in 1 .. Len(buf) + 1 /\ c \in 0 .. Len(buf) /\ Len(buf) \in Nat
        /\ \A i \in c + 1 .. n - 1 : Priority[buf[i]] # r
    BY <1>1, <2>2, <2>3, Cursor DEF Inv, CursorOK
  <2>5. \A i \in 1 .. Len(buf) : Priority[buf[i]] \in Nat
    BY <2>2, InRange, MessageAssumption
  <2>6. ASSUME NEW i \in n .. Len(buf) PROVE Priority[buf[i]] # r
    <3>1. n \in 1 .. Len(buf) /\ i \in 1 .. Len(buf) /\ n <= i /\ DOMAIN buf = 1 .. Len(buf)
      BY <2>2, <2>4
    <3>2. Priority[buf[n]] > r
      BY <2>2, <2>3, <3>1 DEF PastRound
    <3>3. Priority[buf[n]] <= Priority[buf[i]]
      BY <2>2, <3>1 DEF Ordered
    <3>4. r \in Nat
      BY <1>1, Alone
    <3> QED
      BY <2>5, <3>1, <3>2, <3>3, <3>4
  <2> SUFFICES ASSUME NEW m \in Range(buf') PROVE Priority[m] # r
    OBVIOUS
  <2>7. buf' \in Seq(Message)
    BY <1>1, <2>2, CutOff DEF Kept
  <2>8. PICK i \in 1 .. Len(buf') : buf'[i] = m
    BY <2>7, InRange
  <2>9. c + i \in 1 .. Len(buf) /\ m = buf[c + i]
    BY <1>1, <2>2, <2>3, <2>8, CutOff
  <2>10. c + i \in c + 1 .. n - 1 \/ c + i \in n .. Len(buf)
    BY <2>4, <2>7, <2>9
  <2> QED
    BY <2>4, <2>6, <2>9, <2>10
<1>2. Inv /\ [~ crashed /\ Next]_vars => [Left]_vars
  BY <1>1 DEF vars
<1> HIDE DEF Left
<1>3. [][Left]_vars <=> RegistrationTakesAll
  BY DEF Left, RegistrationTakesAll
<1> QED
  BY <1>2, <1>3, Invariance, PTL DEF Spec
-----------------------------------------------------------------------------
(* What receiving comes to rest with, from the guards of its goroutines.     *)

CanHandle ==
    \/ network = 3 /\ hand.at \in {"compare", "again", "channel"}
    \/ hand.at = "send" /\ hand.to # None /\ HasRoom(hand.to)
    \/ hand.at = "store" /\ lock = None

CanRoute == open /\ channel[round] # <<>>

CanRegister(r) ==
    \/ goroutine[r].at = "waits" /\ lock = None
    \/ goroutine[r].at = "writes" /\ goroutine[r].left # {}
    \/ /\ goroutine[r].at = "scans"
       /\ ~ PastRound(r) /\ Priority[buf[goroutine[r].next]] = r => HasRoom(r)

\* No step of Fairness can be taken.
AtRest == ~ CanHandle /\ ~ CanRoute /\ \A r \in Round : ~ CanRegister(r)

\* HandleProtoMsg has the lock only while it sends or announces, over the networks
\* without priorities; over them it is never between two reads.
HandlerSends ==
    /\ lock = Handler => network # 3 /\ hand.at \in {"send", "announce"}
    /\ network # 3 => hand.at \in {"idle", "announce", "send", "help"}

LEMMA HandlerStep == Inv /\ HandlerSends /\ [~ crashed /\ Next]_vars => HandlerSends'
<1> SUFFICES ASSUME Inv, HandlerSends, [~ crashed /\ Next]_vars PROVE HandlerSends'
  OBVIOUS
<1>0. \A r \in Round : r # Handler
  BY Alone
<1>1. CASE UNCHANGED vars
  BY <1>1 DEF vars, HandlerSends
<1>2. CASE network = 3 /\ PriorityActions
  <2>1. UNCHANGED network /\ lock # Handler
    BY <1>2, HandSteps
    DEF PriorityActions, HandlerSends, Store, Lock, WriteField, Scan, Registered
  <2>2. lock' # Handler
    <3>1. ASSUME NEW r \in Round, Lock(r) \/ WriteField(r) \/ Scan(r) \/ Registered(r)
          PROVE  lock' \in {lock, r, None}
      BY <3>1 DEF Lock, WriteField, Scan, Registered
    <3>2. CASE Store
      BY <2>1, <3>2 DEF Store
    <3> QED
      BY <1>0, <1>2, <2>1, <3>1, <3>2, HandSteps, Alone DEF PriorityActions
  <2> QED
    BY <1>2, <2>1, <2>2 DEF HandlerSends
<1>3. CASE network # 3 /\ NormalActions
  <2>1. ASSUME NEW m \in Message, NormalTakes(m) PROVE HandlerSends'
    <3>1. network' = network
      BY <1>3, <2>1, Takes
    <3>2. \/ lock' = Handler /\ hand' = [at |-> "send", msg |-> m, to |-> register.channel]
          \/ lock' = Handler /\ hand' = [at |-> "announce", msg |-> m, to |-> None]
          \/ lock' = None /\ hand' = Idle
      BY <1>3, <2>1, Takes
    <3> QED
      BY <1>3, <3>1, <3>2, Alone DEF HandlerSends, Idle
  <2>2. CASE NormalSend
    <3>1. network' = network /\ lock' = None /\ hand'.at = "idle"
      BY <2>2 DEF NormalSend, Idle
    <3> QED
      BY <1>3, <3>1, Alone DEF HandlerSends
  <2>3. ASSUME NEW r \in Round, NormalLock(r) \/ NormalScan(r) \/ NormalRegistered(r)
        PROVE  HandlerSends'
    <3>1. UNCHANGED <<network, hand>> /\ lock' \in {lock, r, None}
      BY <2>3 DEF NormalLock, NormalScan, NormalRegistered
    <3> QED
      BY <1>0, <1>3, <3>1, Alone DEF HandlerSends
  <2> QED
    BY <1>3, <2>1, <2>2, <2>3 DEF NormalActions
<1>4. CASE CloseRound \/ Route
  BY <1>4 DEF CloseRound, Route, HandlerSends
<1>6. CASE TakeHelp \/ PassHelp
  <2>1. /\ UNCHANGED <<network, lock>> /\ hand.at \in {"idle", "help"}
        /\ hand'.at \in {"idle", "help"}
    BY <1>6 DEF TakeHelp, PassHelp, Idle
  <2> QED
    BY <2>1 DEF HandlerSends
<1>5. ASSUME NEW r \in Round, StartRound(r) PROVE HandlerSends'
  BY <1>5 DEF StartRound, HandlerSends
<1> QED
  BY <1>1, <1>2, <1>3, <1>4, <1>5, <1>6, Actions

\* A registration that writes has a field to write.
FieldsLeft == \A r \in Round : goroutine[r].at = "writes" => goroutine[r].left # {}

LEMMA FieldsStep == Inv /\ FieldsLeft /\ [~ crashed /\ Next]_vars => FieldsLeft'
<1> SUFFICES ASSUME Inv, FieldsLeft, [~ crashed /\ Next]_vars PROVE FieldsLeft'
  OBVIOUS
<1>0. goroutine \in [Round -> Registrations]
  BY Parts DEF Inv
<1>1. CASE UNCHANGED goroutine
  BY <1>1 DEF FieldsLeft
<1>2. ASSUME NEW r \in Round, \A q \in Round : q # r => goroutine'[q] = goroutine[q],
             goroutine'[r].at # "writes" \/ goroutine'[r].left # {}
      PROVE  FieldsLeft'
  BY <1>2 DEF FieldsLeft
<1>3. ASSUME NEW r \in Round, Lock(r) PROVE FieldsLeft'
  <2>1. goroutine'[r].left = {"priority", "channel"}
    BY <1>0, <1>3 DEF Lock, Registrations
  <2> QED
    BY <1>2, <1>3, <2>1, OneMoves
<1>4. ASSUME NEW r \in Round, WriteField(r) PROVE FieldsLeft'
  <2>1. PICK field \in goroutine[r].left :
          goroutine' = [goroutine EXCEPT ![r].left = @ \ {field},
                          ![r].at = IF goroutine[r].left = {field} THEN "scans" ELSE @]
    BY <1>4 DEF WriteField
  <2>2. goroutine'[r].at # "writes" \/ goroutine'[r].left # {}
    BY <1>0, <2>1 DEF Registrations
  <2> QED
    BY <1>2, <1>4, <2>2, OneMoves
<1>5. ASSUME NEW r \in Round,
             \/ StartRound(r) \/ Scan(r) \/ Registered(r)
             \/ NormalLock(r) \/ NormalScan(r) \/ NormalRegistered(r)
      PROVE  FieldsLeft'
  <2>1. /\ goroutine'[r].at # "writes"
        /\ \A q \in Round : q # r => goroutine'[q] = goroutine[q]
    BY <1>5, OneMoves
  <2> QED
    BY <1>2, <2>1
<1>6. CASE Store \/ NormalSend \/ \E m \in Message : NormalTakes(m)
  BY <1>1, <1>6 DEF Store, NormalSend, NormalTakes, NormalPush, NormalAnnounce
<1>7. CASE UNCHANGED vars
  BY <1>1, <1>7 DEF vars
<1> QED
  BY <1>1, <1>3, <1>4, <1>5, <1>6, <1>7, Actions, HandSteps DEF PriorityActions, NormalActions

\* ReceivingGoesOn at rest.
RestsStopped ==
    AtRest =>
        /\ hand = Idle \/ HandStuck \/ (hand.at = "store" /\ LockKept)
        /\ \A r \in Round : goroutine[r].at \in {"none", "done"} \/ LockKept

\* HandleProtoMsg, the registrations and the router never wait for each other in a
\* ring: when none of them can go on, what has begun has come to its end, or a send
\* waits for a goroutine beyond them, on the nil channel or for a round that is over,
\* or one that does has the lock (priorityqueue.go:371-446, normalqueue.go:359-412).
THEOREM RestsReceived == Spec => []RestsStopped
<1>1. Init => HandlerSends /\ FieldsLeft
  BY Alone, InvInit DEF Init, HandlerSends, FieldsLeft, Idle, NotStarted
<1>2. Inv /\ HandlerSends /\ FieldsLeft => RestsStopped
  <2> SUFFICES ASSUME Inv, HandlerSends, FieldsLeft, AtRest
               PROVE  /\ hand = Idle \/ HandStuck \/ (hand.at = "store" /\ LockKept)
                      /\ \A r \in Round : goroutine[r].at \in {"none", "done"} \/ LockKept
    BY DEF RestsStopped
  <2>0. /\ TypeOK /\ HandOK /\ Locked
        /\ lock \in Round \union {None, Handler} /\ None \notin Round
        /\ hand.at \in {"idle", "announce", "compare", "again", "channel", "send", "store", "help"}
        /\ hand.to \in Round \union {None}
        /\ \A r \in Round : goroutine[r].at \in {"none", "waits", "writes", "scans", "done"}
    BY Alone DEF Inv, TypeOK
  <2>1. ASSUME NEW r \in Round, ~ HasRoom(r) PROVE Blocked(r)
    <3>1. CASE open /\ round = r
      <4>1. channel[r] = <<>>
        BY <3>1 DEF AtRest, CanRoute
      <4>2. HasRoom(r)
        BY <4>1, BoundAssumption, Len(<<>>) = 0 DEF HasRoom
      <4> QED
        BY <2>1, <4>2
    <3> QED
      BY <2>1, <3>1 DEF Blocked, Over
  <2>2. ASSUME NEW r \in Round PROVE goroutine[r].at # "writes" /\ (goroutine[r].at = "scans" => LockKept)
    BY <2>1 DEF AtRest, CanRegister, FieldsLeft, LockKept
  <2>3. hand.at = "send" => HandStuck
    BY <2>0, <2>1 DEF AtRest, CanHandle, HandStuck
  <2>4. lock # None => LockKept
    <3>1. CASE lock \in Round
      BY <2>0, <2>2, <3>1 DEF Locked
    <3>2. CASE lock = Handler
      BY <2>3, <3>2 DEF HandlerSends, HandStuck, LockKept
    <3> QED
      BY <2>0, <3>1, <3>2
  <2>5. ASSUME NEW r \in Round PROVE goroutine[r].at \in {"none", "done"} \/ LockKept
    BY <2>0, <2>2, <2>4 DEF AtRest, CanRegister
  <2>6. hand.at = "idle" \/ HandStuck \/ (hand.at = "store" /\ LockKept)
    BY <2>0, <2>3, <2>4 DEF AtRest, CanHandle, HandlerSends, HandStuck
  <2>7. hand.at = "idle" => hand = Idle
    BY <2>0 DEF HandOK, Helping, Idle
  <2> QED
    BY <2>5, <2>6, <2>7
<1> QED
  BY <1>1, <1>2, HandlerStep, FieldsStep, Invariance, PTL DEF Spec
-----------------------------------------------------------------------------
(* Receive implements Mailboxes.                                             *)

\* What is in the buffer has come to no other round than its own, so that it does not
\* come again when a round drops what is not of it.
OwnBuffered == \A m \in Message : m \in Buffered => Where(m) \subseteq {Priority[m]}

\* What the buffer holds was there, or has been nowhere before.
LEMMA CameFrom ==
    ASSUME Inv, Next, NEW x \in Message, x \in Range(buf')
    PROVE  x \in Buffered \/ (Where(x) = {} /\ (x \in coming \/ hand.msg = x))
<1>1. CASE Kept(buf', buf)
  BY <1>1 DEF Kept, Buffered
<1>2. ASSUME NEW m \in Message, Where(m) = {}, m \in coming \/ hand.msg = m,
             \/ network = 3 /\ Kept(buf', Sorted(buf, m))
             \/ network # 3 /\ Kept(buf', Append(buf, m))
      PROVE  x \in Buffered \/ (Where(x) = {} /\ (x \in coming \/ hand.msg = x))
  <2>1. buf \in Seq(Message) /\ (network = 3 => Ordered(buf))
    BY DEF Inv, TypeOK, BufOrdered
  <2>2. PICK t, u : t = Sorted(buf, m) /\ u = Append(buf, m)
    OBVIOUS
  <2>3. Range(u) = Range(buf) \union {m}
    BY <2>1, <2>2, Appended
  <2>4. network = 3 => Range(t) = Range(buf) \union {m}
    BY <2>1, <2>2, SortedIs
  <2>5. Range(buf') \subseteq Range(buf) \union {m}
    BY <1>2, <2>2, <2>3, <2>4 DEF Kept
  <2> QED
    BY <1>2, <2>5 DEF Buffered
<1> QED
  BY <1>1, <1>2, NewBuffer

\* A registration sends a message that has been nowhere.
LEMMA ScanSends ==
    ASSUME Inv, NEW r \in Round, (network = 3 /\ Scan(r)) \/ (network # 3 /\ NormalScan(r)),
           Priority[buf[goroutine[r].next]] = r
    PROVE  \E m \in Message :
              /\ m = buf[goroutine[r].next] /\ m \in Buffered /\ Where(m) = {} /\ HasRoom(r)
              /\ channel' = [channel EXCEPT ![r] = Append(@, m)]
              /\ UNCHANGED <<coming, round, open, delivered, hand, buf>>
<1>1. /\ goroutine[r].at = "scans" /\ ~ PastRound(r) /\ HasRoom(r)
      /\ UNCHANGED <<coming, round, open, delivered, hand, buf>>
  BY DEF Scan, NormalScan
<1>2. PICK i : i = goroutine[r].next
  OBVIOUS
<1>3. i \in 1 .. Len(buf) /\ buf[i] \in Message /\ buf[i] \in Buffered
  BY <1>1, <1>2, Cursor, InRange DEF Buffered, Inv, TypeOK
<1>4. channel' = [channel EXCEPT ![r] = Append(@, buf[i])]
  BY <1>2 DEF Scan, NormalScan
<1>5. Where(buf[i]) = {}
  <2>1. ~ i < goroutine[r].next
    BY <1>2, <1>3
  <2> QED
    BY <1>1, <1>2, <1>3, <2>1 DEF Inv, SentScanned
<1> QED
  BY <1>1, <1>2, <1>3, <1>4, <1>5

\* Where a message is that has just been sent into a channel.
LEMMA SentThere ==
    ASSUME Inv, NEW q \in Round, NEW m \in Message, Where(m) = {}, UNCHANGED delivered,
           channel' = [channel EXCEPT ![q] = Append(@, m)]
    PROVE  Where(m)' = {q}
<1>1. channel \in [Round -> Seq(Message)] /\ channel[q] \in Seq(Message)
  BY DEF Inv, TypeOK
<1>2. PICK s : s = Append(channel[q], m)
  OBVIOUS
<1>3. m \in Range(s)
  BY <1>1, <1>2, Appended
<1>4. channel'[q] = s /\ \A r \in Round : r # q => channel'[r] = channel[r]
  BY <1>1, <1>2
<1>5. \A r \in Round : r # q => m \notin Range(channel'[r])
  BY <1>4 DEF Where, InChannel
<1>6. HandedOn(m)' = {}
  BY DEF Where, HandedOn
<1>7. InChannel(m)' = {q}
  BY <1>3, <1>4, <1>5 DEF InChannel
<1> QED
  BY <1>6, <1>7 DEF Where

LEMMA OwnStep == Inv /\ OwnBuffered /\ [~ crashed /\ Next]_vars => OwnBuffered'
<1> SUFFICES ASSUME Inv, OwnBuffered, [~ crashed /\ Next]_vars,
                    NEW x \in Message, x \in Range(buf')
             PROVE  Where(x)' \subseteq {Priority[x]}
  BY DEF OwnBuffered, Buffered
<1>1. ASSUME UNCHANGED vars PROVE Where(x)' \subseteq {Priority[x]}
  BY <1>1 DEF vars, OwnBuffered, Buffered, Where, InChannel, HandedOn
<1>2. ASSUME Next PROVE Where(x)' \subseteq {Priority[x]}
  <2>1. x \in Buffered \/ Where(x) = {}
    BY <1>2, CameFrom
  <2>2. ASSUME Where(x)' \subseteq Where(x) PROVE Where(x)' \subseteq {Priority[x]}
    BY <2>1, <2>2 DEF OwnBuffered
  <2>3. ASSUME NEW m \in Message, x # m => Where(x)' = Where(x), hand.msg = m, UNCHANGED buf
        PROVE  Where(x)' \subseteq {Priority[x]}
    <3>1. x \in Buffered /\ m \notin Buffered
      BY <2>3 DEF Inv, Fresh, Buffered
    <3> QED
      BY <2>2, <2>3, <3>1
  <2>4. ASSUME NEW m \in Message, x # m => Where(x)' = Where(x), NEW r \in Round, Priority[m] = r,
               buf[goroutine[r].next] = m,
               (network = 3 /\ Scan(r)) \/ (network # 3 /\ NormalScan(r))
        PROVE  Where(x)' \subseteq {Priority[x]}
    <3>1. Where(m)' = {r}
      BY <2>4, ScanSends, SentThere
    <3> QED
      BY <2>2, <2>4, <3>1
  <2> QED
    BY <1>2, <2>2, <2>3, <2>4, NewPlaces
<1> QED
  BY <1>1, <1>2

\* What may still come could before, if it has not come meanwhile.
LEMMA PendingFrom ==
    ASSUME Inv, Next, NEW x \in Message, x \in coming' \/ x = hand'.msg \/ x \in Buffered'
    PROVE  x \in coming \/ x = hand.msg \/ x \in Buffered
<1>1. CASE x \in Range(buf')
  BY <1>1, CameFrom
<1> QED
  BY <1>1, Onwards DEF Buffered

\* A step that puts nothing anywhere at most loses messages.
LEMMA PendingLess ==
    ASSUME Inv, Next, UNCHANGED <<channel, delivered>>
    PROVE  Pending' \subseteq Pending
<1>1. \A x : InChannel(x)' = InChannel(x) /\ HandedOn(x)' = HandedOn(x)
  BY DEF InChannel, HandedOn
<1> QED
  BY <1>1, PendingFrom DEF Pending

\* The step that sends a message takes it from those that may still come.
LEMMA PutsOne ==
    ASSUME Inv, UNCHANGED <<coming, buf, delivered, round, open>>,
           NEW q \in Round, HasRoom(q), NEW m \in Message,
           channel' = [channel EXCEPT ![q] = Append(@, m)],
           m \in Buffered \/ hand.msg = m, Where(m) = {},
           hand' = hand \/ (hand' = Idle /\ hand.msg = m)
    PROVE  Mail!PutInto(q, m)
<1>1. /\ \A x \in Message : x # m => Where(x)' = Where(x)
      /\ Where(m)' = {q}
  BY PutInto, SentThere
<1>2. \A x \in Message : x # m => (x = hand'.msg <=> x = hand.msg)
  BY Alone DEF Idle
<1>3. Pending' = Pending \ {m}
  BY <1>1, <1>2 DEF Pending, Where, Buffered
<1>4. m \in Pending
  BY DEF Pending, Where
<1> QED
  BY <1>3, <1>4 DEF Mail!PutInto, HasRoom

\* A round hands on or drops what it takes from its channel, and it does not come again.
LEMMA HandsOn ==
    ASSUME Inv, OwnBuffered, Route
    PROVE  Mail!HandOn
<1>1. /\ channel \in [Round -> Seq(Message)] /\ delivered \in [Round -> SUBSET Message]
      /\ UNCHANGED <<coming, hand, buf>>
  BY DEF Inv, TypeOK, Route
<1>2. Pending' = Pending
  <2>1. CASE round \notin Round
    <3>1. channel' = channel /\ delivered' = delivered
      BY <1>1, <2>1 DEF Route
    <3>2. \A x \in Message : InChannel(x)' = InChannel(x) /\ HandedOn(x)' = HandedOn(x)
      BY <3>1 DEF InChannel, HandedOn
    <3> QED
      BY <1>1, <3>2 DEF Pending, Buffered
  <2>2. CASE round \in Round
    <3>1. PICK m, s : m = Head(channel[round]) /\ s = Tail(channel[round])
      OBVIOUS
    <3>2. /\ channel[round] \in Seq(Message) /\ channel[round] # <<>> /\ Once(channel[round])
      BY <1>1, <2>2 DEF Route, Inv, Places
    <3>3. m \in Message /\ m \in Range(channel[round])
      BY <3>1, <3>2, TailIs
    <3>4. Range(channel[round]) \subseteq Range(s) \union {m}
      <4> SUFFICES ASSUME NEW x \in Range(channel[round]), x # m PROVE x \in Range(s)
        OBVIOUS
      <4>1. PICK i \in 1 .. Len(channel[round]) : channel[round][i] = x
        BY <3>2, InRange
      <4>2. i # 1 /\ Len(channel[round]) \in Nat /\ s \in Seq(Message) /\ Len(s) = Len(channel[round]) - 1
        BY <3>1, <3>2, <4>1
      <4>3. i - 1 \in 1 .. Len(s) /\ s[i - 1] = x
        BY <3>1, <3>2, <4>1, <4>2
      <4> QED
        BY <4>2, <4>3, InRange
    <3>5. /\ channel' = [channel EXCEPT ![round] = s]
          /\ delivered' = IF Priority[m] = round THEN [delivered EXCEPT ![round] = @ \union {m}]
                                                 ELSE delivered
      BY <3>1 DEF Route
    <3>6. channel'[round] = s /\ \A r \in Round : r # round => channel'[r] = channel[r]
      BY <1>1, <2>2, <3>5
    <3>7. \A x \in Message : x # m => InChannel(x) \subseteq InChannel(x)'
      BY <3>4, <3>6 DEF InChannel
    <3>8. \A x \in Message : HandedOn(x) \subseteq HandedOn(x)'
      BY <1>1, <2>2, <3>5 DEF HandedOn
    <3>9. \A x \in Message : Where(x)' \subseteq Where(x)
      BY Routed
    <3>10. \A x \in Message : x # m => (Where(x)' = {} <=> Where(x) = {})
      BY <3>7, <3>8, <3>9 DEF Where
    <3>11. round \in Where(m)
      BY <2>2, <3>3 DEF Where, InChannel
    <3>12. Priority[m] = round => round \in Where(m)'
      BY <1>1, <2>2, <3>5 DEF Where, HandedOn
    <3>13. m \notin Pending /\ m \notin Pending'
      <4>1. m \notin coming /\ hand.msg # m
        BY <3>3, <3>11 DEF Inv, Fresh
      <4>2. m \in Buffered => Priority[m] = round
        BY <3>3, <3>11 DEF OwnBuffered
      <4>3. m \in Buffered => Where(m)' # {}
        BY <3>12, <4>2
      <4> QED
        BY <1>1, <3>11, <4>1, <4>3 DEF Pending, Where, Buffered
    <3>14. \A x \in Message : x # m => (x \in Pending' <=> x \in Pending)
      BY <1>1, <3>10 DEF Pending, Where, Buffered
    <3>15. Pending \subseteq Message /\ Pending' \subseteq Message
      BY DEF Pending
    <3> QED
      BY <3>13, <3>14, <3>15
  <2> QED
    BY <2>1, <2>2
<1> QED
  BY <1>2 DEF Mail!HandOn, Route

\* Every step is one of Mailboxes.
LEMMA MailStep == Inv /\ OwnBuffered /\ [~ crashed /\ Next]_vars => [Mail!Next]_Mail!vars
<1> SUFFICES ASSUME Inv, OwnBuffered, [~ crashed /\ Next]_vars PROVE [Mail!Next]_Mail!vars
  OBVIOUS
<1>1. CASE UNCHANGED vars
  BY <1>1 DEF vars, Mail!vars, Pending, Buffered, InChannel, HandedOn
<1>2. ASSUME Next, UNCHANGED <<round, open, channel, delivered>> PROVE Mail!Next
  BY <1>2, PendingLess DEF Mail!Next, Mail!Lose
<1>3. ASSUME NEW r \in Round, StartRound(r) PROVE Mail!Next
  <2>1. Pending' = Pending
    BY <1>3 DEF StartRound, Pending, Buffered, InChannel, HandedOn
  <2>2. Mail!Begin(r)
    BY <1>3, <2>1 DEF StartRound, Mail!Begin
  <2> QED
    BY <2>2 DEF Mail!Next
<1>4. ASSUME CloseRound PROVE Mail!Next
  <2>1. Pending' = Pending
    BY <1>4 DEF CloseRound, Pending, Buffered, InChannel, HandedOn
  <2>2. Mail!Close
    BY <1>4, <2>1 DEF CloseRound, Mail!Close
  <2> QED
    BY <2>2 DEF Mail!Next
<1>5. ASSUME Route PROVE Mail!Next
  BY <1>5, HandsOn DEF Mail!Next
<1>6. ASSUME (network = 3 /\ Send) \/ (network # 3 /\ NormalSend) PROVE Mail!Next
  <2>1. PICK q, m : q = hand.to /\ m = hand.msg
    OBVIOUS
  <2>2. m \in Message /\ q \in Round
    BY <1>6, <2>1 DEF Inv, TypeOK, HandOK, Idle, Helping, Send, NormalSend
  <2>3. Where(m) = {}
    BY <2>1, <2>2 DEF Inv, Fresh
  <2>4. /\ UNCHANGED <<coming, buf, delivered, round, open>> /\ hand' = Idle /\ HasRoom(q)
        /\ channel' = [channel EXCEPT ![q] = Append(@, m)]
    BY <1>6, <2>1 DEF Send, NormalSend
  <2>5. Mail!PutInto(q, m)
    BY <2>1, <2>2, <2>3, <2>4, PutsOne
  <2> QED
    BY <2>2, <2>5 DEF Mail!Next
<1>7. ASSUME NEW r \in Round, Next, (network = 3 /\ Scan(r)) \/ (network # 3 /\ NormalScan(r))
      PROVE  Mail!Next
  <2>1. CASE Priority[buf[goroutine[r].next]] = r
    <3>1. PICK m \in Message :
              /\ m \in Buffered /\ Where(m) = {} /\ HasRoom(r)
              /\ channel' = [channel EXCEPT ![r] = Append(@, m)]
              /\ UNCHANGED <<coming, round, open, delivered, hand, buf>>
      BY <1>7, <2>1, ScanSends
    <3>2. Mail!PutInto(r, m)
      BY <3>1, PutsOne
    <3> QED
      BY <3>2 DEF Mail!Next
  <2>2. CASE Priority[buf[goroutine[r].next]] # r
    BY <1>2, <1>7, <2>2 DEF Scan, NormalScan
  <2> QED
    BY <2>1, <2>2
<1>8. ASSUME \/ \E m \in Message : Push(m) \/ NormalTakes(m)
             \/ Announce \/ Compare \/ CompareAgain \/ ReadChannel \/ Store
             \/ TakeHelp \/ PassHelp
             \/ \E r \in Round : \/ Lock(r) \/ WriteField(r) \/ Registered(r)
                                 \/ NormalLock(r) \/ NormalRegistered(r)
      PROVE  UNCHANGED <<round, open, channel, delivered>>
  BY <1>8 DEF Push, NormalTakes, NormalPush, NormalAnnounce, Announce, Compare, CompareAgain,
              ReadChannel, Store, TakeHelp, PassHelp,
              Lock, WriteField, Registered, NormalLock, NormalRegistered, handMoves
<1>9. CASE Next /\ network = 3 /\ PriorityActions
  BY <1>2, <1>6, <1>7, <1>8, <1>9, Zenon DEF PriorityActions
<1>10. CASE Next /\ network # 3 /\ NormalActions
  BY <1>2, <1>6, <1>7, <1>8, <1>10, Zenon DEF NormalActions
<1> QED
  BY <1>1, <1>2, <1>3, <1>4, <1>5, <1>8, <1>9, <1>10, Actions, Zenon

\* Whatever Push, the registrations and the rounds do at the same time, over each of the
\* three networks, the rounds see mailboxes: a message comes once, to one round, and is
\* lost from no channel (priorityqueue.go:404-444, normalqueue.go:379-416).
THEOREM Implements == Spec => Refinement
<1>1. Init => OwnBuffered /\ Mail!Init
  <2> SUFFICES ASSUME Init PROVE OwnBuffered /\ Mail!Init
    OBVIOUS
  <2>1. Range(buf) = {}
    BY DEF Init, Range
  <2>2. \A m \in Message : InChannel(m) = {} /\ HandedOn(m) = {}
    <3>1. \A r \in Round : Range(channel[r]) = {} /\ delivered[r] = {}
      BY DEF Init, Range
    <3> QED
      BY <3>1 DEF InChannel, HandedOn
  <2>3. Pending = Message
    BY <2>2 DEF Init, Pending
  <2> QED
    BY <2>1, <2>3 DEF Init, OwnBuffered, Buffered, Mail!Init, None
<1> QED
  BY <1>1, MailStep, OwnStep, Invariance, PTL DEF Spec, Refinement, Mail!Spec
=============================================================================
