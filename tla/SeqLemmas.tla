----------------------------- MODULE SeqLemmas ------------------------------
(***************************************************************************)
(* What the list operations of the kernel do to the set of threads on a    *)
(* list and to its freedom from duplicates.                                *)
(***************************************************************************)
EXTENDS Integers, Sequences, SequencesExt, SequenceTheorems, TLAPS

\* Insertion at the end (rt_list_insert_before the head).
LEMMA AppendLemma ==
    ASSUME NEW S, NEW s \in Seq(S), NEW e \in S
    PROVE  /\ Append(s, e) \in Seq(S)
           /\ Append(s, e) # << >>
           /\ ToSet(Append(s, e)) = ToSet(s) \cup {e}
           /\ IsInjective(s) /\ e \notin ToSet(s) => IsInjective(Append(s, e))
  BY AppendProperties DEF ToSet, IsInjective

\* The empty sequence is the one without elements.
LEMMA EmptyLemma ==
    ASSUME NEW S, NEW s \in Seq(S)
    PROVE  s = << >> <=> ToSet(s) = {}
<1>1. Len(s) \in Nat /\ DOMAIN s = 1 .. Len(s)
  BY LenProperties
<1>2. s = << >> <=> Len(s) = 0
  BY EmptySeq
<1>3. Len(s) # 0 => 1 \in DOMAIN s
  BY <1>1
<1>4. ASSUME Len(s) # 0 PROVE ToSet(s) # {}
  BY <1>3, <1>4 DEF ToSet
<1>5. ASSUME Len(s) = 0 PROVE ToSet(s) = {}
  <2>1. DOMAIN s = {}
    BY <1>1, <1>5
  <2>2. QED BY <2>1 DEF ToSet
<1>6. QED BY <1>2, <1>4, <1>5

\* The first of a non-empty list is on it.
\* The head of a sequence is one of its elements.
LEMMA HeadLemma ==
    ASSUME NEW S, NEW s \in Seq(S), s # << >>
    PROVE  Head(s) \in S /\ Head(s) \in ToSet(s)
<1>1. Len(s) \in Nat /\ DOMAIN s = 1 .. Len(s)
  BY LenProperties
<1>2. 1 \in DOMAIN s
  BY <1>1, EmptySeq
<1>3. Head(s) = s[1]
  OBVIOUS
<1>4. QED BY <1>2, <1>3, HeadTailProperties DEF ToSet

\* The elements left after taking out position i keep their order.
LEMMA RemoveAtLemma ==
    ASSUME NEW S, NEW s \in Seq(S), NEW i \in 1 .. Len(s)
    PROVE  /\ RemoveAt(s, i) \in Seq(S)
           /\ Len(RemoveAt(s, i)) = Len(s) - 1
           /\ \A j \in 1 .. Len(s) - 1 :
                 RemoveAt(s, i)[j] = IF j < i THEN s[j] ELSE s[j + 1]
<1> DEFINE a == SubSeq(s, 1, i - 1)
           b == SubSeq(s, i + 1, Len(s))
<1>1. Len(s) \in Nat /\ \A j \in 1 .. Len(s) : s[j] \in S
  BY LenProperties, ElementOfSeq
<1>2. /\ a \in Seq(S) /\ Len(a) = i - 1
      /\ \A j \in 1 .. i - 1 : a[j] = s[j]
  <2>1. /\ a \in Seq(S)
        /\ Len(a) = IF 1 <= i - 1 THEN (i - 1) - 1 + 1 ELSE 0
        /\ \A j \in 1 .. (i - 1) - 1 + 1 : a[j] = s[1 + j - 1]
    BY <1>1, SubSeqProperties, 1 \in Int, i - 1 \in Int,
       \A j \in 1 .. i - 1 : s[j] \in S
  <2>2. QED BY <2>1, <1>1
<1>3. /\ b \in Seq(S) /\ Len(b) = Len(s) - i
      /\ \A j \in 1 .. Len(s) - i : b[j] = s[i + j]
  <2>1. /\ b \in Seq(S)
        /\ Len(b) = IF i + 1 <= Len(s) THEN Len(s) - (i + 1) + 1 ELSE 0
        /\ \A j \in 1 .. Len(s) - (i + 1) + 1 : b[j] = s[(i + 1) + j - 1]
    BY <1>1, SubSeqProperties, i + 1 \in Int, Len(s) \in Int,
       \A j \in i + 1 .. Len(s) : s[j] \in S
  <2>2. QED BY <2>1, <1>1
<1> HIDE DEF a, b
<1>4. /\ a \o b \in Seq(S)
      /\ Len(a \o b) = Len(a) + Len(b)
      /\ \A j \in 1 .. Len(a) + Len(b) :
            (a \o b)[j] = IF j <= Len(a) THEN a[j] ELSE b[j - Len(a)]
  BY <1>2, <1>3, ConcatProperties
<1>5. RemoveAt(s, i) = a \o b
  BY DEF RemoveAt, a, b
<1>6. Len(a) + Len(b) = Len(s) - 1
  BY <1>1, <1>2, <1>3
<1>7. ASSUME NEW j \in 1 .. Len(s) - 1
      PROVE  (a \o b)[j] = IF j < i THEN s[j] ELSE s[j + 1]
  <2>1. (a \o b)[j] = IF j <= i - 1 THEN a[j] ELSE b[j - (i - 1)]
    BY <1>2, <1>4, <1>6
  <2>2. CASE j < i
    BY <2>1, <2>2, <1>1, <1>2
  <2>3. CASE ~(j < i)
    <3>1. j - (i - 1) \in 1 .. Len(s) - i /\ i + (j - (i - 1)) = j + 1
      BY <2>3, <1>1
    <3>2. b[j - (i - 1)] = s[j + 1]
      BY <3>1, <1>3
    <3>3. QED BY <2>1, <2>3, <3>2, <1>1
  <2>4. QED BY <2>2, <2>3
<1>8. QED BY <1>4, <1>5, <1>6, <1>7

\* rt_list_remove: the node is gone, the others are still there, once.
LEMMA RemoveFirstLemma ==
    ASSUME NEW S, NEW s \in Seq(S), NEW e, IsInjective(s)
    PROVE  /\ RemoveFirst(s, e) \in Seq(S)
           /\ ToSet(RemoveFirst(s, e)) = ToSet(s) \ {e}
           /\ IsInjective(RemoveFirst(s, e))
           /\ RemoveFirst(s, e) = << >> <=> ToSet(s) \subseteq {e}
           /\ e \notin ToSet(s) => RemoveFirst(s, e) = s
<1>1. Len(s) \in Nat /\ DOMAIN s = 1 .. Len(s)
  BY LenProperties
<1>2. CASE ~\E i \in 1 .. Len(s) : s[i] = e
  BY <1>1, <1>2, EmptySeq DEF RemoveFirst, ToSet
<1>3. CASE \E i \in 1 .. Len(s) : s[i] = e
  <2> DEFINE I == {i \in 1 .. Len(s) : s[i] = e}
  <2>1. PICK i \in 1 .. Len(s) : s[i] = e
    BY <1>3
  <2>2. I = {i}
    BY <1>1, <2>1 DEF IsInjective
  <2>3. Min(I) = i
    BY <2>2 DEF Min
  <2>4. RemoveFirst(s, e) = RemoveAt(s, i)
    BY <1>3, <2>2, <2>3 DEF RemoveFirst, SelectInSeq
  <2> DEFINE r == RemoveAt(s, i)
  <2>5. /\ r \in Seq(S) /\ Len(r) = Len(s) - 1
        /\ \A j \in 1 .. Len(s) - 1 : r[j] = IF j < i THEN s[j] ELSE s[j + 1]
    BY RemoveAtLemma
  <2>6. DOMAIN r = 1 .. Len(s) - 1
    BY <2>5, LenProperties
  <2> HIDE DEF r
  <2>7. ASSUME NEW x \in ToSet(r) PROVE x \in ToSet(s) \ {e}
    <3>1. PICK j \in 1 .. Len(s) - 1 : r[j] = x
      BY <2>6 DEF ToSet
    <3>2. PICK m \in 1 .. Len(s) : m # i /\ s[m] = x
      BY <3>1, <2>5, <1>1
    <3>3. x # e
      BY <3>2, <2>1, <1>1 DEF IsInjective
    <3>4. QED BY <3>2, <3>3, <1>1 DEF ToSet
  <2>8. ASSUME NEW x \in ToSet(s) \ {e} PROVE x \in ToSet(r)
    <3>1. PICK j \in 1 .. Len(s) : s[j] = x
      BY <1>1 DEF ToSet
    <3>2. j # i
      BY <2>1, <3>1
    <3>3. CASE j < i
      <4>1. j \in 1 .. Len(s) - 1 /\ r[j] = x
        BY <1>1, <2>5, <3>1, <3>3
      <4>2. QED BY <4>1, <2>6 DEF ToSet
    <3>4. CASE j > i
      <4>1. j - 1 \in 1 .. Len(s) - 1 /\ r[j - 1] = x
        BY <1>1, <2>5, <3>1, <3>4
      <4>2. QED BY <4>1, <2>6 DEF ToSet
    <3>5. QED BY <3>2, <3>3, <3>4
  <2>9. IsInjective(r)
    <3> SUFFICES ASSUME NEW a \in 1 .. Len(s) - 1, NEW b \in 1 .. Len(s) - 1, r[a] = r[b]
                 PROVE  a = b
      BY <2>6 DEF IsInjective
    <3> DEFINE f(j) == IF j < i THEN j ELSE j + 1
    <3>1. f(a) \in DOMAIN s /\ f(b) \in DOMAIN s /\ s[f(a)] = s[f(b)]
      BY <1>1, <2>5
    <3>2. f(a) = f(b)
      BY <3>1 DEF IsInjective
    <3>3. QED BY <3>2, <1>1
  <2>10. r = << >> <=> ToSet(s) \subseteq {e}
    <3>1. r = << >> <=> ToSet(r) = {}
      BY <2>5, EmptyLemma
    <3>2. QED BY <3>1, <2>7, <2>8
  <2>11. e \in ToSet(s)
    BY <2>1, <1>1 DEF ToSet
  <2>12. QED BY <2>4, <2>5, <2>7, <2>8, <2>9, <2>10, <2>11 DEF r
<1>4. QED BY <1>2, <1>3

\* Insertion anywhere (rt_list_insert_before a waiter, rt_list_insert_after
\* the head, which is position 1).
LEMMA InsertAtLemma ==
    ASSUME NEW S, NEW s \in Seq(S), NEW e \in S, NEW i \in 1 .. Len(s) + 1
    PROVE  /\ InsertAt(s, i, e) \in Seq(S)
           /\ ToSet(InsertAt(s, i, e)) = ToSet(s) \cup {e}
           /\ IsInjective(s) /\ e \notin ToSet(s) => IsInjective(InsertAt(s, i, e))
<1> DEFINE a == SubSeq(s, 1, i - 1)
           b == SubSeq(s, i, Len(s))
           c == a \o <<e>>
           r == c \o b
<1>1. /\ Len(s) \in Nat /\ DOMAIN s = 1 .. Len(s)
      /\ \A j \in 1 .. Len(s) : s[j] \in S
  BY LenProperties, ElementOfSeq
<1>2. /\ a \in Seq(S) /\ Len(a) = i - 1
      /\ \A j \in 1 .. i - 1 : a[j] = s[j]
  <2>1. /\ a \in Seq(S)
        /\ Len(a) = IF 1 <= i - 1 THEN (i - 1) - 1 + 1 ELSE 0
        /\ \A j \in 1 .. (i - 1) - 1 + 1 : a[j] = s[1 + j - 1]
    BY <1>1, SubSeqProperties, 1 \in Int, i - 1 \in Int,
       \A j \in 1 .. i - 1 : s[j] \in S
  <2>2. QED BY <2>1, <1>1
<1>3. /\ b \in Seq(S) /\ Len(b) = Len(s) - i + 1
      /\ \A j \in 1 .. Len(s) - i + 1 : b[j] = s[i + j - 1]
  <2>1. /\ b \in Seq(S)
        /\ Len(b) = IF i <= Len(s) THEN Len(s) - i + 1 ELSE 0
        /\ \A j \in 1 .. Len(s) - i + 1 : b[j] = s[i + j - 1]
    BY <1>1, SubSeqProperties, i \in Int, Len(s) \in Int,
       \A j \in i .. Len(s) : s[j] \in S
  <2>2. QED BY <2>1, <1>1
<1>4. <<e>> \in Seq(S) /\ Len(<<e>>) = 1 /\ <<e>>[1] = e
  OBVIOUS
<1> HIDE DEF a, b
<1>5. /\ c \in Seq(S) /\ Len(c) = i
      /\ \A j \in 1 .. i : c[j] = IF j < i THEN s[j] ELSE e
  <2>1. /\ c \in Seq(S) /\ Len(c) = Len(a) + Len(<<e>>)
        /\ \A j \in 1 .. Len(a) + Len(<<e>>) :
              c[j] = IF j <= Len(a) THEN a[j] ELSE <<e>>[j - Len(a)]
    BY <1>2, <1>4, ConcatProperties
  <2> HIDE DEF c
  <2>2. ASSUME NEW j \in 1 .. i PROVE c[j] = IF j < i THEN s[j] ELSE e
    <3>1. c[j] = IF j <= i - 1 THEN a[j] ELSE <<e>>[j - (i - 1)]
      <4>1. Len(a) = i - 1 /\ Len(a) + Len(<<e>>) = i
        BY <1>2, <1>4, <1>1
      <4>2. QED BY <2>1, <4>1
    <3>2. CASE j < i
      BY <3>1, <3>2, <1>2, <1>1
    <3>3. CASE j = i
      <4>1. j - (i - 1) = 1 /\ ~(j <= i - 1) /\ ~(j < i)
        BY <3>3, <1>1
      <4>2. QED BY <3>1, <3>3, <4>1, <1>4
    <3>4. j < i \/ j = i
      BY <1>1
    <3>5. QED BY <3>2, <3>3, <3>4
  <2>3. QED BY <2>1, <2>2, <1>2, <1>4, <1>1
<1> HIDE DEF c
<1>6. /\ r \in Seq(S) /\ Len(r) = Len(s) + 1
      /\ \A j \in 1 .. Len(s) + 1 :
            r[j] = IF j < i THEN s[j] ELSE IF j = i THEN e ELSE s[j - 1]
  <2>1. /\ r \in Seq(S) /\ Len(r) = Len(c) + Len(b)
        /\ \A j \in 1 .. Len(c) + Len(b) :
              r[j] = IF j <= Len(c) THEN c[j] ELSE b[j - Len(c)]
    BY <1>3, <1>5, ConcatProperties
  <2> HIDE DEF r
  <2>2. Len(c) + Len(b) = Len(s) + 1
    BY <1>1, <1>3, <1>5
  <2>3. ASSUME NEW j \in 1 .. Len(s) + 1
        PROVE  r[j] = IF j < i THEN s[j] ELSE IF j = i THEN e ELSE s[j - 1]
    <3>1. r[j] = IF j <= i THEN c[j] ELSE b[j - i]
      BY <2>1, <2>2, <1>5
    <3>2. CASE j <= i
      BY <3>1, <3>2, <1>5, <1>1
    <3>3. CASE j > i
      <4>1. j - i \in 1 .. Len(s) - i + 1 /\ i + (j - i) - 1 = j - 1
        BY <3>3, <1>1
      <4>2. b[j - i] = s[j - 1]
        BY <4>1, <1>3
      <4>3. QED BY <3>1, <3>3, <4>2, <1>1
    <3>4. QED BY <3>2, <3>3, <1>1
  <2>4. QED BY <2>1, <2>2, <2>3
<1>7. InsertAt(s, i, e) = r
  BY DEF InsertAt, a, b, c
<1>8. DOMAIN r = 1 .. Len(s) + 1
  BY <1>6, LenProperties
<1> HIDE DEF r
<1>9. ASSUME NEW x \in ToSet(r) PROVE x \in ToSet(s) \cup {e}
  <2>1. PICK j \in 1 .. Len(s) + 1 : r[j] = x
    BY <1>8 DEF ToSet
  <2>2. x = e \/ \E m \in 1 .. Len(s) : s[m] = x
    BY <2>1, <1>6, <1>1
  <2>3. QED BY <2>2, <1>1 DEF ToSet
<1>10. ASSUME NEW x \in ToSet(s) \cup {e} PROVE x \in ToSet(r)
  <2>1. CASE x = e
    BY <2>1, <1>1, <1>6, <1>8 DEF ToSet
  <2>2. CASE x \in ToSet(s)
    <3>1. PICK m \in 1 .. Len(s) : s[m] = x
      BY <2>2, <1>1 DEF ToSet
    <3>2. PICK j \in 1 .. Len(s) + 1 : r[j] = x
      <4>1. CASE m < i
        BY <4>1, <3>1, <1>1, <1>6
      <4>2. CASE m >= i
        <5>1. m + 1 \in 1 .. Len(s) + 1 /\ r[m + 1] = s[(m + 1) - 1] /\ (m + 1) - 1 = m
          BY <4>2, <1>1, <1>6
        <5>2. QED BY <5>1, <3>1
      <4>3. QED BY <4>1, <4>2, <1>1
    <3>3. QED BY <3>2, <1>8 DEF ToSet
  <2>3. QED BY <2>1, <2>2
<1>11. ASSUME IsInjective(s), e \notin ToSet(s) PROVE IsInjective(r)
  <2> SUFFICES ASSUME NEW x \in 1 .. Len(s) + 1, NEW y \in 1 .. Len(s) + 1, r[x] = r[y]
               PROVE  x = y
    BY <1>8 DEF IsInjective
  <2>1. \A j \in 1 .. Len(s) : s[j] # e
    BY <1>1, <1>11 DEF ToSet
  <2>2. \A j, m \in 1 .. Len(s) : s[j] = s[m] => j = m
    BY <1>1, <1>11 DEF IsInjective
  <2> DEFINE f(j) == IF j < i THEN j ELSE j - 1
  <2>3. \A j \in 1 .. Len(s) + 1 : j # i => f(j) \in 1 .. Len(s) /\ r[j] = s[f(j)]
    BY <1>1, <1>6
  <2>4. r[i] = e
    BY <1>1, <1>6
  <2>5. CASE x = i \/ y = i
    BY <2>1, <2>3, <2>4, <2>5
  <2>6. CASE x # i /\ y # i
    <3>1. f(x) = f(y)
      BY <2>2, <2>3, <2>6
    <3>2. QED BY <3>1, <2>6, <1>1
  <2>7. QED BY <2>5, <2>6
<1>12. QED BY <1>6, <1>7, <1>9, <1>10, <1>11

\* A new first element.
LEMMA ConsLemma ==
    ASSUME NEW S, NEW s \in Seq(S), NEW e \in S
    PROVE  /\ <<e>> \o s \in Seq(S)
           /\ ToSet(<<e>> \o s) = ToSet(s) \cup {e}
           /\ IsInjective(s) /\ e \notin ToSet(s) => IsInjective(<<e>> \o s)
<1> DEFINE r == <<e>> \o s
<1>1. Len(s) \in Nat /\ DOMAIN s = 1 .. Len(s)
  BY LenProperties
<1>2. r \in Seq(S) /\ Len(r) = Len(s) + 1 /\ r[1] = e
  BY <1>1
<1>3. \A i \in 1 .. Len(s) : r[i + 1] = s[i]
  BY <1>1
<1>4. DOMAIN r = 1 .. Len(s) + 1
  BY <1>2, LenProperties
<1> HIDE DEF r
<1>5. \A i \in DOMAIN r : i = 1 \/ (i - 1 \in 1 .. Len(s) /\ r[i] = s[i - 1])
  <2> SUFFICES ASSUME NEW i \in 1 .. Len(s) + 1, i # 1
               PROVE  i - 1 \in 1 .. Len(s) /\ r[i] = s[i - 1]
    BY <1>4
  <2>1. i - 1 \in 1 .. Len(s) /\ (i - 1) + 1 = i
    BY <1>1
  <2>2. QED BY <2>1, <1>3
<1>6. ToSet(r) = ToSet(s) \cup {e}
  <2>1. ToSet(r) \subseteq ToSet(s) \cup {e}
    BY <1>1, <1>2, <1>5 DEF ToSet
  <2>2. e \in ToSet(r)
    BY <1>1, <1>2, <1>4 DEF ToSet
  <2>3. \A i \in 1 .. Len(s) : i + 1 \in DOMAIN r
    BY <1>1, <1>4
  <2>4. ToSet(s) \subseteq ToSet(r)
    BY <1>1, <1>3, <2>3 DEF ToSet
  <2>5. QED BY <2>1, <2>2, <2>4
<1>7. ASSUME IsInjective(s), e \notin ToSet(s) PROVE IsInjective(r)
  <2> SUFFICES ASSUME NEW i \in DOMAIN r, NEW j \in DOMAIN r, r[i] = r[j] PROVE i = j
    BY DEF IsInjective
  <2>1. \A n \in DOMAIN s : s[n] # e
    BY <1>7 DEF ToSet
  <2>2. CASE i = 1
    BY <1>1, <1>2, <1>5, <2>1, <2>2
  <2>3. CASE j = 1
    BY <1>1, <1>2, <1>5, <2>1, <2>3
  <2>4. CASE i # 1 /\ j # 1
    <3>1. i - 1 = j - 1
      BY <1>1, <1>5, <1>7, <2>4 DEF IsInjective
    <3>2. QED BY <3>1, <1>1, <1>4
  <2>5. QED BY <2>2, <2>3, <2>4
<1>8. QED BY <1>2, <1>6, <1>7 DEF r

\* The elements of a sequence over S are in S.
LEMMA ToSetLemma ==
    ASSUME NEW S, NEW s \in Seq(S)
    PROVE  ToSet(s) \subseteq S
  BY LenProperties, ElementOfSeq DEF ToSet

=============================================================================
