---------------------------- MODULE StoreProofs -----------------------------
(***************************************************************************)
(* Proofs about Store, for every number of topics, posts, users and terms. *)
(*                                                                         *)
(* The lemmas follow one record of the log at a time: the change that an   *)
(* operation makes in memory, the change that loadDB makes for its record, *)
(* and why the two keep the lists whole and the content the same.          *)
(***************************************************************************)
EXTENDS Store, SequenceTheorems, WellFoundedInduction, TLAPS

----------------------------------------------------------------------------
(***************************************************************************)
(* Lemmas about the list of topics in module Store: taking a topic out and *)
(* putting one in keep the list free of repetitions, and the place that    *)
(* moveTopicToFront computes is a place of the list.                       *)
(***************************************************************************)

\* The sequence without one of its places.
LEMMA RemoveAtProperties ==
    ASSUME NEW S, NEW s \in Seq(S), NEW i \in 1..Len(s)
    PROVE  /\ RemoveAt(s, i) \in Seq(S)
           /\ Len(RemoveAt(s, i)) = Len(s) - 1
           /\ \A j \in 1..(Len(s) - 1) :
                 RemoveAt(s, i)[j] = IF j < i THEN s[j] ELSE s[j + 1]
<1> DEFINE a == SubSeq(s, 1, i - 1)
           b == SubSeq(s, i + 1, Len(s))
<1>1. Len(s) \in Nat /\ i \in Int /\ i - 1 \in Int /\ i + 1 \in Int
  OBVIOUS
<1>2. \A j \in 1..Len(s) : s[j] \in S
  BY ElementOfSeq
<1>3. /\ a \in Seq(S) /\ Len(a) = i - 1
      /\ \A j \in 1..(i - 1) : a[j] = s[j]
  <2>1. \A j \in 1..(i - 1) : s[j] \in S
    BY <1>1, <1>2
  <2>2. QED
    BY <1>1, <2>1, SubSeqProperties
<1>4. /\ b \in Seq(S) /\ Len(b) = Len(s) - i
      /\ \A j \in 1..(Len(s) - i) : b[j] = s[i + j]
  <2>1. \A j \in (i + 1)..Len(s) : s[j] \in S
    BY <1>1, <1>2
  <2>2. /\ b \in Seq(S)
        /\ Len(b) = IF i + 1 <= Len(s) THEN Len(s) - (i + 1) + 1 ELSE 0
        /\ \A j \in 1..(Len(s) - (i + 1) + 1) : b[j] = s[(i + 1) + j - 1]
    BY <1>1, <2>1, SubSeqProperties
  <2>3. Len(b) = Len(s) - i /\ Len(s) - (i + 1) + 1 = Len(s) - i
    BY <1>1, <2>2
  <2>4. \A j \in 1..(Len(s) - i) : (i + 1) + j - 1 = i + j
    BY <1>1
  <2>5. QED
    BY <2>2, <2>3, <2>4
<1> HIDE DEF a, b
<1>5. /\ a \o b \in Seq(S) /\ Len(a \o b) = Len(a) + Len(b)
      /\ \A j \in 1..(Len(a) + Len(b)) :
            (a \o b)[j] = IF j <= Len(a) THEN a[j] ELSE b[j - Len(a)]
  BY <1>3, <1>4, ConcatProperties
<1>6. Len(a \o b) = Len(s) - 1
  BY <1>1, <1>3, <1>4, <1>5
<1>7. ASSUME NEW j \in 1..(Len(s) - 1)
      PROVE  (a \o b)[j] = IF j < i THEN s[j] ELSE s[j + 1]
  <2>1. CASE j < i
    BY <1>1, <1>3, <1>4, <1>5, <2>1
  <2>2. CASE ~ j < i
    <3>1. (a \o b)[j] = b[j - (i - 1)] /\ j - (i - 1) \in 1..(Len(s) - i)
      BY <1>1, <1>3, <1>4, <1>5, <2>2
    <3>2. i + (j - (i - 1)) = j + 1
      BY <1>1
    <3>3. b[j - (i - 1)] = s[j + 1]
      BY <1>4, <3>1, <3>2
    <3>4. QED
      BY <2>2, <3>1, <3>3
  <2>3. QED
    BY <2>1, <2>2
<1>8. QED
  BY <1>5, <1>6, <1>7 DEF RemoveAt, a, b

\* The sequence with a new place.
LEMMA InsertAtProperties ==
    ASSUME NEW S, NEW s \in Seq(S), NEW i \in 1..(Len(s) + 1), NEW e \in S
    PROVE  /\ InsertAt(s, i, e) \in Seq(S)
           /\ Len(InsertAt(s, i, e)) = Len(s) + 1
           /\ \A j \in 1..(Len(s) + 1) :
                 InsertAt(s, i, e)[j] = IF j < i THEN s[j]
                                        ELSE IF j = i THEN e ELSE s[j - 1]
<1> DEFINE a == SubSeq(s, 1, i - 1)
           b == SubSeq(s, i, Len(s))
           m == a \o <<e>>
<1>1. Len(s) \in Nat /\ i \in Int /\ i - 1 \in Int
  OBVIOUS
<1>2. \A j \in 1..Len(s) : s[j] \in S
  BY ElementOfSeq
<1>3. /\ a \in Seq(S) /\ Len(a) = i - 1
      /\ \A j \in 1..(i - 1) : a[j] = s[j]
  <2>1. \A j \in 1..(i - 1) : s[j] \in S
    BY <1>1, <1>2
  <2>2. QED
    BY <1>1, <2>1, SubSeqProperties
<1>4. /\ b \in Seq(S) /\ Len(b) = Len(s) - i + 1
      /\ \A j \in 1..(Len(s) - i + 1) : b[j] = s[i + j - 1]
  <2>1. \A j \in i..Len(s) : s[j] \in S
    BY <1>1, <1>2
  <2>2. /\ b \in Seq(S)
        /\ Len(b) = IF i <= Len(s) THEN Len(s) - i + 1 ELSE 0
        /\ \A j \in 1..(Len(s) - i + 1) : b[j] = s[i + j - 1]
    BY <1>1, <2>1, SubSeqProperties
  <2>3. QED
    BY <1>1, <2>2
<1> HIDE DEF a, b
<1>5. /\ <<e>> \in Seq(S) /\ Len(<<e>>) = 1 /\ <<e>>[1] = e
  OBVIOUS
<1>6. /\ m \in Seq(S) /\ Len(m) = i
      /\ \A j \in 1..i : m[j] = IF j < i THEN s[j] ELSE e
  <2>1. /\ m \in Seq(S) /\ Len(m) = Len(a) + 1
        /\ \A j \in 1..(Len(a) + 1) :
              m[j] = IF j <= Len(a) THEN a[j] ELSE <<e>>[j - Len(a)]
    BY <1>3, <1>5, ConcatProperties
  <2>2. ASSUME NEW j \in 1..i PROVE m[j] = IF j < i THEN s[j] ELSE e
    <3>1. CASE j < i
      BY <1>1, <1>3, <2>1, <3>1
    <3>2. CASE ~ j < i
      <4>1. j = i /\ j - Len(a) = 1 /\ ~ j <= Len(a)
        BY <1>1, <1>3, <3>2
      <4>2. QED
        BY <1>1, <1>3, <1>5, <2>1, <3>2, <4>1
    <3>3. QED
      BY <3>1, <3>2
  <2>3. QED
    BY <1>1, <1>3, <2>1, <2>2, SMTT(30)
<1> HIDE DEF m
<1>7. /\ m \o b \in Seq(S) /\ Len(m \o b) = Len(m) + Len(b)
      /\ \A j \in 1..(Len(m) + Len(b)) :
            (m \o b)[j] = IF j <= Len(m) THEN m[j] ELSE b[j - Len(m)]
  BY <1>4, <1>6, ConcatProperties
<1>8. Len(m \o b) = Len(s) + 1
  BY <1>1, <1>4, <1>6, <1>7
<1>9. ASSUME NEW j \in 1..(Len(s) + 1)
      PROVE  (m \o b)[j] = IF j < i THEN s[j] ELSE IF j = i THEN e ELSE s[j - 1]
  <2>1. CASE j <= i
    BY <1>1, <1>4, <1>6, <1>7, <2>1
  <2>2. CASE ~ j <= i
    <3>1. (m \o b)[j] = b[j - i] /\ j - i \in 1..(Len(s) - i + 1)
      BY <1>1, <1>4, <1>6, <1>7, <2>2, SMTT(30)
    <3>2. i + (j - i) - 1 = j - 1
      BY <1>1
    <3>3. b[j - i] = s[j - 1]
      BY <1>4, <3>1, <3>2
    <3>4. QED
      BY <1>1, <2>2, <3>1, <3>3
  <2>3. QED
    BY <2>1, <2>2
<1>10. QED
  BY <1>7, <1>8, <1>9 DEF InsertAt, a, b, m

\* Unlinking a topic leaves the others, each once.
LEMMA UnlinkProperties ==
    ASSUME NEW S, NEW s \in Seq(S), IsInjective(s), NEW t
    PROVE  /\ Unlink(s, t) \in Seq(S)
           /\ IsInjective(Unlink(s, t))
           /\ Range(Unlink(s, t)) = Range(s) \ {t}
           /\ Len(Unlink(s, t)) = IF t \in Range(s) THEN Len(s) - 1 ELSE Len(s)
<1>1. Len(s) \in Nat /\ DOMAIN s = 1..Len(s)
  OBVIOUS
<1>2. CASE ~ \E i \in DOMAIN s : s[i] = t
  <2>1. Unlink(s, t) = s /\ t \notin Range(s)
    BY <1>2 DEF Unlink, Range
  <2>2. QED
    BY <2>1
<1>3. CASE \E i \in DOMAIN s : s[i] = t
  <2> DEFINE k == CHOOSE i \in DOMAIN s : s[i] = t
             r == RemoveAt(s, k)
  <2>1. k \in 1..Len(s) /\ s[k] = t
    BY <1>1, <1>3
  <2>2. Unlink(s, t) = r /\ t \in Range(s)
    BY <1>3 DEF Unlink, Range
  <2> HIDE DEF k
  <2>3. /\ r \in Seq(S) /\ Len(r) = Len(s) - 1
        /\ \A j \in 1..(Len(s) - 1) : r[j] = IF j < k THEN s[j] ELSE s[j + 1]
    BY <2>1, RemoveAtProperties
  <2> HIDE DEF r
  <2>4. DOMAIN r = 1..(Len(s) - 1)
    BY <2>3
  <2>5. \A i, j \in 1..Len(s) : s[i] = s[j] => i = j
    BY <1>1 DEF IsInjective
  <2>6. IsInjective(r)
    <3>1. SUFFICES ASSUME NEW i \in 1..(Len(s) - 1), NEW j \in 1..(Len(s) - 1), r[i] = r[j]
                   PROVE  i = j
      BY <2>4 DEF IsInjective
    <3>2. /\ i \in 1..Len(s) /\ i + 1 \in 1..Len(s)
          /\ j \in 1..Len(s) /\ j + 1 \in 1..Len(s) /\ k \in Int
      BY <1>1, <2>1
    <3>3. r[i] = (IF i < k THEN s[i] ELSE s[i + 1]) /\ r[j] = (IF j < k THEN s[j] ELSE s[j + 1])
      BY <2>3
    <3>4. CASE i < k /\ j < k
      BY <2>5, <3>1, <3>2, <3>3, <3>4
    <3>5. CASE ~ i < k /\ ~ j < k
      <4>1. i + 1 = j + 1
        BY <2>5, <3>1, <3>2, <3>3, <3>5
      <4>2. QED
        BY <3>2, <4>1
    <3>6. CASE i < k /\ ~ j < k
      <4>1. i = j + 1
        BY <2>5, <3>1, <3>2, <3>3, <3>6
      <4>2. QED
        BY <3>2, <3>6, <4>1
    <3>7. CASE ~ i < k /\ j < k
      <4>1. i + 1 = j
        BY <2>5, <3>1, <3>2, <3>3, <3>7
      <4>2. QED
        BY <3>2, <3>7, <4>1
    <3>8. QED
      BY <3>4, <3>5, <3>6, <3>7
  <2>7. ASSUME NEW i \in 1..(Len(s) - 1) PROVE r[i] \in Range(s) \ {t}
    <3>1. i \in 1..Len(s) /\ i + 1 \in 1..Len(s) /\ i \in Int /\ k \in Int
      BY <1>1, <2>1
    <3>2. CASE i < k
      <4>1. r[i] = s[i] /\ i # k
        BY <2>3, <3>1, <3>2
      <4>2. QED
        BY <1>1, <2>1, <2>5, <3>1, <4>1 DEF Range
    <3>3. CASE ~ i < k
      <4>1. r[i] = s[i + 1] /\ i + 1 # k
        BY <2>3, <3>1, <3>3
      <4>2. QED
        BY <1>1, <2>1, <2>5, <3>1, <4>1 DEF Range
    <3>4. QED
      BY <3>2, <3>3
  <2>8. ASSUME NEW x \in Range(s), x # t PROVE x \in Range(r)
    <3>1. PICK i \in 1..Len(s) : x = s[i]
      BY <1>1 DEF Range
    <3>2. i # k /\ i \in Int /\ k \in Int
      BY <2>1, <2>8, <3>1
    <3>3. CASE i < k
      <4>1. i \in 1..(Len(s) - 1) /\ r[i] = x
        BY <1>1, <2>1, <2>3, <3>1, <3>3
      <4>2. QED
        BY <2>4, <4>1 DEF Range
    <3>4. CASE k < i
      <4>1. i - 1 \in 1..(Len(s) - 1) /\ ~ (i - 1 < k) /\ (i - 1) + 1 = i
        BY <1>1, <2>1, <3>1, <3>4
      <4>2. r[i - 1] = x
        BY <2>3, <3>1, <4>1
      <4>3. QED
        BY <2>4, <4>1, <4>2 DEF Range
    <3>5. QED
      BY <3>2, <3>3, <3>4
  <2>9. Range(r) = Range(s) \ {t}
    <3>1. \A x \in Range(r) : x \in Range(s) \ {t}
      BY <2>4, <2>7 DEF Range
    <3>2. QED
      BY <2>8, <3>1
  <2>10. QED
    BY <2>2, <2>3, <2>6, <2>9
<1>4. QED
  BY <1>2, <1>3

\* Putting in a topic that is not in the list keeps each topic there once.
LEMMA InsertProperties ==
    ASSUME NEW S, NEW s \in Seq(S), IsInjective(s), NEW e \in S, e \notin Range(s),
           NEW i \in 1..(Len(s) + 1)
    PROVE  /\ InsertAt(s, i, e) \in Seq(S)
           /\ IsInjective(InsertAt(s, i, e))
           /\ Range(InsertAt(s, i, e)) = Range(s) \cup {e}
           /\ Len(InsertAt(s, i, e)) = Len(s) + 1
<1>0. PICK l, p, v : l = s /\ p = i /\ v = e
  OBVIOUS
<1>a. l \in Seq(S) /\ p \in 1..(Len(l) + 1) /\ v \in S
  BY <1>0
<1>b. /\ InsertAt(l, p, v) \in Seq(S)
      /\ Len(InsertAt(l, p, v)) = Len(l) + 1
      /\ \A j \in 1..(Len(l) + 1) :
            InsertAt(l, p, v)[j] = IF j < p THEN l[j] ELSE IF j = p THEN v ELSE l[j - 1]
  BY <1>a, InsertAtProperties
<1> DEFINE n == Len(s)
           r == InsertAt(s, i, e)
<1>1. n \in Nat /\ i \in Int /\ DOMAIN s = 1..n
  OBVIOUS
<1>2. /\ r \in Seq(S) /\ Len(r) = n + 1
      /\ \A j \in 1..(n + 1) : r[j] = IF j < i THEN s[j] ELSE IF j = i THEN e ELSE s[j - 1]
  BY <1>0, <1>b
<1>3. DOMAIN r = 1..(n + 1)
  BY <1>2
<1>4. \A j \in 1..n : s[j] \in Range(s) /\ s[j] # e
  BY <1>1 DEF Range
<1>5. \A j, k \in 1..n : s[j] = s[k] => j = k
  BY <1>1 DEF IsInjective
<1> HIDE DEF r, n
<1>6. ASSUME NEW j \in 1..(n + 1)
      PROVE  \/ j < i /\ j \in 1..n /\ r[j] = s[j]
             \/ j = i /\ r[j] = e
             \/ i < j /\ j - 1 \in 1..n /\ r[j] = s[j - 1]
  <2>1. i \in 1..(n + 1)
    BY DEF n
  <2>2. QED
    BY <1>1, <1>2, <2>1
<1>7. IsInjective(r)
  <2>1. SUFFICES ASSUME NEW j \in 1..(n + 1), NEW k \in 1..(n + 1), r[j] = r[k]
                 PROVE  j = k
    BY <1>3 DEF IsInjective
  <2>2. /\ \/ j < i /\ j \in 1..n /\ r[j] = s[j]
           \/ j = i /\ r[j] = e
           \/ i < j /\ j - 1 \in 1..n /\ r[j] = s[j - 1]
        /\ \/ k < i /\ k \in 1..n /\ r[k] = s[k]
           \/ k = i /\ r[k] = e
           \/ i < k /\ k - 1 \in 1..n /\ r[k] = s[k - 1]
    BY <1>6
  <2>3. CASE j = i \/ k = i
    BY <1>1, <1>4, <2>1, <2>2, <2>3
  <2>4. CASE j < i /\ k < i
    BY <1>1, <1>5, <2>1, <2>2, <2>4
  <2>5. CASE i < j /\ i < k
    <3>1. j - 1 = k - 1
      BY <1>1, <1>5, <2>1, <2>2, <2>5
    <3>2. QED
      BY <1>1, <3>1
  <2>6. CASE j < i /\ i < k
    <3>1. j = k - 1
      BY <1>1, <1>5, <2>1, <2>2, <2>6
    <3>2. QED
      BY <1>1, <2>6, <3>1
  <2>7. CASE i < j /\ k < i
    <3>1. j - 1 = k
      BY <1>1, <1>5, <2>1, <2>2, <2>7
    <3>2. QED
      BY <1>1, <2>7, <3>1
  <2>8. QED
    BY <1>1, <2>3, <2>4, <2>5, <2>6, <2>7
<1>8. Range(r) = Range(s) \cup {e}
  <2>1. ASSUME NEW x \in Range(r) PROVE x \in Range(s) \cup {e}
    <3>1. PICK j \in 1..(n + 1) : x = r[j]
      BY <1>3 DEF Range
    <3>2. QED
      BY <1>4, <1>6, <3>1
  <2>2. ASSUME NEW x \in Range(s) PROVE x \in Range(r)
    <3>1. PICK j \in 1..n : x = s[j]
      BY <1>1 DEF Range, n
    <3>2. CASE j < i
      <4>1. j \in 1..(n + 1) /\ r[j] = x
        BY <1>1, <1>2, <3>1, <3>2
      <4>2. QED
        BY <1>3, <4>1 DEF Range
    <3>3. CASE ~ j < i
      <4>1. j + 1 \in 1..(n + 1) /\ ~ (j + 1 < i) /\ j + 1 # i /\ (j + 1) - 1 = j
        BY <1>1, <3>1, <3>3
      <4>2. r[j + 1] = x
        BY <1>2, <3>1, <4>1
      <4>3. QED
        BY <1>3, <4>1, <4>2 DEF Range
    <3>4. QED
      BY <3>2, <3>3
  <2>3. e \in Range(r)
    <3>1. i \in 1..(n + 1) /\ r[i] = e
      <4>1. i \in 1..(n + 1)
        BY DEF n
      <4>2. QED
        BY <1>1, <1>2, <4>1
    <3>2. QED
      BY <1>3, <3>1 DEF Range
  <2>4. QED
    BY <2>1, <2>2, <2>3
<1>9. QED
  BY <1>2, <1>7, <1>8 DEF r, n

\* Taking out what was put in gives the list back.
LEMMA UnlinkInsert ==
    ASSUME NEW s \in Seq(TopicID), IsInjective(s), NEW t \in TopicID, t \notin Range(s),
           NEW k \in 1..(Len(s) + 1)
    PROVE  Unlink(s, t) = s /\ Unlink(InsertAt(s, k, t), t) = s
<1>1. Unlink(s, t) = s
  BY DEF Unlink, Range
<1> DEFINE o == InsertAt(s, k, t)
<1>2. /\ o \in Seq(TopicID) /\ Len(o) = Len(s) + 1 /\ Len(s) \in Nat
      /\ \A j \in 1..(Len(s) + 1) : o[j] = IF j < k THEN s[j] ELSE IF j = k THEN t ELSE s[j - 1]
  BY InsertAtProperties
<1>3. IsInjective(o)
  BY InsertProperties
<1> HIDE DEF o
<1>4. o[k] = t /\ k \in 1..Len(o)
  BY <1>2
<1>5. DOMAIN o = 1..Len(o)
  BY <1>2
<1>6. (CHOOSE i \in DOMAIN o : o[i] = t) = k
  <2>1. \A i \in DOMAIN o : o[i] = t => i = k
    BY <1>3, <1>4, <1>5 DEF IsInjective
  <2>2. QED
    BY <1>4, <1>5, <2>1
<1>7. Unlink(o, t) = RemoveAt(o, k)
  BY <1>4, <1>5, <1>6 DEF Unlink
<1> DEFINE r == RemoveAt(o, k)
<1>8. /\ r \in Seq(TopicID) /\ Len(r) = Len(o) - 1
      /\ \A j \in 1..(Len(o) - 1) : r[j] = IF j < k THEN o[j] ELSE o[j + 1]
  BY <1>2, <1>4, RemoveAtProperties
<1> HIDE DEF r
<1>9. ASSUME NEW j \in 1..Len(s) PROVE r[j] = s[j]
  <2>1. j \in 1..(Len(o) - 1) /\ j \in 1..(Len(s) + 1) /\ j + 1 \in 1..(Len(s) + 1) /\ j + 1 - 1 = j
    BY <1>2
  <2>2. CASE j < k
    BY <1>2, <1>8, <2>1, <2>2
  <2>3. CASE ~ j < k
    <3>1. ~ j + 1 < k /\ j + 1 # k
      BY <2>3
    <3>2. o[j + 1] = s[j + 1 - 1]
      BY <1>2, <2>1, <3>1
    <3>3. QED
      BY <1>8, <2>1, <2>3, <3>2
  <2>4. QED
    BY <2>2, <2>3
<1>10. r = s
  BY <1>2, <1>8, <1>9, SeqEqual
<1>11. QED
  BY <1>1, <1>7, <1>10 DEF o, r

\* Unlinking the last topic leaves the others in their places.
LEMMA UnlinkLast ==
    ASSUME NEW s \in Seq(TopicID), IsInjective(s), s # <<>>
    PROVE  /\ Last(s) \in Range(s) /\ Len(s) \in Nat \ {0} /\ Len(Unlink(s, Last(s))) = Len(s) - 1
           /\ \A j \in 1..(Len(s) - 1) : Unlink(s, Last(s))[j] = s[j]
           /\ IsPrefix(Unlink(s, Last(s)), s)
<1> DEFINE n == Len(s)
           u == RemoveAt(s, n)
<1>1. n \in Nat \ {0} /\ DOMAIN s = 1..n /\ n \in DOMAIN s /\ Last(s) = s[n]
  BY EmptySeq DEF Last
<1> HIDE DEF n
<1>2. (CHOOSE i \in DOMAIN s : s[i] = Last(s)) = n
  BY <1>1 DEF IsInjective
<1>3. Unlink(s, Last(s)) = u
  BY <1>1, <1>2 DEF Unlink
<1>4. u \in Seq(TopicID) /\ Len(u) = n - 1 /\ \A j \in 1..(n - 1) : u[j] = s[j]
  <2>1. n \in 1..Len(s) /\ \A j \in 1..(n - 1) : j < n
    BY <1>1 DEF n
  <2>2. QED
    BY <1>1, <2>1, RemoveAtProperties DEF n
<1> HIDE DEF u
<1>5. SubSeq(u, 1, n - 1) = SubSeq(s, 1, n - 1)
  <2>1. /\ SubSeq(u, 1, n - 1) \in Seq(TopicID) /\ Len(SubSeq(u, 1, n - 1)) = n - 1
        /\ \A j \in 1..(n - 1) : SubSeq(u, 1, n - 1)[j] = u[j]
    BY <1>1, <1>4
  <2>2. /\ SubSeq(s, 1, n - 1) \in Seq(TopicID) /\ Len(SubSeq(s, 1, n - 1)) = n - 1
        /\ \A j \in 1..(n - 1) : SubSeq(s, 1, n - 1)[j] = s[j]
    BY <1>1 DEF n
  <2>3. \A j \in 1..(n - 1) : SubSeq(u, 1, n - 1)[j] = SubSeq(s, 1, n - 1)[j]
    BY <1>4, <2>1, <2>2
  <2>4. QED
    BY <2>1, <2>2, <2>3, SeqEqual
<1>6. IsPrefix(u, s)
  BY <1>1, <1>4, <1>5 DEF IsPrefix, n
<1>7. Last(s) \in Range(s)
  BY <1>1 DEF Range
<1>8. QED
  BY <1>1, <1>3, <1>4, <1>6, <1>7 DEF n

\* A set of numbers that is not empty has a least one.
LEMMA MinIsLeast ==
    ASSUME NEW T, T \subseteq Nat, T # {}
    PROVE  Min(T) \in T /\ \A y \in T : Min(T) <= y
<1>1. PICK x \in T : \A y \in T : ~ <<y, x>> \in OpToRel(<, Nat)
  BY NatLessThanWellFounded, WFMin
<1>2. ASSUME NEW y \in T PROVE x <= y
  <2>1. x \in Nat /\ y \in Nat
    OBVIOUS
  <2>2. CASE y < x
    BY <1>1, <2>1, <2>2 DEF OpToRel
  <2>3. QED
    BY <2>1, <2>2
<1>3. QED
  BY <1>2 DEF Min

\* The place that moveTopicToFront computes is one of the list from which the
\* topic has been unlinked, or its end.
LEMMA FrontIsAPlace ==
    ASSUME NEW d, d.order \in Seq(TopicID), IsInjective(d.order), NEW t
    PROVE  FrontOf(d, t) \in 1..(Len(Unlink(d.order, t)) + 1)
<1> DEFINE s == d.order
           n == Len(s)
           u == Unlink(s, t)
           plain == {i \in DOMAIN s : ~ d.topics[s[i]].sticky}
<1>1. s \in Seq(TopicID) /\ n \in Nat /\ DOMAIN s = 1..n
  OBVIOUS
<1>2. Len(u) = IF t \in Range(s) THEN n - 1 ELSE n
  BY <1>1, UnlinkProperties
<1>3. FrontOf(d, t) = IF d.topics[t].sticky THEN 1
                      ELSE IF plain = {} THEN n + 1 ELSE Min(plain)
  BY DEF FrontOf
<1>4. plain \subseteq 1..n
  BY <1>1
<1>5. t \in Range(s) /\ ~ d.topics[t].sticky => plain # {}
  BY DEF Range
<1>6. t \in Range(s) => n >= 1
  BY <1>1 DEF Range
<1> HIDE DEF s, n, u, plain
<1>7. CASE d.topics[t].sticky
  BY <1>1, <1>2, <1>3, <1>6, <1>7 DEF s, u
<1>8. CASE ~ d.topics[t].sticky /\ plain = {}
  BY <1>1, <1>2, <1>3, <1>5, <1>8 DEF s, u
<1>9. CASE ~ d.topics[t].sticky /\ plain # {}
  <2>1. plain \subseteq Nat
    BY <1>1, <1>4
  <2>2. Min(plain) \in plain
    BY <1>9, <2>1, MinIsLeast
  <2>3. Min(plain) \in 1..n
    BY <1>4, <2>2
  <2>4. QED
    BY <1>1, <1>2, <1>3, <1>9, <2>3 DEF s, u
<1>10. QED
  BY <1>7, <1>8, <1>9

\* moveTopicToFront changes nothing but the order, and the list then has the
\* topics it had and the one that is moved.
LEMMA MoveProperties ==
    ASSUME NEW d, StoreType(d), IsInjective(d.order), Range(d.order) \subseteq DOMAIN d.topics,
           NEW t \in DOMAIN d.topics, d.topics[t].saged => t \in Range(d.order)
    PROVE  \E o \in Seq(TopicID) :
              /\ MoveTopicToFront(d, t) = [d EXCEPT !.order = o]
              /\ IsInjective(o)
              /\ Range(o) = Range(d.order) \cup {t}
              /\ Len(o) = IF t \in Range(d.order) THEN Len(d.order) ELSE Len(d.order) + 1
<1> DEFINE u == Unlink(d.order, t)
           f == FrontOf(d, t)
<1>1. d.order \in Seq(TopicID) /\ Len(d.order) \in Nat /\ t \in TopicID
  BY DEF StoreType
<1>2. CASE d.topics[t].saged
  <2>1. MoveTopicToFront(d, t) = d
    BY <1>2 DEF MoveTopicToFront
  <2>2. d = [d EXCEPT !.order = d.order]
    BY DEF StoreType
  <2>3. Range(d.order) = Range(d.order) \cup {t}
    BY <1>2
  <2>4. QED
    BY <1>1, <1>2, <2>1, <2>2, <2>3
<1>3. CASE ~ d.topics[t].saged
  <2>1. MoveTopicToFront(d, t) = [d EXCEPT !.order = InsertAt(u, f, t)]
    BY <1>3 DEF MoveTopicToFront
  <2>2. /\ u \in Seq(TopicID) /\ IsInjective(u) /\ Range(u) = Range(d.order) \ {t}
        /\ Len(u) = IF t \in Range(d.order) THEN Len(d.order) - 1 ELSE Len(d.order)
    BY <1>1, UnlinkProperties
  <2>3. f \in 1..(Len(u) + 1)
    BY <1>1, FrontIsAPlace
  <2> HIDE DEF u, f
  <2>4. /\ InsertAt(u, f, t) \in Seq(TopicID)
        /\ IsInjective(InsertAt(u, f, t))
        /\ Range(InsertAt(u, f, t)) = Range(u) \cup {t}
        /\ Len(InsertAt(u, f, t)) = Len(u) + 1
    BY <1>1, <2>2, <2>3, InsertProperties
  <2>5. Len(u) + 1 = IF t \in Range(d.order) THEN Len(d.order) ELSE Len(d.order) + 1
    BY <1>1, <2>2
  <2>6. Range(u) \cup {t} = Range(d.order) \cup {t}
    BY <2>2
  <2>7. QED
    BY <2>1, <2>4, <2>5, <2>6
<1>4. QED
  BY <1>2, <1>3

\* The topics that are not moved stay in their order.
LEMMA MovedOrder ==
    ASSUME NEW d, "order" \in DOMAIN d, d.order \in Seq(TopicID), IsInjective(d.order), NEW t \in TopicID
    PROVE  Unlink(MoveTopicToFront(d, t).order, t) = Unlink(d.order, t)
<1> DEFINE u == Unlink(d.order, t)
           f == FrontOf(d, t)
<1>1. CASE d.topics[t].saged
  BY <1>1 DEF MoveTopicToFront
<1>2. CASE ~ d.topics[t].saged
  <2>1. MoveTopicToFront(d, t).order = InsertAt(u, f, t)
    BY <1>2 DEF MoveTopicToFront
  <2>2. u \in Seq(TopicID) /\ IsInjective(u) /\ t \notin Range(u)
    BY UnlinkProperties
  <2>3. f \in 1..(Len(u) + 1)
    BY FrontIsAPlace
  <2> HIDE DEF u, f
  <2>4. Unlink(InsertAt(u, f, t), t) = u
    BY <2>2, <2>3, UnlinkInsert
  <2>5. QED
    BY <2>1, <2>4 DEF u
<1>3. QED
  BY <1>1, <1>2

----------------------------------------------------------------------------

\* A store in the middle of an operation: a topic may still have no post.
Base(d) ==
    /\ StoreType(d)
    /\ IsInjective(d.order)
    /\ Range(d.order) = DOMAIN d.topics
    /\ \A t \in DOMAIN d.topics : t <= d.count

Good(d) == Base(d) /\ \A t \in DOMAIN d.topics : d.topics[t].posts # <<>>

\* LiveTopicsNum is the length of the list.
LiveCounts(d) == d.live = Len(d.order)

\* What SameContent says, LiveTopicsNum left aside
Alike(a, b) ==
    /\ DOMAIN a.topics = DOMAIN b.topics
    /\ \A t \in DOMAIN a.topics : SameTopic(a.topics[t], b.topics[t])
    /\ a.count = b.count
    /\ a.blocked = b.blocked
    /\ a.maxLive = b.maxLive
    /\ a.config = b.config

\* The memory and what the log gives back
Pair(a, b) ==
    /\ Good(a) /\ Good(b) /\ Alike(a, b)
    /\ LiveCounts(a) /\ LiveCounts(b) /\ a.live = b.live

\* The log gives back the content, in lists that are whole.
LEMMA PairContent ==
    ASSUME NEW a, NEW b, Pair(a, b)
    PROVE  ListOK(a) /\ ListOK(b) /\ SameContent(a, b)
BY DEF Pair, Good, Base, LiveCounts, Alike, ListOK, SameContent

\* Moving a topic of the list changes the order only.
LEMMA MoveKeepsBase ==
    ASSUME NEW d, Base(d), NEW t \in DOMAIN d.topics
    PROVE  \E o \in Seq(TopicID) :
              /\ MoveTopicToFront(d, t) = [d EXCEPT !.order = o]
              /\ IsInjective(o) /\ Range(o) = DOMAIN d.topics /\ Len(o) = Len(d.order)
<1>1. PICK o \in Seq(TopicID) :
         /\ MoveTopicToFront(d, t) = [d EXCEPT !.order = o]
         /\ IsInjective(o)
         /\ Range(o) = Range(d.order) \cup {t}
         /\ Len(o) = IF t \in Range(d.order) THEN Len(d.order) ELSE Len(d.order) + 1
  BY MoveProperties DEF Base
<1>2. QED
  BY <1>1 DEF Base

\* Any order of the same topics keeps a list whole.
LEMMA ReorderKeepsBase ==
    ASSUME NEW d, Base(d), NEW o \in Seq(TopicID),
           IsInjective(o), Range(o) = DOMAIN d.topics
    PROVE  Base([d EXCEPT !.order = o])
BY DEF Base, StoreType

\* The order does not matter to the content.
LEMMA ReorderKeepsPair ==
    ASSUME NEW a, NEW b, Pair(a, b), NEW o \in Seq(TopicID),
           IsInjective(o), Range(o) = DOMAIN a.topics
    PROVE  /\ Len(o) = Len(a.order) => Pair([a EXCEPT !.order = o], b)
           /\ Len(o) = Len(b.order) => Pair(a, [b EXCEPT !.order = o])
<1>1. Base(a) /\ Base(b) /\ Alike(a, b) /\ Range(o) = DOMAIN b.topics
  BY DEF Pair, Good, Alike
<1>2. Base([a EXCEPT !.order = o]) /\ Base([b EXCEPT !.order = o])
  BY <1>1, ReorderKeepsBase
<1>3. Alike([a EXCEPT !.order = o], b) /\ Alike(a, [b EXCEPT !.order = o])
  BY <1>1 DEF Alike, Base, StoreType
<1>4. QED
  BY <1>2, <1>3 DEF Pair, Good, Base, StoreType, LiveCounts

\* moveTopicToFront in memory only, or in the log only, keeps the content.
LEMMA MoveKeepsPair ==
    ASSUME NEW a, NEW b, Pair(a, b), NEW t \in DOMAIN a.topics
    PROVE  /\ Pair(MoveTopicToFront(a, t), b)
           /\ Pair(a, MoveTopicToFront(b, t))
           /\ MoveTopicToFront(b, t).panic = b.panic
<1>1. Base(a) /\ Base(b) /\ t \in DOMAIN b.topics /\ DOMAIN a.topics = DOMAIN b.topics
  BY DEF Pair, Good, Alike
<1>2. PICK o \in Seq(TopicID) :
         /\ MoveTopicToFront(a, t) = [a EXCEPT !.order = o]
         /\ IsInjective(o) /\ Range(o) = DOMAIN a.topics /\ Len(o) = Len(a.order)
  BY <1>1, MoveKeepsBase
<1>3. PICK q \in Seq(TopicID) :
         /\ MoveTopicToFront(b, t) = [b EXCEPT !.order = q]
         /\ IsInjective(q) /\ Range(q) = DOMAIN b.topics /\ Len(q) = Len(b.order)
  BY <1>1, MoveKeepsBase
<1>4. Pair([a EXCEPT !.order = o], b)
  BY <1>2, ReorderKeepsPair
<1>5. Pair(a, [b EXCEPT !.order = q])
  BY <1>1, <1>3, ReorderKeepsPair
<1>6. [b EXCEPT !.order = q].panic = b.panic
  BY <1>1 DEF Base, StoreType
<1>7. QED
  BY <1>2, <1>3, <1>4, <1>5, <1>6

\* Changing a topic in memory and in the log, in the same way up to its flags
\* "locked" and "saged".
LEMMA ChangeTopicKeepsPair ==
    ASSUME NEW a, NEW b, Pair(a, b), NEW t \in DOMAIN a.topics,
           NEW x \in Topic, NEW y \in Topic, SameTopic(x, y), x.posts # <<>>, y.posts # <<>>
    PROVE  /\ Pair([a EXCEPT !.topics[t] = x], [b EXCEPT !.topics[t] = y])
           /\ [b EXCEPT !.topics[t] = y].panic = b.panic
<1> DEFINE c == [a EXCEPT !.topics[t] = x]
           e == [b EXCEPT !.topics[t] = y]
<1>1. Base(a) /\ Base(b) /\ Alike(a, b) /\ Good(a) /\ Good(b)
  BY DEF Pair, Good
<1>2. t \in DOMAIN b.topics
  BY <1>1 DEF Alike
<1>3. /\ c.topics = [a.topics EXCEPT ![t] = x] /\ e.topics = [b.topics EXCEPT ![t] = y]
      /\ DOMAIN c.topics = DOMAIN a.topics /\ DOMAIN e.topics = DOMAIN b.topics
      /\ <<c.order, c.count, c.live, c.blocked>> = <<a.order, a.count, a.live, a.blocked>>
      /\ <<c.maxLive, c.config, c.panic>> = <<a.maxLive, a.config, a.panic>>
      /\ <<e.order, e.count, e.live, e.blocked>> = <<b.order, b.count, b.live, b.blocked>>
      /\ <<e.maxLive, e.config, e.panic>> = <<b.maxLive, b.config, b.panic>>
  BY <1>1 DEF Base, StoreType
<1>4. StoreType(c) /\ StoreType(e)
  BY <1>1, <1>2 DEF Base, StoreType
<1>5. Base(c) /\ Base(e)
  BY <1>1, <1>3, <1>4 DEF Base
<1>6. Good(c) /\ Good(e)
  BY <1>1, <1>2, <1>3, <1>5 DEF Good, Base, StoreType
<1>7. \A u \in DOMAIN c.topics : SameTopic(c.topics[u], e.topics[u])
  BY <1>1, <1>2, <1>3 DEF Alike
<1>8. Alike(c, e)
  BY <1>1, <1>3, <1>7 DEF Alike
<1> HIDE DEF c, e
<1>9. Pair(c, e) /\ e.panic = b.panic
  BY <1>3, <1>6, <1>8 DEF Pair, LiveCounts
<1>10. QED
  BY <1>9 DEF c, e

\* Taking a topic out, whether or not it is there: what is left of the map
\* and of the list
LEMMA TakeOutFields ==
    ASSUME NEW d, Good(d), NEW t
    PROVE  LET e == TakeOut(d, t)
           IN  /\ Good(e)
               /\ DOMAIN e.topics = DOMAIN d.topics \ {t}
               /\ \A x \in DOMAIN d.topics \ {t} : e.topics[x] = d.topics[x]
               /\ Len(e.order) = IF t \in DOMAIN d.topics THEN Len(d.order) - 1 ELSE Len(d.order)
               /\ e.live = d.live - 1
               /\ <<e.count, e.blocked, e.maxLive, e.config>> = <<d.count, d.blocked, d.maxLive, d.config>>
               /\ e.panic = d.panic
<1> DEFINE e == TakeOut(d, t)
           u == Unlink(d.order, t)
           f == Drop(d.topics, t)
<1>1. /\ d.order \in Seq(TopicID) /\ Len(d.order) \in Nat /\ IsInjective(d.order)
      /\ Range(d.order) = DOMAIN d.topics
  BY DEF Good, Base, StoreType
<1>2. /\ u \in Seq(TopicID) /\ IsInjective(u) /\ Range(u) = Range(d.order) \ {t}
      /\ Len(u) = IF t \in Range(d.order) THEN Len(d.order) - 1 ELSE Len(d.order)
  BY <1>1, UnlinkProperties
<1>3. e = [d EXCEPT !.topics = f, !.order = u, !.live = d.live - 1]
  BY DEF TakeOut
<1>4. /\ DOMAIN f = DOMAIN d.topics \ {t}
      /\ \A x \in DOMAIN d.topics \ {t} : f[x] = d.topics[x]
      /\ f \in [DOMAIN d.topics \ {t} -> Topic]
  BY DEF Drop, Good, Base, StoreType
<1> HIDE DEF e, u, f
<1>5. /\ e.topics = f /\ e.order = u /\ e.live = d.live - 1
      /\ <<e.count, e.blocked, e.maxLive, e.config>> = <<d.count, d.blocked, d.maxLive, d.config>>
      /\ e.panic = d.panic
  BY <1>3 DEF Good, Base, StoreType
<1>6. StoreType(e)
  <2>1. DOMAIN f \subseteq TopicID /\ f \in [DOMAIN f -> Topic] /\ d.live - 1 \in Int
    BY <1>4 DEF Good, Base, StoreType
  <2>2. QED
    BY <1>2, <1>3, <2>1 DEF Good, Base, StoreType
<1>7. Base(e)
  BY <1>1, <1>2, <1>4, <1>5, <1>6 DEF Good, Base
<1>8. Good(e)
  BY <1>4, <1>5, <1>7 DEF Good
<1>9. QED
  BY <1>1, <1>2, <1>4, <1>5, <1>8 DEF e

\* Taking a topic out of the memory and of the log.
LEMMA TakeOutKeepsPair ==
    ASSUME NEW a, NEW b, Pair(a, b), NEW t \in DOMAIN a.topics
    PROVE  /\ Pair(TakeOut(a, t), TakeOut(b, t))
           /\ TakeOut(b, t).panic = b.panic
<1>1. Good(a) /\ Good(b) /\ Alike(a, b) /\ t \in DOMAIN b.topics
  BY DEF Pair, Alike
<1>2. PICK c, e : c = TakeOut(a, t) /\ e = TakeOut(b, t)
  OBVIOUS
<1>3. /\ Good(c)
      /\ DOMAIN c.topics = DOMAIN a.topics \ {t}
      /\ \A x \in DOMAIN a.topics \ {t} : c.topics[x] = a.topics[x]
      /\ Len(c.order) = Len(a.order) - 1
      /\ c.live = a.live - 1
      /\ <<c.count, c.blocked, c.maxLive, c.config>> = <<a.count, a.blocked, a.maxLive, a.config>>
  BY <1>1, <1>2, TakeOutFields
<1>4. /\ Good(e)
      /\ DOMAIN e.topics = DOMAIN b.topics \ {t}
      /\ \A x \in DOMAIN b.topics \ {t} : e.topics[x] = b.topics[x]
      /\ Len(e.order) = Len(b.order) - 1
      /\ e.live = b.live - 1
      /\ <<e.count, e.blocked, e.maxLive, e.config>> = <<b.count, b.blocked, b.maxLive, b.config>>
      /\ e.panic = b.panic
  BY <1>1, <1>2, TakeOutFields
<1>5. Alike(c, e)
  BY <1>1, <1>3, <1>4 DEF Alike
<1>6. Pair(c, e)
  BY <1>3, <1>4, <1>5 DEF Pair, LiveCounts
<1>7. QED
  BY <1>2, <1>4, <1>6

\* What a pair says of the posts of a topic.
LEMMA PairPosts ==
    ASSUME NEW a, NEW b, Pair(a, b), NEW t \in DOMAIN a.topics
    PROVE  /\ t \in DOMAIN b.topics
           /\ a.topics[t] \in Topic /\ b.topics[t] \in Topic
           /\ SameTopic(a.topics[t], b.topics[t])
           /\ a.topics[t].posts \in Seq(Post) /\ b.topics[t].posts \in Seq(Post)
           /\ Len(a.topics[t].posts) \in Nat \ {0}
           /\ Len(b.topics[t].posts) = Len(a.topics[t].posts)
           /\ a.topics[t].posts # <<>> /\ b.topics[t].posts # <<>>
<1>1. t \in DOMAIN b.topics /\ SameTopic(a.topics[t], b.topics[t])
  BY DEF Pair, Alike
<1>2. a.topics[t] \in Topic /\ b.topics[t] \in Topic
  BY <1>1 DEF Pair, Good, Base, StoreType
<1>3. a.topics[t].posts \in Seq(Post) /\ b.topics[t].posts \in Seq(Post)
  BY <1>2 DEF Topic
<1>4. a.topics[t].posts # <<>> /\ b.topics[t].posts # <<>>
  BY <1>1 DEF Pair, Good
<1>5. QED
  BY <1>1, <1>2, <1>3, <1>4, EmptySeq DEF SameTopic

\* Changing a post in memory and in the log, in the same way up to its flag
\* "nsfw".
LEMMA ChangePostKeepsPair ==
    ASSUME NEW a, NEW b, Pair(a, b), NEW t \in DOMAIN a.topics,
           NEW n \in DOMAIN a.topics[t].posts,
           NEW p \in Post, NEW q \in Post, Kept(p) = Kept(q)
    PROVE  /\ Pair([a EXCEPT !.topics[t].posts[n] = p], [b EXCEPT !.topics[t].posts[n] = q])
           /\ [b EXCEPT !.topics[t].posts[n] = q].panic = b.panic
<1> DEFINE s == a.topics[t].posts
           r == b.topics[t].posts
           x == [a.topics[t] EXCEPT !.posts[n] = p]
           y == [b.topics[t] EXCEPT !.posts[n] = q]
<1>1. /\ a.topics[t] \in Topic /\ b.topics[t] \in Topic /\ SameTopic(a.topics[t], b.topics[t])
      /\ s \in Seq(Post) /\ r \in Seq(Post) /\ Len(s) \in Nat \ {0} /\ Len(r) = Len(s)
  BY PairPosts
<1>2. n \in 1..Len(s) /\ DOMAIN s = 1..Len(s) /\ DOMAIN r = 1..Len(s)
  BY <1>1
<1>3. /\ [s EXCEPT ![n] = p] \in Seq(Post) /\ Len([s EXCEPT ![n] = p]) = Len(s)
      /\ [r EXCEPT ![n] = q] \in Seq(Post) /\ Len([r EXCEPT ![n] = q]) = Len(s)
      /\ DOMAIN [s EXCEPT ![n] = p] = 1..Len(s)
      /\ \A j \in 1..Len(s) : [s EXCEPT ![n] = p][j] = IF j = n THEN p ELSE s[j]
      /\ \A j \in 1..Len(s) : [r EXCEPT ![n] = q][j] = IF j = n THEN q ELSE r[j]
  BY <1>1, <1>2, ExceptSeq
<1>4. x = [a.topics[t] EXCEPT !.posts = [s EXCEPT ![n] = p]]
  BY <1>1 DEF Topic
<1>5. y = [b.topics[t] EXCEPT !.posts = [r EXCEPT ![n] = q]]
  BY <1>1 DEF Topic
<1> HIDE DEF x, y
<1>6. x \in Topic /\ y \in Topic
  BY <1>1, <1>3, <1>4, <1>5 DEF Topic
<1>7. x.posts = [s EXCEPT ![n] = p] /\ y.posts = [r EXCEPT ![n] = q]
  BY <1>1, <1>4, <1>5 DEF Topic
<1>8. SameTopic(x, y)
  <2>1. x.sticky = y.sticky /\ x.freeReply = y.freeReply
    BY <1>1, <1>4, <1>5 DEF SameTopic, Topic
  <2>2. \A j \in 1..Len(s) : Kept(s[j]) = Kept(r[j])
    BY <1>1, <1>2 DEF SameTopic
  <2>3. \A j \in 1..Len(s) : Kept(x.posts[j]) = Kept(y.posts[j])
    BY <1>3, <1>7, <2>2
  <2>4. QED
    BY <1>3, <1>7, <2>1, <2>3 DEF SameTopic
<1>9. x.posts # <<>> /\ y.posts # <<>>
  BY <1>1, <1>3, <1>7
<1>10. /\ Pair([a EXCEPT !.topics[t] = x], [b EXCEPT !.topics[t] = y])
       /\ [b EXCEPT !.topics[t] = y].panic = b.panic
  BY <1>6, <1>8, <1>9, ChangeTopicKeepsPair
<1>11. QED
  BY <1>10 DEF x, y

\* Adding a post in memory and in the log.
LEMMA AddPostKeepsPair ==
    ASSUME NEW a, NEW b, Pair(a, b), NEW t \in DOMAIN a.topics, NEW p \in Post
    PROVE  /\ Pair([a EXCEPT !.topics[t].posts = Append(@, p)],
                   [b EXCEPT !.topics[t].posts = Append(@, p)])
           /\ [b EXCEPT !.topics[t].posts = Append(@, p)].panic = b.panic
<1> DEFINE s == a.topics[t].posts
           r == b.topics[t].posts
           x == [a.topics[t] EXCEPT !.posts = Append(s, p)]
           y == [b.topics[t] EXCEPT !.posts = Append(r, p)]
<1>1. /\ a.topics[t] \in Topic /\ b.topics[t] \in Topic /\ SameTopic(a.topics[t], b.topics[t])
      /\ s \in Seq(Post) /\ r \in Seq(Post) /\ Len(s) \in Nat /\ Len(r) = Len(s)
  BY PairPosts
<1>2. /\ Append(s, p) \in Seq(Post) /\ Len(Append(s, p)) = Len(s) + 1
      /\ Append(r, p) \in Seq(Post) /\ Len(Append(r, p)) = Len(s) + 1
      /\ Append(s, p) # <<>> /\ Append(r, p) # <<>>
      /\ \A j \in 1..Len(s) : Append(s, p)[j] = s[j] /\ Append(r, p)[j] = r[j]
      /\ Append(s, p)[Len(s) + 1] = p /\ Append(r, p)[Len(s) + 1] = p
  <2>1. \A q \in Seq(Post) :
           /\ Append(q, p) \in Seq(Post) /\ Append(q, p) # <<>>
           /\ Len(Append(q, p)) = Len(q) + 1
           /\ \A j \in 1..Len(q) : Append(q, p)[j] = q[j]
           /\ Append(q, p)[Len(q) + 1] = p
    BY AppendProperties
  <2> HIDE DEF s, r
  <2>2. QED
    BY <1>1, <2>1
<1>3. x \in Topic /\ y \in Topic /\ x.posts = Append(s, p) /\ y.posts = Append(r, p)
  BY <1>1, <1>2 DEF Topic
<1>4. SameTopic(x, y)
  <2>1. x.sticky = y.sticky /\ x.freeReply = y.freeReply
    BY <1>1 DEF SameTopic, Topic
  <2>2. \A j \in 1..Len(s) : Kept(s[j]) = Kept(r[j])
    BY <1>1 DEF SameTopic
  <2> HIDE DEF x, y
  <2>3. \A j \in 1..(Len(s) + 1) : Kept(x.posts[j]) = Kept(y.posts[j])
    BY <1>1, <1>2, <1>3, <2>2
  <2>4. DOMAIN x.posts = 1..(Len(s) + 1) /\ Len(x.posts) = Len(y.posts)
    BY <1>2, <1>3
  <2>5. QED
    BY <2>1, <2>3, <2>4 DEF SameTopic
<1> HIDE DEF x, y
<1>5. x.posts # <<>> /\ y.posts # <<>>
  BY <1>2, <1>3
<1>6. Pair([a EXCEPT !.topics[t] = x], [b EXCEPT !.topics[t] = y])
  BY <1>3, <1>4, <1>5, ChangeTopicKeepsPair
<1>7. [b EXCEPT !.topics[t] = y].panic = b.panic
  BY DEF Pair, Good, Base, StoreType
<1>8. QED
  BY <1>6, <1>7 DEF x, y

\* A topic put in the map and moved to its place, and what that makes of a
\* store with the order o
TopicPut(d, t, x) ==
    [MoveTopicToFront([d EXCEPT !.topics = Put(d.topics, t, x)], t)
        EXCEPT !.count = d.count + 1, !.live = d.live + 1]

TopicAdded(d, t, x, o) ==
    [d EXCEPT !.topics = Put(d.topics, t, x), !.order = o, !.count = t, !.live = d.live + 1]

\* Adding a topic, in memory with its first post and in loadDB without one.
LEMMA AddTopicKeepsBase ==
    ASSUME NEW d, Base(d), d.count < MaxTopicID, NEW t, t = d.count + 1,
           NEW x \in Topic, ~ x.saged
    PROVE  \E o \in Seq(TopicID) :
              /\ TopicPut(d, t, x) = TopicAdded(d, t, x, o)
              /\ Base(TopicAdded(d, t, x, o)) /\ Len(o) = Len(d.order) + 1
<1> DEFINE f == Put(d.topics, t, x)
           c == [d EXCEPT !.topics = f]
<1>1. /\ t \in TopicID /\ t \in 0..MaxTopicID /\ t \notin DOMAIN d.topics
      /\ d.order \in Seq(TopicID) /\ Len(d.order) \in Nat
  BY LogAssumption DEF Base, StoreType, TopicID
<1>2. /\ DOMAIN f = DOMAIN d.topics \cup {t} /\ f[t] = x
      /\ f \in [DOMAIN d.topics \cup {t} -> Topic]
      /\ DOMAIN f \subseteq TopicID
  BY <1>1 DEF Put, Base, StoreType
<1> HIDE DEF f
<1>3. /\ StoreType(c) /\ c.topics = f /\ c.order = d.order
      /\ c.count = d.count /\ c.live = d.live
  BY <1>2 DEF Base, StoreType
<1> HIDE DEF c
<1>4. PICK o \in Seq(TopicID) :
         /\ MoveTopicToFront(c, t) = [c EXCEPT !.order = o]
         /\ IsInjective(o) /\ Range(o) = Range(c.order) \cup {t}
         /\ Len(o) = IF t \in Range(c.order) THEN Len(c.order) ELSE Len(c.order) + 1
  <2>1. /\ IsInjective(c.order) /\ Range(c.order) \subseteq DOMAIN c.topics
        /\ t \in DOMAIN c.topics /\ (c.topics[t].saged => t \in Range(c.order))
    BY <1>2, <1>3 DEF Base
  <2>2. StoreType(c)
    BY <1>3
  <2>3. QED
    BY <2>1, <2>2, MoveProperties
<1> DEFINE e == [d EXCEPT !.topics = f, !.order = o, !.count = t, !.live = d.live + 1]
<1>5. [MoveTopicToFront(c, t) EXCEPT !.count = d.count + 1, !.live = d.live + 1] = e
  <2>1. [[c EXCEPT !.order = o] EXCEPT !.count = t, !.live = d.live + 1] = e
    BY DEF c, Base, StoreType
  <2>2. QED
    BY <1>4, <2>1
<1>6. StoreType(e) /\ e.topics = f /\ e.order = o /\ e.count = t /\ e.live = d.live + 1
  <2>1. e.topics = f /\ e.order = o /\ e.count = t /\ e.live = d.live + 1
    BY DEF Base, StoreType
  <2>2. f \in [DOMAIN f -> Topic] /\ d.live + 1 \in Int
    BY <1>2 DEF Base, StoreType
  <2>3. StoreType(e)
    BY <1>1, <1>2, <2>1, <2>2 DEF Base, StoreType
  <2>4. QED
    BY <2>1, <2>3
<1>7. Range(o) = DOMAIN f /\ Len(o) = Len(d.order) + 1
  BY <1>1, <1>2, <1>3, <1>4 DEF Base
<1>8. \A u \in DOMAIN f : u <= t
  BY <1>1, <1>2 DEF Base, StoreType, TopicID
<1> HIDE DEF e
<1>9. Base(e)
  BY <1>4, <1>6, <1>7, <1>8 DEF Base
<1>10. TopicPut(d, t, x) = e /\ TopicAdded(d, t, x, o) = e
  BY <1>5, Zenon DEF TopicPut, TopicAdded, c, e, f
<1>11. QED
  BY <1>7, <1>9, <1>10

\* What loadDB makes of OP_POST and OP_IMAGE: the post is added, and the topic
\* may have moved.
LEMMA LogPostEffect ==
    ASSUME NEW d, Base(d), NEW t \in DOMAIN d.topics, NEW p \in Post,
           Len(d.topics[t].posts) < MaxPosts
    PROVE  \E o \in Seq(TopicID) :
              /\ LogPost(d, t, Len(d.topics[t].posts) + 1, p)
                    = [d EXCEPT !.topics[t].posts = Append(@, p), !.order = o]
              /\ IsInjective(o) /\ Range(o) = DOMAIN d.topics /\ Len(o) = Len(d.order)
<1> DEFINE s == d.topics[t].posts
           n == Len(s) + 1
           q == [p EXCEPT !.image = FALSE]
           c == [d EXCEPT !.topics[t].posts = Append(@, q)]
           e == OP_POST(d, t, n, q)
<1>1. /\ d.topics[t] \in Topic /\ s \in Seq(Post) /\ Len(s) \in Nat /\ n \in Nat
      /\ q \in Post /\ q.sage = p.sage /\ q.image = FALSE
      /\ d.order \in Seq(TopicID)
  <2>1. d.topics[t] \in Topic /\ d.order \in Seq(TopicID)
    BY DEF Base, StoreType
  <2>2. s \in Seq(Post) /\ Len(s) \in Nat /\ n \in Nat
    BY <2>1 DEF Topic
  <2>3. q \in Post /\ q.sage = p.sage /\ q.image = FALSE
    BY DEF Post
  <2>4. QED
    BY <2>1, <2>2, <2>3
<1>2. ~ n > MaxPosts
  BY <1>1, LogAssumption
<1>3. e = IF q.sage THEN c ELSE MoveTopicToFront(c, t)
  BY <1>2 DEF OP_POST
<1>4. Append(s, q) \in Seq(Post) /\ Len(Append(s, q)) = n /\ Append(s, q)[n] = q
  BY <1>1, AppendProperties
<1>5. /\ Base(c) /\ DOMAIN c.topics = DOMAIN d.topics
      /\ c.topics[t].posts = Append(s, q) /\ c.order = d.order
  BY <1>1, <1>4 DEF Base, StoreType, Topic
<1>6. PICK o \in Seq(TopicID) :
         e = [c EXCEPT !.order = o] /\ IsInjective(o) /\ Range(o) = DOMAIN d.topics /\ Len(o) = Len(d.order)
  <2>1. CASE q.sage
    <3>1. c = [c EXCEPT !.order = d.order]
      BY <1>5 DEF Base, StoreType
    <3>2. QED
      BY <1>1, <1>3, <2>1, <3>1 DEF Base
  <2>2. CASE ~ q.sage
    <3>1. PICK o \in Seq(TopicID) :
             /\ MoveTopicToFront(c, t) = [c EXCEPT !.order = o]
             /\ IsInjective(o) /\ Range(o) = DOMAIN c.topics /\ Len(o) = Len(c.order)
      BY <1>5, MoveKeepsBase
    <3>2. QED
      BY <1>3, <1>5, <2>2, <3>1
  <2>3. QED
    BY <2>1, <2>2
<1> DEFINE z == [d EXCEPT !.topics[t].posts = Append(@, p), !.order = o]
<1>7. CASE ~ p.image
  <2>1. q = p
    BY <1>7 DEF Post
  <2>2. [c EXCEPT !.order = o] = z
    BY <2>1 DEF Base, StoreType
  <2>3. LogPost(d, t, n, p) = e
    BY <1>7 DEF LogPost
  <2>4. QED
    BY <1>6, <2>2, <2>3
<1>8. CASE p.image
  <2>1. LogPost(d, t, n, p) = OP_IMAGE(e, t, n)
    BY <1>8 DEF LogPost
  <2>2. e.topics = c.topics
    BY <1>5, <1>6 DEF Base, StoreType
  <2>3. /\ t \in DOMAIN e.topics /\ e.topics[t].posts = Append(s, q)
        /\ n \in DOMAIN e.topics[t].posts /\ e.topics[t].posts[n] = q
    <3> HIDE DEF e, c, s, q, n
    <3>1. e.topics[t].posts = Append(s, q) /\ t \in DOMAIN e.topics
      BY <1>5, <2>2
    <3>2. DOMAIN Append(s, q) = 1..n /\ n \in 1..n
      <4>1. n \in Nat /\ n >= 1
        BY <1>1 DEF n
      <4>2. QED
        BY <1>4, <4>1
    <3>3. QED
      BY <1>4, <3>1, <3>2
  <2>4. OP_IMAGE(e, t, n) = [e EXCEPT !.topics[t].posts[n].image = TRUE]
    <3> HIDE DEF e, c, s, q, n
    <3>1. QED
      BY <1>1, <2>3 DEF OP_IMAGE
  <2>5. [Append(s, q) EXCEPT ![n] = p] = Append(s, p)
    <3>1. \A r \in Post : /\ Append(s, r) \in Seq(Post) /\ Len(Append(s, r)) = n
                          /\ \A j \in 1..Len(s) : Append(s, r)[j] = s[j]
                          /\ Append(s, r)[n] = r
      BY <1>1, AppendProperties
    <3> HIDE DEF q, s
    <3>2. n \in 1..n /\ \A j \in 1..n : j \in 1..Len(s) \/ j = n
      BY <1>1
    <3> HIDE DEF n
    <3>3. \A j \in 1..n : Append(s, p)[j] = IF j = n THEN p ELSE Append(s, q)[j]
      BY <1>1, <3>1, <3>2
    <3> DEFINE w == Append(s, q)
               v == Append(s, p)
    <3>4. w \in Seq(Post) /\ v \in Seq(Post) /\ Len(w) = n /\ Len(v) = n
      BY <1>1, <3>1
    <3> HIDE DEF w, v
    <3>5. /\ [w EXCEPT ![n] = p] \in Seq(Post)
          /\ Len([w EXCEPT ![n] = p]) = n
          /\ \A j \in 1..n : [w EXCEPT ![n] = p][j] = IF j = n THEN p ELSE w[j]
      <4>1. n \in 1..Len(w)
        BY <3>2, <3>4
      <4>2. /\ [w EXCEPT ![n] = p] \in Seq(Post)
            /\ Len([w EXCEPT ![n] = p]) = Len(w)
            /\ \A j \in 1..Len(w) : [w EXCEPT ![n] = p][j] = IF j = n THEN p ELSE w[j]
        BY <3>4, <4>1, ExceptSeq
      <4>3. QED
        BY <3>4, <4>2
    <3>6. \A j \in 1..n : [w EXCEPT ![n] = p][j] = v[j]
      BY <3>3, <3>5 DEF w, v
    <3>7. [w EXCEPT ![n] = p] = v
      BY <3>4, <3>5, <3>6, SeqEqual
    <3>8. QED
      BY <3>7 DEF w, v
  <2>6. [q EXCEPT !.image = TRUE] = p
    BY <1>8 DEF Post
  <2>7. [e EXCEPT !.topics[t].posts[n].image = TRUE]
          = [e EXCEPT !.topics[t].posts = [Append(s, q) EXCEPT ![n] = p]]
    <3> HIDE DEF e, c, s, q, n
    <3>1. QED
      BY <2>3, <2>6
  <2>8. [e EXCEPT !.topics[t].posts = Append(s, p)] = z
    <3>1. [[c EXCEPT !.order = o] EXCEPT !.topics[t].posts = Append(s, p)] = z
      <4> DEFINE v == Append(s, p)
                 u == Append(s, q)
      <4> HIDE DEF v, u
      <4>1. z = [d EXCEPT !.topics = [d.topics EXCEPT ![t] = [d.topics[t] EXCEPT !.posts = v]],
                          !.order = o]
        BY DEF v, Base, StoreType
      <4>2. c = [d EXCEPT !.topics = [d.topics EXCEPT ![t] = [d.topics[t] EXCEPT !.posts = u]]]
        BY DEF u, Base, StoreType
      <4>3. [[c EXCEPT !.order = o] EXCEPT !.topics[t].posts = v] = z
        <5> HIDE DEF c, z
        <5>1. QED
          BY <1>1, <4>1, <4>2 DEF Base, StoreType, Topic
      <4>4. QED
        BY <4>3 DEF v
    <3> HIDE DEF e, c, s, z
    <3>2. QED
      BY <1>6, <3>1
  <2>9. QED
    BY <1>6, <2>1, <2>4, <2>5, <2>7, <2>8
<1>9. QED
  BY <1>7, <1>8

\* The posts of a topic that has just been started.
LEMMA OnePost == ASSUME NEW p \in Post PROVE <<p>> \in Seq(Post) /\ <<p>> # <<>> /\ Len(<<p>>) = 1
OBVIOUS

\* A post more of a topic
PostAdded(d, t, p) == [d EXCEPT !.topics[t].posts = Append(@, p)]

\* NewPost, in memory and in the log.
LEMMA LogPostKeepsPair ==
    ASSUME NEW a, NEW b, Pair(a, b), NEW t \in DOMAIN a.topics, NEW p \in Post,
           Len(a.topics[t].posts) < MaxPosts
    PROVE  /\ Pair(PostAdded(a, t, p), LogPost(b, t, Len(a.topics[t].posts) + 1, p))
           /\ LogPost(b, t, Len(a.topics[t].posts) + 1, p).panic = b.panic
<1>1. /\ Base(b) /\ t \in DOMAIN b.topics
      /\ DOMAIN a.topics = DOMAIN b.topics
      /\ Len(b.topics[t].posts) = Len(a.topics[t].posts)
  BY PairPosts DEF Pair, Good, Alike
<1>2. Len(b.topics[t].posts) < MaxPosts
  BY <1>1
<1>3. PICK o \in Seq(TopicID) :
         /\ LogPost(b, t, Len(b.topics[t].posts) + 1, p)
               = [b EXCEPT !.topics[t].posts = Append(@, p), !.order = o]
         /\ IsInjective(o) /\ Range(o) = DOMAIN b.topics /\ Len(o) = Len(b.order)
  BY <1>1, <1>2, LogPostEffect
<1> DEFINE c == [a EXCEPT !.topics[t].posts = Append(@, p)]
           e == [b EXCEPT !.topics[t].posts = Append(@, p)]
<1>4. Pair(c, e) /\ e.panic = b.panic
  BY AddPostKeepsPair
<1>5. DOMAIN c.topics = DOMAIN a.topics /\ e.order = b.order /\ Base(e)
  BY <1>4 DEF Pair, Good, Base, StoreType
<1>6. [b EXCEPT !.topics[t].posts = Append(@, p), !.order = o] = [e EXCEPT !.order = o]
  BY <1>1 DEF Base, StoreType
<1> HIDE DEF c, e
<1>7. Range(o) = DOMAIN c.topics /\ Len(o) = Len(e.order)
  BY <1>1, <1>3, <1>5
<1>8. Pair(c, [e EXCEPT !.order = o])
  BY <1>3, <1>4, <1>7, ReorderKeepsPair
<1>9. [e EXCEPT !.order = o].panic = b.panic
  BY <1>4, <1>5 DEF Base, StoreType
<1>10. LogPost(b, t, Len(a.topics[t].posts) + 1, p) = [e EXCEPT !.order = o]
  <2>1. LogPost(b, t, Len(b.topics[t].posts) + 1, p) = [e EXCEPT !.order = o]
    BY <1>3, <1>6, Zenon
  <2>2. QED
    BY <1>1, <2>1, Zenon
<1>11. QED
  BY <1>8, <1>9, <1>10, Zenon DEF PostAdded, c

\* What loadDB makes of OP_TOPIC and OP_SAGE.
LEMMA LogTopicEffect ==
    ASSUME NEW d, Base(d), d.count < MaxTopicID, NEW t, t = d.count + 1, NEW p \in Post
    PROVE  \E o \in Seq(TopicID), y \in Topic :
              LET e == [d EXCEPT !.topics = Put(d.topics, t, y), !.order = o,
                                 !.count = t, !.live = d.live + 1]
              IN  /\ LogTopic(d, t, p) = e
                  /\ Base(e) /\ Len(o) = Len(d.order) + 1
                  /\ y.posts = <<>> /\ ~ y.sticky /\ ~ y.freeReply
<1>1. BlankTopic \in Topic /\ ~ BlankTopic.saged
  BY EmptySeq DEF BlankTopic, Topic
<1>2. t \in TopicID /\ t \notin DOMAIN d.topics
  BY LogAssumption DEF Base, StoreType, TopicID
<1>3. PICK o \in Seq(TopicID) :
         LET e == [d EXCEPT !.topics = Put(d.topics, t, BlankTopic), !.order = o,
                            !.count = t, !.live = d.live + 1]
         IN  /\ [MoveTopicToFront([d EXCEPT !.topics = Put(d.topics, t, BlankTopic)], t)
                     EXCEPT !.count = d.count + 1, !.live = d.live + 1] = e
             /\ Base(e) /\ Len(o) = Len(d.order) + 1
  <2>1. PICK o \in Seq(TopicID) :
           /\ TopicPut(d, t, BlankTopic) = TopicAdded(d, t, BlankTopic, o)
           /\ Base(TopicAdded(d, t, BlankTopic, o)) /\ Len(o) = Len(d.order) + 1
    BY <1>1, AddTopicKeepsBase
  <2>2. QED
    BY <2>1, Zenon DEF TopicPut, TopicAdded
<1> DEFINE e == [d EXCEPT !.topics = Put(d.topics, t, BlankTopic), !.order = o,
                          !.count = t, !.live = d.live + 1]
<1>4. OP_TOPIC(d, t) = e /\ Base(e) /\ Len(o) = Len(d.order) + 1
  BY <1>2, <1>3 DEF OP_TOPIC
<1>5. CASE ~ p.sage
  BY <1>1, <1>4, <1>5 DEF LogTopic, BlankTopic
<1>6. CASE p.sage
  <2> DEFINE f == Put(d.topics, t, BlankTopic)
             y == [BlankTopic EXCEPT !.saged = ~ @]
             g == Put(d.topics, t, y)
             c == [d EXCEPT !.topics = g, !.order = o, !.count = t, !.live = d.live + 1]
  <2>1. y \in Topic /\ y.posts = <<>> /\ ~ y.sticky /\ ~ y.freeReply
    BY EmptySeq DEF BlankTopic, Topic
  <2>2. /\ f[t] = BlankTopic /\ t \in DOMAIN f /\ DOMAIN f = DOMAIN d.topics \cup {t}
        /\ DOMAIN g = DOMAIN f
    BY DEF Put
  <2> HIDE DEF y
  <2>3. [f EXCEPT ![t] = y] = g
    BY DEF Put
  <2> HIDE DEF f, g
  <2>4. e.topics = f /\ e.order = o /\ e.count = t /\ e.live = d.live + 1
    BY DEF f, Base, StoreType
  <2>5. c.topics = g /\ c.order = o /\ c.count = t /\ c.live = d.live + 1
    BY DEF Base, StoreType
  <2>6. c = [e EXCEPT !.topics = g]
    BY DEF f, Base, StoreType
  <2> HIDE DEF c, e
  <2>7. LogTopic(d, t, p) = c
    <3>1. LogTopic(d, t, p) = OP_SAGE(e, t)
      BY <1>4, <1>6 DEF LogTopic
    <3>2. OP_SAGE(e, t) = [e EXCEPT !.topics[t].saged = ~ @]
      BY <2>2, <2>4 DEF OP_SAGE
    <3>3. [e EXCEPT !.topics[t].saged = ~ @] = [e EXCEPT !.topics = [f EXCEPT ![t] = y]]
      BY <2>2, <2>4 DEF y
    <3>4. QED
      BY <2>3, <2>6, <3>1, <3>2, <3>3
  <2>8. Base(c)
    <3>1. g \in [DOMAIN f -> Topic]
      BY <1>4, <2>1, <2>2, <2>3, <2>4 DEF Base, StoreType
    <3>2. StoreType(c)
      BY <1>4, <2>2, <2>4, <2>5, <2>6, <3>1 DEF Base, StoreType
    <3>3. QED
      BY <1>4, <2>2, <2>4, <2>5, <3>2 DEF Base
  <2>9. QED
    BY <1>4, <2>1, <2>7, <2>8 DEF c, g
<1>7. QED
  BY <1>5, <1>6

\* What NewTopic makes of the memory.
WithTopic(a, t, p) ==
    [MoveTopicToFront(
        [a EXCEPT !.topics = Put(a.topics, t, [BlankTopic EXCEPT !.posts = <<p>>])], t)
       EXCEPT !.count = a.count + 1, !.live = a.live + 1]

\* NewTopic, in memory and in the log.
LEMMA NewTopicKeepsPair ==
    ASSUME NEW a, NEW b, Pair(a, b), a.count < MaxTopicID, NEW t, t = a.count + 1, NEW p \in Post
    PROVE  /\ Pair(WithTopic(a, t, p), LogPost(LogTopic(b, t, p), t, 1, p))
           /\ LogPost(LogTopic(b, t, p), t, 1, p).panic = b.panic
           /\ WithTopic(a, t, p).count = t
           /\ DOMAIN WithTopic(a, t, p).topics = DOMAIN a.topics \cup {t}
<1> DEFINE x == [BlankTopic EXCEPT !.posts = <<p>>]
<1>1. /\ x \in Topic /\ ~ x.saged /\ ~ x.sticky /\ ~ x.freeReply /\ x.posts = <<p>>
  <2> DEFINE s == <<p>>
  <2> HIDE DEF s
  <2>1. /\ BlankTopic \in Topic /\ ~ BlankTopic.saged /\ ~ BlankTopic.sticky
        /\ ~ BlankTopic.freeReply
    BY EmptySeq DEF BlankTopic, Topic
  <2>2. s \in Seq(Post)
    BY OnePost DEF s
  <2>3. x = [BlankTopic EXCEPT !.posts = s]
    BY DEF s
  <2> HIDE DEF x
  <2>4. x \in Topic /\ ~ x.saged /\ ~ x.sticky /\ ~ x.freeReply /\ x.posts = s
    BY <2>1, <2>2, <2>3 DEF Topic
  <2>5. QED
    BY <2>4 DEF s
<1>2. /\ Good(a) /\ Good(b) /\ Base(a) /\ Base(b) /\ Alike(a, b)
      /\ b.count < MaxTopicID /\ t = b.count + 1
      /\ LiveCounts(a) /\ LiveCounts(b) /\ a.live = b.live
  BY DEF Pair, Good, Alike
<1> HIDE DEF x
<1>3. PICK o \in Seq(TopicID) :
         LET e == [a EXCEPT !.topics = Put(a.topics, t, x), !.order = o,
                            !.count = t, !.live = a.live + 1]
         IN  /\ [MoveTopicToFront([a EXCEPT !.topics = Put(a.topics, t, x)], t)
                     EXCEPT !.count = a.count + 1, !.live = a.live + 1] = e
             /\ Base(e) /\ Len(o) = Len(a.order) + 1
  <2>1. PICK o \in Seq(TopicID) :
           /\ TopicPut(a, t, x) = TopicAdded(a, t, x, o)
           /\ Base(TopicAdded(a, t, x, o)) /\ Len(o) = Len(a.order) + 1
    BY <1>1, <1>2, AddTopicKeepsBase
  <2>2. QED
    BY <2>1, Zenon DEF TopicPut, TopicAdded
<1>4. PICK q \in Seq(TopicID), y \in Topic :
         LET e == [b EXCEPT !.topics = Put(b.topics, t, y), !.order = q,
                            !.count = t, !.live = b.live + 1]
         IN  /\ LogTopic(b, t, p) = e
             /\ Base(e) /\ Len(q) = Len(b.order) + 1
             /\ y.posts = <<>> /\ ~ y.sticky /\ ~ y.freeReply
  <2>1. Base(b) /\ b.count < MaxTopicID /\ t = b.count + 1
    BY <1>2
  <2>2. QED
    BY <2>1, LogTopicEffect, Zenon
<1> DEFINE f == Put(a.topics, t, x)
           g == Put(b.topics, t, y)
           c == [a EXCEPT !.topics = f, !.order = o, !.count = t, !.live = a.live + 1]
           e == [b EXCEPT !.topics = g, !.order = q, !.count = t, !.live = b.live + 1]
<1>5. /\ f[t] = x /\ g[t] = y
      /\ DOMAIN f = DOMAIN a.topics \cup {t} /\ DOMAIN g = DOMAIN b.topics \cup {t}
      /\ \A u \in DOMAIN a.topics \ {t} : f[u] = a.topics[u]
      /\ \A u \in DOMAIN b.topics \ {t} : g[u] = b.topics[u]
  BY DEF Put
<1> HIDE DEF f, g
<1>6. /\ c.topics = f /\ c.order = o /\ c.count = t /\ c.live = a.live + 1
      /\ <<c.blocked, c.maxLive, c.config>> = <<a.blocked, a.maxLive, a.config>>
  BY <1>2 DEF Base, StoreType
<1>7. /\ e.topics = g /\ e.order = q /\ e.count = t /\ e.live = b.live + 1
      /\ <<e.blocked, e.maxLive, e.config>> = <<b.blocked, b.maxLive, b.config>>
      /\ e.panic = b.panic
  BY <1>2 DEF Base, StoreType
<1>8. Base(c) /\ Base(e) /\ LogTopic(b, t, p) = e
  BY <1>3, <1>4 DEF f, g
<1> HIDE DEF c, e
<1>9. /\ t \in DOMAIN e.topics /\ e.topics[t] \in Topic
      /\ e.topics[t].posts = <<>> /\ ~ e.topics[t].sticky /\ ~ e.topics[t].freeReply
  BY <1>4, <1>5, <1>7
<1>10. Len(e.topics[t].posts) = 0 /\ 0 < MaxPosts
  BY <1>9, LogAssumption
<1>11. PICK r \in Seq(TopicID) :
          /\ LogPost(e, t, 1, p) = [e EXCEPT !.topics[t].posts = Append(@, p), !.order = r]
          /\ IsInjective(r) /\ Range(r) = DOMAIN e.topics /\ Len(r) = Len(e.order)
  <2>1. PICK d, u : d = e /\ u = t
    OBVIOUS
  <2>2. Base(d) /\ u \in DOMAIN d.topics /\ Len(d.topics[u].posts) < MaxPosts
    BY <1>8, <1>9, <1>10, <2>1
  <2>3. PICK r \in Seq(TopicID) :
           /\ LogPost(d, u, Len(d.topics[u].posts) + 1, p)
                 = [d EXCEPT !.topics[u].posts = Append(@, p), !.order = r]
           /\ IsInjective(r) /\ Range(r) = DOMAIN d.topics /\ Len(r) = Len(d.order)
    BY <2>2, LogPostEffect
  <2>4. Len(d.topics[u].posts) + 1 = 1
    BY <1>10, <2>1
  <2>5. QED
    BY <2>1, <2>3, <2>4
<1> DEFINE z == [e.topics[t] EXCEPT !.posts = <<p>>]
           h == [e.topics EXCEPT ![t] = z]
           w == [e EXCEPT !.topics = h, !.order = r]
<1>12. LogPost(e, t, 1, p) = w
  <2>1. Append(e.topics[t].posts, p) = <<p>>
    BY <1>9
  <2>2. [e EXCEPT !.topics[t].posts = Append(@, p), !.order = r] = w
    BY <2>1
  <2>3. QED
    BY <1>11, <2>2
<1>13. z \in Topic /\ z.posts = <<p>> /\ ~ z.sticky /\ ~ z.freeReply /\ <<p>> # <<>>
  <2> DEFINE s == <<p>>
  <2>1. s \in Seq(Post) /\ s # <<>>
    BY OnePost
  <2> HIDE DEF s
  <2>2. LET v == [e.topics[t] EXCEPT !.posts = s]
        IN  v \in Topic /\ v.posts = s /\ ~ v.sticky /\ ~ v.freeReply
    BY <1>9, <2>1 DEF Topic
  <2>3. QED
    BY <2>1, <2>2 DEF s
<1> HIDE DEF z
<1>14. /\ h \in [DOMAIN e.topics -> Topic] /\ DOMAIN h = DOMAIN e.topics
       /\ h[t] = z /\ \A u \in DOMAIN e.topics \ {t} : h[u] = e.topics[u]
  BY <1>8, <1>9, <1>13 DEF Base, StoreType
<1> HIDE DEF h
<1>15. /\ w.topics = h /\ w.order = r /\ w.count = e.count /\ w.live = e.live
       /\ <<w.blocked, w.maxLive, w.config, w.panic>> = <<e.blocked, e.maxLive, e.config, e.panic>>
  BY <1>8 DEF Base, StoreType
<1>16. StoreType(w)
  BY <1>8, <1>14, <1>15 DEF Base, StoreType
<1> HIDE DEF w
<1>17. Base(w)
  BY <1>8, <1>11, <1>14, <1>15, <1>16 DEF Base
<1>18. Good(w)
  <2>1. \A u \in DOMAIN w.topics : w.topics[u].posts # <<>>
    <3>1. SUFFICES ASSUME NEW u \in DOMAIN w.topics PROVE w.topics[u].posts # <<>>
      OBVIOUS
    <3>2. CASE u = t
      BY <1>13, <1>14, <1>15, <3>2
    <3>3. CASE u # t
      BY <1>2, <1>5, <1>7, <1>14, <1>15, <3>3 DEF Good
    <3>4. QED
      BY <3>2, <3>3
  <2>2. QED
    BY <1>17, <2>1 DEF Good
<1>19. Good(c)
  BY <1>1, <1>2, <1>5, <1>6, <1>8, <1>13 DEF Good
<1>20. \A u \in DOMAIN c.topics : SameTopic(c.topics[u], w.topics[u])
  <2>1. SameTopic(x, z)
    BY <1>1, <1>13 DEF SameTopic, Topic
  <2>2. ASSUME NEW u \in DOMAIN a.topics, u # t PROVE SameTopic(c.topics[u], w.topics[u])
    <3>1. u \in DOMAIN b.topics /\ SameTopic(a.topics[u], b.topics[u])
      BY <1>2 DEF Alike
    <3>2. c.topics[u] = a.topics[u] /\ w.topics[u] = b.topics[u]
      BY <1>5, <1>6, <1>7, <1>14, <1>15, <2>2, <3>1
    <3>3. QED
      BY <3>1, <3>2
  <2>3. QED
    BY <1>5, <1>6, <1>14, <1>15, <2>1, <2>2
<1>21. Alike(c, w)
  <2>1. DOMAIN c.topics = DOMAIN w.topics
    BY <1>2, <1>5, <1>6, <1>7, <1>14, <1>15 DEF Alike
  <2>2. QED
    BY <1>2, <1>6, <1>7, <1>15, <1>20, <2>1 DEF Alike
<1>22. Pair(c, w) /\ w.panic = b.panic
  <2>1. Len(c.order) = Len(a.order) + 1 /\ Len(w.order) = Len(b.order) + 1
    BY <1>3, <1>4, <1>6, <1>7, <1>11, <1>15
  <2>2. w.panic = b.panic /\ c.live = a.live + 1 /\ w.live = b.live + 1
    BY <1>6, <1>7, <1>15
  <2>3. QED
    BY <1>2, <1>18, <1>19, <1>21, <2>1, <2>2 DEF Pair, LiveCounts
<1>23. DOMAIN c.topics = DOMAIN a.topics \cup {t}
  BY <1>5, <1>6
<1>24. QED
  <2>1. WithTopic(a, t, p) = c
    BY <1>3 DEF WithTopic, c, f, x
  <2>2. QED
    BY <1>6, <1>8, <1>12, <1>22, <1>23, <2>1

----------------------------------------------------------------------------
(* The inductive invariant.                                                *)

\* ArchiveJob works on a list that nothing else changes, for it holds
\* store.Lock: its pivot stays in the list, and the topic that it has saved in
\* a file is still there, as it was saved.
JobOK ==
    /\ job \in JobState
    /\ job.saved # 0 => job.saved \in DOMAIN files
    /\ job.running =>
          /\ job.pivot # 0 => job.pivot \in DOMAIN db.topics
          /\ job.saved # 0 => /\ job.saved \in DOMAIN db.topics
                              /\ job.saved # job.pivot
                              /\ files[job.saved] = db.topics[job.saved].posts

\* Memory and log know the same topics and posts.
StoreInv ==
    /\ Pair(db, disk)
    /\ DOMAIN files \subseteq TopicID /\ files \in [DOMAIN files -> Seq(Post)]
    /\ purged \subseteq TopicID
    /\ flagging \subseteq TopicID
    /\ NothingLost
    /\ JobOK

\* Why no record can be answered with a panic: what was checked in memory
\* also holds in loadDB, and no job takes out a topic that has left.
IInv == StoreInv /\ LogLoads

\* What a step does to the invariant.
StepKeeps ==
    /\ StoreInv'
    /\ LogLoads => LogLoads'
    /\ LeavesArchived

\* No topic is added and none is taken away.
SameTopics == db'.count = db.count /\ DOMAIN db'.topics = DOMAIN db.topics

\* No record of the step is answered with a panic.
SamePanic == disk'.panic = disk.panic

LEMMA SamePanicLoads ==
    ASSUME SamePanic, LogLoads PROVE LogLoads'
BY Zenon DEF SamePanic, LogLoads

\* A step that only changes what the topics hold keeps both invariants.
LEMMA QuietStep ==
    ASSUME StoreInv, StoreUnlocked, Pair(db', disk'), SamePanic, SameTopics,
           flagging' \subseteq TopicID, files' = files, purged' = purged, job' = job
    PROVE  StepKeeps
<1>1. JobOK'
  BY DEF StoreInv, JobOK, StoreUnlocked
<1>2. Range(db'.order) = DOMAIN db'.topics /\ Range(db.order) = DOMAIN db.topics
  BY DEF StoreInv, Pair, Good, Base
<1>3. NothingLost'
  BY <1>2 DEF StoreInv, NothingLost, SameTopics
<1>4. LeavesArchived
  BY <1>2 DEF LeavesArchived, SameTopics
<1>5. StoreInv'
  BY <1>1, <1>3 DEF StoreInv
<1>6. QED
  BY <1>1, <1>4, <1>5, SamePanicLoads DEF StepKeeps, IInv

\* The fields of a post that a restart keeps.
LEMMA KeptFields ==
    ASSUME NEW p \in Post, NEW q \in Post
    PROVE  Kept(p) = Kept(q) <=>
              /\ p.user = q.user /\ p.sage = q.sage /\ p.image = q.image
              /\ p.deleted = q.deleted /\ p.pieces = q.pieces
<1>1. /\ Kept(p).user = p.user /\ Kept(p).sage = p.sage /\ Kept(p).image = p.image
      /\ Kept(p).deleted = p.deleted /\ Kept(p).pieces = p.pieces
  BY DEF Kept, Post
<1>2. /\ Kept(q).user = q.user /\ Kept(q).sage = q.sage /\ Kept(q).image = q.image
      /\ Kept(q).deleted = q.deleted /\ Kept(q).pieces = q.pieces
  BY DEF Kept, Post
<1>3. ASSUME p.user = q.user, p.sage = q.sage, p.image = q.image,
             p.deleted = q.deleted, p.pieces = q.pieces
      PROVE  Kept(p) = Kept(q)
  BY <1>3 DEF Kept, Post
<1>4. QED
  BY <1>1, <1>2, <1>3

\* What loadDB finds for a post that is in memory.
LEMMA PairPost ==
    ASSUME NEW a, NEW b, Pair(a, b), NEW t \in DOMAIN a.topics, NEW n \in DOMAIN a.topics[t].posts
    PROVE  /\ HasPost(b, t, n)
           /\ a.topics[t].posts[n] \in Post /\ b.topics[t].posts[n] \in Post
           /\ Kept(a.topics[t].posts[n]) = Kept(b.topics[t].posts[n])
<1>1. /\ t \in DOMAIN b.topics /\ SameTopic(a.topics[t], b.topics[t])
      /\ a.topics[t].posts \in Seq(Post) /\ b.topics[t].posts \in Seq(Post)
      /\ Len(b.topics[t].posts) = Len(a.topics[t].posts)
  BY PairPosts
<1>2. n \in DOMAIN b.topics[t].posts
  BY <1>1
<1>3. a.topics[t].posts[n] \in Post /\ b.topics[t].posts[n] \in Post
  BY <1>1, <1>2
<1>4. QED
  BY <1>1, <1>2, <1>3 DEF HasPost, SameTopic

\* A topic is linked when it is in the map: both sides know the same topics.
LEMMA LinkedTopics ==
    ASSUME StoreInv, NEW t, Linked(t)
    PROVE  t \in DOMAIN db.topics /\ t \in DOMAIN disk.topics
BY DEF StoreInv, Pair, Good, Base, Alike, Linked

\* Changing a topic, with the store locked, in memory and in loadDB alike.
LEMMA ChangeTopicStep ==
    ASSUME StoreInv, StoreUnlocked, NEW t, Linked(t), NEW x \in Topic, NEW y \in Topic,
           SameTopic(x, y), x.posts # <<>>, y.posts # <<>>,
           db' = [db EXCEPT !.topics[t] = x], disk' = [disk EXCEPT !.topics[t] = y],
           UNCHANGED <<files, purged, flagging, job>>
    PROVE  StepKeeps
<1>1. Pair(db, disk) /\ t \in DOMAIN db.topics
  BY LinkedTopics DEF StoreInv
<1>2. Pair(db', disk') /\ SamePanic
  BY <1>1, ChangeTopicKeepsPair DEF SamePanic
<1>3. SameTopics
  BY <1>1 DEF SameTopics, Pair, Good, Base, StoreType
<1>4. QED
  BY <1>2, <1>3, QuietStep DEF StoreInv

\* Changing a post, with the store locked, in memory and in loadDB alike.
LEMMA ChangePostStep ==
    ASSUME StoreInv, StoreUnlocked, NEW t, NEW n, FindPost(t, n),
           NEW p \in Post, NEW q \in Post, Kept(p) = Kept(q),
           db' = [db EXCEPT !.topics[t].posts[n] = p],
           disk' = [disk EXCEPT !.topics[t].posts[n] = q],
           flagging' \subseteq TopicID, UNCHANGED <<files, purged, job>>
    PROVE  StepKeeps
<1>1. Pair(db, disk) /\ t \in DOMAIN db.topics /\ n \in DOMAIN db.topics[t].posts
  BY LinkedTopics DEF StoreInv, FindPost
<1>2. Pair(db', disk') /\ SamePanic
  BY <1>1, ChangePostKeepsPair DEF SamePanic
<1>3. SameTopics
  BY <1>1 DEF SameTopics, Pair, Good, Base, StoreType
<1>4. QED
  BY <1>2, <1>3, QuietStep

\* The last topic is one of the list.
LEMMA LastIsAPlace ==
    ASSUME NEW S, NEW s \in Seq(S), s # <<>>
    PROVE  Last(s) \in Range(s) /\ Last(s) \in S
<1>1. Len(s) \in Nat /\ DOMAIN s = 1..Len(s)
  OBVIOUS
<1>2. Len(s) # 0
  BY EmptySeq
<1>3. Len(s) \in DOMAIN s
  BY <1>1, <1>2
<1>4. QED
  BY <1>3 DEF Last, Range

\* The invariant holds in an empty store.
LEMMA InitIInv == Init => IInv
<1> SUFFICES ASSUME Init PROVE IInv
  OBVIOUS
<1>1. DOMAIN << >> = {} /\ Len(<< >>) = 0 /\ << >> \in Seq(TopicID)
  BY EmptySeq
<1>2. StoreType(EmptyStore)
  BY <1>1, LogAssumption DEF StoreType, EmptyStore
<1>3. Good(EmptyStore)
  BY <1>1, <1>2 DEF Good, Base, EmptyStore, IsInjective, Range
<1>4. Pair(EmptyStore, EmptyStore)
  BY <1>1, <1>3 DEF Pair, Alike, LiveCounts, EmptyStore
<1>5. NothingLost
  BY DEF Init, EmptyStore, NothingLost
<1>6. JobOK
  BY DEF Init, JobOK, JobState, Idle
<1>7. LogLoads
  BY DEF Init, LogLoads, EmptyStore
<1>8. QED
  BY <1>1, <1>4, <1>5, <1>6, <1>7 DEF Init, IInv, StoreInv

\* Every step keeps the invariant, and a log that loads.
LEMMA NextKeeps ==
    ASSUME StoreInv, [Next]_vars
    PROVE  StepKeeps
<1>1. /\ Pair(db, disk) /\ JobOK /\ NothingLost
      /\ flagging \subseteq TopicID /\ purged \subseteq TopicID
      /\ DOMAIN files \subseteq TopicID /\ files \in [DOMAIN files -> Seq(Post)]
  BY DEF StoreInv
<1>2. /\ Good(db) /\ Good(disk) /\ Base(db) /\ Base(disk) /\ Alike(db, disk)
      /\ Range(db.order) = DOMAIN db.topics
  BY <1>1 DEF Pair, Good, Base
<1>3. StoreType(db) /\ StoreType(disk) /\ DOMAIN db.topics \subseteq TopicID
  BY <1>2 DEF Base, StoreType
<1>4. ASSUME NEW u \in Users, NEW sage \in BOOLEAN, NEW image \in BOOLEAN, NEW nsfw \in BOOLEAN,
             NewTopic(u, sage, image, nsfw)
      PROVE  StepKeeps
  <2> DEFINE p == NewPostOf(u, sage, image)
  <2>1. p \in Post
    BY DEF NewPostOf, Post
  <2> HIDE DEF p
  <2>2. PICK t : t = db.count + 1
    OBVIOUS
  <2>3. db.count < MaxTopicID /\ t \in TopicID /\ t \notin DOMAIN db.topics
    BY <1>2, <1>4, <2>2, LogAssumption DEF NewTopic, IDsLeft, Base, StoreType, TopicID
  <2>4. db' = WithTopic(db, t, p) /\ disk' = LogPost(LogTopic(disk, t, p), t, 1, p)
    BY <1>4, <2>2 DEF NewTopic, WithTopic, p
  <2>5. /\ Pair(db', disk') /\ db'.count = t /\ DOMAIN db'.topics = DOMAIN db.topics \cup {t}
        /\ SamePanic
    BY <1>1, <2>1, <2>2, <2>3, <2>4, NewTopicKeepsPair DEF SamePanic
  <2>6. flagging' \subseteq TopicID
    BY <1>1, <1>4, <2>2, <2>3 DEF NewTopic
  <2>7. UNCHANGED <<files, purged, job>> /\ StoreUnlocked
    BY <1>4 DEF NewTopic
  <2>8. JobOK'
    BY <1>1, <2>7 DEF JobOK, StoreUnlocked
  <2>9. Range(db'.order) = DOMAIN db'.topics
    BY <2>5 DEF Pair, Good, Base
  <2>10. NothingLost'
    <3>1. db.count \in Nat
      BY <1>3 DEF StoreType
    <3>2. \A i \in 1..t : i = t \/ i \in 1..db.count
      BY <2>2, <3>1
    <3>3. QED
      BY <1>1, <1>2, <2>5, <2>7, <2>9, <3>2 DEF NothingLost
  <2>11. LeavesArchived
    BY <1>2, <2>5, <2>9 DEF LeavesArchived
  <2>12. StoreInv'
    BY <1>1, <2>5, <2>6, <2>7, <2>8, <2>10 DEF StoreInv
  <2>13. QED
    BY <2>5, <2>8, <2>11, <2>12, SamePanicLoads DEF StepKeeps, IInv
<1>5. ASSUME NEW u \in Users, NEW t \in TopicID, NEW sage \in BOOLEAN, NEW image \in BOOLEAN,
             NewPost(u, t, sage, image)
      PROVE  StepKeeps
  <2> DEFINE p == NewPostOf(u, sage, image)
             c == [db EXCEPT !.topics[t].posts = Append(@, p)]
  <2>1. p \in Post
    BY DEF NewPostOf, Post
  <2> HIDE DEF p
  <2>2. t \in DOMAIN db.topics
    BY <1>5, LinkedTopics DEF NewPost
  <2>3. Len(db.topics[t].posts) < MaxPosts
    BY <1>1, <1>5, <2>2, PairPosts, LogAssumption DEF NewPost, Full
  <2>4. /\ db' = c \/ db' = MoveTopicToFront(c, t)
        /\ disk' = LogPost(disk, t, Len(db.topics[t].posts) + 1, p)
    BY <1>5 DEF NewPost, p
  <2>5. Pair(c, disk') /\ SamePanic
    <3>1. PICK w : w = LogPost(disk, t, Len(db.topics[t].posts) + 1, p)
      OBVIOUS
    <3>0. Pair(db, disk) /\ t \in DOMAIN db.topics /\ p \in Post /\ Len(db.topics[t].posts) < MaxPosts
      BY <1>1, <2>1, <2>2, <2>3
    <3>2. /\ Pair(PostAdded(db, t, p), LogPost(disk, t, Len(db.topics[t].posts) + 1, p))
          /\ LogPost(disk, t, Len(db.topics[t].posts) + 1, p).panic = disk.panic
      BY ONLY <3>0, LogPostKeepsPair
    <3>3. Pair(c, w) /\ w.panic = disk.panic
      BY <3>1, <3>2, Zenon DEF PostAdded
    <3>4. QED
      BY <2>4, <3>1, <3>3 DEF SamePanic
  <2>6. c.count = db.count /\ DOMAIN c.topics = DOMAIN db.topics /\ t \in DOMAIN c.topics
    BY <1>3, <2>2 DEF StoreType
  <2> HIDE DEF c
  <2>7. Pair(MoveTopicToFront(c, t), disk')
    BY <2>5, <2>6, MoveKeepsPair
  <2>8. MoveTopicToFront(c, t).count = c.count /\ MoveTopicToFront(c, t).topics = c.topics
    <3>1. Base(c)
      BY <2>5 DEF Pair, Good
    <3>2. PICK o \in Seq(TopicID) : MoveTopicToFront(c, t) = [c EXCEPT !.order = o]
      BY <2>6, <3>1, MoveKeepsBase
    <3>3. QED
      BY <3>1, <3>2 DEF Base, StoreType
  <2>9. Pair(db', disk') /\ SameTopics
    BY <2>4, <2>5, <2>6, <2>7, <2>8 DEF SameTopics
  <2>10. UNCHANGED <<files, purged, flagging, job>> /\ StoreUnlocked
    BY <1>5 DEF NewPost
  <2>11. QED
    BY <1>1, <2>5, <2>9, <2>10, QuietStep
<1>6. ASSUME NEW t \in TopicID, LockFullTopic(t) \/ Lock(t) \/ FreeReply(t) \/ Sage(t)
      PROVE  StepKeeps
  <2>1. /\ t \in DOMAIN db.topics /\ t \in DOMAIN disk.topics /\ StoreUnlocked /\ Linked(t)
        /\ UNCHANGED <<files, purged, flagging, job>>
    BY <1>6, LinkedTopics DEF LockFullTopic, Lock, FreeReply, Sage
  <2>2. /\ db.topics[t] \in Topic /\ disk.topics[t] \in Topic
        /\ SameTopic(db.topics[t], disk.topics[t])
        /\ db.topics[t].posts # <<>> /\ disk.topics[t].posts # <<>>
    BY <1>1, <2>1, PairPosts
  <2>3. PICK x, y : x = db.topics[t] /\ y = disk.topics[t]
    OBVIOUS
  <2>4. CASE LockFullTopic(t)
    <3>1. db' = [db EXCEPT !.topics[t] = [x EXCEPT !.locked = TRUE]]
      BY <2>3, <2>4 DEF LockFullTopic
    <3>2. disk' = [disk EXCEPT !.topics[t] = [y EXCEPT !.locked = ~ @]]
      BY <2>1, <2>3, <2>4 DEF LockFullTopic, OP_LOCK
    <3>3. /\ [x EXCEPT !.locked = TRUE] \in Topic /\ [y EXCEPT !.locked = ~ @] \in Topic
          /\ SameTopic([x EXCEPT !.locked = TRUE], [y EXCEPT !.locked = ~ @])
          /\ [x EXCEPT !.locked = TRUE].posts # <<>> /\ [y EXCEPT !.locked = ~ @].posts # <<>>
      BY <2>2, <2>3 DEF Topic, SameTopic
    <3>4. QED
      BY <2>1, <3>1, <3>2, <3>3, ChangeTopicStep
  <2>5. CASE Lock(t)
    <3>1. db' = [db EXCEPT !.topics[t] = [x EXCEPT !.locked = ~ @]]
      BY <2>3, <2>5 DEF Lock
    <3>2. disk' = [disk EXCEPT !.topics[t] = [y EXCEPT !.locked = ~ @]]
      BY <2>1, <2>3, <2>5 DEF Lock, OP_LOCK
    <3>3. /\ [x EXCEPT !.locked = ~ @] \in Topic /\ [y EXCEPT !.locked = ~ @] \in Topic
          /\ SameTopic([x EXCEPT !.locked = ~ @], [y EXCEPT !.locked = ~ @])
          /\ [x EXCEPT !.locked = ~ @].posts # <<>> /\ [y EXCEPT !.locked = ~ @].posts # <<>>
      BY <2>2, <2>3 DEF Topic, SameTopic
    <3>4. QED
      BY <2>1, <3>1, <3>2, <3>3, ChangeTopicStep
  <2>6. CASE FreeReply(t)
    <3>1. db' = [db EXCEPT !.topics[t] = [x EXCEPT !.freeReply = ~ @]]
      BY <2>3, <2>6 DEF FreeReply
    <3>2. disk' = [disk EXCEPT !.topics[t] = [y EXCEPT !.freeReply = ~ @]]
      BY <2>1, <2>3, <2>6 DEF FreeReply, OP_FREEREPLY
    <3>3. /\ [x EXCEPT !.freeReply = ~ @] \in Topic /\ [y EXCEPT !.freeReply = ~ @] \in Topic
          /\ SameTopic([x EXCEPT !.freeReply = ~ @], [y EXCEPT !.freeReply = ~ @])
          /\ [x EXCEPT !.freeReply = ~ @].posts # <<>> /\ [y EXCEPT !.freeReply = ~ @].posts # <<>>
      BY <2>2, <2>3 DEF Topic, SameTopic
    <3>4. QED
      BY <2>1, <3>1, <3>2, <3>3, ChangeTopicStep
  <2>7. CASE Sage(t)
    <3>1. db' = [db EXCEPT !.topics[t] = [x EXCEPT !.saged = ~ @]]
      BY <2>3, <2>7 DEF Sage
    <3>2. disk' = [disk EXCEPT !.topics[t] = [y EXCEPT !.saged = ~ @]]
      BY <2>1, <2>3, <2>7 DEF Sage, OP_SAGE
    <3>3. /\ [x EXCEPT !.saged = ~ @] \in Topic /\ [y EXCEPT !.saged = ~ @] \in Topic
          /\ SameTopic([x EXCEPT !.saged = ~ @], [y EXCEPT !.saged = ~ @])
          /\ [x EXCEPT !.saged = ~ @].posts # <<>> /\ [y EXCEPT !.saged = ~ @].posts # <<>>
      BY <2>2, <2>3 DEF Topic, SameTopic
    <3>4. QED
      BY <2>1, <3>1, <3>2, <3>3, ChangeTopicStep
  <2>8. QED
    BY <1>6, <2>4, <2>5, <2>6, <2>7
<1>7. ASSUME NEW t \in TopicID, Sticky(t)
      PROVE  StepKeeps
  <2>1. /\ t \in DOMAIN db.topics /\ t \in DOMAIN disk.topics /\ StoreUnlocked
        /\ UNCHANGED <<files, purged, flagging, job>>
    BY <1>7, LinkedTopics DEF Sticky
  <2>2. /\ db.topics[t] \in Topic /\ disk.topics[t] \in Topic
        /\ SameTopic(db.topics[t], disk.topics[t])
        /\ db.topics[t].posts # <<>> /\ disk.topics[t].posts # <<>>
    BY <1>1, <2>1, PairPosts
  <2> DEFINE x == [db.topics[t] EXCEPT !.sticky = ~ @]
             y == [disk.topics[t] EXCEPT !.sticky = ~ @]
             c == [db EXCEPT !.topics[t] = x]
             e == [disk EXCEPT !.topics[t] = y]
  <2>3. x \in Topic /\ y \in Topic /\ SameTopic(x, y) /\ x.posts # <<>> /\ y.posts # <<>>
    BY <2>2 DEF Topic, SameTopic
  <2>4. /\ db' = MoveTopicToFront(c, t)
        /\ disk' = e \/ disk' = MoveTopicToFront(e, t)
    BY <1>7, <2>1 DEF Sticky, OP_STICKY
  <2> HIDE DEF x, y
  <2>5. Pair(c, e) /\ e.panic = disk.panic
    <3>1. Pair(c, e)
      BY <1>1, <2>1, <2>3, ChangeTopicKeepsPair
    <3>2. e.panic = disk.panic
      BY <1>3 DEF StoreType
    <3>3. QED
      BY <3>1, <3>2
  <2>6. c.count = db.count /\ DOMAIN c.topics = DOMAIN db.topics /\ t \in DOMAIN c.topics
    BY <1>3, <2>1 DEF StoreType
  <2> HIDE DEF c, e
  <2>7. Pair(MoveTopicToFront(c, t), e)
    BY <2>5, <2>6, MoveKeepsPair
  <2>8. MoveTopicToFront(c, t).count = c.count /\ MoveTopicToFront(c, t).topics = c.topics
    <3>1. Base(c)
      BY <2>5 DEF Pair, Good
    <3>2. PICK o \in Seq(TopicID) : MoveTopicToFront(c, t) = [c EXCEPT !.order = o]
      BY <2>6, <3>1, MoveKeepsBase
    <3>3. QED
      BY <3>1, <3>2 DEF Base, StoreType
  <2>9. Pair(db', e) /\ t \in DOMAIN db'.topics
    BY <2>4, <2>6, <2>7, <2>8
  <2>10. Pair(db', MoveTopicToFront(e, t)) /\ MoveTopicToFront(e, t).panic = e.panic
    BY <2>9, MoveKeepsPair
  <2>11. Pair(db', disk') /\ SameTopics /\ SamePanic
    BY <2>4, <2>5, <2>6, <2>8, <2>9, <2>10 DEF SameTopics, SamePanic
  <2>12. QED
    BY <1>1, <2>1, <2>11, QuietStep
<1>8. ASSUME NEW t \in TopicID, Purge(t)
      PROVE  StepKeeps
  <2>1. t \in DOMAIN db.topics /\ t \in DOMAIN disk.topics /\ StoreUnlocked
    BY <1>8, LinkedTopics DEF Purge
  <2>2. /\ db' = TakeOut(db, t) /\ disk' = TakeOut(disk, t) /\ purged' = purged \cup {t}
        /\ UNCHANGED <<files, flagging, job>>
    BY <1>8, <2>1 DEF Purge, OP_REMOVE
  <2>3. Pair(db', disk') /\ SamePanic
    BY <1>1, <2>1, <2>2, TakeOutKeepsPair DEF SamePanic
  <2>4. db'.count = db.count /\ DOMAIN db'.topics = DOMAIN db.topics \ {t}
    BY <1>3, <2>2 DEF TakeOut, Drop, StoreType
  <2>5. Range(db'.order) = DOMAIN db'.topics
    BY <2>3 DEF Pair, Good, Base
  <2>6. NothingLost' /\ LeavesArchived
    BY <1>1, <1>2, <2>2, <2>4, <2>5 DEF NothingLost, LeavesArchived
  <2>7. JobOK'
    BY <1>1, <2>1, <2>2 DEF JobOK, StoreUnlocked
  <2>8. StoreInv'
    BY <1>1, <2>2, <2>3, <2>6, <2>7 DEF StoreInv
  <2>9. QED
    BY <2>3, <2>6, <2>7, <2>8, SamePanicLoads DEF StepKeeps, IInv
<1>9. ASSUME NEW t \in TopicID, NEW n \in 1..MaxPosts,
             AppendPost(t, n) \/ (\E u \in Users : DeletePost(u, t, n) \/ FlagPost(u, t, n))
      PROVE  StepKeeps
  <2>1. StoreUnlocked /\ FindPost(t, n) /\ UNCHANGED <<files, purged, flagging, job>>
    BY <1>9 DEF AppendPost, DeletePost, FlagPost
  <2>2. t \in DOMAIN db.topics /\ n \in DOMAIN db.topics[t].posts
    BY <2>1, LinkedTopics DEF FindPost
  <2>3. PICK p, q : p = db.topics[t].posts[n] /\ q = disk.topics[t].posts[n]
    OBVIOUS
  <2>4. HasPost(disk, t, n) /\ p \in Post /\ q \in Post /\ Kept(p) = Kept(q)
    BY <1>1, <2>2, <2>3, PairPost
  <2>5. CASE AppendPost(t, n)
    <3> DEFINE p1 == [p EXCEPT !.pieces = @ + 1]
               q1 == [q EXCEPT !.pieces = @ + 1]
    <3>1. db' = [db EXCEPT !.topics[t].posts[n] = p1]
      BY <2>3, <2>5 DEF AppendPost
    <3>2. disk' = [disk EXCEPT !.topics[t].posts[n] = q1]
      BY <2>3, <2>4, <2>5 DEF AppendPost, OP_APPEND
    <3>3. p1 \in Post /\ q1 \in Post
      BY <2>4 DEF Post
    <3>4. Kept(p1) = Kept(q1)
      BY <2>4, <3>3, KeptFields DEF Post
    <3> HIDE DEF p1, q1
    <3>5. QED
      BY <1>1, <2>1, <3>1, <3>2, <3>3, <3>4, ChangePostStep
  <2>6. CASE \E u \in Users : DeletePost(u, t, n)
    <3> DEFINE p1 == [p EXCEPT !.deleted = ~ @]
               q1 == [q EXCEPT !.deleted = ~ @]
    <3>1. db' = [db EXCEPT !.topics[t].posts[n] = p1]
      BY <2>3, <2>6 DEF DeletePost
    <3>2. disk' = [disk EXCEPT !.topics[t].posts[n] = q1]
      BY <2>3, <2>4, <2>6 DEF DeletePost, OP_DELETE
    <3>3. p1 \in Post /\ q1 \in Post
      BY <2>4 DEF Post
    <3>4. Kept(p1) = Kept(q1)
      BY <2>4, <3>3, KeptFields DEF Post
    <3> HIDE DEF p1, q1
    <3>5. QED
      BY <1>1, <2>1, <3>1, <3>2, <3>3, <3>4, ChangePostStep
  <2>7. CASE \E u \in Users : FlagPost(u, t, n)
    <3> DEFINE p1 == [p EXCEPT !.nsfw = ~ @]
               q1 == [q EXCEPT !.nsfw = ~ @]
    <3>1. db' = [db EXCEPT !.topics[t].posts[n] = p1]
      BY <2>3, <2>7 DEF FlagPost
    <3>2. disk' = [disk EXCEPT !.topics[t].posts[n] = q1]
      BY <2>3, <2>4, <2>7 DEF FlagPost, OP_NSFW
    <3>3. p1 \in Post /\ q1 \in Post
      BY <2>4 DEF Post
    <3>4. Kept(p1) = Kept(q1)
      BY <2>4, <3>3, KeptFields DEF Post
    <3> HIDE DEF p1, q1
    <3>5. QED
      BY <1>1, <2>1, <3>1, <3>2, <3>3, <3>4, ChangePostStep
  <2>8. QED
    BY <1>9, <2>5, <2>6, <2>7
<1>10. ASSUME NEW t \in TopicID, FlagNewTopic(t)
       PROVE  StepKeeps
  <2>1. StoreUnlocked /\ flagging' \subseteq TopicID /\ UNCHANGED <<files, purged, job>>
    BY <1>1, <1>10 DEF FlagNewTopic
  <2>2. CASE ~ Linked(t)
    <3>1. UNCHANGED <<db, disk>>
      BY <1>10, <2>2 DEF FlagNewTopic
    <3>2. Pair(db', disk') /\ SameTopics /\ SamePanic
      BY <1>1, <3>1 DEF SameTopics, SamePanic
    <3>3. QED
      BY <2>1, <3>2, QuietStep
  <2>3. CASE Linked(t)
    <3>1. t \in DOMAIN db.topics
      BY <2>3, LinkedTopics
    <3>2. 1 \in DOMAIN db.topics[t].posts
      BY <1>1, <3>1, PairPosts
    <3>3. PICK p, q : p = db.topics[t].posts[1] /\ q = disk.topics[t].posts[1]
      OBVIOUS
    <3>4. HasPost(disk, t, 1) /\ p \in Post /\ q \in Post /\ Kept(p) = Kept(q)
      BY <1>1, <3>1, <3>2, <3>3, PairPost
    <3> DEFINE p1 == [p EXCEPT !.nsfw = TRUE]
               q1 == [q EXCEPT !.nsfw = ~ @]
    <3>5. db' = [db EXCEPT !.topics[t].posts[1] = p1]
      BY <1>10, <2>3, <3>3 DEF FlagNewTopic
    <3>6. disk' = [disk EXCEPT !.topics[t].posts[1] = q1]
      BY <1>10, <2>3, <3>3, <3>4 DEF FlagNewTopic, OP_NSFW
    <3>7. p1 \in Post /\ q1 \in Post
      <4>1. q.nsfw \in BOOLEAN
        BY <3>4 DEF Post
      <4>2. p1 \in Post
        BY <3>4 DEF Post
      <4>3. q1 \in Post
        BY <3>4, <4>1 DEF Post
      <4>4. QED
        BY <4>2, <4>3
    <3>8. Kept(p1) = Kept(q1)
      BY <3>4, <3>7, KeptFields DEF Post
    <3>9. FindPost(t, 1)
      BY <2>3, <3>2 DEF FindPost
    <3> HIDE DEF p1, q1
    <3>10. QED
      BY <2>1, <3>5, <3>6, <3>7, <3>8, <3>9, ChangePostStep
  <2>4. QED
    BY <2>2, <2>3
<1>11. ASSUME \/ \E term \in Terms : Block(term)
              \/ \E c \in Configs : UpdateConfig(c)
       PROVE  StepKeeps
  <2>1. ASSUME NEW set \in SUBSET Terms, NEW c \in Configs \cup {NoConfig},
               db' = [db EXCEPT !.blocked = set, !.config = c],
               disk' = [disk EXCEPT !.blocked = set, !.config = c],
               UNCHANGED <<files, purged, flagging, job>>
        PROVE  StepKeeps
    <3>1. /\ <<db'.topics, db'.order, db'.count, db'.live, db'.maxLive>>
               = <<db.topics, db.order, db.count, db.live, db.maxLive>>
          /\ <<disk'.topics, disk'.order, disk'.count, disk'.live, disk'.maxLive, disk'.panic>>
               = <<disk.topics, disk.order, disk.count, disk.live, disk.maxLive, disk.panic>>
          /\ db'.blocked = disk'.blocked /\ db'.config = disk'.config
      BY <1>3, <2>1 DEF StoreType
    <3>2. StoreType(db') /\ StoreType(disk')
      BY <1>3, <2>1 DEF StoreType
    <3>3. Good(db') /\ Good(disk')
      BY <1>2, <3>1, <3>2 DEF Good, Base
    <3>4. Pair(db', disk') /\ SamePanic
      BY <1>1, <3>1, <3>3 DEF Pair, Alike, LiveCounts, SamePanic
    <3>5. JobOK' /\ NothingLost' /\ LeavesArchived
      BY <1>1, <2>1, <3>1 DEF JobOK, NothingLost, LeavesArchived
    <3>6. StoreInv'
      BY <1>1, <2>1, <3>4, <3>5 DEF StoreInv
    <3>7. QED
      BY <3>4, <3>5, <3>6, SamePanicLoads DEF StepKeeps, IInv
  <2>2. /\ disk.blocked = db.blocked /\ disk.config = db.config
        /\ db.blocked \in SUBSET Terms /\ db.config \in Configs \cup {NoConfig}
    BY <1>1, <1>3 DEF StoreType, Pair, Alike
  <2>3. ASSUME NEW term \in Terms, Block(term)
        PROVE  StepKeeps
    <3>1. PICK set : set = Toggle(db.blocked, term)
      OBVIOUS
    <3>2. set \in SUBSET Terms
      BY <2>2, <3>1 DEF Toggle
    <3>3. /\ db' = [db EXCEPT !.blocked = set, !.config = db.config]
          /\ disk' = [disk EXCEPT !.blocked = set, !.config = db.config]
          /\ UNCHANGED <<files, purged, flagging, job>>
      BY <1>3, <2>2, <2>3, <3>1 DEF Block, OP_BLOCK, StoreType
    <3>4. QED
      BY <2>1, <2>2, <3>2, <3>3
  <2>4. ASSUME NEW c \in Configs, UpdateConfig(c)
        PROVE  StepKeeps
    <3>1. /\ db' = [db EXCEPT !.blocked = db.blocked, !.config = c]
          /\ disk' = [disk EXCEPT !.blocked = db.blocked, !.config = c]
          /\ UNCHANGED <<files, purged, flagging, job>>
      BY <1>3, <2>2, <2>4 DEF UpdateConfig, OP_CONFIG, StoreType
    <3>2. QED
      BY <2>1, <2>2, <3>1
  <2>5. QED
    BY <1>11, <2>3, <2>4
<1>12. ASSUME ArchiveJob
       PROVE  StepKeeps
  <2>1. UNCHANGED <<db, disk, files, purged, flagging>>
    BY <1>12 DEF ArchiveJob
  <2>2. Pivot(db.maxLive) \in DOMAIN db.topics \cup {0} /\ db.maxLive \in Nat
    BY <1>2, <1>3 DEF Pivot, Range, StoreType
  <2> DEFINE j == [Idle EXCEPT !.running = TRUE, !.limit = db.maxLive, !.pivot = Pivot(db.maxLive)]
  <2>3. j \in JobState /\ j.pivot = Pivot(db.maxLive) /\ j.saved = 0
    BY <1>3, <2>2 DEF Idle, JobState
  <2>4. job' = j
    BY <1>12 DEF ArchiveJob
  <2> HIDE DEF j
  <2>5. JobOK'
    BY <2>1, <2>2, <2>3, <2>4 DEF JobOK
  <2>6. StoreInv'
    BY <1>1, <2>1, <2>5 DEF StoreInv, NothingLost
  <2>7. QED
    BY <2>1, <2>6 DEF StepKeeps, LogLoads, LeavesArchived
<1>13. ASSUME NEW n \in Limits, SetMaxLiveTopics(n)
       PROVE  StepKeeps
  <2>1. /\ n \in Nat /\ db' = [db EXCEPT !.maxLive = n] /\ disk' = [disk EXCEPT !.maxLive = n]
        /\ UNCHANGED <<files, purged, flagging, job>>
    BY <1>13, StoreAssumption DEF SetMaxLiveTopics, OP_MAXTOPICS
  <2>2. /\ <<db'.topics, db'.order, db'.count, db'.live, db'.blocked, db'.config>>
              = <<db.topics, db.order, db.count, db.live, db.blocked, db.config>>
        /\ <<disk'.topics, disk'.order, disk'.count, disk'.live, disk'.blocked, disk'.config>>
              = <<disk.topics, disk.order, disk.count, disk.live, disk.blocked, disk.config>>
        /\ db'.maxLive = n /\ disk'.maxLive = n /\ disk'.panic = disk.panic
    BY <1>3, <2>1 DEF StoreType
  <2>3. StoreType(db') /\ StoreType(disk')
    BY <1>3, <2>1 DEF StoreType
  <2>4. Good(db') /\ Good(disk')
    BY <1>2, <2>2, <2>3 DEF Good, Base
  <2>5. Pair(db', disk') /\ SamePanic
    BY <1>1, <2>2, <2>4 DEF Pair, Alike, LiveCounts, SamePanic
  <2>6. NothingLost' /\ JobOK' /\ LeavesArchived
    BY <1>1, <2>1, <2>2 DEF NothingLost, JobOK, LeavesArchived
  <2>7. StoreInv'
    BY <1>1, <2>1, <2>5, <2>6 DEF StoreInv
  <2>8. QED
    BY <2>5, <2>6, <2>7, SamePanicLoads DEF StepKeeps
<1>14. ASSUME ArchiveStep \/ ArchiveFail
       PROVE  StepKeeps
  <2>1. /\ job \in JobState /\ job.running
        /\ job.pivot # 0 => job.pivot \in DOMAIN db.topics
        /\ job.saved # 0 => /\ job.saved \in DOMAIN files
                            /\ job.saved \in DOMAIN db.topics
                            /\ job.saved # job.pivot
                            /\ files[job.saved] = db.topics[job.saved].posts
    BY <1>1, <1>14 DEF JobOK, ArchiveStep, ArchiveSave, ArchiveUnlink, ArchiveDone, ArchiveFail
  <2>2. CASE ArchiveSave
    <3>1. db.order # <<>> /\ LastTopic # job.pivot
      <4>1. job.pivot \in Range(db.order) /\ LastTopic # job.pivot
        BY <1>2, <2>1, <2>2 DEF ArchiveSave, More
      <4>2. QED
        BY <4>1, EmptySeq DEF Range
    <3>2. PICK t : t = LastTopic
      OBVIOUS
    <3>3. t \in DOMAIN db.topics /\ t \in TopicID /\ db.topics[t].posts \in Seq(Post)
      <4>1. t \in Range(db.order)
        BY <1>3, <3>1, <3>2, LastIsAPlace DEF LastTopic, StoreType
      <4>2. QED
        BY <1>1, <1>2, <1>3, <4>1, PairPosts
    <3>4. /\ files' = Put(files, t, db.topics[t].posts)
          /\ job' = [job EXCEPT !.saved = t]
          /\ UNCHANGED <<db, disk, purged, flagging>>
      BY <2>2, <3>2 DEF ArchiveSave, Marshal
    <3>5. /\ DOMAIN files' = DOMAIN files \cup {t} /\ files' \in [DOMAIN files' -> Seq(Post)]
          /\ files'[t] = db.topics[t].posts
      BY <1>1, <3>3, <3>4 DEF Put
    <3>6. job' \in JobState /\ job'.saved = t /\ job'.pivot = job.pivot
      BY <2>1, <3>3, <3>4 DEF JobState
    <3>7. JobOK'
      BY <2>1, <3>1, <3>2, <3>3, <3>4, <3>5, <3>6 DEF JobOK
    <3>8. NothingLost' /\ LeavesArchived
      BY <1>1, <3>4, <3>5 DEF NothingLost, LeavesArchived
    <3>9. StoreInv'
      BY <1>1, <3>3, <3>4, <3>5, <3>7, <3>8 DEF StoreInv
    <3>10. QED
      BY <3>4, <3>8, <3>9 DEF StepKeeps, LogLoads
  <2>3. CASE ArchiveUnlink
    <3>1. PICK t : t = job.saved
      OBVIOUS
    <3>2. /\ t # 0 /\ t \in DOMAIN files /\ t \in DOMAIN db.topics /\ t # job.pivot
          /\ files[t] = db.topics[t].posts
      BY <2>1, <2>3, <3>1 DEF ArchiveUnlink
    <3>3. /\ db' = TakeOut(db, t) /\ disk' = OP_REMOVE(disk, t)
          /\ job' = [job EXCEPT !.saved = 0]
          /\ UNCHANGED <<files, purged, flagging>>
      BY <2>3, <3>1 DEF ArchiveUnlink
    <3>4. SamePanic /\ Pair(db', disk')
      BY <1>1, <1>2, <3>2, <3>3, TakeOutKeepsPair DEF Alike, OP_REMOVE, SamePanic
    <3>5. db'.count = db.count /\ DOMAIN db'.topics = DOMAIN db.topics \ {t}
      BY <1>3, <3>3 DEF TakeOut, Drop, StoreType
    <3>6. Range(db'.order) = DOMAIN db'.topics
      BY <3>4 DEF Pair, Good, Base
    <3>7. job' \in JobState /\ job'.saved = 0 /\ job'.pivot = job.pivot
      BY <2>1, <3>3 DEF JobState
    <3>8. JobOK'
      BY <2>1, <3>2, <3>5, <3>7 DEF JobOK
    <3>9. NothingLost'
      BY <1>1, <1>2, <3>2, <3>3, <3>5, <3>6 DEF NothingLost
    <3>10. StoreInv'
      BY <1>1, <3>3, <3>4, <3>8, <3>9 DEF StoreInv
    <3>11. LeavesArchived
      BY <1>2, <3>2, <3>5, <3>6 DEF LeavesArchived
    <3>12. QED
      BY <3>4, <3>10, <3>11, SamePanicLoads DEF StepKeeps
  <2>4. CASE ArchiveDone \/ ArchiveFail
    <3>1. UNCHANGED <<db, disk, files, purged, flagging>> /\ job' = Idle
      BY <2>4 DEF ArchiveDone, ArchiveFail
    <3>2. JobOK'
      BY <3>1 DEF JobOK, JobState, Idle
    <3>3. StoreInv'
      BY <1>1, <3>1, <3>2 DEF StoreInv, NothingLost
    <3>4. QED
      BY <3>1, <3>3 DEF StepKeeps, LogLoads, LeavesArchived
  <2>5. QED
    BY <1>14, <2>2, <2>3, <2>4 DEF ArchiveStep
<1>15. ASSUME Restart
       PROVE  StepKeeps
  <2>1. db' = disk /\ disk' = disk /\ flagging' = {} /\ UNCHANGED <<files, purged>>
    BY <1>15 DEF Restart
  <2>2. Pair(db', disk') /\ SamePanic
    <3>1. Alike(disk, disk)
      BY DEF Alike, SameTopic
    <3>2. QED
      BY <1>1, <1>2, <2>1, <3>1 DEF Pair, SamePanic
  <2>3. JobOK'
    BY <1>15 DEF Restart, JobOK, JobState, Idle
  <2>4. Range(disk.order) = DOMAIN db.topics /\ disk.count = db.count
    BY <1>1 DEF Pair, Good, Base, Alike
  <2>5. NothingLost' /\ LeavesArchived
    BY <1>1, <1>2, <2>1, <2>4 DEF NothingLost, LeavesArchived
  <2>6. StoreInv'
    BY <1>1, <2>1, <2>2, <2>3, <2>5 DEF StoreInv
  <2>7. QED
    BY <2>2, <2>3, <2>5, <2>6, SamePanicLoads DEF StepKeeps, IInv
<1>16. ASSUME UNCHANGED vars
       PROVE  StepKeeps
  BY <1>16 DEF vars, StepKeeps, IInv, StoreInv, LogLoads, JobOK, NothingLost, LeavesArchived
<1>17. \A name \in {"sage", "image", "nsfw"} : Option(name) \subseteq BOOLEAN
  BY DEF Option
<1>18. ASSUME NEW t \in TopicID, OperateSage(t) \/ \E u \in Users : SageTopic(u, t)
       PROVE  Sage(t)
  BY <1>18 DEF OperateSage, SageTopic
<1>19. CASE Next
  <2>1. CASE \E u \in Users, sage \in Option("sage"), image \in Option("image") :
                \/ \E nsfw \in Option("nsfw") : NewTopic(u, sage, image, nsfw)
                \/ \E t \in TopicID : NewPost(u, t, sage, image)
    BY <1>4, <1>5, <1>17, <2>1
  <2>2. CASE \E t \in TopicID :
                \/ LockFullTopic(t) \/ Sticky(t) \/ Lock(t) \/ FreeReply(t)
                \/ OperateSage(t) \/ Purge(t) \/ FlagNewTopic(t)
                \/ \E u \in Users : SageTopic(u, t)
                \/ \E n \in 1..MaxPosts :
                     \/ AppendPost(t, n)
                     \/ \E u \in Users : DeletePost(u, t, n) \/ FlagPost(u, t, n)
    BY <1>6, <1>7, <1>8, <1>9, <1>10, <1>18, <2>2
  <2>3. QED
    BY <1>11, <1>12, <1>13, <1>14, <1>15, <1>19, <2>1, <2>2 DEF Next
<1>20. QED
  BY <1>16, <1>19

\* Each step keeps the whole invariant, and archives what it takes off the list.
LEMMA NextIInv ==
    ASSUME IInv, [Next]_vars
    PROVE  IInv' /\ LeavesArchived
BY NextKeeps DEF IInv, StepKeeps

----------------------------------------------------------------------------
(* The order of the list, step by step.                                    *)

\* Changing the topics, and perhaps moving one
LEMMA OthersStay ==
    ASSUME StoreInv, NEW t \in TopicID, NEW c, "order" \in DOMAIN c, c.order = db.order,
           db'.order = c.order \/ db'.order = MoveTopicToFront(c, t).order
    PROVE  Unlink(db'.order, t) = Unlink(db.order, t)
<1>1. c.order \in Seq(TopicID) /\ IsInjective(c.order)
  BY DEF StoreInv, Pair, Good, Base, StoreType
<1>2. QED
  BY <1>1, MovedOrder

\* Taking one out
LEMMA OthersStayToo ==
    ASSUME StoreInv, NEW t \in TopicID, db' = TakeOut(db, t)
    PROVE  Unlink(db'.order, t) = Unlink(db.order, t)
<1>1. db.order \in Seq(TopicID) /\ IsInjective(db.order) /\ db'.order = Unlink(db.order, t)
  BY DEF StoreInv, Pair, Good, Base, StoreType, TakeOut
<1> DEFINE u == Unlink(db.order, t)
<1>2. u \in Seq(TopicID) /\ IsInjective(u) /\ t \notin Range(u)
  BY <1>1, UnlinkProperties
<1> HIDE DEF u
<1>3. Unlink(u, t) = u
  BY <1>2 DEF Unlink, Range
<1>4. QED
  BY <1>1, <1>3 DEF u

\* One operation moves one topic.
OneTopicMoves == Restart \/ \E t \in TopicID : Unlink(db'.order, t) = Unlink(db.order, t)

\* Every step does.
LEMMA NextMovesOne ==
    ASSUME StoreInv, [Next]_vars
    PROVE  OneTopicMoves
<1>1. /\ Base(db) /\ StoreType(db) /\ JobOK /\ 1 \in TopicID
  BY LogAssumption DEF StoreInv, Pair, Good, Base, TopicID
<1>2. ASSUME db'.order = db.order PROVE OneTopicMoves
  BY <1>1, <1>2 DEF OneTopicMoves
<1>3. ASSUME NEW u \in Users, NEW sage \in BOOLEAN, NEW image \in BOOLEAN, NEW nsfw \in BOOLEAN,
             NewTopic(u, sage, image, nsfw)
      PROVE  OneTopicMoves
  <2> DEFINE x == [BlankTopic EXCEPT !.posts = <<NewPostOf(u, sage, image)>>]
             t == db.count + 1
             c == [db EXCEPT !.topics = Put(db.topics, t, x)]
  <2>1. t \in TopicID
    BY <1>1, <1>3, LogAssumption DEF NewTopic, IDsLeft, StoreType, TopicID
  <2>2. "order" \in DOMAIN c /\ c.order = db.order
    BY <1>1 DEF StoreType
  <2>3. db' = [MoveTopicToFront(c, t) EXCEPT !.count = db.count + 1, !.live = db.live + 1]
    BY <1>3 DEF NewTopic
  <2> HIDE DEF c, x
  <2>4. db'.order = MoveTopicToFront(c, t).order
    BY <2>3
  <2>5. QED
    BY <2>1, <2>2, <2>4, OthersStay DEF OneTopicMoves
<1>4. ASSUME NEW u \in Users, NEW t \in TopicID, NEW sage, NEW image, NewPost(u, t, sage, image)
      PROVE  OneTopicMoves
  <2> DEFINE p == NewPostOf(u, sage, image)
             c == [db EXCEPT !.topics[t].posts = Append(@, p)]
  <2>1. "order" \in DOMAIN c /\ c.order = db.order
    BY <1>1 DEF StoreType
  <2>2. db' = c \/ db' = MoveTopicToFront(c, t)
    BY <1>4 DEF NewPost
  <2>3. QED
    BY <2>1, <2>2, OthersStay DEF OneTopicMoves
<1>5. ASSUME NEW t \in TopicID, LockFullTopic(t) \/ Lock(t) \/ FreeReply(t) \/ Sage(t)
      PROVE  OneTopicMoves
  <2>1. db'.order = db.order
    BY <1>1, <1>5 DEF LockFullTopic, Lock, FreeReply, Sage, StoreType
  <2>2. QED
    BY <1>2, <2>1
<1>6. ASSUME NEW t \in TopicID, Sticky(t)
      PROVE  OneTopicMoves
  <2> DEFINE c == [db EXCEPT !.topics[t].sticky = ~ @]
  <2>1. "order" \in DOMAIN c /\ c.order = db.order
    BY <1>1 DEF StoreType
  <2>2. db' = MoveTopicToFront(c, t)
    BY <1>6 DEF Sticky
  <2>3. QED
    BY <2>1, <2>2, OthersStay DEF OneTopicMoves
<1>7. ASSUME NEW t \in TopicID, NEW n \in Nat,
             AppendPost(t, n) \/ (\E u \in Users : DeletePost(u, t, n) \/ FlagPost(u, t, n)) \/ FlagNewTopic(t)
      PROVE  OneTopicMoves
  <2>1. db'.order = db.order
    BY <1>1, <1>7 DEF AppendPost, DeletePost, FlagPost, FlagNewTopic, StoreType
  <2>2. QED
    BY <1>2, <2>1
<1>8. ASSUME NEW t \in TopicID, Purge(t)
      PROVE  OneTopicMoves
  BY <1>8, OthersStayToo DEF Purge, OneTopicMoves
<1>9. ASSUME \/ \E term \in Terms : Block(term)
             \/ \E c \in Configs : UpdateConfig(c)
             \/ ArchiveJob
             \/ \E n \in Limits : SetMaxLiveTopics(n)
             \/ UNCHANGED vars
      PROVE  OneTopicMoves
  <2>1. db'.order = db.order
    BY <1>1, <1>9 DEF Block, UpdateConfig, ArchiveJob, SetMaxLiveTopics, vars, StoreType
  <2>2. QED
    BY <1>2, <2>1
<1>10. ASSUME ArchiveStep \/ ArchiveFail
       PROVE  OneTopicMoves
  <2>1. CASE ArchiveUnlink
    <3>1. PICK t : t = job.saved
      OBVIOUS
    <3>2. t \in TopicID /\ db' = TakeOut(db, t)
      BY <1>1, <2>1, <3>1 DEF ArchiveUnlink, JobOK, JobState
    <3>3. QED
      BY <3>2, OthersStayToo DEF OneTopicMoves
  <2>2. CASE ~ ArchiveUnlink
    <3>1. db'.order = db.order
      BY <1>10, <2>2 DEF ArchiveStep, ArchiveSave, ArchiveDone, ArchiveFail
    <3>2. QED
      BY <1>2, <3>1
  <2>3. QED
    BY <2>1, <2>2
<1>11. CASE Restart
  BY <1>11 DEF OneTopicMoves
<1>12. \A name \in {"sage", "image", "nsfw"} : Option(name) \subseteq BOOLEAN
  BY DEF Option
<1>13. ASSUME NEW t \in TopicID, OperateSage(t) \/ \E u \in Users : SageTopic(u, t)
       PROVE  Sage(t)
  BY <1>13 DEF OperateSage, SageTopic
<1>14. CASE Next
  <2>1. CASE \E u \in Users, sage \in Option("sage"), image \in Option("image") :
                \/ \E nsfw \in Option("nsfw") : NewTopic(u, sage, image, nsfw)
                \/ \E t \in TopicID : NewPost(u, t, sage, image)
    BY <1>3, <1>4, <1>12, <2>1
  <2>2. CASE \E t \in TopicID :
                \/ LockFullTopic(t) \/ Sticky(t) \/ Lock(t) \/ FreeReply(t)
                \/ OperateSage(t) \/ Purge(t) \/ FlagNewTopic(t)
                \/ \E u \in Users : SageTopic(u, t)
                \/ \E n \in 1..MaxPosts :
                     \/ AppendPost(t, n)
                     \/ \E u \in Users : DeletePost(u, t, n) \/ FlagPost(u, t, n)
    <3>1. 1..MaxPosts \subseteq Nat /\ \E n : n \in 1..MaxPosts
      BY LogAssumption
    <3>2. QED
      BY <1>5, <1>6, <1>7, <1>8, <1>13, <2>2, <3>1
  <2>3. QED
    BY <1>9, <1>10, <1>11, <1>14, <2>1, <2>2 DEF Next
<1>15. QED
  BY <1>9, <1>14

----------------------------------------------------------------------------
(* The limit of the archive job.                                           *)

\* ArchiveJob works at the end of a list that stays as it is: its pivot is at
\* the place of the limit, and what it has saved is the last topic.
JobPlace ==
    job.running =>
       /\ job.pivot # 0 => job.limit \in DOMAIN db.order /\ db.order[job.limit] = job.pivot
       /\ job.saved # 0 => job.pivot # 0 /\ db.order # <<>> /\ job.saved = Last(db.order)

\* What it takes out is above the limit.
LEMMA UnlinkAboveLimit ==
    ASSUME IInv, JobPlace, ArchiveUnlink
    PROVE  /\ Len(db'.order) >= job.limit
           /\ IsPrefix(db'.order, db.order)
           /\ job.limit \in DOMAIN db'.order /\ db'.order[job.limit] = db.order[job.limit]
<1> DEFINE o == db.order
<1>1. StoreType(db) /\ Base(db) /\ JobOK
  BY DEF IInv, StoreInv, Pair, Good, Base
<1>2. job.running /\ job.saved # 0 /\ db' = TakeOut(db, job.saved)
  BY DEF ArchiveUnlink
<1>3. job \in JobState /\ job.saved # job.pivot
  BY <1>1, <1>2 DEF JobOK
<1>4. job.limit \in DOMAIN o /\ o[job.limit] = job.pivot /\ o # <<>> /\ job.saved = Last(o)
  BY <1>2 DEF JobPlace
<1>5. db'.order = Unlink(o, job.saved) /\ o \in Seq(TopicID) /\ IsInjective(o)
  BY <1>1, <1>2 DEF TakeOut, StoreType, Base
<1> HIDE DEF o
<1>6. PICK u : u = Unlink(o, Last(o))
  OBVIOUS
<1>7. /\ Len(o) \in Nat \ {0} /\ Len(u) = Len(o) - 1 /\ \A i \in 1..(Len(o) - 1) : u[i] = o[i]
      /\ IsPrefix(u, o) /\ u \in Seq(TopicID)
  BY <1>4, <1>5, <1>6, UnlinkLast, UnlinkProperties
<1>8. job.limit \in 1..Len(o) /\ job.limit # Len(o)
  <2>1. Last(o) = o[Len(o)]
    BY DEF Last
  <2>2. QED
    BY <1>3, <1>4, <1>5, <2>1
<1>9. job.limit \in 1..(Len(o) - 1) /\ Len(o) - 1 >= job.limit /\ DOMAIN u = 1..(Len(o) - 1)
  BY <1>7, <1>8
<1>10. db'.order = u
  BY <1>4, <1>5, <1>6
<1>11. QED
  BY <1>7, <1>9, <1>10 DEF o

\* Every step keeps it there.
LEMMA NextPlace ==
    ASSUME IInv, JobPlace, [Next]_vars
    PROVE  JobPlace'
<1>1. StoreType(db) /\ JobOK
  BY DEF IInv, StoreInv, Pair, Good, Base
<1>2. ASSUME StoreUnlocked, job' = job PROVE JobPlace'
  BY <1>2 DEF JobPlace, StoreUnlocked
<1>3. ASSUME \/ \E c \in Configs : UpdateConfig(c)
             \/ \E n \in Limits : SetMaxLiveTopics(n)
      PROVE  JobPlace'
  <2>1. db'.order = db.order /\ job' = job
    BY <1>1, <1>3 DEF UpdateConfig, SetMaxLiveTopics, StoreType
  <2>2. QED
    BY <2>1 DEF JobPlace
<1>4. CASE ArchiveJob
  <2> DEFINE j == [Idle EXCEPT !.running = TRUE, !.limit = db.maxLive, !.pivot = Pivot(db.maxLive)]
  <2>1. j.pivot = Pivot(db.maxLive) /\ j.saved = 0 /\ j.limit = db.maxLive
    BY DEF Idle
  <2>2. job' = j /\ db' = db
    BY <1>4 DEF ArchiveJob
  <2> HIDE DEF j
  <2>3. Pivot(db.maxLive) # 0 => db.maxLive \in DOMAIN db.order /\ db.order[db.maxLive] = Pivot(db.maxLive)
    BY DEF Pivot
  <2>4. QED
    BY <2>1, <2>2, <2>3 DEF JobPlace
<1>5. ASSUME ArchiveStep \/ ArchiveFail
      PROVE  JobPlace'
  <2>1. job.running /\ job \in JobState
    BY <1>1, <1>5 DEF JobOK, ArchiveStep, ArchiveSave, ArchiveUnlink, ArchiveDone, ArchiveFail
  <2>2. CASE ArchiveSave
    <3>1. db' = db /\ job' = [job EXCEPT !.saved = LastTopic] /\ job.pivot # 0
      BY <2>2 DEF ArchiveSave, More
    <3>2. db.order # <<>> /\ LastTopic = Last(db.order)
      <4>1. job.limit \in DOMAIN db.order
        BY <2>1, <3>1 DEF JobPlace
      <4>2. QED
        BY <4>1, EmptySeq DEF LastTopic
    <3>3. job'.saved = LastTopic /\ job'.pivot = job.pivot /\ job'.limit = job.limit
      BY <2>1, <3>1 DEF JobState
    <3>4. QED
      BY <2>1, <3>1, <3>2, <3>3 DEF JobPlace
  <2>3. CASE ArchiveUnlink
    <3>1. job' = [job EXCEPT !.saved = 0]
      BY <2>3 DEF ArchiveUnlink
    <3>2. job'.saved = 0 /\ job'.pivot = job.pivot /\ job'.limit = job.limit
      BY <2>1, <3>1 DEF JobState
    <3>3. QED
      BY <2>1, <2>3, <3>2, UnlinkAboveLimit DEF JobPlace
  <2>4. CASE ArchiveDone \/ ArchiveFail
    <3>1. ~ job'.running
      BY <2>4 DEF ArchiveDone, ArchiveFail, Idle
    <3>2. QED
      BY <3>1 DEF JobPlace
  <2>5. QED
    BY <1>5, <2>2, <2>3, <2>4 DEF ArchiveStep
<1>6. CASE Restart
  <2>1. ~ job'.running
    BY <1>6 DEF Restart, Idle
  <2>2. QED
    BY <2>1 DEF JobPlace
<1>7. CASE UNCHANGED vars
  BY <1>7 DEF vars, JobPlace
<1>9. CASE Next
  <2>1. CASE \E u \in Users, sage \in Option("sage"), image \in Option("image") :
                \/ \E nsfw \in Option("nsfw") : NewTopic(u, sage, image, nsfw)
                \/ \E t \in TopicID : NewPost(u, t, sage, image)
    <3>1. ASSUME NEW u, NEW sage, NEW image, NEW nsfw, NewTopic(u, sage, image, nsfw)
          PROVE  JobPlace'
      BY <1>2, <3>1 DEF NewTopic
    <3>2. ASSUME NEW u, NEW t, NEW sage, NEW image, NewPost(u, t, sage, image)
          PROVE  JobPlace'
      BY <1>2, <3>2 DEF NewPost
    <3>3. QED
      BY <2>1, <3>1, <3>2
  <2>2. CASE \E t \in TopicID :
                \/ LockFullTopic(t) \/ Sticky(t) \/ Lock(t) \/ FreeReply(t)
                \/ OperateSage(t) \/ Purge(t) \/ FlagNewTopic(t)
                \/ \E u \in Users : SageTopic(u, t)
                \/ \E n \in 1..MaxPosts :
                     \/ AppendPost(t, n)
                     \/ \E u \in Users : DeletePost(u, t, n) \/ FlagPost(u, t, n)
    <3>1. ASSUME NEW t, \/ LockFullTopic(t) \/ Sticky(t) \/ Lock(t) \/ FreeReply(t)
                        \/ OperateSage(t) \/ Purge(t) \/ FlagNewTopic(t)
          PROVE  StoreUnlocked /\ job' = job
      BY <3>1 DEF LockFullTopic, Sticky, Lock, FreeReply, OperateSage, Sage, Purge, FlagNewTopic
    <3>2. ASSUME NEW t, NEW u, SageTopic(u, t) PROVE StoreUnlocked /\ job' = job
      BY <3>2 DEF SageTopic, Sage
    <3>3. ASSUME NEW t, NEW n, NEW u, AppendPost(t, n) \/ DeletePost(u, t, n) \/ FlagPost(u, t, n)
          PROVE  StoreUnlocked /\ job' = job
      BY <3>3 DEF AppendPost, DeletePost, FlagPost
    <3>4. QED
      BY <1>2, <2>2, <3>1, <3>2, <3>3
  <2>3. CASE \E term \in Terms : Block(term)
    BY <1>2, <2>3 DEF Block
  <2>4. QED
    BY <1>3, <1>4, <1>5, <1>6, <1>9, <2>1, <2>2, <2>3 DEF Next
<1>10. QED
  BY <1>7, <1>9

----------------------------------------------------------------------------
(* The theorems.                                                           *)

\* The invariant holds in every state.
LEMMA StoreIInv == Spec => []IInv
<1>1. Init => IInv
  BY InitIInv
<1>2. IInv /\ [Next]_vars => IInv'
  BY NextIInv
<1>3. QED
  BY <1>1, <1>2, PTL DEF Spec

\* What it says of the state.
LEMMA IInvMeans ==
    IInv => StoreInv /\ TypeOK /\ NothingLost /\ LogLoads /\ ListInv /\ RestartKeepsContent
<1>1. StoreInv => TypeOK
  BY DEF StoreInv, Pair, Good, Base, JobOK, TypeOK
<1>2. IInv => ListInv /\ RestartKeepsContent
  BY PairContent DEF IInv, StoreInv, LogLoads, ListInv, RestartKeepsContent
<1>3. QED
  BY <1>1, <1>2 DEF IInv, StoreInv

\* In memory and in the log, every field of the store has its type.
THEOREM StoreTypeOK == Spec => []TypeOK
BY StoreIInv, IInvMeans, PTL

\* Every topic ever created is in the list, purged, or in an archive file.
THEOREM StoreNothingLost == Spec => []NothingLost
BY StoreIInv, IInvMeans, PTL

\* One request under store.Lock moves one topic: only a restart can change the
\* order of more.
THEOREM StoreOthersKeepOrder == Spec => OthersKeepOrder
<1>1. StoreInv /\ [Next]_vars => [OneTopicMoves]_vars
  BY NextMovesOne
<1>2. QED
  BY <1>1, StoreIInv, IInvMeans, PTL DEF Spec, OthersKeepOrder, OneTopicMoves

\* The log that the operations write can always be loaded.
THEOREM StoreLogLoads == Spec => []LogLoads
BY StoreIInv, IInvMeans, PTL

\* The list of topics stays whole in memory, and loadDB builds a whole one.
THEOREM StoreListInv == Spec => []ListInv
BY StoreIInv, IInvMeans, PTL

\* A restart gives back the topics, posts and settings that were in memory.
THEOREM StoreRestartKeepsContent == Spec => []RestartKeepsContent
BY StoreIInv, IInvMeans, PTL

\* A topic that leaves the list unpurged is archived with the posts it had.
THEOREM StoreArchiveKeepsPosts == Spec => ArchiveKeepsPosts
<1>1. IInv /\ [Next]_vars => [LeavesArchived]_vars
  BY NextIInv
<1>2. QED
  BY <1>1, StoreIInv, PTL DEF Spec, ArchiveKeepsPosts

\* Archiving takes topics from the end and stops at the limit.
THEOREM StoreKeepsLimit == Spec => KeepsLimit
<1>1. Init => JobPlace
  BY DEF Init, JobPlace, Idle
<1>2. IInv /\ JobPlace /\ [Next]_vars => JobPlace'
  BY NextPlace
<1>3. IInv /\ JobPlace =>
        [ArchiveUnlink =>
            /\ Len(db'.order) >= job.limit
            /\ IsPrefix(db'.order, db.order)]_vars
  BY UnlinkAboveLimit
<1>4. QED
  BY <1>1, <1>2, <1>3, StoreIInv, PTL DEF Spec, KeepsLimit
=============================================================================
