--------------------------- MODULE SnapshotProofs ---------------------------
(***************************************************************************)
(* Proofs about Snapshot: what SnapshotStore and topic.marshal write is    *)
(* read back by loadDB as it was in memory, for every store that can be    *)
(* reached, and the forum goes on from a snapshot as from its log.         *)
(*                                                                         *)
(* Both write records that loadDB reads one after the other.  The proofs   *)
(* follow the reading: "Reading(T, o, n)" is the store that has been made  *)
(* of the first n topics, T the map and o the list of them, and every      *)
(* record is shown to lead from one such store to the next.                *)
(***************************************************************************)
EXTENDS Snapshot, StoreProofs, FiniteSetTheorems

----------------------------------------------------------------------------
(* Induction, and the recursive functions of Snapshot as sequences of values. *)

\* A set of numbers with 0 and the successor of each of its members has all
\* of them: the least one it had not would have a predecessor in it.
LEMMA Induct ==
    ASSUME NEW S, 0 \in S, \A n \in Nat : n \in S => n + 1 \in S
    PROVE  Nat \subseteq S
<1> SUFFICES ASSUME Nat \ S # {} PROVE FALSE
  OBVIOUS
<1> DEFINE m == Min(Nat \ S)
<1>1. m \in Nat \ S /\ \A y \in Nat \ S : m <= y
  BY MinIsLeast
<1> HIDE DEF m
<1>2. m # 0
  BY <1>1
<1>3. m - 1 \in Nat /\ ~ m <= m - 1
  BY <1>1, <1>2
<1>4. m - 1 \in S
  BY <1>1, <1>3
<1>5. m - 1 + 1 \in S
  BY <1>3, <1>4
<1>6. m - 1 + 1 = m
  BY <1>1
<1>7. QED
  BY <1>1, <1>5, <1>6

\* The first n posts of a topic as they are read, one after the other
Read(f, d, t, posts, n) ==
    f = [i \in 0..n |-> IF i = 0 THEN OP_TOPIC(d, t) ELSE MarshalPost(f[i - 1], t, i, posts[i])]

\* There is such a sequence of readings, of any length.
LEMMA ReadExists ==
    ASSUME NEW d, NEW t, NEW posts
    PROVE  \A n \in Nat : \E f : Read(f, d, t, posts, n)
<1> DEFINE S == {n \in Nat : \E f : Read(f, d, t, posts, n)}
<1>1. 0 \in S
  <2> DEFINE f == [i \in 0..0 |-> OP_TOPIC(d, t)]
  <2>1. Read(f, d, t, posts, 0)
    BY DEF Read
  <2>2. QED
    BY <2>1
<1>2. ASSUME NEW n \in Nat, n \in S PROVE n + 1 \in S
  <2>1. PICK f : Read(f, d, t, posts, n)
    BY <1>2
  <2> DEFINE v == MarshalPost(f[n], t, n + 1, posts[n + 1])
             g == [i \in 0..(n + 1) |-> IF i = n + 1 THEN v ELSE f[i]]
  <2>2. ASSUME NEW i \in 0..(n + 1)
        PROVE  g[i] = IF i = 0 THEN OP_TOPIC(d, t) ELSE MarshalPost(g[i - 1], t, i, posts[i])
    <3>1. CASE i = n + 1
      <4>1. i # 0 /\ i - 1 = n /\ n \in 0..(n + 1) /\ n # n + 1
        BY <3>1
      <4>2. g[i] = v /\ g[i - 1] = f[n]
        BY <3>1, <4>1
      <4>3. QED
        BY <3>1, <4>1, <4>2
    <3>2. CASE i # n + 1
      <4>1. i \in 0..n /\ (i # 0 => i - 1 \in 0..(n + 1) /\ i - 1 # n + 1)
        BY <3>2
      <4>2. f[i] = IF i = 0 THEN OP_TOPIC(d, t) ELSE MarshalPost(f[i - 1], t, i, posts[i])
        BY <2>1, <4>1 DEF Read
      <4>3. g[i] = f[i] /\ (i # 0 => g[i - 1] = f[i - 1])
        BY <3>2, <4>1
      <4>4. QED
        BY <4>2, <4>3
    <3>3. QED
      BY <3>1, <3>2
  <2>3. Read(g, d, t, posts, n + 1)
    <3>1. \A i \in 0..(n + 1) : g[i] = IF i = 0 THEN OP_TOPIC(d, t) ELSE MarshalPost(g[i - 1], t, i, posts[i])
      BY <2>2
    <3>2. g = [i \in 0..(n + 1) |-> g[i]]
      OBVIOUS
    <3> HIDE DEF g
    <3>3. QED
      BY <3>1, <3>2, Zenon DEF Read
  <2>4. QED
    BY <2>3
<1>3. QED
  BY <1>1, <1>2, Induct

\* The recursive function of MarshalPosts is that sequence.
LEMMA MarshalUnfold ==
    ASSUME NEW d, NEW t, NEW posts, NEW n \in Nat
    PROVE  \E f : Read(f, d, t, posts, n) /\ MarshalPosts(d, t, posts, n) = f[n]
<1> DEFINE f == CHOOSE f : Read(f, d, t, posts, n)
<1>1. Read(f, d, t, posts, n)
  BY ReadExists, Zenon
<1>2. MarshalPosts(d, t, posts, n) = f[n]
  BY Zenon DEF MarshalPosts, Read
<1>3. QED
  BY <1>1, <1>2

----------------------------------------------------------------------------
(* A store while a snapshot is read.                                     *)

\* The store that loadDB has made of topics T in the order o, before the
\* records of the settings; Reading is one whose counters both count the
\* topics read, as they do until OP_TOPICNUM.
Loaded(T, o, n, l) ==
    [topics |-> T, order |-> o, count |-> n, live |-> l, blocked |-> EmptyStore.blocked,
     maxLive |-> EmptyStore.maxLive, config |-> EmptyStore.config, panic |-> EmptyStore.panic]

Reading(T, o, n) == Loaded(T, o, n, n)

\* loadDB starts with no topics.
LEMMA StartsEmpty == EmptyStore = Reading(<<>>, <<>>, 0)
<1> DEFINE e == EmptyStore
           r == Reading(<<>>, <<>>, 0)
<1>1. e.topics = <<>> /\ e.order = <<>> /\ e.count = 0 /\ e.live = 0
  BY DEF EmptyStore
<1>2. e = [topics |-> e.topics, order |-> e.order, count |-> e.count, live |-> e.live,
           blocked |-> e.blocked, maxLive |-> e.maxLive, config |-> e.config, panic |-> e.panic]
  BY Zenon DEF EmptyStore
<1>3. QED
  BY <1>1, <1>2, Zenon DEF Reading, Loaded

\* The places of the topics that are not sticky
Plain(T, s) == {i \in DOMAIN s : ~ T[s[i]].sticky}

\* FrontOf, in the parts of such a store
LEMMA FrontDef ==
    ASSUME NEW P, NEW s, NEW n, NEW t
    PROVE  FrontOf(Reading(P, s, n), t) =
              IF P[t].sticky THEN 1 ELSE IF Plain(P, s) = {} THEN Len(s) + 1 ELSE Min(Plain(P, s))
<1> DEFINE d == Reading(P, s, n)
<1>1. d.topics = P /\ d.order = s
  BY DEF Reading, Loaded
<1> HIDE DEF d
<1>2. {i \in DOMAIN d.order : ~ d.topics[d.order[i]].sticky} = Plain(P, s)
  BY <1>1, Zenon DEF Plain
<1>3. FrontOf(d, t) = IF d.topics[t].sticky THEN 1 ELSE IF Plain(P, s) = {} THEN Len(d.order) + 1 ELSE Min(Plain(P, s))
  BY <1>2, Zenon DEF FrontOf
<1>4. QED
  BY <1>1, <1>3, Zenon DEF d

\* A topic that is not in the list does not count.
LEMMA PlainPut ==
    ASSUME NEW T, NEW o, NEW t, NEW x, \A i \in DOMAIN o : o[i] \in DOMAIN T /\ o[i] # t
    PROVE  Plain(Put(T, t, x), o) = Plain(T, o)
<1>1. ASSUME NEW i \in DOMAIN o PROVE Put(T, t, x)[o[i]] = T[o[i]]
  BY DEF Put
<1>2. QED
  BY <1>1, Zenon DEF Plain

\* The same topic again replaces it.
LEMMA PutPut ==
    ASSUME NEW T, NEW t, NEW x, NEW y
    PROVE  [Put(T, t, x) EXCEPT ![t] = y] = Put(T, t, y)
<1> DEFINE f == Put(T, t, x)
           D == DOMAIN T \cup {t}
<1>1. f = [u \in D |-> IF u = t THEN x ELSE T[u]]
  BY DEF Put
<1>2. DOMAIN f = D /\ \A u \in D : u # t => f[u] = T[u]
  BY <1>1
<1> HIDE DEF f, D
<1>3. [f EXCEPT ![t] = y] = [u \in D |-> IF u = t THEN y ELSE f[u]]
  BY <1>2, Zenon
<1>4. [u \in D |-> IF u = t THEN y ELSE f[u]] = [u \in D |-> IF u = t THEN y ELSE T[u]]
  <2>1. \A u \in D : (IF u = t THEN y ELSE f[u]) = (IF u = t THEN y ELSE T[u])
    BY <1>2, Zenon
  <2>2. QED
    BY <2>1, Zenon
<1>5. QED
  BY <1>3, <1>4, Zenon DEF Put, D, f

\* The changes that the records make: of the counters, of the order and of
\* one topic
Counted(d, u) == [d EXCEPT !.count = u, !.live = u]
Reordered(d, o) == [d EXCEPT !.order = o]
Changed(d, t, y) == [d EXCEPT !.topics[t] = y]

\* Each of them gives such a store again.
LEMMA CountsUp == \A T, o, n, u : Counted(Reading(T, o, n), u) = Reading(T, o, u)
<1> SUFFICES ASSUME NEW T, NEW o, NEW n, NEW u PROVE Counted(Reading(T, o, n), u) = Reading(T, o, u)
  OBVIOUS
<1> DEFINE r == Loaded(T, o, n, n)
<1>1. [r EXCEPT !.count = u] = Loaded(T, o, u, n)
  BY SMT DEF Loaded
<1>2. [Loaded(T, o, u, n) EXCEPT !.live = u] = Loaded(T, o, u, u)
  BY SMT DEF Loaded
<1> HIDE DEF r
<1>3. [r EXCEPT !.count = u, !.live = u] = [[r EXCEPT !.count = u] EXCEPT !.live = u]
  BY SMT
<1>4. QED
  BY <1>1, <1>2, <1>3, Zenon DEF r, Reading, Counted

LEMMA Reorders == \A T, o, n, u : Reordered(Reading(T, o, n), u) = Reading(T, u, n)
<1> SUFFICES ASSUME NEW T, NEW o, NEW n, NEW u PROVE Reordered(Reading(T, o, n), u) = Reading(T, u, n)
  OBVIOUS
<1>1. QED
  BY SMT DEF Reordered, Reading, Loaded

LEMMA Change ==
    \A T, t, x, o, n, y : Changed(Reading(Put(T, t, x), o, n), t, y) = Reading(Put(T, t, y), o, n)
<1> SUFFICES ASSUME NEW T, NEW t, NEW x, NEW o, NEW n, NEW y
             PROVE  [Reading(Put(T, t, x), o, n) EXCEPT !.topics[t] = y] = Reading(Put(T, t, y), o, n)
  BY Zenon DEF Changed
<1> DEFINE R == Reading(Put(T, t, x), o, n)
<1>1. R.topics = Put(T, t, x)
  BY DEF Reading, Loaded
<1>2. [R EXCEPT !.topics = Put(T, t, y)] = Reading(Put(T, t, y), o, n)
  BY SMT DEF Reading, Loaded
<1> HIDE DEF R
<1>3. [R EXCEPT !.topics[t] = y] = [R EXCEPT !.topics = [R.topics EXCEPT ![t] = y]]
  OBVIOUS
<1>4. [R EXCEPT !.topics[t] = y] = [R EXCEPT !.topics = [Put(T, t, x) EXCEPT ![t] = y]]
  BY <1>1, <1>3
<1>5. QED
  BY <1>2, <1>4, PutPut DEF R

----------------------------------------------------------------------------
(* The place where a topic is put that is read.                          *)

\* The list and the map have the same topics.
IsList(T, o) == o \in Seq(TopicID) /\ IsInjective(o) /\ DOMAIN T = Range(o)

\* Place k has only stickies before it, and the topic there is not sticky.
InFront(T, o, k) ==
    /\ k \in 1..(Len(o) + 1)
    /\ \A j \in 1..(k - 1) : T[o[j]].sticky
    /\ k <= Len(o) => ~ T[o[k]].sticky

\* What is needed of a list
LEMMA ListFacts ==
    ASSUME NEW T, NEW o, IsList(T, o), NEW t, t \notin Range(o)
    PROVE  /\ o \in Seq(TopicID) /\ Len(o) \in Nat /\ DOMAIN o = 1..Len(o)
           /\ \A i \in 1..Len(o) : o[i] \in DOMAIN T /\ o[i] # t
BY DEF IsList, Range

\* The place before all that are not sticky
LEMMA FirstPlain ==
    ASSUME NEW T, NEW o, IsList(T, o)
    PROVE  InFront(T, o, IF Plain(T, o) = {} THEN Len(o) + 1 ELSE Min(Plain(T, o)))
<1>1. Len(o) \in Nat /\ DOMAIN o = 1..Len(o)
  BY DEF IsList
<1>2. \A i \in 1..Len(o) : i \in Plain(T, o) <=> ~ T[o[i]].sticky
  BY <1>1, Zenon DEF Plain
<1>3. CASE Plain(T, o) = {}
  <2>1. \A j \in 1..Len(o) : T[o[j]].sticky
    BY <1>2, <1>3
  <2>2. Len(o) + 1 \in 1..(Len(o) + 1) /\ ~ (Len(o) + 1 <= Len(o)) /\ Len(o) + 1 - 1 = Len(o)
    BY <1>1
  <2>3. QED
    BY <1>3, <2>1, <2>2 DEF InFront
<1>4. CASE Plain(T, o) # {}
  <2> DEFINE k == Min(Plain(T, o))
  <2>1. Plain(T, o) \subseteq 1..Len(o)
    BY <1>1 DEF Plain
  <2>2. Plain(T, o) \subseteq Nat
    BY <1>1, <2>1
  <2>3. k \in Plain(T, o) /\ \A y \in Plain(T, o) : k <= y
    BY <1>4, <2>2, MinIsLeast
  <2> HIDE DEF k
  <2>4. k \in 1..Len(o) /\ ~ T[o[k]].sticky
    BY <1>2, <2>1, <2>3
  <2>5. ASSUME NEW j \in 1..(k - 1) PROVE T[o[j]].sticky
    <3>1. j \in 1..Len(o) /\ ~ k <= j
      BY <1>1, <2>4
    <3>2. QED
      BY <1>2, <2>3, <3>1
  <2>6. k \in 1..(Len(o) + 1)
    BY <1>1, <2>4
  <2>7. InFront(T, o, k)
    BY <2>4, <2>5, <2>6 DEF InFront
  <2>8. QED
    BY <1>4, <2>7 DEF k
<1>5. QED
  BY <1>3, <1>4

\* The first place for a topic that is not in the list yet
LEMMA FrontOfReading ==
    ASSUME NEW T, NEW o, IsList(T, o), NEW t \in TopicID, t \notin Range(o), NEW x, NEW n,
           ~ x.sticky
    PROVE  InFront(T, o, FrontOf(Reading(Put(T, t, x), o, n), t))
<1>1. ~ Put(T, t, x)[t].sticky
  <2>1. Put(T, t, x)[t] = x
    BY DEF Put
  <2>2. QED
    BY <2>1
<1>2. Plain(Put(T, t, x), o) = Plain(T, o)
  <2>1. \A i \in DOMAIN o : o[i] \in DOMAIN T /\ o[i] # t
    BY ListFacts
  <2>2. QED
    BY <2>1, PlainPut
<1>3. FrontOf(Reading(Put(T, t, x), o, n), t) = IF Plain(T, o) = {} THEN Len(o) + 1 ELSE Min(Plain(T, o))
  BY <1>1, <1>2, FrontDef
<1>4. QED
  BY <1>3, FirstPlain

\* It is the same place once the topic is there.
LEMMA FrontAfter ==
    ASSUME NEW T, NEW o, IsList(T, o), NEW t \in TopicID, t \notin Range(o), NEW x, NEW n,
           ~ x.sticky, NEW k, InFront(T, o, k)
    PROVE  FrontOf(Reading(Put(T, t, x), InsertAt(o, k, t), n), t) = k
<1> DEFINE s == InsertAt(o, k, t)
           P == Put(T, t, x)
<1>1. /\ o \in Seq(TopicID) /\ Len(o) \in Nat /\ k \in 1..(Len(o) + 1)
      /\ \A i \in 1..Len(o) : o[i] \in DOMAIN T /\ o[i] # t
  BY ListFacts DEF InFront
<1>2. /\ s \in Seq(TopicID) /\ Len(s) = Len(o) + 1
      /\ \A j \in 1..(Len(o) + 1) : s[j] = IF j < k THEN o[j] ELSE IF j = k THEN t ELSE o[j - 1]
  BY <1>1, InsertAtProperties
<1> HIDE DEF s
<1>3. DOMAIN s = 1..(Len(o) + 1)
  BY <1>1, <1>2
<1>4. P[t] = x /\ \A u \in DOMAIN T : u # t => P[u] = T[u]
  BY DEF Put
<1> HIDE DEF P
<1>5. \A i \in DOMAIN s : i \in Plain(P, s) <=> ~ P[s[i]].sticky
  BY Zenon DEF Plain
<1>6. k \in Plain(P, s)
  <2>1. k \in DOMAIN s /\ s[k] = t
    BY <1>1, <1>2, <1>3
  <2>2. QED
    BY <1>4, <1>5, <2>1
<1>7. Plain(P, s) \subseteq 1..(Len(o) + 1)
  BY <1>3 DEF Plain
<1>8. ASSUME NEW j \in Plain(P, s), ~ k <= j PROVE FALSE
  <2>1. j \in 1..(k - 1) /\ j \in 1..Len(o) /\ j < k /\ j \in 1..(Len(o) + 1)
    BY <1>1, <1>7, <1>8
  <2>2. s[j] = o[j] /\ o[j] \in DOMAIN T /\ o[j] # t
    BY <1>1, <1>2, <2>1
  <2>3. P[s[j]] = T[o[j]]
    BY <1>4, <2>2
  <2>4. T[o[j]].sticky
    BY <2>1 DEF InFront
  <2>5. QED
    BY <1>3, <1>5, <2>1, <2>3, <2>4
<1>9. Min(Plain(P, s)) = k
  <2>1. Plain(P, s) \subseteq Nat /\ Plain(P, s) # {}
    BY <1>1, <1>6, <1>7
  <2>2. Min(Plain(P, s)) \in Plain(P, s) /\ \A y \in Plain(P, s) : Min(Plain(P, s)) <= y
    BY <2>1, MinIsLeast
  <2>3. Min(Plain(P, s)) <= k /\ k <= Min(Plain(P, s)) /\ Min(Plain(P, s)) \in Nat /\ k \in Nat
    BY <1>1, <1>6, <1>8, <2>1, <2>2
  <2>4. QED
    BY <2>3
<1>10. ~ P[t].sticky
  BY <1>4
<1>11. FrontOf(Reading(P, s, n), t) = k
  BY <1>6, <1>9, <1>10, FrontDef
<1>12. QED
  BY <1>11 DEF s, P

\* The topic at the place that it is moved to stays there.
LEMMA MoveStays ==
    ASSUME NEW T, NEW o, IsList(T, o), NEW t \in TopicID, t \notin Range(o), NEW x, NEW n,
           ~ x.sticky, NEW k, InFront(T, o, k)
    PROVE  MoveTopicToFront(Reading(Put(T, t, x), InsertAt(o, k, t), n), t)
              = Reading(Put(T, t, x), InsertAt(o, k, t), n)
<1> DEFINE s == InsertAt(o, k, t)
           d == Reading(Put(T, t, x), s, n)
<1>1. FrontOf(d, t) = k
  BY FrontAfter
<1>2. Unlink(s, t) = o
  BY UnlinkInsert DEF IsList, InFront
<1>3. d.order = s
  BY SMT DEF Reading, Loaded
<1>4. Reordered(d, s) = d
  BY Reorders, Zenon
<1>5. MoveTopicToFront(d, t) = IF d.topics[t].saged THEN d ELSE Reordered(d, InsertAt(Unlink(d.order, t), FrontOf(d, t), t))
  BY Zenon DEF MoveTopicToFront, Reordered
<1> HIDE DEF d
<1>6. InsertAt(Unlink(d.order, t), FrontOf(d, t), t) = s
  BY <1>1, <1>2, <1>3
<1> HIDE DEF s
<1>7. MoveTopicToFront(d, t) = d
  BY <1>4, <1>5, <1>6, Zenon
<1>8. QED
  BY <1>7 DEF d, s

\* OP_TOPIC puts the topic before all that are not sticky.
LEMMA OpenTopic ==
    ASSUME NEW T, NEW o, IsList(T, o), NEW t \in TopicID, t \notin Range(o), NEW n \in Nat
    PROVE  \E k : /\ InFront(T, o, k)
                  /\ OP_TOPIC(Reading(T, o, n), t) = Reading(Put(T, t, BlankTopic), InsertAt(o, k, t), n + 1)
<1> DEFINE d == Reading(T, o, n)
           P == Put(T, t, BlankTopic)
           c == Reading(P, o, n)
           k == FrontOf(c, t)
           s == InsertAt(o, k, t)
<1>1. ~ BlankTopic.sticky /\ ~ BlankTopic.saged
  BY DEF BlankTopic
<1>2. InFront(T, o, k)
  BY <1>1, FrontOfReading
<1>3. d.topics = T /\ d.order = o /\ d.count = n /\ d.live = n
  BY SMT DEF Reading, Loaded
<1>4. [d EXCEPT !.topics = P] = c
  BY SMT DEF Reading, Loaded
<1>5. c.order = o /\ c.topics = P
  BY SMT DEF Reading, Loaded
<1>6. P[t] = BlankTopic
  BY DEF Put
<1>7. Unlink(o, t) = o
  BY <1>2, UnlinkInsert DEF IsList, InFront
<1>8. Reordered(c, s) = Reading(P, s, n)
  BY Reorders, Zenon
<1>9. Counted(Reading(P, s, n), n + 1) = Reading(P, s, n + 1)
  BY CountsUp, Zenon
<1>10. t \notin DOMAIN T
  BY DEF IsList
<1> HIDE DEF d, P, c
<1>11. MoveTopicToFront(c, t) = Reordered(c, InsertAt(Unlink(c.order, t), FrontOf(c, t), t))
  <2>1. ~ c.topics[t].saged
    BY <1>1, <1>5, <1>6
  <2>2. QED
    BY <2>1 DEF MoveTopicToFront, Reordered
<1>12. MoveTopicToFront(c, t) = Reading(P, s, n)
  BY <1>5, <1>7, <1>8, <1>11
<1>13. OP_TOPIC(d, t) = Counted(MoveTopicToFront([d EXCEPT !.topics = Put(d.topics, t, BlankTopic)], t), n + 1)
  BY <1>3, <1>10, Zenon DEF OP_TOPIC, Counted
<1>14. OP_TOPIC(d, t) = Reading(P, s, n + 1)
  BY <1>3, <1>4, <1>9, <1>12, <1>13 DEF P
<1>15. QED
  BY <1>2, <1>14 DEF d, P

----------------------------------------------------------------------------
(* The records of a post.                                                *)

\* A topic with one post more
With(x, q) == [x EXCEPT !.posts = Append(x.posts, q)]

\* Changing the last element
LEMMA AppendExcept ==
    ASSUME NEW s \in Seq(Post), NEW q \in Post, NEW p \in Post
    PROVE  [Append(s, q) EXCEPT ![Len(s) + 1] = p] = Append(s, p)
<1> DEFINE n == Len(s) + 1
           w == Append(s, q)
           v == Append(s, p)
<1>1. Len(s) \in Nat /\ n \in Nat /\ n \in 1..n
  OBVIOUS
<1>2. /\ w \in Seq(Post) /\ Len(w) = n /\ \A j \in 1..Len(s) : w[j] = s[j]
  BY AppendProperties
<1>3. /\ v \in Seq(Post) /\ Len(v) = n /\ v[n] = p /\ \A j \in 1..Len(s) : v[j] = s[j]
  BY AppendProperties
<1>4. \A j \in 1..n : j \in 1..Len(s) \/ j = n
  BY <1>1
<1> HIDE DEF w, v, n
<1>5. /\ [w EXCEPT ![n] = p] \in Seq(Post) /\ Len([w EXCEPT ![n] = p]) = n
      /\ \A j \in 1..n : [w EXCEPT ![n] = p][j] = IF j = n THEN p ELSE w[j]
  <2>1. n \in 1..Len(w)
    BY <1>1, <1>2
  <2>2. /\ [w EXCEPT ![n] = p] \in Seq(Post) /\ Len([w EXCEPT ![n] = p]) = Len(w)
        /\ \A j \in 1..Len(w) : [w EXCEPT ![n] = p][j] = IF j = n THEN p ELSE w[j]
    BY <1>2, <2>1, ExceptSeq
  <2>3. QED
    BY <1>2, <2>2
<1>6. \A j \in 1..n : [w EXCEPT ![n] = p][j] = v[j]
  BY <1>2, <1>3, <1>4, <1>5
<1>7. [w EXCEPT ![n] = p] = v
  BY <1>3, <1>5, <1>6, SeqEqual
<1>8. QED
  BY <1>7 DEF w, v, n

\* Its parts
LEMMA WithFacts ==
    ASSUME NEW x \in Topic, NEW q \in Post
    PROVE  /\ With(x, q) \in Topic
           /\ With(x, q).posts = Append(x.posts, q)
           /\ Len(With(x, q).posts) = Len(x.posts) + 1
           /\ DOMAIN With(x, q).posts = 1..(Len(x.posts) + 1)
           /\ With(x, q).posts[Len(x.posts) + 1] = q
           /\ With(x, q).sticky = x.sticky
<1>1. x.posts \in Seq(Post)
  BY DEF Topic
<1>2. /\ Append(x.posts, q) \in Seq(Post) /\ Len(Append(x.posts, q)) = Len(x.posts) + 1
      /\ Append(x.posts, q)[Len(x.posts) + 1] = q
  BY <1>1, AppendProperties
<1>3. /\ With(x, q) \in Topic /\ With(x, q).posts = Append(x.posts, q) /\ With(x, q).sticky = x.sticky
  BY <1>2 DEF Topic, With
<1>4. DOMAIN Append(x.posts, q) = 1..(Len(x.posts) + 1)
  BY <1>2
<1>5. QED
  BY <1>2, <1>3, <1>4

\* Changing the post that was added
LEMMA WithExcept ==
    ASSUME NEW x \in Topic, NEW q \in Post, NEW p \in Post
    PROVE  [With(x, q) EXCEPT !.posts = [@ EXCEPT ![Len(x.posts) + 1] = p]] = With(x, p)
<1>1. x.posts \in Seq(Post)
  BY DEF Topic
<1>2. [Append(x.posts, q) EXCEPT ![Len(x.posts) + 1] = p] = Append(x.posts, p)
  BY <1>1, AppendExcept
<1> DEFINE y == With(x, q)
<1>3. y \in Topic /\ y.posts = Append(x.posts, q)
  BY WithFacts
<1>4. \A u : [y EXCEPT !.posts = u] = [x EXCEPT !.posts = u]
  BY DEF With, Topic
<1> HIDE DEF y
<1>5. [y EXCEPT !.posts = [@ EXCEPT ![Len(x.posts) + 1] = p]] = [y EXCEPT !.posts = Append(x.posts, p)]
  BY <1>2, <1>3
<1>6. QED
  BY <1>4, <1>5 DEF y, With

\* A post without its image, and without its flag
Bare(p) == [[p EXCEPT !.nsfw = FALSE] EXCEPT !.image = FALSE]

\* Setting the image and inverting the flag give the post back.
LEMMA PostParts ==
    ASSUME NEW p \in Post
    PROVE  /\ Bare(p) \in Post /\ [p EXCEPT !.nsfw = FALSE] \in Post
           /\ Bare(p).sage = p.sage /\ Bare(p).image = FALSE
           /\ [p EXCEPT !.nsfw = FALSE].image = p.image /\ [p EXCEPT !.nsfw = FALSE].nsfw = FALSE
           /\ p.image => [Bare(p) EXCEPT !.image = TRUE] = [p EXCEPT !.nsfw = FALSE]
           /\ ~ p.image => Bare(p) = [p EXCEPT !.nsfw = FALSE]
           /\ p.nsfw => [[p EXCEPT !.nsfw = FALSE] EXCEPT !.nsfw = ~ @] = p
           /\ ~ p.nsfw => [p EXCEPT !.nsfw = FALSE] = p
BY DEF Bare, Post

\* OP_POST adds the post and leaves the topic at its place, whether it is
\* moved to the front or not.
LEMMA PostOpened ==
    ASSUME NEW T, NEW o, IsList(T, o), NEW t \in TopicID, t \notin Range(o), NEW x \in Topic, NEW m,
           ~ x.sticky, NEW k, InFront(T, o, k), NEW q \in Post, Len(x.posts) < MaxPosts
    PROVE  OP_POST(Reading(Put(T, t, x), InsertAt(o, k, t), m), t, Len(x.posts) + 1, q)
              = Reading(Put(T, t, With(x, q)), InsertAt(o, k, t), m)
<1> DEFINE s == InsertAt(o, k, t)
           d == Reading(Put(T, t, x), s, m)
           y == With(x, q)
           e == [d EXCEPT !.topics[t].posts = Append(@, q)]
<1>1. d.topics = Put(T, t, x)
  BY SMT DEF Reading, Loaded
<1>2. t \in DOMAIN d.topics /\ d.topics[t] = x
  <2>1. t \in DOMAIN Put(T, t, x) /\ Put(T, t, x)[t] = x
    BY DEF Put
  <2> HIDE DEF d
  <2>2. QED
    BY <1>1, <2>1
<1>3. e = Changed(d, t, y)
  <2> HIDE DEF d
  <2>1. e = [d EXCEPT !.topics[t] = [d.topics[t] EXCEPT !.posts = Append(d.topics[t].posts, q)]]
    OBVIOUS
  <2>2. QED
    BY <1>2, <2>1 DEF With, Changed
<1>4. Changed(d, t, y) = Reading(Put(T, t, y), s, m)
  <2> HIDE DEF s, y, e
  <2>1. QED
    BY Change, SMT
<1>5. y.sticky = x.sticky
  BY WithFacts
<1>6. MoveTopicToFront(Reading(Put(T, t, y), s, m), t) = Reading(Put(T, t, y), s, m)
  <2>1. ~ y.sticky
    BY <1>5
  <2> HIDE DEF y
  <2>2. QED
    BY <2>1, MoveStays
<1>7. ~ (Len(x.posts) + 1 # Len(d.topics[t].posts) + 1 \/ Len(x.posts) + 1 > MaxPosts)
  <2>1. Len(x.posts) \in Nat
    BY DEF Topic
  <2>2. MaxPosts \in Nat
    BY LogAssumption
  <2> HIDE DEF d
  <2>3. Len(d.topics[t].posts) = Len(x.posts)
    BY <1>2
  <2>4. QED
    BY <2>1, <2>2, <2>3
<1> HIDE DEF y, d, s
<1>8. OP_POST(d, t, Len(x.posts) + 1, q) = IF q.sage THEN e ELSE MoveTopicToFront(e, t)
  BY <1>2, <1>7, Zenon DEF OP_POST
<1>9. QED
  BY <1>3, <1>4, <1>6, <1>8 DEF y, d, s

\* Changes of one post
Imaged(d, t, n) == [d EXCEPT !.topics[t].posts[n].image = TRUE]
Flipped(d, t, n) == [d EXCEPT !.topics[t].posts[n].nsfw = ~ @]
WithImage(q) == [q EXCEPT !.image = TRUE]
WithFlip(q) == [q EXCEPT !.nsfw = ~ @]

\* OP_IMAGE and OP_NSFW find the post that was added last.
LEMMA LastPostChanged ==
    ASSUME NEW T, NEW t, NEW x \in Topic, NEW q \in Post, NEW s, NEW m
    PROVE  /\ HasPost(Reading(Put(T, t, With(x, q)), s, m), t, Len(x.posts) + 1)
           /\ Reading(Put(T, t, With(x, q)), s, m).topics[t].posts[Len(x.posts) + 1] = q
           /\ WithImage(q) \in Post =>
                 Imaged(Reading(Put(T, t, With(x, q)), s, m), t, Len(x.posts) + 1)
                    = Reading(Put(T, t, With(x, WithImage(q))), s, m)
           /\ WithFlip(q) \in Post =>
                 Flipped(Reading(Put(T, t, With(x, q)), s, m), t, Len(x.posts) + 1)
                    = Reading(Put(T, t, With(x, WithFlip(q))), s, m)
<1> DEFINE d == Reading(Put(T, t, With(x, q)), s, m)
           n == Len(x.posts) + 1
           y == With(x, q)
<1>1. d.topics = Put(T, t, y)
  BY SMT DEF Reading, Loaded
<1>2. t \in DOMAIN d.topics /\ d.topics[t] = y
  <2>1. t \in DOMAIN Put(T, t, y) /\ Put(T, t, y)[t] = y
    BY DEF Put
  <2> HIDE DEF d, y
  <2>2. QED
    BY <1>1, <2>1
<1>3. n \in DOMAIN y.posts /\ y.posts[n] = q
  <2>1. Len(x.posts) \in Nat
    BY DEF Topic
  <2>2. QED
    BY <2>1, WithFacts
<1>4. \A p \in Post : [y EXCEPT !.posts = [@ EXCEPT ![n] = p]] = With(x, p)
  BY WithExcept
<1>5. ASSUME NEW p PROVE Changed(d, t, With(x, p)) = Reading(Put(T, t, With(x, p)), s, m)
  <2> DEFINE v == With(x, p)
  <2> HIDE DEF v, y
  <2>1. Changed(d, t, v) = Reading(Put(T, t, v), s, m)
    BY Change, SMT
  <2>2. QED
    BY <2>1 DEF v
<1> HIDE DEF d, n, y
<1>6. HasPost(d, t, n) /\ d.topics[t].posts[n] = q
  BY <1>2, <1>3 DEF HasPost
<1>7. [d EXCEPT !.topics[t].posts[n].image = TRUE]
         = [d EXCEPT !.topics[t] = [d.topics[t] EXCEPT !.posts = [@ EXCEPT ![n] = [d.topics[t].posts[n] EXCEPT !.image = TRUE]]]]
  OBVIOUS
<1>8. [d EXCEPT !.topics[t].posts[n].nsfw = ~ @]
         = [d EXCEPT !.topics[t] = [d.topics[t] EXCEPT !.posts = [@ EXCEPT ![n] = [d.topics[t].posts[n] EXCEPT !.nsfw = ~ @]]]]
  OBVIOUS
<1>9. WithImage(q) \in Post => Imaged(d, t, n) = Changed(d, t, With(x, WithImage(q)))
  BY <1>2, <1>4, <1>6, <1>7, Zenon DEF Changed, Imaged, WithImage
<1>10. WithFlip(q) \in Post => Flipped(d, t, n) = Changed(d, t, With(x, WithFlip(q)))
  BY <1>2, <1>4, <1>6, <1>8, Zenon DEF Changed, Flipped, WithFlip
<1>11. QED
  BY <1>5, <1>6, <1>9, <1>10, Zenon DEF d, n, y

\* The records of a post give it back, with its image and its flag.
LEMMA PostRead ==
    ASSUME NEW T, NEW o, IsList(T, o), NEW t \in TopicID, t \notin Range(o), NEW x \in Topic, NEW m,
           ~ x.sticky, NEW k, InFront(T, o, k), NEW p \in Post, Len(x.posts) < MaxPosts
    PROVE  MarshalPost(Reading(Put(T, t, x), InsertAt(o, k, t), m), t, Len(x.posts) + 1, p)
              = Reading(Put(T, t, With(x, p)), InsertAt(o, k, t), m)
<1> DEFINE s == InsertAt(o, k, t)
           d == Reading(Put(T, t, x), s, m)
           n == Len(x.posts) + 1
           dim == [p EXCEPT !.nsfw = FALSE]
           R(q) == Reading(Put(T, t, With(x, q)), s, m)
<1>0. Bare(p) \in Post
  BY PostParts
<1>1. OP_POST(d, t, n, Bare(p)) = R(Bare(p))
  BY <1>0, PostOpened
<1>2. LogPost(d, t, n, dim) = IF dim.image THEN OP_IMAGE(OP_POST(d, t, n, Bare(p)), t, n) ELSE OP_POST(d, t, n, Bare(p))
  BY DEF LogPost, Bare
<1>3. LogPost(d, t, n, dim) = R(dim)
  <2>1. CASE ~ p.image
    BY <1>1, <1>2, <2>1, PostParts
  <2>2. CASE p.image
    <3> DEFINE b == Bare(p)
    <3>1. /\ HasPost(R(b), t, n) /\ R(b).topics[t].posts[n] = b
          /\ WithImage(b) \in Post => Imaged(R(b), t, n) = R(WithImage(b))
      BY <1>0, LastPostChanged
    <3>2. WithImage(b) = dim /\ dim \in Post /\ b.image = FALSE /\ dim.image = TRUE
      BY <2>2, PostParts DEF WithImage
    <3> HIDE DEF R, b, dim
    <3>3. OP_IMAGE(R(b), t, n) = Imaged(R(b), t, n)
      BY <3>1, <3>2, Zenon DEF OP_IMAGE, HasPost, Imaged
    <3>4. QED
      BY <1>1, <1>2, <3>1, <3>2, <3>3 DEF b
  <2>3. QED
    BY <2>1, <2>2
<1>4. CASE ~ p.nsfw
  BY <1>3, <1>4, PostParts DEF MarshalPost
<1>5. CASE p.nsfw
  <2>1. /\ HasPost(R(dim), t, n) /\ R(dim).topics[t].posts[n] = dim
        /\ WithFlip(dim) \in Post => Flipped(R(dim), t, n) = R(WithFlip(dim))
    <3>1. dim \in Post
      BY PostParts
    <3> HIDE DEF dim
    <3>2. QED
      BY <3>1, LastPostChanged
  <2>2. WithFlip(dim) = p
    BY <1>5, PostParts DEF WithFlip
  <2>3. MarshalPost(d, t, n, p) = OP_NSFW(LogPost(d, t, n, dim), t, n)
    BY <1>5 DEF MarshalPost
  <2> HIDE DEF R, dim
  <2>4. OP_NSFW(R(dim), t, n) = Flipped(R(dim), t, n)
    BY <2>1, Zenon DEF OP_NSFW, Flipped
  <2>5. QED
    BY <1>3, <2>1, <2>2, <2>3, <2>4 DEF R
<1>6. QED
  BY <1>4, <1>5

----------------------------------------------------------------------------
(* The records of a topic: its posts.                                    *)

\* A new topic with these posts
Holding(posts) == [BlankTopic EXCEPT !.posts = posts]

\* Its parts, and one post more
LEMMA HoldingFacts ==
    ASSUME NEW s \in Seq(Post)
    PROVE  /\ Holding(s) \in Topic /\ Holding(s).posts = s /\ ~ Holding(s).sticky
           /\ \A p : With(Holding(s), p) = Holding(Append(s, p))
<1>1. Holding(s) \in Topic /\ Holding(s).posts = s /\ Holding(s).sticky = FALSE
  BY DEF Holding, BlankTopic, Topic
<1>2. ASSUME NEW p PROVE With(Holding(s), p) = Holding(Append(s, p))
  <2>1. With(Holding(s), p) = [Holding(s) EXCEPT !.posts = Append(s, p)]
    BY <1>1 DEF With
  <2>2. \A u : [Holding(s) EXCEPT !.posts = u] = [BlankTopic EXCEPT !.posts = u]
    <3>1. BlankTopic \in Topic
      BY DEF BlankTopic, Topic
    <3>2. QED
      BY <3>1 DEF Holding, Topic
  <2>3. QED
    BY <2>1, <2>2 DEF Holding
<1>3. QED
  BY <1>1, <1>2

\* Without posts it is the topic of OP_TOPIC.
LEMMA HoldingNothing == Holding(<<>>) = BlankTopic
BY DEF Holding, BlankTopic

\* The first i posts, and one more
LEMMA FirstPosts ==
    ASSUME NEW s \in Seq(Post)
    PROVE  /\ SubSeq(s, 1, 0) = <<>> /\ SubSeq(s, 1, Len(s)) = s
           /\ \A i \in 0..(Len(s) - 1) :
                 /\ SubSeq(s, 1, i) \in Seq(Post) /\ Len(SubSeq(s, 1, i)) = i
                 /\ s[i + 1] \in Post
                 /\ Append(SubSeq(s, 1, i), s[i + 1]) = SubSeq(s, 1, i + 1)
<1>0. Len(s) \in Nat
  OBVIOUS
<1>1. SubSeq(s, 1, 0) = <<>> /\ SubSeq(s, 1, Len(s)) = s
  OBVIOUS
<1>2. ASSUME NEW i \in 0..(Len(s) - 1)
      PROVE  /\ SubSeq(s, 1, i) \in Seq(Post) /\ Len(SubSeq(s, 1, i)) = i
             /\ s[i + 1] \in Post
             /\ Append(SubSeq(s, 1, i), s[i + 1]) = SubSeq(s, 1, i + 1)
  <2>0. i \in Nat /\ i + 1 <= Len(s) /\ i + 1 \in 1..Len(s)
    BY <1>0
  <2> DEFINE a == SubSeq(s, 1, i)
             b == SubSeq(s, 1, i + 1)
             c == Append(a, s[i + 1])
  <2>1. a \in Seq(Post) /\ Len(a) = i /\ \A j \in 1..i : a[j] = s[j]
    BY <2>0
  <2>2. b \in Seq(Post) /\ Len(b) = i + 1 /\ \A j \in 1..(i + 1) : b[j] = s[j]
    BY <2>0
  <2>3. s[i + 1] \in Post
    BY <2>0
  <2> HIDE DEF a, b
  <2>4. c \in Seq(Post) /\ Len(c) = i + 1 /\ c[i + 1] = s[i + 1] /\ \A j \in 1..i : c[j] = a[j]
    BY <2>1, <2>3, AppendProperties
  <2> HIDE DEF c
  <2>5. \A j \in 1..(i + 1) : j \in 1..i \/ j = i + 1
    BY <2>0
  <2>6. \A j \in 1..(i + 1) : c[j] = b[j]
    BY <2>0, <2>1, <2>2, <2>4, <2>5
  <2>7. c = b
    BY <2>2, <2>4, <2>6, SeqEqual
  <2>8. QED
    BY <2>1, <2>3, <2>7 DEF a, b, c
<1>3. QED
  BY <1>1, <1>2

\* topic.marshal, read back
LEMMA MarshalReads ==
    ASSUME NEW T, NEW o, IsList(T, o), NEW t \in TopicID, t \notin Range(o), NEW m \in Nat,
           NEW posts \in Seq(Post), Len(posts) <= MaxPosts
    PROVE  \E k : /\ InFront(T, o, k)
                  /\ MarshalTopic(Reading(T, o, m), t, posts)
                        = Reading(Put(T, t, Holding(posts)), InsertAt(o, k, t), m + 1)
<1> DEFINE d == Reading(T, o, m)
           N == Len(posts)
           R(x, k) == Reading(Put(T, t, x), InsertAt(o, k, t), m + 1)
           part(i) == SubSeq(posts, 1, i)
<1>0. N \in Nat /\ MaxPosts \in Nat /\ N <= MaxPosts
  BY LogAssumption
<1>1. PICK k : InFront(T, o, k) /\ OP_TOPIC(d, t) = R(BlankTopic, k)
  BY OpenTopic
<1>2. PICK f : Read(f, d, t, posts, N) /\ MarshalPosts(d, t, posts, N) = f[N]
  BY <1>0, MarshalUnfold
<1>3. \A x \in Topic, p \in Post : ~ x.sticky /\ Len(x.posts) < MaxPosts =>
         MarshalPost(R(x, k), t, Len(x.posts) + 1, p) = R(With(x, p), k)
  BY <1>1, PostRead
<1>4. /\ \A i \in 0..N : f[i] = IF i = 0 THEN OP_TOPIC(d, t) ELSE MarshalPost(f[i - 1], t, i, posts[i])
  BY <1>2 DEF Read
<1> DEFINE P(i) == i <= N => f[i] = R(Holding(part(i)), k)
           S == {i \in Nat : P(i)}
<1> HIDE DEF d, R
<1>5. P(0)
  <2>1. f[0] = R(BlankTopic, k)
    BY <1>0, <1>1, <1>4
  <2>2. part(0) = <<>>
    BY FirstPosts
  <2> HIDE DEF part
  <2>3. Holding(part(0)) = BlankTopic
    BY <2>2, HoldingNothing, Zenon
  <2>4. f[0] = R(Holding(part(0)), k)
    BY <2>1, <2>3, Zenon
  <2>5. QED
    BY <2>4, Zenon
<1>6. ASSUME NEW i \in Nat, P(i), i + 1 <= N PROVE f[i + 1] = R(Holding(part(i + 1)), k)
  <2>1. i \in 0..(N - 1) /\ i + 1 \in 0..N /\ i + 1 # 0 /\ i + 1 - 1 = i /\ i <= N /\ i < MaxPosts
    BY <1>0, <1>6
  <2>2. /\ part(i) \in Seq(Post) /\ Len(part(i)) = i /\ posts[i + 1] \in Post
        /\ Append(part(i), posts[i + 1]) = part(i + 1)
    BY <2>1, FirstPosts
  <2>3. f[i] = R(Holding(part(i)), k)
    BY <1>6, <2>1
  <2> HIDE DEF N, part
  <2>4. f[i + 1] = MarshalPost(f[i], t, i + 1, posts[i + 1])
    BY <1>4, <2>1
  <2> DEFINE x == Holding(part(i))
  <2>5. x \in Topic /\ x.posts = part(i) /\ ~ x.sticky /\ With(x, posts[i + 1]) = Holding(part(i + 1))
    <3>1. \A s \in Seq(Post) : /\ Holding(s) \in Topic /\ Holding(s).posts = s /\ ~ Holding(s).sticky
                               /\ \A p : With(Holding(s), p) = Holding(Append(s, p))
      BY HoldingFacts
    <3>2. x \in Topic /\ x.posts = part(i) /\ ~ x.sticky
      BY <2>2, <3>1
    <3>3. With(x, posts[i + 1]) = Holding(Append(part(i), posts[i + 1]))
      BY <2>2, <3>1
    <3>4. QED
      BY <2>2, <3>2, <3>3
  <2> HIDE DEF x
  <2>6. Len(x.posts) = i
    BY <2>2, <2>5
  <2>7. MarshalPost(R(x, k), t, i + 1, posts[i + 1]) = R(With(x, posts[i + 1]), k)
    BY <1>3, <2>1, <2>2, <2>5, <2>6
  <2>8. QED
    BY <2>3, <2>4, <2>5, <2>7 DEF x
<1>7. P(N)
  <2>1. \A i \in Nat : P(i) => P(i + 1)
    BY <1>6
  <2> HIDE DEF P
  <2>2. 0 \in S /\ \A i \in Nat : i \in S => i + 1 \in S
    BY <1>5, <2>1
  <2>3. Nat \subseteq S
    BY <2>2, Induct
  <2>4. QED
    BY <1>0, <2>3
<1>8. f[N] = R(Holding(posts), k)
  <2>1. part(N) = posts
    BY FirstPosts
  <2>2. f[N] = R(Holding(part(N)), k)
    BY <1>0, <1>7
  <2> HIDE DEF part
  <2>3. QED
    BY <2>1, <2>2
<1>9. QED
  BY <1>1, <1>2, <1>8 DEF MarshalTopic, R, d

\* The empty list
LEMMA EmptyIsList == IsList(<<>>, <<>>)
<1>1. <<>> \in Seq(TopicID) /\ DOMAIN (<<>>) = {}
  OBVIOUS
<1> QED
  BY <1>1 DEF IsList, IsInjective, Range

\* An archive file gives back the posts it was made of.
LEMMA ArchiveLoads ==
    ASSUME NEW t \in TopicID, NEW posts \in Seq(Post), Len(posts) <= MaxPosts
    PROVE  /\ ~ MarshalTopic(EmptyStore, t, posts).panic
           /\ MarshalTopic(EmptyStore, t, posts).topics[t].posts = posts
<1> DEFINE r(k) == Reading(Put(<<>>, t, Holding(posts)), InsertAt(<<>>, k, t), 0 + 1)
<1>1. t \notin Range(<<>>)
  BY DEF Range
<1>2. PICK k : MarshalTopic(Reading(<<>>, <<>>, 0), t, posts) = r(k)
  <2> DEFINE n == <<>>
  <2>1. IsList(n, n) /\ t \notin Range(n)
    BY <1>1, EmptyIsList
  <2> HIDE DEF n
  <2>2. PICK m : m = 0
    OBVIOUS
  <2>3. m \in Nat
    BY <2>2
  <2>4. \E k : MarshalTopic(Reading(n, n, m), t, posts) = Reading(Put(n, t, Holding(posts)), InsertAt(n, k, t), m + 1)
    BY <2>1, <2>3, MarshalReads
  <2>5. QED
    BY <2>2, <2>4 DEF n
<1>3. r(k).panic = EmptyStore.panic
  BY DEF Reading, Loaded
<1>4. r(k).topics = Put(<<>>, t, Holding(posts))
  BY DEF Reading, Loaded
<1>5. Put(<<>>, t, Holding(posts))[t] = Holding(posts)
  BY DEF Put
<1>6. Holding(posts).posts = posts
  BY HoldingFacts
<1>7. EmptyStore.panic = FALSE
  BY DEF EmptyStore
<1> HIDE DEF r
<1>8. QED
  BY <1>2, <1>3, <1>4, <1>5, <1>6, <1>7, StartsEmpty

----------------------------------------------------------------------------
(* The records of a topic: its flags.                                    *)

\* What the records do to the topic
Locks(y) == [y EXCEPT !.locked = ~ @]
Frees(y) == [y EXCEPT !.freeReply = ~ @]
Sages(y) == [y EXCEPT !.saged = ~ @]
Sticks(y) == [y EXCEPT !.sticky = ~ @]

\* They do it wherever the topic is; OP_STICKY also moves it.
LEMMA FlagRead ==
    ASSUME NEW T, NEW t, NEW y, NEW s, NEW m
    PROVE  /\ OP_LOCK(Reading(Put(T, t, y), s, m), t) = Reading(Put(T, t, Locks(y)), s, m)
           /\ OP_FREEREPLY(Reading(Put(T, t, y), s, m), t) = Reading(Put(T, t, Frees(y)), s, m)
           /\ OP_SAGE(Reading(Put(T, t, y), s, m), t) = Reading(Put(T, t, Sages(y)), s, m)
           /\ OP_STICKY(Reading(Put(T, t, y), s, m), t)
                 = IF Sticks(y).sticky THEN MoveTopicToFront(Reading(Put(T, t, Sticks(y)), s, m), t)
                   ELSE Reading(Put(T, t, Sticks(y)), s, m)
<1> DEFINE d == Reading(Put(T, t, y), s, m)
           R(x) == Reading(Put(T, t, x), s, m)
<1>1. \A x : R(x).topics = Put(T, t, x)
  BY DEF Reading, Loaded
<1>2. \A x : t \in DOMAIN Put(T, t, x) /\ Put(T, t, x)[t] = x
  BY DEF Put
<1>3. \A x : Changed(d, t, x) = R(x)
  BY Change, SMT
<1>4. t \in DOMAIN d.topics /\ d.topics[t] = y
  BY <1>1, <1>2
<1>5. \A x : R(x).topics[t] = x
  BY <1>1, <1>2
<1> HIDE DEF d, R
<1>6. /\ [d EXCEPT !.topics[t].locked = ~ @] = Changed(d, t, Locks(y))
      /\ [d EXCEPT !.topics[t].freeReply = ~ @] = Changed(d, t, Frees(y))
      /\ [d EXCEPT !.topics[t].saged = ~ @] = Changed(d, t, Sages(y))
      /\ [d EXCEPT !.topics[t].sticky = ~ @] = Changed(d, t, Sticks(y))
  BY <1>4, SMT DEF Changed, Locks, Frees, Sages, Sticks
<1>7. OP_LOCK(d, t) = R(Locks(y))
  BY <1>3, <1>4, <1>6, Zenon DEF OP_LOCK
<1>8. OP_FREEREPLY(d, t) = R(Frees(y))
  BY <1>3, <1>4, <1>6, Zenon DEF OP_FREEREPLY
<1>9. OP_SAGE(d, t) = R(Sages(y))
  BY <1>3, <1>4, <1>6, Zenon DEF OP_SAGE
<1>10. OP_STICKY(d, t) = IF Sticks(y).sticky THEN MoveTopicToFront(R(Sticks(y)), t) ELSE R(Sticks(y))
  <2> DEFINE e == [d EXCEPT !.topics[t].sticky = ~ @]
  <2>1. OP_STICKY(d, t) = IF e.topics[t].sticky THEN MoveTopicToFront(e, t) ELSE e
    BY <1>4, Zenon DEF OP_STICKY
  <2>2. e = R(Sticks(y))
    BY <1>3, <1>6
  <2> HIDE DEF e
  <2>3. QED
    BY <1>5, <2>1, <2>2
<1>11. QED
  BY <1>7, <1>8, <1>9, <1>10 DEF d, R

\* Those that are written, on the topic that its posts give
Unstuck(x) ==
    LET a == Holding(x.posts)
        b == IF x.locked THEN Locks(a) ELSE a
        c == IF x.freeReply THEN Frees(b) ELSE b
    IN  IF x.saged THEN Sages(c) ELSE c

\* The flags of a topic are all false at first, so that inverting those that
\* are set gives the topic back.
LEMMA FlagsGiveTopic ==
    ASSUME NEW x \in Topic
    PROVE  /\ ~ Unstuck(x).sticky /\ Unstuck(x).saged = x.saged
           /\ x.sticky => Sticks(Unstuck(x)) = x
           /\ ~ x.sticky => Unstuck(x) = x
<1> DEFINE a == Holding(x.posts)
           b == IF x.locked THEN Locks(a) ELSE a
           c == IF x.freeReply THEN Frees(b) ELSE b
           e == IF x.saged THEN Sages(c) ELSE c
<1>1. a \in Topic /\ a.posts = x.posts /\ a.sticky = FALSE /\ a.locked = FALSE /\ a.freeReply = FALSE /\ a.saged = FALSE
  BY DEF Holding, BlankTopic, Topic
<1> HIDE DEF a
<1>2. /\ b \in Topic /\ b.posts = x.posts /\ b.sticky = FALSE /\ b.locked = x.locked
      /\ b.freeReply = FALSE /\ b.saged = FALSE
  BY <1>1 DEF Topic, Locks
<1> HIDE DEF b
<1>3. /\ c \in Topic /\ c.posts = x.posts /\ c.sticky = FALSE /\ c.locked = x.locked
      /\ c.freeReply = x.freeReply /\ c.saged = FALSE
  BY <1>2 DEF Topic, Frees
<1> HIDE DEF c
<1>4. /\ e \in Topic /\ e.posts = x.posts /\ e.sticky = FALSE /\ e.locked = x.locked
      /\ e.freeReply = x.freeReply /\ e.saged = x.saged
  BY <1>3 DEF Topic, Sages
<1>5. e = Unstuck(x)
  BY DEF a, b, c, e, Unstuck
<1> HIDE DEF e
<1>6. x.sticky => Sticks(e) = x
  BY <1>4 DEF Topic, Sticks
<1>7. ~ x.sticky => e = x
  BY <1>4 DEF Topic
<1>8. QED
  BY <1>4, <1>5, <1>6, <1>7

\* Where a topic comes to be that is read
PlacedAt(o, k, t, x) == IF x.sticky /\ ~ x.saged THEN InsertAt(o, 1, t) ELSE InsertAt(o, k, t)

\* The records of a topic give it back.
LEMMA TopicReads ==
    ASSUME NEW T, NEW o, IsList(T, o), NEW t \in TopicID, t \notin Range(o), NEW m \in Nat,
           NEW s, NEW x \in Topic, x = s.topics[t], Len(x.posts) <= MaxPosts
    PROVE  \E k : /\ InFront(T, o, k)
                  /\ SnapshotTopic(s, Reading(T, o, m), t)
                        = Reading(Put(T, t, x), PlacedAt(o, k, t, x), m + 1)
<1> DEFINE d == Reading(T, o, m)
           a == MarshalTopic(d, t, x.posts)
           b == IF x.locked THEN OP_LOCK(a, t) ELSE a
           c == IF x.freeReply THEN OP_FREEREPLY(b, t) ELSE b
           e == IF x.saged THEN OP_SAGE(c, t) ELSE c
           ya == Holding(x.posts)
           yb == IF x.locked THEN Locks(ya) ELSE ya
           yc == IF x.freeReply THEN Frees(yb) ELSE yb
           ye == IF x.saged THEN Sages(yc) ELSE yc
           R(y, k) == Reading(Put(T, t, y), InsertAt(o, k, t), m + 1)
<1>0. x \in Topic /\ x.posts \in Seq(Post) /\ Len(x.posts) <= MaxPosts
  BY DEF Topic
<1>1. PICK k : InFront(T, o, k) /\ a = R(ya, k)
  <2> DEFINE posts == x.posts
  <2>1. posts \in Seq(Post) /\ Len(posts) <= MaxPosts
    BY <1>0
  <2> HIDE DEF posts
  <2>2. \E k : /\ InFront(T, o, k)
               /\ MarshalTopic(Reading(T, o, m), t, posts)
                     = Reading(Put(T, t, Holding(posts)), InsertAt(o, k, t), m + 1)
    BY <2>1, MarshalReads
  <2>3. QED
    BY <2>2, Zenon DEF posts
<1>2. SnapshotTopic(s, d, t) = IF x.sticky THEN OP_STICKY(e, t) ELSE e
  BY DEF SnapshotTopic
<1>3. ye = Unstuck(x)
  BY DEF Unstuck
<1>4. \A y : /\ OP_LOCK(R(y, k), t) = R(Locks(y), k)
             /\ OP_FREEREPLY(R(y, k), t) = R(Frees(y), k)
             /\ OP_SAGE(R(y, k), t) = R(Sages(y), k)
             /\ OP_STICKY(R(y, k), t) = IF Sticks(y).sticky THEN MoveTopicToFront(R(Sticks(y), k), t)
                                        ELSE R(Sticks(y), k)
  BY FlagRead
<1> HIDE DEF R, a, ya
<1>5. b = R(yb, k)
  BY <1>1, <1>4
<1> HIDE DEF b, yb
<1>6. c = R(yc, k)
  BY <1>4, <1>5
<1> HIDE DEF c, yc
<1>7. e = R(ye, k)
  BY <1>4, <1>6
<1> HIDE DEF e, ye
<1>8. CASE ~ x.sticky
  <2>1. e = R(x, k)
    BY <1>0, <1>3, <1>7, <1>8, FlagsGiveTopic
  <2>2. PlacedAt(o, k, t, x) = InsertAt(o, k, t)
    BY <1>8 DEF PlacedAt
  <2>3. QED
    BY <1>1, <1>2, <1>8, <2>1, <2>2 DEF R, d
<1>9. CASE x.sticky
  <2>1. Sticks(ye) = x
    BY <1>0, <1>3, <1>9, FlagsGiveTopic
  <2>2. OP_STICKY(e, t) = MoveTopicToFront(R(x, k), t)
    BY <1>4, <1>7, <1>9, <2>1
  <2>3. MoveTopicToFront(R(x, k), t) = Reading(Put(T, t, x), PlacedAt(o, k, t, x), m + 1)
    <3> DEFINE r == R(x, k)
               l == InsertAt(o, k, t)
    <3>1. r.topics = Put(T, t, x) /\ r.order = l
      BY DEF R, Reading, Loaded
    <3>2. Put(T, t, x)[t] = x
      BY DEF Put
    <3>3. r.topics[t] = x
      BY <3>1, <3>2
    <3>4. Unlink(l, t) = o
      BY <1>1, UnlinkInsert DEF IsList, InFront
    <3>5. FrontOf(r, t) = 1
      <4> HIDE DEF r
      <4>1. QED
        BY <1>9, <3>3 DEF FrontOf
    <3>6. \A u : Reordered(r, u) = Reading(Put(T, t, x), u, m + 1)
      BY Reorders, SMT DEF R
    <3> HIDE DEF r, l
    <3>7. MoveTopicToFront(r, t) = IF r.topics[t].saged THEN r ELSE Reordered(r, InsertAt(Unlink(r.order, t), FrontOf(r, t), t))
      BY Zenon DEF MoveTopicToFront, Reordered
    <3>8. CASE x.saged
      <4>1. MoveTopicToFront(r, t) = r
        BY <3>3, <3>7, <3>8
      <4>2. PlacedAt(o, k, t, x) = l
        BY <3>8 DEF PlacedAt, l
      <4>3. QED
        BY <4>1, <4>2 DEF r, R, l
    <3>9. CASE ~ x.saged
      <4>1. MoveTopicToFront(r, t) = Reordered(r, InsertAt(o, 1, t))
        BY <3>1, <3>3, <3>4, <3>5, <3>7, <3>9
      <4>2. PlacedAt(o, k, t, x) = InsertAt(o, 1, t)
        BY <1>9, <3>9 DEF PlacedAt
      <4>3. QED
        BY <3>6, <4>1, <4>2 DEF r
    <3>10. QED
      BY <3>8, <3>9
  <2>4. QED
    BY <1>1, <1>2, <1>9, <2>2, <2>3 DEF d
<1>10. QED
  BY <1>8, <1>9

----------------------------------------------------------------------------
(* All topics of a snapshot.                                             *)

\* The first n topics of a snapshot as they are read
ReadTopics(g, s, order, n) ==
    g = [i \in 0..n |-> IF i = 0 THEN EmptyStore ELSE SnapshotTopic(s, g[i - 1], order[i])]

\* There is such a sequence of readings.
LEMMA ReadTopicsExists ==
    ASSUME NEW s, NEW order
    PROVE  \A n \in Nat : \E g : ReadTopics(g, s, order, n)
<1> DEFINE S == {n \in Nat : \E g : ReadTopics(g, s, order, n)}
<1>1. 0 \in S
  <2> DEFINE g == [i \in 0..0 |-> EmptyStore]
  <2>1. ReadTopics(g, s, order, 0)
    BY DEF ReadTopics
  <2>2. QED
    BY <2>1
<1>2. ASSUME NEW n \in Nat, n \in S PROVE n + 1 \in S
  <2>1. PICK f : ReadTopics(f, s, order, n)
    BY <1>2
  <2> DEFINE v == SnapshotTopic(s, f[n], order[n + 1])
             g == [i \in 0..(n + 1) |-> IF i = n + 1 THEN v ELSE f[i]]
  <2>2. ASSUME NEW i \in 0..(n + 1)
        PROVE  g[i] = IF i = 0 THEN EmptyStore ELSE SnapshotTopic(s, g[i - 1], order[i])
    <3>1. CASE i = n + 1
      <4>1. i # 0 /\ i - 1 = n /\ n \in 0..(n + 1) /\ n # n + 1
        BY <3>1
      <4>2. g[i] = v /\ g[i - 1] = f[n]
        BY <3>1, <4>1
      <4>3. QED
        BY <3>1, <4>1, <4>2
    <3>2. CASE i # n + 1
      <4>1. i \in 0..n /\ (i # 0 => i - 1 \in 0..(n + 1) /\ i - 1 # n + 1)
        BY <3>2
      <4>2. f[i] = IF i = 0 THEN EmptyStore ELSE SnapshotTopic(s, f[i - 1], order[i])
        BY <2>1, <4>1 DEF ReadTopics
      <4>3. g[i] = f[i] /\ (i # 0 => g[i - 1] = f[i - 1])
        BY <3>2, <4>1
      <4>4. QED
        BY <4>2, <4>3
    <3>3. QED
      BY <3>1, <3>2
  <2>3. ReadTopics(g, s, order, n + 1)
    <3>1. \A i \in 0..(n + 1) : g[i] = IF i = 0 THEN EmptyStore ELSE SnapshotTopic(s, g[i - 1], order[i])
      BY <2>2
    <3>2. g = [i \in 0..(n + 1) |-> g[i]]
      OBVIOUS
    <3> HIDE DEF g
    <3>3. QED
      BY <3>1, <3>2, Zenon DEF ReadTopics
  <2>4. QED
    BY <2>3
<1>3. QED
  BY <1>1, <1>2, Induct

\* The recursive function of TopicsInOrder is that sequence.
LEMMA TopicsUnfold ==
    ASSUME NEW s, NEW order, Len(order) \in Nat
    PROVE  \E g : ReadTopics(g, s, order, Len(order)) /\ TopicsInOrder(s, order) = g[Len(order)]
<1> DEFINE g == CHOOSE g : ReadTopics(g, s, order, Len(order))
<1>1. ReadTopics(g, s, order, Len(order))
  BY ReadTopicsExists, Zenon
<1>2. TopicsInOrder(s, order) = g[Len(order)]
  BY Zenon DEF TopicsInOrder, ReadTopics
<1>3. QED
  BY <1>1, <1>2

\* What a snapshot of s can be made of
Writable(s) ==
    /\ s.order \in Seq(TopicID) /\ IsInjective(s.order) /\ Range(s.order) = DOMAIN s.topics
    /\ s.topics \in [DOMAIN s.topics -> Topic]
    /\ \A t \in DOMAIN s.topics : Len(s.topics[t].posts) <= MaxPosts

\* The stickies lead the list of s, and none of them but the last is saged.
LeadIn(s) ==
    \A i, j \in DOMAIN s.order : i < j =>
        (s.topics[s.order[j]].sticky => s.topics[s.order[i]].sticky /\ ~ s.topics[s.order[i]].saged)

\* The topics of s that are in o
Those(s, o) == [u \in Range(o) |-> s.topics[u]]

\* The last n topics of a list
LastOf(o, n) == SubSeq(o, Len(o) - n + 1, Len(o))

\* One topic more
LEMMA PutThose ==
    ASSUME NEW s, NEW o, NEW r, NEW t, Range(r) = Range(o) \cup {t}
    PROVE  Put(Those(s, o), t, s.topics[t]) = Those(s, r)
BY DEF Put, Those

\* The topics of the last n places of s
Behind(s, n) == {s.order[j] : j \in (Len(s.order) - n + 1)..Len(s.order)}

\* The topic before the last n, put before them
LEMMA LastGrows ==
    ASSUME NEW l \in Seq(TopicID), NEW n \in Nat, n < Len(l)
    PROVE  InsertAt(LastOf(l, n), 1, l[Len(l) - n]) = LastOf(l, n + 1)
<1> DEFINE N == Len(l)
           a == LastOf(l, n)
           b == LastOf(l, n + 1)
           t == l[N - n]
           r == InsertAt(a, 1, t)
<1>0. N \in Nat /\ n < N /\ N - n \in 1..N
  OBVIOUS
<1>1. t \in TopicID
  BY <1>0
<1>2. a \in Seq(TopicID) /\ Len(a) = n /\ \A j \in 1..n : a[j] = l[N - n + j]
  <2>1. /\ SubSeq(l, N - n + 1, N) \in Seq(TopicID) /\ Len(SubSeq(l, N - n + 1, N)) = n
        /\ \A j \in 1..n : SubSeq(l, N - n + 1, N)[j] = l[N - n + 1 + j - 1]
    BY <1>0
  <2>2. \A j \in 1..n : N - n + 1 + j - 1 = N - n + j
    BY <1>0
  <2>3. QED
    BY <2>1, <2>2 DEF LastOf
<1>3. b \in Seq(TopicID) /\ Len(b) = n + 1 /\ \A j \in 1..(n + 1) : b[j] = l[N - n - 1 + j]
  <2>1. /\ SubSeq(l, N - n, N) \in Seq(TopicID) /\ Len(SubSeq(l, N - n, N)) = n + 1
        /\ \A j \in 1..(n + 1) : SubSeq(l, N - n, N)[j] = l[N - n + j - 1]
    BY <1>0
  <2>2. N - (n + 1) + 1 = N - n /\ \A j \in 1..(n + 1) : N - n + j - 1 = N - n - 1 + j
    BY <1>0
  <2>3. QED
    BY <2>1, <2>2 DEF LastOf
<1> HIDE DEF a, b, N
<1>4. /\ r \in Seq(TopicID) /\ Len(r) = n + 1
      /\ \A j \in 1..(n + 1) : r[j] = IF j < 1 THEN a[j] ELSE IF j = 1 THEN t ELSE a[j - 1]
  <2> HIDE DEF t
  <2>1. PICK i : i = 1
    OBVIOUS
  <2>2. i \in 1..(Len(a) + 1)
    BY <1>2, <2>1
  <2>3. /\ InsertAt(a, i, t) \in Seq(TopicID) /\ Len(InsertAt(a, i, t)) = Len(a) + 1
        /\ \A j \in 1..(Len(a) + 1) :
              InsertAt(a, i, t)[j] = IF j < i THEN a[j] ELSE IF j = i THEN t ELSE a[j - 1]
    <3>1. a \in Seq(TopicID)
      BY <1>2
    <3>2. QED
      BY <1>1, <2>2, <3>1, InsertAtProperties
  <2>4. QED
    BY <1>2, <2>1, <2>3
<1> HIDE DEF r
<1>5. ASSUME NEW j \in 1..(n + 1) PROVE r[j] = b[j]
  <2>1. CASE j = 1
    <3>1. N - n - 1 + 1 = N - n
      BY <1>0
    <3>2. QED
      BY <1>3, <1>4, <2>1, <3>1
  <2>2. CASE j # 1
    <3>1. j - 1 \in 1..n /\ N - n + (j - 1) = N - n - 1 + j /\ ~ j < 1
      BY <1>0, <2>2
    <3>2. r[j] = a[j - 1]
      BY <1>4, <2>2, <3>1
    <3>3. a[j - 1] = l[N - n + (j - 1)]
      BY <1>2, <3>1
    <3>4. b[j] = l[N - n - 1 + j]
      BY <1>3
    <3>5. QED
      BY <3>1, <3>2, <3>3, <3>4
  <2>3. QED
    BY <2>1, <2>2
<1>6. r = b
  BY <1>3, <1>4, <1>5, SeqEqual
<1>7. QED
  BY <1>6 DEF r, a, b, t, N

\* Wherever a topic is put, the list is whole.
LEMMA PlacedFacts ==
    ASSUME NEW T, NEW o, IsList(T, o), NEW t \in TopicID, t \notin Range(o), NEW x, NEW k, InFront(T, o, k)
    PROVE  /\ PlacedAt(o, k, t, x) \in Seq(TopicID) /\ IsInjective(PlacedAt(o, k, t, x))
           /\ Range(PlacedAt(o, k, t, x)) = Range(o) \cup {t}
           /\ Len(PlacedAt(o, k, t, x)) = Len(o) + 1
<1>1. o \in Seq(TopicID) /\ IsInjective(o) /\ k \in 1..(Len(o) + 1) /\ 1 \in 1..(Len(o) + 1)
  BY DEF IsList, InFront
<1>2. \A i \in 1..(Len(o) + 1) :
         /\ InsertAt(o, i, t) \in Seq(TopicID) /\ IsInjective(InsertAt(o, i, t))
         /\ Range(InsertAt(o, i, t)) = Range(o) \cup {t} /\ Len(InsertAt(o, i, t)) = Len(o) + 1
  BY <1>1, InsertProperties
<1>3. QED
  BY <1>1, <1>2 DEF PlacedAt

\* One topic more
LEMMA BehindGrows ==
    ASSUME NEW s, Writable(s), NEW n \in Nat, n < Len(s.order)
    PROVE  /\ s.order[Len(s.order) - n] \in DOMAIN s.topics /\ s.order[Len(s.order) - n] \in TopicID
           /\ s.order[Len(s.order) - n] \notin Behind(s, n)
           /\ Behind(s, n + 1) = Behind(s, n) \cup {s.order[Len(s.order) - n]}
<1> DEFINE l == s.order
           N == Len(s.order)
<1>0. l \in Seq(TopicID) /\ IsInjective(l) /\ Range(l) = DOMAIN s.topics
  BY DEF Writable
<1>1. N \in Nat /\ N - n \in 1..N /\ DOMAIN l = 1..N
  BY <1>0
<1> HIDE DEF l, N
<1>2. l[N - n] \in DOMAIN s.topics /\ l[N - n] \in TopicID
  BY <1>0, <1>1 DEF Range
<1>3. ASSUME NEW j \in (N - n + 1)..N, l[j] = l[N - n] PROVE FALSE
  <2>1. j \in DOMAIN l /\ N - n \in DOMAIN l /\ j # N - n
    BY <1>1
  <2>2. QED
    BY <1>0, <1>3, <2>1 DEF IsInjective
<1>4. \A j : j \in (N - (n + 1) + 1)..N <=> j \in (N - n + 1)..N \/ j = N - n
  BY <1>1
<1>5. {l[j] : j \in (N - (n + 1) + 1)..N} = {l[j] : j \in (N - n + 1)..N} \cup {l[N - n]}
  BY <1>4
<1>6. QED
  BY <1>2, <1>3, <1>5 DEF Behind, l, N

\* One topic more is read.
LEMMA OneMore ==
    ASSUME NEW s, Writable(s), NEW n \in Nat, n < Len(s.order),
           NEW o \in Seq(TopicID), IsInjective(o), Range(o) = Behind(s, n), Len(o) = n
    PROVE  \E r \in Seq(TopicID) :
              /\ IsInjective(r) /\ Range(r) = Behind(s, n + 1) /\ Len(r) = n + 1
              /\ SnapshotTopic(s, Reading(Those(s, o), o, n), s.order[Len(s.order) - n])
                    = Reading(Those(s, r), r, n + 1)
              /\ LeadIn(s) /\ o = LastOf(s.order, n) => r = LastOf(s.order, n + 1)
<1> DEFINE t == s.order[Len(s.order) - n]
           T == Those(s, o)
           x == s.topics[t]
           l == s.order
           N == Len(s.order)
<1>0. l \in Seq(TopicID) /\ N \in Nat /\ N - n \in 1..N /\ DOMAIN l = 1..N
  BY DEF Writable
<1>1. IsList(T, o)
  BY DEF IsList, Those
<1>2. t \in DOMAIN s.topics /\ t \in TopicID /\ t \notin Range(o) /\ Behind(s, n + 1) = Range(o) \cup {t}
  BY BehindGrows
<1>3. x \in Topic /\ Len(x.posts) <= MaxPosts
  BY <1>2 DEF Writable
<1> HIDE DEF t, T, N
<1>x. x = s.topics[t]
  OBVIOUS
<1> HIDE DEF x
<1>4. PICK k : /\ InFront(T, o, k)
               /\ SnapshotTopic(s, Reading(T, o, n), t) = Reading(Put(T, t, x), PlacedAt(o, k, t, x), n + 1)
  <2>1. t \in TopicID /\ t \notin Range(o)
    BY <1>2
  <2>2. x \in Topic /\ Len(x.posts) <= MaxPosts
    BY <1>3
  <2>3. QED
    BY <1>1, <1>x, <2>1, <2>2, TopicReads
<1> DEFINE r == PlacedAt(o, k, t, x)
<1>5. r \in Seq(TopicID) /\ IsInjective(r) /\ Range(r) = Range(o) \cup {t} /\ Len(r) = n + 1
  BY <1>1, <1>2, <1>4, PlacedFacts
<1>6. Put(T, t, x) = Those(s, r)
  BY <1>5, PutThose DEF T, x
<1>7. ASSUME LeadIn(s), o = LastOf(l, n) PROVE r = LastOf(l, n + 1)
  <2>1. InsertAt(o, 1, t) = LastOf(l, n + 1)
    BY <1>0, <1>7, LastGrows DEF t, N
  <2>2. CASE x.sticky /\ ~ x.saged
    BY <2>1, <2>2 DEF PlacedAt
  <2>3. CASE ~ (x.sticky /\ ~ x.saged)
    <3>1. k = 1
      <4> SUFFICES ASSUME k # 1 PROVE FALSE
        OBVIOUS
      <4>1. k \in 1..(Len(o) + 1) /\ Len(o) \in Nat /\ 1 \in 1..(k - 1) /\ 1 \in DOMAIN o
        BY <1>4 DEF InFront
      <4>2. T[o[1]].sticky
        BY <1>4, <4>1 DEF InFront
      <4>3. o[1] \in Range(o)
        BY <4>1 DEF Range
      <4>4. s.topics[o[1]].sticky
        BY <4>2, <4>3 DEF T, Those
      <4>5. o[1] = l[N - n + 1] /\ N - n + 1 \in 1..N
        <5>1. Len(LastOf(l, n)) = n
          BY <1>0 DEF LastOf
        <5>2. n >= 1
          BY <1>7, <4>1, <5>1
        <5>3. LastOf(l, n)[1] = l[N - n + 1]
          BY <1>0, <5>2 DEF LastOf
        <5>4. QED
          BY <1>0, <1>7, <5>2, <5>3
      <4>6. N - n < N - n + 1 /\ N - n \in DOMAIN l /\ N - n + 1 \in DOMAIN l
        BY <1>0, <4>5
      <4> HIDE DEF l
      <4>7. QED
        BY <1>7, <2>3, <4>4, <4>5, <4>6 DEF LeadIn, t, l, N, x
    <3>2. QED
      BY <2>1, <2>3, <3>1 DEF PlacedAt
  <2>4. QED
    BY <2>2, <2>3
<1> HIDE DEF r, l
<1>8. SnapshotTopic(s, Reading(T, o, n), t) = Reading(Those(s, r), r, n + 1)
  BY <1>4, <1>6 DEF r
<1>9. QED
  BY <1>2, <1>5, <1>7, <1>8 DEF t, T, l, N

\* SnapshotStore goes from the last topic to the first.
LEMMA ReversedAt ==
    ASSUME NEW l \in Seq(TopicID), NEW n \in Nat, n < Len(l)
    PROVE  Reverse(l)[n + 1] = l[Len(l) - n] /\ Len(Reverse(l)) = Len(l)
<1>1. n + 1 \in 1..Len(l) /\ Len(l) - (n + 1) + 1 = Len(l) - n
  OBVIOUS
<1>2. QED
  BY <1>1 DEF Reverse

\* All of them
LEMMA ThoseAll ==
    ASSUME NEW s, NEW r, s.topics \in [DOMAIN s.topics -> Topic], Range(r) = DOMAIN s.topics
    PROVE  Those(s, r) = s.topics
BY DEF Those

\* None of them, and all of them
LEMMA NoneBehind ==
    ASSUME NEW s, Writable(s)
    PROVE  /\ Behind(s, 0) = {} /\ Behind(s, Len(s.order)) = DOMAIN s.topics
           /\ LastOf(s.order, 0) = <<>> /\ LastOf(s.order, Len(s.order)) = s.order
<1> DEFINE l == s.order
           N == Len(l)
<1>0. l \in Seq(TopicID) /\ N \in Nat /\ Range(l) = DOMAIN s.topics /\ DOMAIN l = 1..N
  BY DEF Writable
<1>1. (N - 0 + 1)..N = {} /\ N - N + 1 = 1 /\ N - 0 + 1 = N + 1
  BY <1>0
<1>2. {l[j] : j \in 1..N} = Range(l)
  BY <1>0 DEF Range
<1>3. SubSeq(l, N + 1, N) = <<>> /\ SubSeq(l, 1, N) = l
  BY <1>0
<1>4. Behind(s, 0) = {}
  BY <1>1 DEF Behind
<1>5. Behind(s, N) = DOMAIN s.topics
  BY <1>0, <1>1, <1>2 DEF Behind
<1>6. LastOf(l, 0) = <<>> /\ LastOf(l, N) = l
  BY <1>1, <1>3 DEF LastOf
<1>7. QED
  BY <1>4, <1>5, <1>6

\* The topics of a snapshot, read back: all of them are there, and in their
\* order if the stickies lead.
LEMMA TopicsRead ==
    ASSUME NEW s, Writable(s)
    PROVE  \E r \in Seq(TopicID) :
              /\ IsInjective(r) /\ Range(r) = DOMAIN s.topics /\ Len(r) = Len(s.order)
              /\ SnapshotTopics(s) = Reading(s.topics, r, Len(s.order))
              /\ LeadIn(s) => r = s.order
<1> DEFINE l == s.order
           N == Len(l)
           rev == Reverse(l)
           ReadAs(n, e, r) == /\ IsInjective(r) /\ Range(r) = Behind(s, n) /\ Len(r) = n
                              /\ e = Reading(Those(s, r), r, n)
                              /\ LeadIn(s) => r = LastOf(l, n)
<1>0. l \in Seq(TopicID) /\ N \in Nat
  BY DEF Writable
<1>1. Len(rev) = N /\ \A n \in Nat : n < N => rev[n + 1] = l[N - n]
  <2>1. CASE N = 0
    BY <1>0, <2>1 DEF Reverse
  <2>2. CASE N > 0
    BY <1>0, <2>2, ReversedAt
  <2>3. QED
    BY <1>0, <2>1, <2>2
<1>2. PICK g : ReadTopics(g, s, rev, N) /\ SnapshotTopics(s) = g[N]
  <2> HIDE DEF N, rev
  <2>1. Len(rev) \in Nat
    BY <1>0, <1>1
  <2>2. \E g : ReadTopics(g, s, rev, Len(rev)) /\ TopicsInOrder(s, rev) = g[Len(rev)]
    BY <2>1, TopicsUnfold
  <2>3. \E g : ReadTopics(g, s, rev, N) /\ TopicsInOrder(s, rev) = g[N]
    BY <1>1, <2>2
  <2>4. QED
    BY <2>3, Zenon DEF SnapshotTopics, rev
<1>3. \A i \in 0..N : g[i] = IF i = 0 THEN EmptyStore ELSE SnapshotTopic(s, g[i - 1], rev[i])
  BY <1>2 DEF ReadTopics
<1> HIDE DEF rev
<1>4. ReadAs(0, g[0], <<>>) /\ <<>> \in Seq(TopicID)
  <2>1. g[0] = EmptyStore
    BY <1>0, <1>3
  <2>2. Range(<<>>) = {} /\ IsInjective(<<>>) /\ <<>> \in Seq(TopicID)
    BY DEF Range, IsInjective
  <2>3. Those(s, <<>>) = <<>>
    BY <2>2 DEF Those
  <2>4. Behind(s, 0) = {} /\ LastOf(l, 0) = <<>>
    BY NoneBehind
  <2> HIDE DEF l
  <2>5. g[0] = Reading(Those(s, <<>>), <<>>, 0)
    BY <2>1, <2>3, StartsEmpty
  <2>6. QED
    BY <2>2, <2>4, <2>5
<1> DEFINE S == {n \in Nat : n <= N => \E r \in Seq(TopicID) : ReadAs(n, g[n], r)}
<1>5. ASSUME NEW n \in Nat, n + 1 <= N, NEW o \in Seq(TopicID), ReadAs(n, g[n], o)
      PROVE  \E r \in Seq(TopicID) : ReadAs(n + 1, g[n + 1], r)
  <2>1. n < N /\ n + 1 \in 0..N /\ n + 1 # 0 /\ n + 1 - 1 = n
    BY <1>0, <1>5
  <2>2. g[n + 1] = SnapshotTopic(s, Reading(Those(s, o), o, n), l[N - n])
    <3> HIDE DEF l, N
    <3>1. g[n + 1] = SnapshotTopic(s, g[n], rev[n + 1])
      BY <1>3, <2>1
    <3>2. QED
      BY <1>1, <1>5, <2>1, <3>1
  <2>3. \E r \in Seq(TopicID) :
              /\ IsInjective(r) /\ Range(r) = Behind(s, n + 1) /\ Len(r) = n + 1
              /\ SnapshotTopic(s, Reading(Those(s, o), o, n), s.order[Len(s.order) - n])
                    = Reading(Those(s, r), r, n + 1)
              /\ LeadIn(s) /\ o = LastOf(s.order, n) => r = LastOf(s.order, n + 1)
    BY <1>5, <2>1, OneMore
  <2> HIDE DEF N
  <2>4. QED
    BY <1>5, <2>2, <2>3 DEF N
<1>6. N \in S
  <2> HIDE DEF ReadAs
  <2>1. 0 \in S
    BY <1>4
  <2>2. \A n \in Nat : n \in S => n + 1 \in S
    <3>1. ASSUME NEW n \in Nat, n \in S, n + 1 <= N PROVE \E r \in Seq(TopicID) : ReadAs(n + 1, g[n + 1], r)
      <4>1. PICK o \in Seq(TopicID) : ReadAs(n, g[n], o)
        BY <1>0, <3>1
      <4>2. QED
        BY <1>5, <3>1, <4>1
    <3>2. QED
      BY <3>1
  <2> HIDE DEF S
  <2>3. QED
    BY <1>0, <2>1, <2>2, Induct
<1>7. PICK r \in Seq(TopicID) : ReadAs(N, g[N], r)
  BY <1>0, <1>6
<1>8. Behind(s, N) = DOMAIN s.topics /\ LastOf(l, N) = l
  BY NoneBehind
<1> HIDE DEF N
<1>9. Those(s, r) = s.topics
  BY <1>7, <1>8, ThoseAll DEF Writable
<1>10. QED
  BY <1>2, <1>7, <1>8, <1>9 DEF N

----------------------------------------------------------------------------
(* The blocked terms.                                                    *)

\* The function that FoldSet is defined by, on the subsets of the terms
Blocks(f, d, S) ==
    f = [s \in SUBSET S |-> IF s = {} THEN d
                            ELSE OP_BLOCK(f[s \ {CHOOSE x \in s : TRUE}], CHOOSE x \in s : TRUE)]

\* FoldSet applies that function to the whole set.
LEMMA FoldIs ==
    ASSUME NEW d, NEW S
    PROVE  FoldSet(LAMBDA term, e : OP_BLOCK(e, term), d, S) = (CHOOSE f : Blocks(f, d, S))[S]
BY Zenon DEF FoldSet, MapThenFoldSet, Blocks

\* With these terms blocked
Blocking(d, S) == [d EXCEPT !.blocked = S]

\* OP_BLOCK adds a term that is not blocked yet.
LEMMA BlockOne ==
    \A d, s : \A x \in s : d.blocked = {} /\ Blocking(d, {}) = d =>
                 OP_BLOCK(Blocking(d, s \ {x}), x) = Blocking(d, s)
<1> SUFFICES ASSUME NEW d, NEW s, NEW x \in s, d.blocked = {}, Blocking(d, {}) = d
             PROVE  OP_BLOCK(Blocking(d, s \ {x}), x) = Blocking(d, s)
  OBVIOUS
<1>1. Toggle(s \ {x}, x) = s
  BY DEF Toggle
<1>2. CASE "blocked" \in DOMAIN d
  <2>1. Blocking(d, s \ {x}).blocked = s \ {x}
    BY <1>2 DEF Blocking
  <2>2. OP_BLOCK(Blocking(d, s \ {x}), x) = [Blocking(d, s \ {x}) EXCEPT !.blocked = Toggle(s \ {x}, x)]
    BY <2>1 DEF OP_BLOCK
  <2>3. [Blocking(d, s \ {x}) EXCEPT !.blocked = s] = Blocking(d, s)
    BY DEF Blocking
  <2>4. QED
    BY <1>1, <2>2, <2>3
<1>3. CASE "blocked" \notin DOMAIN d
  BY <1>3 DEF OP_BLOCK, Blocking
<1>4. QED
  BY <1>2, <1>3

\* Whatever the order of the terms: a least set for which the result were
\* another one would have one term more than another such set.
LEMMA BlocksOf ==
    ASSUME NEW d, d.blocked = {}, Blocking(d, {}) = d, NEW S, IsFiniteSet(S), NEW f, Blocks(f, d, S)
    PROVE  f[S] = Blocking(d, S)
<1> DEFINE Bad == {s \in SUBSET S : f[s] # Blocking(d, s)}
           Sizes == {Cardinality(s) : s \in Bad}
<1>1. ASSUME NEW s \in SUBSET S PROVE IsFiniteSet(s) /\ Cardinality(s) \in Nat
  BY FS_Subset, FS_CardinalityType
<1>2. \A s \in SUBSET S : f[s] = IF s = {} THEN d
                                 ELSE OP_BLOCK(f[s \ {CHOOSE x \in s : TRUE}], CHOOSE x \in s : TRUE)
  BY DEF Blocks
<1>3. Bad = {}
  <2> SUFFICES ASSUME Bad # {} PROVE FALSE
    OBVIOUS
  <2>1. Sizes \subseteq Nat /\ Sizes # {}
    BY <1>1
  <2>2. PICK n \in Sizes : \A m \in Sizes : n <= m
    BY <2>1, MinIsLeast
  <2>3. PICK s \in Bad : n = Cardinality(s)
    BY <2>2
  <2>4. s # {}
    BY <1>2, <2>3
  <2> DEFINE x == CHOOSE x \in s : TRUE
             t == s \ {x}
  <2>5. x \in s
    BY <2>4
  <2> HIDE DEF x
  <2>6. t \in SUBSET S /\ Cardinality(t) = Cardinality(s) - 1
    BY <1>1, <2>5, FS_RemoveElement
  <2>7. t \notin Bad
    <3> SUFFICES ASSUME t \in Bad PROVE FALSE
      OBVIOUS
    <3>1. Cardinality(t) \in Sizes
      OBVIOUS
    <3>2. n <= Cardinality(t) /\ n \in Nat
      BY <2>1, <2>2, <3>1
    <3>3. QED
      BY <2>3, <2>6, <3>2
  <2>8. f[t] = Blocking(d, t)
    BY <2>6, <2>7
  <2>9. f[s] = OP_BLOCK(f[t], x)
    BY <1>2, <2>4 DEF x
  <2>10. OP_BLOCK(Blocking(d, t), x) = Blocking(d, s)
    BY <2>5, BlockOne
  <2>11. QED
    BY <2>3, <2>8, <2>9, <2>10
<1>4. QED
  BY <1>3

\* There is such a function.
LEMMA BlocksExists ==
    ASSUME NEW d, d.blocked = {}, Blocking(d, {}) = d, NEW S
    PROVE  \E f : Blocks(f, d, S)
<1> DEFINE f == [s \in SUBSET S |-> Blocking(d, s)]
<1>1. ASSUME NEW s \in SUBSET S
      PROVE  f[s] = IF s = {} THEN d ELSE OP_BLOCK(f[s \ {CHOOSE x \in s : TRUE}], CHOOSE x \in s : TRUE)
  <2> DEFINE x == CHOOSE x \in s : TRUE
  <2>1. CASE s = {}
    BY <2>1
  <2>2. CASE s # {}
    <3>1. x \in s
      BY <2>2
    <3> HIDE DEF x
    <3>2. f[s \ {x}] = Blocking(d, s \ {x}) /\ f[s] = Blocking(d, s)
      OBVIOUS
    <3>3. OP_BLOCK(Blocking(d, s \ {x}), x) = Blocking(d, s)
      BY <3>1, BlockOne
    <3>4. QED
      BY <2>2, <3>2, <3>3 DEF x
  <2>3. QED
    BY <2>1, <2>2
<1>2. f = [s \in SUBSET S |-> f[s]]
  OBVIOUS
<1> HIDE DEF f
<1>3. Blocks(f, d, S)
  BY <1>1, <1>2, Zenon DEF Blocks
<1>4. QED
  BY <1>3

\* All terms of a finite set are blocked.
LEMMA BlocksAll ==
    ASSUME NEW d, d.blocked = {}, Blocking(d, {}) = d, NEW S, IsFiniteSet(S)
    PROVE  FoldSet(LAMBDA term, e : OP_BLOCK(e, term), d, S) = Blocking(d, S)
<1> DEFINE f == CHOOSE f : Blocks(f, d, S)
<1>1. Blocks(f, d, S)
  BY BlocksExists, Zenon
<1>2. f[S] = Blocking(d, S)
  <2> HIDE DEF f
  <2>1. QED
    BY <1>1, BlocksOf
<1>3. QED
  BY <1>2, FoldIs, Zenon

----------------------------------------------------------------------------
(* The whole snapshot.                                                   *)

\* OP_TOPICNUM sets the counter; no terms are blocked so far.
LEMMA StoreOfFields ==
    \A T, o, n, l :
        /\ OP_TOPICNUM(Reading(T, o, n), l) = Loaded(T, o, l, n)
        /\ Loaded(T, o, l, n).blocked = EmptyStore.blocked
        /\ Blocking(Loaded(T, o, l, n), EmptyStore.blocked) = Loaded(T, o, l, n)
BY SMT DEF OP_TOPICNUM, Reading, Loaded, Blocking

\* A store by its fields
Fields(T, o, n, l, B, c, m) ==
    [topics |-> T, order |-> o, count |-> l, live |-> n, blocked |-> B,
     maxLive |-> m, config |-> c, panic |-> EmptyStore.panic]

\* The other settings complete the store.
LEMMA SettledIs ==
    \A T, o, n, l, B, c, m :
        OP_MAXTOPICS(OP_CONFIG(Blocking(Loaded(T, o, l, n), B), c), m) = Fields(T, o, n, l, B, c, m)
<1> SUFFICES ASSUME NEW T, NEW o, NEW n, NEW l, NEW B, NEW c, NEW m
             PROVE  OP_MAXTOPICS(OP_CONFIG(Blocking(Loaded(T, o, l, n), B), c), m) = Fields(T, o, n, l, B, c, m)
  OBVIOUS
<1>1. Blocking(Loaded(T, o, l, n), B) = Fields(T, o, n, l, B, EmptyStore.config, EmptyStore.maxLive)
  BY SMT DEF Loaded, Blocking, Fields
<1>2. OP_CONFIG(Fields(T, o, n, l, B, EmptyStore.config, EmptyStore.maxLive), c)
         = Fields(T, o, n, l, B, c, EmptyStore.maxLive)
  BY SMT DEF OP_CONFIG, Fields
<1>3. OP_MAXTOPICS(Fields(T, o, n, l, B, c, EmptyStore.maxLive), m) = Fields(T, o, n, l, B, c, m)
  BY SMT DEF OP_MAXTOPICS, Fields
<1>4. QED
  BY <1>1, <1>2, <1>3

\* A store is the record of its fields.
LEMMA StoreIsFields ==
    ASSUME NEW s, StoreType(s), ~ s.panic, NEW o
    PROVE  Reordered(s, o) = Fields(s.topics, o, s.live, s.count, s.blocked, s.config, s.maxLive)
<1>1. EmptyStore.panic = FALSE
  BY DEF EmptyStore
<1>2. s.panic = EmptyStore.panic
  BY <1>1 DEF StoreType
<1>3. QED
  BY <1>2, SMT DEF StoreType, Reordered, Fields

\* What is needed of a store to be written and read back
Storable(s) ==
    /\ StoreType(s) /\ ListOK(s) /\ ~ s.panic
    /\ \A t \in DOMAIN s.topics : Len(s.topics[t].posts) <= MaxPosts
    /\ IsFiniteSet(s.blocked)

\* A snapshot gives back everything but the order, and that too if the
\* stickies lead.
LEMMA SnapshotGives ==
    ASSUME NEW s, Storable(s)
    PROVE  \E r \in Seq(TopicID) :
              /\ IsInjective(r) /\ Range(r) = DOMAIN s.topics /\ Len(r) = Len(s.order)
              /\ SnapshotStore(s) = Reordered(s, r)
              /\ LeadIn(s) => r = s.order
<1>1. Writable(s) /\ s.live = Len(s.order)
  BY DEF Writable, Storable, StoreType, ListOK
<1>2. PICK r \in Seq(TopicID) :
              /\ IsInjective(r) /\ Range(r) = DOMAIN s.topics /\ Len(r) = Len(s.order)
              /\ SnapshotTopics(s) = Reading(s.topics, r, Len(s.order))
              /\ LeadIn(s) => r = s.order
  BY <1>1, TopicsRead
<1> DEFINE d == Loaded(s.topics, r, s.count, s.live)
<1>3. OP_TOPICNUM(SnapshotTopics(s), s.count) = d
  BY <1>1, <1>2, StoreOfFields
<1>4. EmptyStore.blocked = {}
  BY DEF EmptyStore
<1>5. d.blocked = {} /\ Blocking(d, {}) = d
  BY <1>4, StoreOfFields
<1>6. IsFiniteSet(s.blocked)
  BY DEF Storable
<1> HIDE DEF d
<1>7. FoldSet(LAMBDA term, e : OP_BLOCK(e, term), d, s.blocked) = Blocking(d, s.blocked)
  BY <1>5, <1>6, BlocksAll
<1>8. SnapshotStore(s) = OP_MAXTOPICS(OP_CONFIG(Blocking(d, s.blocked), s.config), s.maxLive)
  BY <1>3, <1>7, Zenon DEF SnapshotStore
<1>9. SnapshotStore(s) = Fields(s.topics, r, s.live, s.count, s.blocked, s.config, s.maxLive)
  BY <1>8, SettledIs DEF d
<1>10. Reordered(s, r) = Fields(s.topics, r, s.live, s.count, s.blocked, s.config, s.maxLive)
  BY StoreIsFields DEF Storable
<1>11. QED
  BY <1>2, <1>9, <1>10

----------------------------------------------------------------------------
(* What the invariant of Store does not say: the sizes.                  *)

\* No topic holds more posts than findPost can number, no archived one
\* either, and only finitely many terms are blocked.
Bounds ==
    /\ \A t \in DOMAIN db.topics : Len(db.topics[t].posts) <= MaxPosts
    /\ \A t \in DOMAIN files : Len(files[t]) <= MaxPosts
    /\ IsFiniteSet(db.blocked)

\* What is not changed
LEMMA SameBounds ==
    ASSUME Bounds, db'.topics = db.topics, db'.blocked = db.blocked, files' = files
    PROVE  Bounds'
BY DEF Bounds

\* One topic is put in the place of another, or is added.
LEMMA OneTopicBounds ==
    ASSUME Bounds, NEW t, NEW y, Len(y.posts) <= MaxPosts, db'.topics = Put(db.topics, t, y),
           db'.blocked = db.blocked, files' = files
    PROVE  Bounds'
<1>1. ASSUME NEW u \in DOMAIN db'.topics PROVE Len(db'.topics[u].posts) <= MaxPosts
  <2>1. CASE u = t
    BY <2>1 DEF Put
  <2>2. CASE u # t
    <3>1. u \in DOMAIN db.topics /\ db'.topics[u] = db.topics[u]
      BY <1>1, <2>2 DEF Put
    <3>2. QED
      BY <3>1 DEF Bounds
  <2>3. QED
    BY <2>1, <2>2
<1>2. QED
  BY <1>1 DEF Bounds

\* The parts of a store that a move leaves alone, and a change of one topic
LEMMA MovedFields ==
    ASSUME NEW d, StoreType(d), NEW t \in DOMAIN d.topics, NEW y
    PROVE  /\ Changed(d, t, y).topics = Put(d.topics, t, y) /\ Changed(d, t, y).blocked = d.blocked
           /\ MoveTopicToFront(Changed(d, t, y), t).topics = Put(d.topics, t, y)
           /\ MoveTopicToFront(Changed(d, t, y), t).blocked = d.blocked
<1> DEFINE c == Changed(d, t, y)
           o == InsertAt(Unlink(c.order, t), FrontOf(c, t), t)
<1>1. [d.topics EXCEPT ![t] = y] = Put(d.topics, t, y)
  BY DEF Put, StoreType
<1>2. c = [d EXCEPT !.topics = [d.topics EXCEPT ![t] = y]]
  BY DEF Changed
<1>3. c.topics = Put(d.topics, t, y) /\ c.blocked = d.blocked
  BY <1>1, <1>2 DEF StoreType
<1>4. \A u : [c EXCEPT !.order = u].topics = c.topics /\ [c EXCEPT !.order = u].blocked = c.blocked
  <2> DEFINE f == [d.topics EXCEPT ![t] = y]
  <2> HIDE DEF f
  <2>1. \A u : /\ [[d EXCEPT !.topics = f] EXCEPT !.order = u].topics = [d EXCEPT !.topics = f].topics
               /\ [[d EXCEPT !.topics = f] EXCEPT !.order = u].blocked = [d EXCEPT !.topics = f].blocked
    BY DEF StoreType
  <2>2. QED
    BY <1>2, <2>1 DEF f
<1> HIDE DEF c, o
<1>5. MoveTopicToFront(c, t) = c \/ MoveTopicToFront(c, t) = [c EXCEPT !.order = o]
  BY DEF MoveTopicToFront, o
<1>6. MoveTopicToFront(c, t).topics = c.topics /\ MoveTopicToFront(c, t).blocked = c.blocked
  BY <1>4, <1>5
<1>7. QED
  BY <1>3, <1>6 DEF c

\* One topic is changed, and perhaps moved.
LEMMA TopicBounds ==
    ASSUME StoreInv, Bounds, NEW t \in DOMAIN db.topics, NEW y, Len(y.posts) <= MaxPosts, files' = files,
           db' = Changed(db, t, y) \/ db' = MoveTopicToFront(Changed(db, t, y), t)
    PROVE  Bounds'
<1>1. StoreType(db)
  BY DEF StoreInv, Pair, Good, Base
<1>2. db'.topics = Put(db.topics, t, y) /\ db'.blocked = db.blocked
  BY <1>1, MovedFields
<1>3. QED
  BY <1>2, OneTopicBounds

\* Flags of a topic
LEMMA FlagBounds ==
    ASSUME StoreInv, Bounds, NEW t \in TopicID,
           LockFullTopic(t) \/ Sticky(t) \/ Lock(t) \/ FreeReply(t) \/ Sage(t)
    PROVE  Bounds'
<1> DEFINE x == db.topics[t]
<1>1. t \in DOMAIN db.topics /\ files' = files
  BY LinkedTopics DEF LockFullTopic, Sticky, Lock, FreeReply, Sage
<1>2. x \in Topic /\ Len(x.posts) <= MaxPosts
  BY <1>1 DEF StoreInv, Pair, Good, Base, StoreType, Bounds
<1>3. \E y : /\ y.posts = x.posts
             /\ db' = Changed(db, t, y) \/ db' = MoveTopicToFront(Changed(db, t, y), t)
  <2>1. CASE LockFullTopic(t)
    <3> DEFINE y == [x EXCEPT !.locked = TRUE]
    <3>1. y.posts = x.posts
      BY <1>2 DEF Topic
    <3>2. db' = Changed(db, t, y)
      BY <2>1 DEF LockFullTopic, Changed
    <3>3. QED
      BY <3>1, <3>2
  <2>2. CASE Lock(t)
    <3> DEFINE y == [x EXCEPT !.locked = ~ @]
    <3>1. y.posts = x.posts
      BY <1>2 DEF Topic
    <3>2. db' = Changed(db, t, y)
      BY <2>2 DEF Lock, Changed
    <3>3. QED
      BY <3>1, <3>2
  <2>3. CASE FreeReply(t)
    <3> DEFINE y == [x EXCEPT !.freeReply = ~ @]
    <3>1. y.posts = x.posts
      BY <1>2 DEF Topic
    <3>2. db' = Changed(db, t, y)
      BY <2>3 DEF FreeReply, Changed
    <3>3. QED
      BY <3>1, <3>2
  <2>4. CASE Sage(t)
    <3> DEFINE y == [x EXCEPT !.saged = ~ @]
    <3>1. y.posts = x.posts
      BY <1>2 DEF Topic
    <3>2. db' = Changed(db, t, y)
      BY <2>4 DEF Sage, Changed
    <3>3. QED
      BY <3>1, <3>2
  <2>5. CASE Sticky(t)
    <3> DEFINE y == [x EXCEPT !.sticky = ~ @]
    <3>1. y.posts = x.posts
      BY <1>2 DEF Topic
    <3>2. db' = MoveTopicToFront(Changed(db, t, y), t)
      BY <2>5 DEF Sticky, Changed
    <3>3. QED
      BY <3>1, <3>2
  <2>6. QED
    BY <2>1, <2>2, <2>3, <2>4, <2>5
<1>4. PICK y : /\ y.posts = x.posts
               /\ db' = Changed(db, t, y) \/ db' = MoveTopicToFront(Changed(db, t, y), t)
  BY <1>3
<1>5. Len(y.posts) <= MaxPosts
  BY <1>2, <1>4
<1>6. QED
  BY <1>1, <1>4, <1>5, TopicBounds

\* Flags and texts of a post
LEMMA PostBounds ==
    ASSUME StoreInv, Bounds, NEW t \in TopicID, NEW n \in Nat, NEW u,
           \/ AppendPost(t, n) \/ DeletePost(u, t, n) \/ FlagPost(u, t, n) \/ FlagNewTopic(t)
    PROVE  Bounds'
<1> DEFINE x == db.topics[t]
           y(i, p) == [x EXCEPT !.posts = [x.posts EXCEPT ![i] = p]]
<1>1. files' = files
  BY DEF AppendPost, DeletePost, FlagPost, FlagNewTopic
<1>2. CASE FlagNewTopic(t) /\ ~ Linked(t)
  BY <1>1, <1>2, SameBounds DEF FlagNewTopic
<1>3. CASE ~ (FlagNewTopic(t) /\ ~ Linked(t))
  <2>1. t \in DOMAIN db.topics
    BY <1>3, LinkedTopics DEF AppendPost, DeletePost, FlagPost, FlagNewTopic, FindPost
  <2>2. x \in Topic /\ Len(x.posts) <= MaxPosts
    BY <2>1 DEF StoreInv, Pair, Good, Base, StoreType, Bounds
  <2>3. \E i, p : db' = Changed(db, t, y(i, p))
    <3>1. CASE AppendPost(t, n)
      <4>1. db' = Changed(db, t, y(n, [x.posts[n] EXCEPT !.pieces = @ + 1]))
        BY <3>1 DEF AppendPost, Changed
      <4>2. QED
        BY <4>1
    <3>2. CASE DeletePost(u, t, n)
      <4>1. db' = Changed(db, t, y(n, [x.posts[n] EXCEPT !.deleted = ~ @]))
        BY <3>2 DEF DeletePost, Changed
      <4>2. QED
        BY <4>1
    <3>3. CASE FlagPost(u, t, n)
      <4>1. db' = Changed(db, t, y(n, [x.posts[n] EXCEPT !.nsfw = ~ @]))
        BY <3>3 DEF FlagPost, Changed
      <4>2. QED
        BY <4>1
    <3>4. CASE FlagNewTopic(t)
      <4>1. db' = Changed(db, t, y(1, [x.posts[1] EXCEPT !.nsfw = TRUE]))
        BY <1>3, <3>4 DEF FlagNewTopic, Changed
      <4>2. QED
        BY <4>1
    <3>5. QED
      BY <3>1, <3>2, <3>3, <3>4
  <2>4. PICK i, p : db' = Changed(db, t, y(i, p))
    BY <2>3
  <2>5. Len(y(i, p).posts) <= MaxPosts
    <3>1. y(i, p).posts = [x.posts EXCEPT ![i] = p]
      BY <2>2 DEF Topic
    <3>2. Len([x.posts EXCEPT ![i] = p]) = Len(x.posts)
      <4>1. x.posts \in Seq(Post) /\ DOMAIN x.posts = 1..Len(x.posts) /\ Len(x.posts) \in Nat
        BY <2>2 DEF Topic
      <4>2. QED
        BY <4>1
    <3>3. QED
      BY <2>2, <3>1, <3>2
  <2> HIDE DEF y
  <2>6. QED
    BY <1>1, <2>1, <2>4, <2>5, TopicBounds
<1>4. QED
  BY <1>2, <1>3

\* Taking a topic out
LEMMA TakeOutBounds ==
    ASSUME StoreInv, Bounds, NEW t, db' = TakeOut(db, t), files' = files
    PROVE  Bounds'
<1>1. StoreType(db)
  BY DEF StoreInv, Pair, Good, Base
<1>2. db'.topics = Drop(db.topics, t) /\ db'.blocked = db.blocked
  BY <1>1 DEF TakeOut, StoreType
<1>3. \A u \in DOMAIN db'.topics : u \in DOMAIN db.topics /\ db'.topics[u] = db.topics[u]
  BY <1>2 DEF Drop
<1>4. QED
  BY <1>2, <1>3 DEF Bounds

\* A topic more
LEMMA NewTopicBounds ==
    ASSUME StoreInv, Bounds, NEW t, NEW p \in Post, db' = WithTopic(db, t, p), files' = files
    PROVE  Bounds'
<1> DEFINE y == [BlankTopic EXCEPT !.posts = <<p>>]
           c == [db EXCEPT !.topics = Put(db.topics, t, y)]
           o == InsertAt(Unlink(c.order, t), FrontOf(c, t), t)
           Raised(e) == [e EXCEPT !.count = db.count + 1, !.live = db.live + 1]
<1>1. StoreType(db)
  BY DEF StoreInv, Pair, Good, Base
<1>2. Len(y.posts) <= MaxPosts
  <2>1. y.posts = <<p>>
    BY DEF BlankTopic
  <2>2. Len(<<p>>) = 1
    BY OnePost
  <2>3. QED
    BY <2>1, <2>2, LogAssumption
<1> HIDE DEF y
<1>3. c.topics = Put(db.topics, t, y) /\ c.blocked = db.blocked
  BY <1>1 DEF StoreType
<1>4. ASSUME NEW e, e = c \/ e = Reordered(c, o)
      PROVE  Raised(e).topics = c.topics /\ Raised(e).blocked = c.blocked
  <2> DEFINE f == Put(db.topics, t, y)
  <2> HIDE DEF f, o
  <2>1. c = [db EXCEPT !.topics = f]
    BY DEF f
  <2> HIDE DEF c
  <2>2. CASE e = c
    BY <1>1, <2>1, <2>2 DEF StoreType
  <2>3. CASE e = Reordered(c, o)
    BY <1>1, <2>1, <2>3 DEF StoreType, Reordered
  <2>4. QED
    BY <1>4, <2>2, <2>3
<1>5. db' = Raised(MoveTopicToFront(c, t))
  BY DEF WithTopic, y
<1> HIDE DEF c, Raised
<1>6. MoveTopicToFront(c, t) = c \/ MoveTopicToFront(c, t) = Reordered(c, o)
  BY DEF MoveTopicToFront, Reordered
<1>7. db'.topics = c.topics /\ db'.blocked = c.blocked
  BY <1>4, <1>5, <1>6
<1>8. QED
  BY <1>2, <1>3, <1>7, OneTopicBounds

\* A post more, in a topic that is not full
LEMMA NewPostBounds ==
    ASSUME StoreInv, Bounds, NEW u \in Users, NEW t, NEW sage \in BOOLEAN, NEW image \in BOOLEAN,
           NewPost(u, t, sage, image)
    PROVE  Bounds'
<1> DEFINE p == NewPostOf(u, sage, image)
           x == db.topics[t]
           y == [x EXCEPT !.posts = Append(x.posts, p)]
<1>1. t \in DOMAIN db.topics /\ files' = files
  BY LinkedTopics DEF NewPost
<1>2. p \in Post
  BY DEF NewPostOf, Post
<1> HIDE DEF p
<1>3. x \in Topic /\ x.posts \in Seq(Post)
  BY <1>1 DEF StoreInv, Pair, Good, Base, StoreType, Topic
<1>4. Len(y.posts) <= MaxPosts
  <2>1. Len(x.posts) < MaxPosts
    BY <1>3, LogAssumption DEF NewPost, Full
  <2>2. y.posts = Append(x.posts, p)
    BY <1>3 DEF Topic
  <2>3. Len(Append(x.posts, p)) = Len(x.posts) + 1 /\ Len(x.posts) \in Nat
    BY <1>2, <1>3
  <2>4. QED
    BY <2>1, <2>2, <2>3, LogAssumption
<1>5. db' = Changed(db, t, y) \/ db' = MoveTopicToFront(Changed(db, t, y), t)
  BY DEF NewPost, Changed, p
<1> HIDE DEF y
<1>6. QED
  BY <1>1, <1>4, <1>5, TopicBounds

\* Every step of Store keeps the bounds.
LEMMA NextBounds ==
    ASSUME StoreInv, Bounds, [Next]_vars
    PROVE  Bounds'
<1>1. Pair(db, disk) /\ StoreType(db) /\ StoreType(disk)
  BY DEF StoreInv, Pair, Good, Base
<1>2. ASSUME NEW u \in Users, NEW sage \in BOOLEAN, NEW image \in BOOLEAN, NEW nsfw \in BOOLEAN,
             NewTopic(u, sage, image, nsfw)
      PROVE  Bounds'
  <2>1. PICK p : p = NewPostOf(u, sage, image)
    OBVIOUS
  <2>2. p \in Post
    BY <2>1 DEF NewPostOf, Post
  <2>3. db' = WithTopic(db, db.count + 1, p) /\ files' = files
    BY <1>2, <2>1 DEF NewTopic, WithTopic
  <2>4. QED
    BY <2>2, <2>3, NewTopicBounds
<1>3. ASSUME NEW t \in TopicID, Purge(t)
      PROVE  Bounds'
  BY <1>3, TakeOutBounds DEF Purge
<1>4. ASSUME NEW term \in Terms, Block(term)
      PROVE  Bounds'
  <2>1. PICK b : b = Toggle(db.blocked, term)
    OBVIOUS
  <2>2. IsFiniteSet(b)
    BY <2>1, FS_AddElement, FS_RemoveElement DEF Bounds, Toggle
  <2>3. db' = [db EXCEPT !.blocked = b] /\ files' = files
    BY <1>4, <2>1 DEF Block
  <2>4. db'.topics = db.topics /\ db'.blocked = b
    BY <1>1, <2>3 DEF StoreType
  <2>5. QED
    BY <2>2, <2>3, <2>4 DEF Bounds
<1>5. ASSUME \/ \E c \in Configs : UpdateConfig(c)
             \/ \E n \in Limits : SetMaxLiveTopics(n)
      PROVE  Bounds'
  <2>1. db'.topics = db.topics /\ db'.blocked = db.blocked /\ files' = files
    BY <1>1, <1>5 DEF UpdateConfig, SetMaxLiveTopics, StoreType
  <2>2. QED
    BY <2>1, SameBounds
<1>6. CASE ArchiveJob
  BY <1>6, SameBounds DEF ArchiveJob
<1>7. ASSUME ArchiveStep \/ ArchiveFail
      PROVE  Bounds'
  <2>1. CASE ArchiveSave
    <3>1. PICK t : t = LastTopic
      OBVIOUS
    <3>2. t \in DOMAIN db.topics
      <4>1. job.pivot # 0 /\ job.pivot \in DOMAIN db.topics
        BY <2>1 DEF ArchiveSave, More, StoreInv, JobOK
      <4>2. db.order # <<>>
        BY <1>1, <4>1, EmptySeq DEF Pair, Good, Base, Range
      <4>3. t \in Range(db.order)
        BY <1>1, <3>1, <4>2, LastIsAPlace DEF LastTopic, StoreType
      <4>4. QED
        BY <1>1, <4>3 DEF Pair, Good, Base
    <3>3. files' = Put(files, t, db.topics[t].posts) /\ db' = db
      BY <2>1, <3>1 DEF ArchiveSave, Marshal
    <3>4. \A u \in DOMAIN files' : Len(files'[u]) <= MaxPosts
      BY <3>2, <3>3 DEF Bounds, Put
    <3>5. QED
      BY <3>3, <3>4 DEF Bounds
  <2>2. CASE ArchiveUnlink
    BY <2>2, TakeOutBounds DEF ArchiveUnlink
  <2>3. CASE ArchiveDone \/ ArchiveFail
    BY <2>3, SameBounds DEF ArchiveDone, ArchiveFail
  <2>4. QED
    BY <1>7, <2>1, <2>2, <2>3 DEF ArchiveStep
<1>8. CASE Restart
  <2>1. db' = disk /\ files' = files
    BY <1>8 DEF Restart
  <2>2. disk.blocked = db.blocked
    BY <1>1 DEF Pair, Alike
  <2>3. ASSUME NEW t \in DOMAIN disk.topics PROVE Len(disk.topics[t].posts) <= MaxPosts
    <3>1. t \in DOMAIN db.topics
      BY <1>1, <2>3 DEF Pair, Alike
    <3>2. Len(disk.topics[t].posts) = Len(db.topics[t].posts)
      BY <1>1, <3>1, PairPosts
    <3>3. QED
      BY <3>1, <3>2 DEF Bounds
  <2>4. QED
    BY <2>1, <2>2, <2>3 DEF Bounds
<1>9. CASE UNCHANGED vars
  BY <1>9, SameBounds DEF vars
<1>10. \A name \in {"sage", "image", "nsfw"} : Option(name) \subseteq BOOLEAN
  BY DEF Option
<1>11. ASSUME NEW t \in TopicID, OperateSage(t) \/ \E u \in Users : SageTopic(u, t)
       PROVE  Sage(t)
  BY <1>11 DEF OperateSage, SageTopic
<1>12. ASSUME NEW n \in Limits, SetMaxLiveTopics(n)
       PROVE  Bounds'
  BY <1>12, SameBounds DEF SetMaxLiveTopics
<1>13. CASE Next
  <2>1. CASE \E u \in Users, sage \in Option("sage"), image \in Option("image") :
                \/ \E nsfw \in Option("nsfw") : NewTopic(u, sage, image, nsfw)
                \/ \E t \in TopicID : NewPost(u, t, sage, image)
    BY <1>2, <1>10, <2>1, NewPostBounds
  <2>2. CASE \E t \in TopicID :
                \/ LockFullTopic(t) \/ Sticky(t) \/ Lock(t) \/ FreeReply(t)
                \/ OperateSage(t) \/ Purge(t) \/ FlagNewTopic(t)
                \/ \E u \in Users : SageTopic(u, t)
                \/ \E n \in 1..MaxPosts :
                     \/ AppendPost(t, n)
                     \/ \E u \in Users : DeletePost(u, t, n) \/ FlagPost(u, t, n)
    <3>1. PICK t \in TopicID :
                \/ LockFullTopic(t) \/ Sticky(t) \/ Lock(t) \/ FreeReply(t)
                \/ OperateSage(t) \/ Purge(t) \/ FlagNewTopic(t)
                \/ \E u \in Users : SageTopic(u, t)
                \/ \E n \in 1..MaxPosts :
                     \/ AppendPost(t, n)
                     \/ \E u \in Users : DeletePost(u, t, n) \/ FlagPost(u, t, n)
      BY <2>2
    <3>2. CASE LockFullTopic(t) \/ Sticky(t) \/ Lock(t) \/ FreeReply(t) \/ Sage(t)
      BY <3>2, FlagBounds
    <3>3. CASE FlagNewTopic(t)
      <4>1. PICK n \in Nat : n = 0
        OBVIOUS
      <4>2. QED
        BY <3>3, <4>1, PostBounds
    <3>4. ASSUME NEW n \in 1..MaxPosts,
                 AppendPost(t, n) \/ \E u \in Users : DeletePost(u, t, n) \/ FlagPost(u, t, n)
          PROVE  Bounds'
      <4>1. n \in Nat
        BY LogAssumption
      <4>2. QED
        BY <3>4, <4>1, PostBounds
    <3>5. QED
      BY <1>3, <1>11, <3>1, <3>2, <3>3, <3>4
  <2>3. QED
    BY <1>4, <1>5, <1>6, <1>7, <1>8, <1>12, <1>13, <2>1, <2>2 DEF Next
<1>14. QED
  BY <1>9, <1>13

----------------------------------------------------------------------------
(* The invariant and the snapshot.                                       *)

\* The invariant of Store, with the bounds.
SnapshotInv == IInv /\ Bounds

\* Whatever the log holds can be written.
LEMMA LogIsStorable ==
    ASSUME SnapshotInv
    PROVE  Storable(disk)
<1>1. Pair(db, disk) /\ Good(disk) /\ Alike(db, disk)
  BY DEF SnapshotInv, IInv, StoreInv, Pair
<1>2. StoreType(disk) /\ ListOK(disk)
  BY <1>1, PairContent DEF Good, Base
<1>3. disk.blocked = db.blocked
  BY <1>1 DEF Alike
<1>4. ASSUME NEW t \in DOMAIN disk.topics PROVE Len(disk.topics[t].posts) <= MaxPosts
  <2>1. t \in DOMAIN db.topics
    BY <1>1, <1>4 DEF Alike
  <2>2. Len(disk.topics[t].posts) = Len(db.topics[t].posts)
    BY <1>1, <2>1, PairPosts
  <2>3. QED
    BY <2>1, <2>2 DEF SnapshotInv, Bounds
<1>5. QED
  BY <1>1, <1>2, <1>3, <1>4 DEF Storable, SnapshotInv, IInv, LogLoads, Bounds

\* Putting a snapshot in the place of the log keeps the invariant: the list may
\* be in another order, with the same topics.
LEMMA ReplaceKeeps ==
    ASSUME SnapshotInv, ReplaceBySnapshot
    PROVE  SnapshotInv' /\ LeavesArchived
<1>1. Pair(db, disk) /\ Good(disk) /\ ~ disk.panic /\ StoreType(disk) /\ Alike(db, disk)
  BY DEF SnapshotInv, IInv, StoreInv, Pair, Good, Base, ReplaceBySnapshot
<1>2. Storable(disk)
  BY <1>1, LogIsStorable
<1>3. PICK r \in Seq(TopicID) :
              /\ IsInjective(r) /\ Range(r) = DOMAIN disk.topics /\ Len(r) = Len(disk.order)
              /\ SnapshotStore(disk) = Reordered(disk, r)
  BY <1>2, SnapshotGives
<1>4. PICK d : d = Reordered(disk, r)
  OBVIOUS
<1>5. /\ db' = d /\ disk' = d /\ flagging' = {} /\ UNCHANGED <<files, purged>>
      /\ job' = Idle
  BY <1>3, <1>4 DEF ReplaceBySnapshot
<1>6. /\ d.topics = disk.topics /\ d.order = r /\ d.count = disk.count /\ d.blocked = disk.blocked
      /\ d.panic = disk.panic
  BY <1>1, <1>4 DEF Reordered, StoreType
<1>7. Pair(d, d)
  <2>1. Pair(disk, disk)
    BY <1>1 DEF Pair, Alike, SameTopic
  <2>2. Pair(d, disk)
    BY <1>3, <1>4, <2>1, ReorderKeepsPair DEF Reordered
  <2>3. Range(r) = DOMAIN d.topics
    BY <1>3, <1>6
  <2>4. Pair(d, Reordered(disk, r))
    BY <1>3, <2>2, <2>3, ReorderKeepsPair DEF Reordered
  <2>5. QED
    BY <1>4, <2>4
<1>8. DOMAIN disk.topics = DOMAIN db.topics /\ disk.count = db.count /\ disk.blocked = db.blocked
  BY <1>1 DEF Alike
<1>9. Range(db.order) = DOMAIN db.topics
  BY <1>1 DEF Pair, Good, Base
<1>10. Range(db'.order) = Range(db.order) /\ db'.count = db.count
  BY <1>3, <1>5, <1>6, <1>8, <1>9
<1>11. NothingLost' /\ LeavesArchived
  BY <1>5, <1>10 DEF SnapshotInv, IInv, StoreInv, NothingLost, LeavesArchived
<1>12. JobOK'
  BY <1>5 DEF JobOK, JobState, Idle
<1>13. LogLoads'
  BY <1>1, <1>5, <1>6 DEF LogLoads
<1>14. StoreInv'
  BY <1>5, <1>7, <1>11, <1>12 DEF SnapshotInv, IInv, StoreInv
<1>15. Bounds'
  BY <1>2, <1>5, <1>6, <1>8 DEF SnapshotInv, Bounds, Storable
<1>16. QED
  BY <1>11, <1>13, <1>14, <1>15 DEF SnapshotInv, IInv

\* The sizes are within their bounds at the start.
LEMMA InitBounds == Init => Bounds
<1> SUFFICES ASSUME Init PROVE Bounds
  OBVIOUS
<1>1. db.topics = <<>> /\ db.blocked = {} /\ files = <<>>
  BY DEF Init, EmptyStore
<1>2. DOMAIN db.topics = {} /\ DOMAIN files = {}
  BY <1>1
<1>3. QED
  BY <1>1, <1>2, FS_EmptySet DEF Bounds

\* The invariant holds in every state, and no step drops a topic that is not
\* archived.
LEMMA SnapshotSpecInv == SnapshotSpec => []SnapshotInv /\ [][LeavesArchived]_vars
<1>1. Init => SnapshotInv
  BY InitIInv, InitBounds DEF SnapshotInv
<1>2. SnapshotInv /\ [SnapshotNext]_vars => SnapshotInv' /\ [LeavesArchived]_vars
  <2>1. ASSUME SnapshotInv, [Next]_vars PROVE SnapshotInv' /\ [LeavesArchived]_vars
    BY <2>1, NextIInv, NextBounds DEF SnapshotInv, IInv
  <2>2. QED
    BY <2>1, ReplaceKeeps DEF SnapshotNext
<1>3. QED
  BY <1>1, <1>2, PTL DEF SnapshotSpec

----------------------------------------------------------------------------
(* Where memory and log part: every operation but four changes the      *)
(* memory as loadDB reads its records, list and flags included.          *)

\* The post that was added last gets its image, wherever the topic is.
LEMMA ImageOfLast ==
    ASSUME NEW d, NEW t \in DOMAIN d.topics, NEW x \in Topic, NEW q \in Post, d.topics[t] = With(x, q)
    PROVE  /\ HasPost(d, t, Len(x.posts) + 1)
           /\ d.topics[t].posts[Len(x.posts) + 1] = q
           /\ WithImage(q) \in Post =>
                 Imaged(d, t, Len(x.posts) + 1) = Changed(d, t, With(x, WithImage(q)))
<1> DEFINE n == Len(x.posts) + 1
           y == With(x, q)
<1>1. n \in DOMAIN y.posts /\ y.posts[n] = q
  <2>1. Len(x.posts) \in Nat
    BY DEF Topic
  <2>2. QED
    BY <2>1, WithFacts
<1>2. \A p \in Post : [y EXCEPT !.posts = [@ EXCEPT ![n] = p]] = With(x, p)
  BY WithExcept
<1> HIDE DEF n, y
<1>3. d.topics[t] = y
  BY DEF y
<1>4. HasPost(d, t, n) /\ d.topics[t].posts[n] = q
  BY <1>1, <1>3 DEF HasPost
<1>5. [d EXCEPT !.topics[t].posts[n].image = TRUE]
         = [d EXCEPT !.topics[t] = [d.topics[t] EXCEPT !.posts = [@ EXCEPT ![n] = [d.topics[t].posts[n] EXCEPT !.image = TRUE]]]]
  OBVIOUS
<1>6. WithImage(q) \in Post => Imaged(d, t, n) = Changed(d, t, With(x, WithImage(q)))
  BY <1>2, <1>3, <1>4, <1>5, Zenon DEF Changed, Imaged, WithImage
<1>7. QED
  BY <1>4, <1>6 DEF n

\* The topic that is changed, the others, and the order
LEMMA ChangedOnce ==
    ASSUME NEW d, StoreType(d), NEW t \in DOMAIN d.topics, NEW y
    PROVE  /\ Changed(d, t, y).order = d.order /\ t \in DOMAIN Changed(d, t, y).topics
           /\ Changed(d, t, y).topics[t] = y
           /\ \A u \in DOMAIN d.topics : u # t => Changed(d, t, y).topics[u] = d.topics[u]
           /\ \A o : Reordered(Changed(d, t, y), o).topics = Changed(d, t, y).topics
BY DEF Changed, Reordered, StoreType

\* Changing a topic twice, with a change of the order between
LEMMA ChangedTwice ==
    ASSUME NEW d, StoreType(d), NEW t \in DOMAIN d.topics, NEW y, NEW z
    PROVE  /\ Changed(Changed(d, t, y), t, z) = Changed(d, t, z)
           /\ \A o : Changed(Reordered(Changed(d, t, y), o), t, z) = Reordered(Changed(d, t, z), o)
BY DEF Changed, Reordered, StoreType

\* The place to move a topic to depends on its being sticky, and on the others.
LEMMA SameFront ==
    ASSUME NEW d, NEW e, NEW t \in DOMAIN d.topics, d.order = e.order,
           \A i \in DOMAIN d.order : d.topics[d.order[i]].sticky = e.topics[d.order[i]].sticky,
           d.topics[t].sticky = e.topics[t].sticky
    PROVE  FrontOf(d, t) = FrontOf(e, t)
<1>1. {i \in DOMAIN d.order : ~ d.topics[d.order[i]].sticky} = {i \in DOMAIN e.order : ~ e.topics[e.order[i]].sticky}
  OBVIOUS
<1>2. QED
  BY <1>1, Zenon DEF FrontOf

\* A topic may be moved before it is changed.
LEMMA MoveThenChange ==
    ASSUME NEW d, StoreType(d), Range(d.order) = DOMAIN d.topics, NEW t \in DOMAIN d.topics,
           NEW y, NEW z, y.sticky = z.sticky, y.saged = z.saged
    PROVE  Changed(MoveTopicToFront(Changed(d, t, y), t), t, z) = MoveTopicToFront(Changed(d, t, z), t)
<1>0. PICK a, b : a = Changed(d, t, y) /\ b = Changed(d, t, z)
  OBVIOUS
<1>1. /\ a.order = d.order /\ b.order = d.order
      /\ a.topics[t] = y /\ b.topics[t] = z /\ t \in DOMAIN a.topics
      /\ \A u \in DOMAIN d.topics : u # t => a.topics[u] = b.topics[u]
      /\ Changed(a, t, z) = b
      /\ \A o : Changed(Reordered(a, o), t, z) = Reordered(b, o)
  <2>1. /\ a.order = d.order /\ t \in DOMAIN a.topics /\ a.topics[t] = y
        /\ \A u \in DOMAIN d.topics : u # t => a.topics[u] = d.topics[u]
    BY <1>0, ChangedOnce
  <2>2. /\ b.order = d.order /\ b.topics[t] = z
        /\ \A u \in DOMAIN d.topics : u # t => b.topics[u] = d.topics[u]
    BY <1>0, ChangedOnce
  <2>3. Changed(a, t, z) = b /\ \A o : Changed(Reordered(a, o), t, z) = Reordered(b, o)
    <3>1. Changed(Changed(d, t, y), t, z) = Changed(d, t, z)
      BY ChangedTwice
    <3>2. \A o : Changed(Reordered(Changed(d, t, y), o), t, z) = Reordered(Changed(d, t, z), o)
      BY ChangedTwice
    <3>3. QED
      BY <1>0, <3>1, <3>2, Zenon
  <2>4. QED
    BY <2>1, <2>2, <2>3
<1>2. FrontOf(a, t) = FrontOf(b, t)
  <2>1. \A i \in DOMAIN d.order : d.order[i] \in DOMAIN d.topics
    BY DEF Range
  <2>2. \A i \in DOMAIN a.order : a.topics[a.order[i]].sticky = b.topics[a.order[i]].sticky
    BY <1>1, <2>1
  <2>3. QED
    BY <1>1, <2>2, SameFront
<1>3. CASE y.saged
  <2>1. MoveTopicToFront(a, t) = a /\ MoveTopicToFront(b, t) = b
    BY <1>1, <1>3, Zenon DEF MoveTopicToFront
  <2>2. Changed(MoveTopicToFront(a, t), t, z) = MoveTopicToFront(b, t)
    BY <1>1, <2>1
  <2>3. QED
    BY <1>0, <2>2
<1>4. CASE ~ y.saged
  <2> DEFINE o == InsertAt(Unlink(d.order, t), FrontOf(a, t), t)
  <2>1. MoveTopicToFront(a, t) = Reordered(a, o)
    BY <1>1, <1>4 DEF MoveTopicToFront, Reordered
  <2>2. MoveTopicToFront(b, t) = Reordered(b, o)
    BY <1>1, <1>2, <1>4 DEF MoveTopicToFront, Reordered
  <2> HIDE DEF o
  <2>3. QED
    BY <1>0, <1>1, <2>1, <2>2
<1>5. QED
  BY <1>3, <1>4

\* NewPost: memory and log add the same post, and move the topic alike.
LEMMA NewPostAgrees ==
    ASSUME NEW d, StoreType(d), Range(d.order) = DOMAIN d.topics, NEW t \in DOMAIN d.topics, NEW p \in Post,
           ~ p.nsfw, Len(d.topics[t].posts) < MaxPosts
    PROVE  LogPost(d, t, Len(d.topics[t].posts) + 1, p)
              = IF p.sage THEN [d EXCEPT !.topics[t].posts = Append(@, p)]
                ELSE MoveTopicToFront([d EXCEPT !.topics[t].posts = Append(@, p)], t)
<1>1. PICK x : x = d.topics[t]
  OBVIOUS
<1> DEFINE q == [p EXCEPT !.image = FALSE]
           n == Len(x.posts) + 1
           a == Changed(d, t, With(x, q))
           b == Changed(d, t, With(x, p))
           m == IF p.sage THEN a ELSE MoveTopicToFront(a, t)
<1>2. x \in Topic /\ Len(x.posts) \in Nat
  BY <1>1 DEF StoreType, Topic
<1>3. q \in Post /\ q.sage = p.sage /\ q.image = FALSE /\ (~ p.image => q = p) /\ (p.image => WithImage(q) = p)
  BY DEF Post, WithImage
<1> HIDE DEF q
<1>4. ASSUME NEW v PROVE [d EXCEPT !.topics[t].posts = Append(@, v)] = Changed(d, t, With(x, v))
  <2>1. [d EXCEPT !.topics[t].posts = Append(@, v)]
           = [d EXCEPT !.topics[t] = [d.topics[t] EXCEPT !.posts = Append(d.topics[t].posts, v)]]
    OBVIOUS
  <2>2. QED
    BY <1>1, <2>1 DEF Changed, With
<1>5. ~ (n # Len(d.topics[t].posts) + 1 \/ n > MaxPosts)
  <2>1. MaxPosts \in Nat
    BY LogAssumption
  <2>2. QED
    BY <1>1, <1>2, <2>1
<1> HIDE DEF n
<1>6. OP_POST(d, t, n, q) = m
  <2>1. OP_POST(d, t, n, q) = IF q.sage THEN [d EXCEPT !.topics[t].posts = Append(@, q)]
                              ELSE MoveTopicToFront([d EXCEPT !.topics[t].posts = Append(@, q)], t)
    BY <1>5, Zenon DEF OP_POST
  <2>2. QED
    BY <1>3, <1>4, <2>1
<1>7. With(x, q).sticky = With(x, p).sticky /\ With(x, q).saged = With(x, p).saged
  BY <1>2 DEF With, Topic
<1> DEFINE y == With(x, q)
           z == With(x, p)
<1>8. Changed(m, t, z) = IF p.sage THEN b ELSE MoveTopicToFront(b, t)
  <2> HIDE DEF y, z
  <2>1. Changed(Changed(d, t, y), t, z) = Changed(d, t, z)
    BY ChangedTwice
  <2>2. Changed(MoveTopicToFront(Changed(d, t, y), t), t, z) = MoveTopicToFront(Changed(d, t, z), t)
    <3>1. y.sticky = z.sticky /\ y.saged = z.saged
      BY <1>7 DEF y, z
    <3>2. QED
      BY <3>1, MoveThenChange
  <2>3. QED
    BY <2>1, <2>2 DEF y, z
<1>9. t \in DOMAIN m.topics /\ m.topics[t] = With(x, q)
  <2> HIDE DEF y
  <2>1. t \in DOMAIN a.topics /\ a.topics[t] = y /\ \A o : Reordered(a, o).topics = a.topics
    <3>1. \A v : /\ t \in DOMAIN Changed(d, t, v).topics /\ Changed(d, t, v).topics[t] = v
                /\ \A o : Reordered(Changed(d, t, v), o).topics = Changed(d, t, v).topics
      BY ChangedOnce
    <3>2. a = Changed(d, t, y)
      BY DEF y
    <3> HIDE DEF a, m
    <3>3. QED
      BY <3>1, <3>2
  <2> HIDE DEF a
  <2> DEFINE o == InsertAt(Unlink(a.order, t), FrontOf(a, t), t)
  <2>2. m = a \/ m = Reordered(a, o)
    <3>1. MoveTopicToFront(a, t) = a \/ MoveTopicToFront(a, t) = Reordered(a, o)
      BY Zenon DEF MoveTopicToFront, Reordered
    <3>2. m = a \/ m = MoveTopicToFront(a, t)
      OBVIOUS
    <3>3. QED
      BY <3>1, <3>2
  <2> HIDE DEF m, o
  <2>3. QED
    BY <2>1, <2>2 DEF y
<1> HIDE DEF m
<1>10. CASE p.image
  <2>1. HasPost(m, t, n) /\ m.topics[t].posts[n] = q /\ Imaged(m, t, n) = Changed(m, t, With(x, p))
    <3> HIDE DEF a, b, y, z
    <3>1. QED
      BY <1>2, <1>3, <1>9, <1>10, ImageOfLast DEF n
  <2>2. OP_IMAGE(m, t, n) = Imaged(m, t, n)
    BY <1>3, <2>1, Zenon DEF OP_IMAGE, Imaged, HasPost
  <2>3. LogPost(d, t, n, p) = OP_IMAGE(m, t, n)
    BY <1>6, <1>10 DEF LogPost, q
  <2>4. QED
    BY <1>1, <1>4, <1>8, <2>1, <2>2, <2>3 DEF n
<1>11. CASE ~ p.image
  <2>1. LogPost(d, t, n, p) = m
    BY <1>6, <1>11 DEF LogPost, q
  <2>2. a = b
    BY <1>3, <1>11
  <2>3. m = IF p.sage THEN b ELSE MoveTopicToFront(b, t)
    BY <2>2 DEF m
  <2>4. QED
    BY <1>1, <1>4, <2>1, <2>3 DEF n
<1>12. QED
  BY <1>10, <1>11

\* The store d with topic t more, which is not sticky: as NewTopic makes it in
\* memory, and as OP_TOPIC makes it of a blank one
PlaceFor(d) == IF Plain(d.topics, d.order) = {} THEN Len(d.order) + 1 ELSE Min(Plain(d.topics, d.order))

Opened(d, t, x) ==
    [d EXCEPT !.topics = Put(d.topics, t, x), !.order = InsertAt(d.order, PlaceFor(d), t),
              !.count = d.count + 1, !.live = d.live + 1]

OpenTopicIn(d, t, x) ==
    [MoveTopicToFront([d EXCEPT !.topics = Put(d.topics, t, x)], t)
        EXCEPT !.count = d.count + 1, !.live = d.live + 1]

\* It is moved once, to the place for it,
LEMMA OpensOnce ==
    ASSUME NEW d, Base(d), NEW t \in TopicID, t \notin DOMAIN d.topics,
           NEW x, ~ x.sticky, ~ x.saged
    PROVE  OpenTopicIn(d, t, x) = Opened(d, t, x)
<1> DEFINE f == Put(d.topics, t, x)
           c == [d EXCEPT !.topics = f]
           o == InsertAt(d.order, PlaceFor(d), t)
<1>1. /\ d.order \in Seq(TopicID) /\ t \notin Range(d.order)
      /\ \A i \in DOMAIN d.order : d.order[i] \in DOMAIN d.topics /\ d.order[i] # t
  BY DEF Base, StoreType, Range
<1>2. c.topics = f /\ c.order = d.order
  BY DEF Base, StoreType
<1>3. f[t] = x
  BY DEF Put
<1>4. Plain(f, d.order) = Plain(d.topics, d.order)
  BY <1>1, PlainPut
<1>5. Unlink(d.order, t) = d.order
  BY <1>1 DEF Unlink
<1>6. ASSUME NEW u PROVE [[c EXCEPT !.order = u] EXCEPT !.count = d.count + 1, !.live = d.live + 1]
                            = [d EXCEPT !.topics = f, !.order = u, !.count = d.count + 1, !.live = d.live + 1]
  <2> HIDE DEF f
  <2>1. QED
    BY DEF Base, StoreType
<1> HIDE DEF f, c
<1>7. FrontOf(c, t) = PlaceFor(d)
  <2>1. {i \in DOMAIN c.order : ~ c.topics[c.order[i]].sticky} = Plain(d.topics, d.order)
    BY <1>2, <1>4, Zenon DEF Plain
  <2>2. FrontOf(c, t) = IF c.topics[t].sticky THEN 1
                        ELSE IF Plain(d.topics, d.order) = {} THEN Len(c.order) + 1 ELSE Min(Plain(d.topics, d.order))
    BY <2>1, Zenon DEF FrontOf
  <2>3. QED
    BY <1>2, <1>3, <2>2, Zenon DEF PlaceFor
<1>8. MoveTopicToFront(c, t) = [c EXCEPT !.order = o]
  <2>1. MoveTopicToFront(c, t) = [c EXCEPT !.order = InsertAt(Unlink(c.order, t), FrontOf(c, t), t)]
    BY <1>2, <1>3, Zenon DEF MoveTopicToFront
  <2>2. InsertAt(Unlink(c.order, t), FrontOf(c, t), t) = o
    BY <1>2, <1>5, <1>7
  <2>3. QED
    BY <2>1, <2>2
<1>9. QED
  BY <1>6, <1>8 DEF c, f, Opened, OpenTopicIn

\* and its first post, which moves it again, leaves it there.
LEMMA StaysOpened ==
    ASSUME NEW d, Base(d), NEW t \in TopicID, t \notin DOMAIN d.topics, NEW x, ~ x.sticky, ~ x.saged
    PROVE  MoveTopicToFront(Opened(d, t, x), t) = Opened(d, t, x)
<1> DEFINE k == PlaceFor(d)
           s == d.order
           o == InsertAt(s, k, t)
           e == Opened(d, t, x)
           r == Reading(Put(d.topics, t, x), o, 0)
<1>1. IsList(d.topics, s) /\ t \notin Range(s) /\ s \in Seq(TopicID) /\ IsInjective(s)
  BY DEF Base, StoreType, IsList
<1>2. InFront(d.topics, s, k)
  BY <1>1, FirstPlain DEF PlaceFor
<1>3. k \in 1..(Len(s) + 1)
  BY <1>2 DEF InFront
<1>4. FrontOf(r, t) = k
  <2>1. PICK n : n = 0
    OBVIOUS
  <2>2. FrontOf(Reading(Put(d.topics, t, x), o, n), t) = k
    BY <1>1, <1>2, FrontAfter
  <2>3. QED
    BY <2>1, <2>2
<1>5. e.topics = Put(d.topics, t, x) /\ e.order = o
  BY DEF Opened, Base, StoreType
<1>6. r.topics = Put(d.topics, t, x) /\ r.order = o
  BY DEF Reading, Loaded
<1>7. t \in DOMAIN e.topics /\ e.topics[t] = x
  BY <1>5 DEF Put
<1>8. [e EXCEPT !.order = o] = e
  BY DEF Opened, Base, StoreType
<1> HIDE DEF e, r
<1>9. FrontOf(e, t) = k
  BY <1>4, <1>5, <1>6, <1>7, SameFront
<1>10. Unlink(o, t) = s
  BY <1>1, <1>3, UnlinkInsert
<1>11. MoveTopicToFront(e, t) = [e EXCEPT !.order = InsertAt(Unlink(e.order, t), FrontOf(e, t), t)]
  BY <1>7, Zenon DEF MoveTopicToFront
<1>12. InsertAt(Unlink(e.order, t), FrontOf(e, t), t) = o
  BY <1>5, <1>9, <1>10
<1>13. QED
  BY <1>8, <1>11, <1>12 DEF e

\* NewTopic without "sage": memory and log add the same topic at the same place.
LEMMA NewTopicAgrees ==
    ASSUME NEW d, Base(d), d.count < MaxTopicID, NEW t, t = d.count + 1, NEW p \in Post, ~ p.nsfw, ~ p.sage
    PROVE  WithTopic(d, t, p) = LogPost(LogTopic(d, t, p), t, 1, p)
<1> DEFINE e == Opened(d, t, BlankTopic)
           y == [BlankTopic EXCEPT !.posts = <<p>>]
<1>1. t \in TopicID /\ t \notin DOMAIN d.topics
  BY LogAssumption DEF Base, StoreType, TopicID
<1>2. BlankTopic \in Topic /\ ~ BlankTopic.sticky /\ ~ BlankTopic.saged /\ BlankTopic.posts = <<>>
  BY EmptySeq DEF BlankTopic, Topic
<1>3. y = With(BlankTopic, p) /\ ~ y.sticky /\ ~ y.saged
  BY <1>2 DEF BlankTopic, With
<1>4. WithTopic(d, t, p) = Opened(d, t, y)
  <2>1. WithTopic(d, t, p) = OpenTopicIn(d, t, y)
    BY Zenon DEF WithTopic, OpenTopicIn
  <2> HIDE DEF y
  <2>2. QED
    BY <1>1, <1>3, <2>1, OpensOnce
<1>5. OP_TOPIC(d, t) = OpenTopicIn(d, t, BlankTopic)
  BY <1>1 DEF OP_TOPIC, OpenTopicIn
<1>6. OP_TOPIC(d, t) = e
  BY <1>1, <1>2, <1>5, OpensOnce
<1>7. Base(e)
  <2>1. PICK o \in Seq(TopicID), w \in Topic :
           LET g == [d EXCEPT !.topics = Put(d.topics, t, w), !.order = o,
                              !.count = t, !.live = d.live + 1]
           IN  /\ LogTopic(d, t, p) = g
               /\ Base(g) /\ Len(o) = Len(d.order) + 1
               /\ w.posts = <<>> /\ ~ w.sticky /\ ~ w.freeReply
    BY LogTopicEffect
  <2>2. Base(LogTopic(d, t, p))
    BY <2>1
  <2>3. LogTopic(d, t, p) = OP_TOPIC(d, t)
    BY DEF LogTopic
  <2>4. QED
    BY <1>6, <2>2, <2>3
<1>8. e.topics[t] = BlankTopic /\ t \in DOMAIN e.topics
  BY DEF Opened, Base, StoreType, Put
<1>9. [e EXCEPT !.topics[t].posts = Append(@, p)] = Opened(d, t, y)
  <2>1. [e EXCEPT !.topics[t].posts = Append(@, p)]
           = [e EXCEPT !.topics = [e.topics EXCEPT ![t] = [e.topics[t] EXCEPT !.posts = Append(e.topics[t].posts, p)]]]
    <3> HIDE DEF e
    <3>1. QED
      OBVIOUS
  <2>2. e.topics = Put(d.topics, t, BlankTopic)
    BY DEF Opened, Base, StoreType
  <2>3. [e.topics EXCEPT ![t] = y] = Put(d.topics, t, y)
    BY <2>2, PutPut
  <2>4. [e EXCEPT !.topics = Put(d.topics, t, y)] = Opened(d, t, y)
    <3> DEFINE f == Put(d.topics, t, y)
               g == Put(d.topics, t, BlankTopic)
               o == InsertAt(d.order, PlaceFor(d), t)
    <3> HIDE DEF f, g, o
    <3>1. e = [d EXCEPT !.topics = g, !.order = o, !.count = d.count + 1, !.live = d.live + 1]
      BY DEF Opened, g, o
    <3>2. [[d EXCEPT !.topics = g, !.order = o, !.count = d.count + 1, !.live = d.live + 1] EXCEPT !.topics = f]
             = [d EXCEPT !.topics = f, !.order = o, !.count = d.count + 1, !.live = d.live + 1]
      BY DEF Base, StoreType
    <3>3. QED
      BY <3>1, <3>2 DEF Opened, f, o
  <2>5. [e.topics[t] EXCEPT !.posts = Append(e.topics[t].posts, p)] = y
    BY <1>3, <1>8 DEF With
  <2> HIDE DEF e, y
  <2>6. QED
    BY <2>1, <2>3, <2>4, <2>5
<1> HIDE DEF e, y
<1>10. Len(e.topics[t].posts) + 1 = 1 /\ Len(e.topics[t].posts) < MaxPosts
  BY <1>2, <1>8, EmptySeq, LogAssumption
<1>11. PICK n : n = Len(e.topics[t].posts) + 1
  OBVIOUS
<1>12. LogPost(e, t, n, p) = MoveTopicToFront([e EXCEPT !.topics[t].posts = Append(@, p)], t)
  <2>1. StoreType(e) /\ Range(e.order) = DOMAIN e.topics
    BY <1>7 DEF Base
  <2>2. LogPost(e, t, Len(e.topics[t].posts) + 1, p)
              = IF p.sage THEN [e EXCEPT !.topics[t].posts = Append(@, p)]
                ELSE MoveTopicToFront([e EXCEPT !.topics[t].posts = Append(@, p)], t)
    BY <1>8, <1>10, <2>1, NewPostAgrees
  <2>3. QED
    BY <1>11, <2>2
<1>13. LogPost(e, t, n, p) = Opened(d, t, y)
  BY <1>1, <1>3, <1>9, <1>12, StaysOpened
<1>14. LogTopic(d, t, p) = e
  BY <1>6 DEF LogTopic
<1>15. QED
  BY <1>4, <1>10, <1>11, <1>13, <1>14

\* Memory and log agree after the step, or it is one of those that Diverges names.
Agrees == db = disk => db' = disk' \/ Diverges

\* A change of one topic or of its place
LEMMA TopicAgrees ==
    ASSUME IInv, NEW t \in TopicID,
           LockFullTopic(t) \/ Sticky(t) \/ Lock(t) \/ FreeReply(t) \/ Sage(t) \/ Purge(t)
    PROVE  Agrees
<1> SUFFICES ASSUME db = disk PROVE db' = disk' \/ Diverges
  BY DEF Agrees
<1>1. t \in DOMAIN db.topics /\ t \in DOMAIN disk.topics
  BY LinkedTopics DEF IInv, LockFullTopic, Sticky, Lock, FreeReply, Sage, Purge
<1>2. db.topics[t] \in Topic
  BY <1>1 DEF IInv, StoreInv, Pair, Good, Base, StoreType
<1>3. CASE LockFullTopic(t)
  <2>1. CASE db.topics[t].locked
    BY <1>1, <1>3, <2>1 DEF Diverges
  <2>2. CASE ~ db.topics[t].locked
    <3>1. [db EXCEPT !.topics[t].locked = TRUE] = [db EXCEPT !.topics[t].locked = ~ @]
      <4>1. db.topics[t].locked = FALSE
        BY <1>2, <2>2 DEF Topic
      <4>2. (~ db.topics[t].locked) = TRUE
        BY <4>1
      <4>3. [db EXCEPT !.topics[t].locked = ~ @] = [db EXCEPT !.topics[t].locked = ~ db.topics[t].locked]
        BY Zenon
      <4>4. QED
        BY <4>2, <4>3, Zenon
    <3>2. QED
      BY <1>1, <1>3, <3>1 DEF LockFullTopic, OP_LOCK
  <2>3. QED
    BY <2>1, <2>2
<1>4. CASE Sticky(t)
  <2>1. CASE db.topics[t].sticky
    BY <1>1, <1>4, <2>1 DEF Diverges
  <2>2. CASE ~ db.topics[t].sticky
    <3> DEFINE e == [db EXCEPT !.topics[t].sticky = ~ @]
    <3>1. e.topics[t].sticky
      <4>1. e.topics[t].sticky = ~ db.topics[t].sticky
        BY <1>1, <1>2 DEF IInv, StoreInv, Pair, Good, Base, StoreType, Topic
      <4>2. QED
        BY <2>2, <4>1
    <3>2. OP_STICKY(db, t) = IF e.topics[t].sticky THEN MoveTopicToFront(e, t) ELSE e
      BY <1>1, Zenon DEF OP_STICKY
    <3>3. db' = MoveTopicToFront(e, t) /\ disk' = OP_STICKY(db, t)
      BY <1>4 DEF Sticky
    <3> HIDE DEF e
    <3>4. QED
      BY <3>1, <3>2, <3>3
  <2>3. QED
    BY <2>1, <2>2
<1>5. CASE Lock(t)
  BY <1>1, <1>5 DEF Lock, OP_LOCK
<1>6. CASE FreeReply(t)
  BY <1>1, <1>6 DEF FreeReply, OP_FREEREPLY
<1>7. CASE Sage(t)
  BY <1>1, <1>7 DEF Sage, OP_SAGE
<1>8. CASE Purge(t)
  BY <1>1, <1>8 DEF Purge, OP_REMOVE
<1>9. QED
  BY <1>3, <1>4, <1>5, <1>6, <1>7, <1>8

\* A change of one post
LEMMA PostAgrees ==
    ASSUME IInv, NEW t \in TopicID, NEW n,
           AppendPost(t, n) \/ (\E u \in Users : DeletePost(u, t, n) \/ FlagPost(u, t, n)) \/ FlagNewTopic(t)
    PROVE  Agrees
<1> SUFFICES ASSUME db = disk PROVE db' = disk' \/ Diverges
  BY DEF Agrees
<1>1. ASSUME NEW i, FindPost(t, i) PROVE HasPost(disk, t, i)
  BY <1>1, LinkedTopics DEF IInv, FindPost, HasPost
<1>2. CASE AppendPost(t, n)
  BY <1>1, <1>2 DEF AppendPost, OP_APPEND
<1>3. ASSUME NEW u \in Users, DeletePost(u, t, n) PROVE db' = disk'
  BY <1>1, <1>3 DEF DeletePost, OP_DELETE
<1>4. ASSUME NEW u \in Users, FlagPost(u, t, n) PROVE db' = disk'
  BY <1>1, <1>4 DEF FlagPost, OP_NSFW
<1>5. CASE FlagNewTopic(t)
  <2>1. CASE ~ Linked(t)
    BY <1>5, <2>1 DEF FlagNewTopic
  <2>2. CASE Linked(t)
    <3>1. t \in DOMAIN db.topics /\ db.topics[t].posts \in Seq(Post) /\ db.topics[t].posts # <<>>
      BY <2>2, LinkedTopics DEF IInv, StoreInv, Pair, Good, Base, StoreType, Topic
    <3>2. PICK i : i = 1
      OBVIOUS
    <3>3. i \in DOMAIN db.topics[t].posts /\ db.topics[t].posts[i] \in Post
      BY <3>1, <3>2, EmptySeq
    <3>4. CASE db.topics[t].posts[i].nsfw
      BY <1>5, <3>1, <3>2, <3>4 DEF Diverges
    <3>5. CASE ~ db.topics[t].posts[i].nsfw
      <4>1. (~ db.topics[t].posts[i].nsfw) = TRUE
        BY <3>3, <3>5 DEF Post
      <4>2. [db EXCEPT !.topics[t].posts[i].nsfw = ~ @] = [db EXCEPT !.topics[t].posts[i].nsfw = ~ db.topics[t].posts[i].nsfw]
        BY Zenon
      <4>3. [db EXCEPT !.topics[t].posts[i].nsfw = TRUE] = [db EXCEPT !.topics[t].posts[i].nsfw = ~ @]
        BY <4>1, <4>2, Zenon
      <4>4. HasPost(db, t, i)
        BY <3>1, <3>3 DEF HasPost
      <4>5. OP_NSFW(db, t, i) = [db EXCEPT !.topics[t].posts[i].nsfw = ~ @]
        BY <4>4 DEF OP_NSFW
      <4>6. db' = [db EXCEPT !.topics[t].posts[i].nsfw = TRUE] /\ disk' = OP_NSFW(db, t, i)
        BY <1>5, <2>2, <3>2 DEF FlagNewTopic
      <4>7. QED
        BY <4>3, <4>5, <4>6
    <3>6. QED
      BY <3>4, <3>5
  <2>3. QED
    BY <2>1, <2>2
<1>6. QED
  BY <1>2, <1>3, <1>4, <1>5

\* Every step of Store does.
LEMMA NextAgrees ==
    ASSUME IInv, Next
    PROVE  Agrees
<1>1. Base(db) /\ StoreType(db) /\ JobOK
  BY DEF IInv, StoreInv, Pair, Good, Base
<1>2. ASSUME NEW u \in Users, NEW sage \in BOOLEAN, NEW image \in BOOLEAN
      PROVE  /\ NewPostOf(u, sage, image) \in Post
             /\ ~ NewPostOf(u, sage, image).nsfw /\ NewPostOf(u, sage, image).sage = sage
  BY DEF NewPostOf, Post
<1>3. ASSUME NEW u \in Users, NEW sage \in BOOLEAN, NEW image \in BOOLEAN, NEW nsfw \in BOOLEAN,
             NewTopic(u, sage, image, nsfw)
      PROVE  Agrees
  <2>1. CASE sage
    BY <1>3, <2>1 DEF Agrees, Diverges
  <2>2. CASE ~ sage
    <3>1. PICK p : p = NewPostOf(u, sage, image)
      OBVIOUS
    <3>2. PICK t : t = db.count + 1
      OBVIOUS
    <3>3. db' = WithTopic(db, t, p) /\ disk' = LogPost(LogTopic(disk, t, p), t, 1, p)
      BY <1>3, <3>1, <3>2 DEF NewTopic, WithTopic
    <3>4. db.count < MaxTopicID
      BY <1>3 DEF NewTopic, IDsLeft
    <3>5. p \in Post /\ ~ p.nsfw /\ ~ p.sage
      BY <1>2, <2>2, <3>1
    <3>6. WithTopic(db, t, p) = LogPost(LogTopic(db, t, p), t, 1, p)
      BY <1>1, <3>2, <3>4, <3>5, NewTopicAgrees
    <3>7. QED
      BY <3>3, <3>6 DEF Agrees
  <2>3. QED
    BY <2>1, <2>2
<1>4. ASSUME NEW u \in Users, NEW t \in TopicID, NEW sage \in BOOLEAN, NEW image \in BOOLEAN,
             NewPost(u, t, sage, image)
      PROVE  Agrees
  <2>1. PICK p : p = NewPostOf(u, sage, image)
    OBVIOUS
  <2> DEFINE c == [db EXCEPT !.topics[t].posts = Append(@, p)]
             n == Len(db.topics[t].posts) + 1
  <2>2. db' = (IF sage THEN c ELSE MoveTopicToFront(c, t)) /\ disk' = LogPost(disk, t, n, p)
    BY <1>4, <2>1 DEF NewPost
  <2>3. t \in DOMAIN db.topics /\ Range(db.order) = DOMAIN db.topics
    BY <1>1, <1>4, LinkedTopics DEF IInv, NewPost, Base
  <2>4. Len(db.topics[t].posts) < MaxPosts
    <3>1. db.topics[t].posts \in Seq(Post)
      BY <1>1, <2>3 DEF StoreType, Topic
    <3>2. Len(db.topics[t].posts) \in Nat /\ ~ Len(db.topics[t].posts) >= MaxPosts
      BY <1>4, <3>1 DEF NewPost, Full
    <3>3. QED
      BY <3>2, LogAssumption
  <2>5. p \in Post /\ ~ p.nsfw /\ p.sage = sage
    BY <1>2, <2>1
  <2>6. LogPost(db, t, n, p) = IF p.sage THEN c ELSE MoveTopicToFront(c, t)
    BY <1>1, <2>3, <2>4, <2>5, NewPostAgrees
  <2> HIDE DEF c, n
  <2>7. QED
    BY <2>2, <2>5, <2>6 DEF Agrees
<1>5. ASSUME NEW term \in Terms, Block(term) PROVE Agrees
  BY <1>5 DEF Block, OP_BLOCK, Agrees
<1>6. ASSUME NEW c \in Configs, UpdateConfig(c) PROVE Agrees
  BY <1>6 DEF UpdateConfig, OP_CONFIG, Agrees
<1>7. CASE ArchiveJob
  BY <1>7 DEF ArchiveJob, Agrees
<1>8. ASSUME ArchiveStep \/ ArchiveFail
      PROVE  Agrees
  <2>1. CASE ArchiveUnlink
    <3>1. PICK t : t = job.saved
      OBVIOUS
    <3>2. t \in DOMAIN db.topics
      BY <1>1, <2>1, <3>1 DEF JobOK, ArchiveUnlink
    <3>3. db' = TakeOut(db, t) /\ disk' = OP_REMOVE(disk, t)
      BY <2>1, <3>1 DEF ArchiveUnlink
    <3>4. QED
      BY <3>2, <3>3 DEF Agrees, OP_REMOVE
  <2>2. CASE ArchiveSave \/ ArchiveDone \/ ArchiveFail
    BY <2>2 DEF ArchiveSave, ArchiveDone, ArchiveFail, Agrees
  <2>3. QED
    BY <1>8, <2>1, <2>2 DEF ArchiveStep
<1>9. CASE Restart
  BY <1>9 DEF Restart, Agrees
<1>10. \A name \in {"sage", "image", "nsfw"} : Option(name) \subseteq BOOLEAN
  BY DEF Option
<1>11. ASSUME NEW t \in TopicID, OperateSage(t) \/ \E u \in Users : SageTopic(u, t)
       PROVE  Sage(t)
  BY <1>11 DEF OperateSage, SageTopic
<1>12. ASSUME NEW n \in Limits, SetMaxLiveTopics(n) PROVE Agrees
  BY <1>12 DEF SetMaxLiveTopics, OP_MAXTOPICS, Agrees
<1>13. CASE \E u \in Users, sage \in Option("sage"), image \in Option("image") :
                \/ \E nsfw \in Option("nsfw") : NewTopic(u, sage, image, nsfw)
                \/ \E t \in TopicID : NewPost(u, t, sage, image)
  BY <1>3, <1>4, <1>10, <1>13
<1>14. CASE \E t \in TopicID :
                \/ LockFullTopic(t) \/ Sticky(t) \/ Lock(t) \/ FreeReply(t)
                \/ OperateSage(t) \/ Purge(t) \/ FlagNewTopic(t)
                \/ \E u \in Users : SageTopic(u, t)
                \/ \E n \in 1..MaxPosts :
                     \/ AppendPost(t, n)
                     \/ \E u \in Users : DeletePost(u, t, n) \/ FlagPost(u, t, n)
  BY <1>11, <1>14, TopicAgrees, PostAgrees
<1>15. QED
  BY <1>5, <1>6, <1>7, <1>8, <1>9, <1>12, <1>13, <1>14 DEF Next

----------------------------------------------------------------------------
(* The theorems.                                                         *)

\* What the invariant says of the state and of its log, which the snapshots
\* and the archive files are made of.
LEMMA SnapshotInvMeans ==
    ASSUME SnapshotInv
    PROVE  /\ TypeOK /\ NothingLost /\ LogLoads /\ ListInv /\ RestartKeepsContent
           /\ SnapshotKeepsAll /\ SnapshotKeepsStickyOrder
           /\ ArchiveReadsBack
<1>1. TypeOK /\ NothingLost /\ LogLoads /\ ListInv /\ RestartKeepsContent
  BY IInvMeans DEF SnapshotInv
<1>2. Storable(disk)
  BY LogIsStorable
<1>3. SnapshotKeepsAll
  <2>1. PICK r : SnapshotStore(disk) = Reordered(disk, r)
    BY <1>2, SnapshotGives
  <2>2. [Reordered(disk, r) EXCEPT !.order = disk.order] = disk
    BY <1>2 DEF Reordered, Storable, StoreType
  <2>3. QED
    BY <2>1, <2>2 DEF SnapshotKeepsAll
<1>4. ASSUME StickiesLead PROVE SnapshotStore(disk).order = disk.order
  <2>1. LeadIn(disk)
    BY <1>4 DEF StickiesLead, LeadIn
  <2>2. SnapshotStore(disk) = Reordered(disk, disk.order)
    BY <1>2, <2>1, SnapshotGives
  <2>3. QED
    BY <1>2, <2>2 DEF Reordered, Storable, StoreType
<1>5. ASSUME NEW t \in DOMAIN files
      PROVE  /\ ~ LoadArchivedTopic(t).panic
             /\ LoadArchivedTopic(t).topics[t].posts = files[t]
  <2>1. t \in TopicID /\ files[t] \in Seq(Post) /\ Len(files[t]) <= MaxPosts
    BY DEF SnapshotInv, IInv, StoreInv, Bounds
  <2>2. QED
    BY <2>1, ArchiveLoads DEF LoadArchivedTopic
<1>6. QED
  BY <1>1, <1>3, <1>4, <1>5 DEF SnapshotKeepsStickyOrder, ArchiveReadsBack

\* LoadArchivedTopic reads every archive file, and finds the posts that the
\* topic was archived with.
THEOREM ArchivesReadBack == SnapshotSpec => []ArchiveReadsBack
BY SnapshotSpecInv, SnapshotInvMeans, PTL

\* No topic is lost in a forum that goes on from snapshots.
THEOREM SnapshotNothingLost == SnapshotSpec => []NothingLost
BY SnapshotSpecInv, SnapshotInvMeans, PTL

\* The log can always be loaded, after snapshots have taken its place too.
THEOREM SnapshotLogLoads == SnapshotSpec => []LogLoads
BY SnapshotSpecInv, SnapshotInvMeans, PTL

\* A restart gives back the content, from a log that began as a snapshot too.
THEOREM SnapshotRestartKeepsContent == SnapshotSpec => []RestartKeepsContent
BY SnapshotSpecInv, SnapshotInvMeans, PTL

\* Every snapshot loads and gives back everything but the order.
THEOREM SnapshotLosesNothing == SnapshotSpec => []SnapshotKeepsAll
BY SnapshotSpecInv, SnapshotInvMeans, PTL

\* The order is kept too if the stickies lead the list and only the last of
\* them may be saged.
THEOREM SnapshotKeepsOrderOfStickies == SnapshotSpec => []SnapshotKeepsStickyOrder
BY SnapshotSpecInv, SnapshotInvMeans, PTL

\* So the list of topics stays whole.
THEOREM SnapshotListInv == SnapshotSpec => []ListInv
BY SnapshotSpecInv, SnapshotInvMeans, PTL

\* A topic that leaves the list unpurged is archived with its posts.
THEOREM SnapshotArchiveKeepsPosts == SnapshotSpec => ArchiveKeepsPosts
BY SnapshotSpecInv, PTL DEF ArchiveKeepsPosts

\* Memory and log part only at the steps that Diverges names: the others,
\* snapshots and restarts included, leave them equal in everything.
THEOREM SnapshotDivergesOnlyBy == SnapshotSpec => DivergesOnlyBy
<1>1. SnapshotInv /\ [SnapshotNext]_vars => [Agrees]_vars
  <2>1. ASSUME SnapshotInv, Next PROVE Agrees
    BY <2>1, NextAgrees DEF SnapshotInv
  <2>2. ASSUME ReplaceBySnapshot PROVE Agrees
    BY <2>2 DEF ReplaceBySnapshot, Agrees
  <2>3. QED
    BY <2>1, <2>2 DEF SnapshotNext
<1>2. QED
  BY <1>1, SnapshotSpecInv, PTL DEF SnapshotSpec, DivergesOnlyBy, Agrees

\* Archiving stops at the limit in a forum that goes on from a snapshot, too.
THEOREM SnapshotKeepsLimit == SnapshotSpec => KeepsLimit
<1>1. Init => JobPlace
  BY DEF Init, JobPlace, Idle
<1>2. SnapshotInv /\ JobPlace /\ [SnapshotNext]_vars => JobPlace'
  <2>1. ASSUME SnapshotInv, JobPlace, [Next]_vars PROVE JobPlace'
    BY <2>1, NextPlace DEF SnapshotInv
  <2>2. ASSUME ReplaceBySnapshot PROVE JobPlace'
    BY <2>2 DEF ReplaceBySnapshot, JobPlace, Idle
  <2>3. QED
    BY <2>1, <2>2 DEF SnapshotNext
<1>3. SnapshotInv /\ JobPlace =>
        [ArchiveUnlink =>
            /\ Len(db'.order) >= job.limit
            /\ IsPrefix(db'.order, db.order)]_vars
  BY UnlinkAboveLimit DEF SnapshotInv
<1>4. QED
  BY <1>1, <1>2, <1>3, SnapshotSpecInv, PTL DEF SnapshotSpec, KeepsLimit
=============================================================================
