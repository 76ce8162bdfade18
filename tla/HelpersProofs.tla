--------------------------- MODULE HelpersProofs ----------------------------
(***************************************************************************)
(* Proofs about parts that share nothing with the others: the numbers of   *)
(* posts (LongID), for all 2^32 topics; the buffer of the logger           *)
(* (CircularLog), for a buffer and a history of every size; the pages of a *)
(* topic and of the lists (Pages), of every length; the strings of a       *)
(* record (StringCodec), of every length and of every character that is    *)
(* stored; and the search (Search), for every query and every bound.       *)
(***************************************************************************)
EXTENDS Helpers, SequenceTheorems, FiniteSetTheorems, NaturalsInduction, TLAPS

(***************************************************************************)
(* SplitID inverts LongID.  Each of the four layouts is a case: the topic  *)
(* and the post are written in the digits that the layout uses, and the    *)
(* digits are read back one by one.                                        *)
(***************************************************************************)

\* The digits of a topic in the shortest layout: 64 a + 4 b + c.
LEMMA Digits64 ==
    ASSUME NEW t \in Nat
    PROVE  \E a \in Nat, b \in Nat, c \in Nat :
              /\ b < 16 /\ c < 4
              /\ t = 64 * a + 4 * b + c
              /\ t \div 64 = a /\ (t \div 4) % 16 = b /\ t % 4 = c
<1> DEFINE a == t \div 64
           b == (t \div 4) % 16
           c == t % 4
<1>1. a \in Nat /\ b \in Nat /\ c \in Nat /\ b < 16 /\ c < 4
  OBVIOUS
<1>2. t = 64 * a + 4 * b + c
  OBVIOUS
<1>3. QED
  BY <1>1, <1>2

\* The two base-16 digits of a number, and what is left of it.
LEMMA Digits16 ==
    ASSUME NEW t \in Nat
    PROVE  \E a \in Nat, b \in Nat :
              b < 16 /\ t = 16 * a + b /\ t \div 16 = a /\ t % 16 = b
<1>1. t \div 16 \in Nat /\ t % 16 \in Nat /\ t % 16 < 16
  OBVIOUS
<1>2. t = 16 * (t \div 16) + (t % 16)
  OBVIOUS
<1>3. QED
  BY <1>1, <1>2

\* A number below the modulus is its own remainder.
LEMMA SmallRemainder ==
    ASSUME NEW m \in Nat, NEW n \in Nat, n < m
    PROVE  n % m = n
OBVIOUS

\* IDs are numbers, and within their bounds.
LEMMA IDsAreNumbers ==
    /\ TopicRange \in Nat
    /\ \A t \in TopicID : t \in Nat /\ t < TopicRange
    /\ \A n \in Nat, t \in TopicID : n <= t => n \in TopicID
    /\ \A id \in PostID : id \in Nat /\ id - 1 \in Nat /\ id - 1 < 4095
BY TopicRangeAssumption DEF TopicID, PostID, MaxPostID

\* The conversion to uint32 leaves a topic ID as it is.
LEMMA SmallUInt32 == ASSUME NEW n \in TopicID PROVE UInt32(n) = n
BY IDsAreNumbers, SmallRemainder DEF UInt32

\* The conversion to uint16 leaves a post ID as it is.
LEMMA SmallUInt16 == ASSUME NEW n \in PostID PROVE UInt16(n) = n
<1>1. n \in Nat /\ n < 65536
  BY IDsAreNumbers
<1>2. QED
  BY <1>1, SmallRemainder DEF UInt16, PostRange

\* ti(26) | 0 | ti(4) | 0 | ti(2) | pi(2)
LEMMA Layout1 ==
    ASSUME NEW t \in TopicID, NEW id \in PostID, id - 1 < 4
    PROVE  RoundTrip(t, id)
<1> DEFINE p == id - 1
           x == PackLongID(t, id)
<1>1. PICK a \in Nat, b \in Nat, c \in Nat :
         /\ b < 16 /\ c < 4
         /\ t = 64 * a + 4 * b + c
         /\ t \div 64 = a /\ (t \div 4) % 16 = b /\ t % 4 = c
  <2>1. t \in Nat
    BY IDsAreNumbers
  <2>2. QED
    BY <2>1, Digits64
<1>2. p \in Nat /\ p < 4 /\ id = p + 1
  BY IDsAreNumbers
<1>3. x = 1024 * a + 32 * b + 4 * c + p
  BY <1>1, <1>2 DEF PackLongID
<1> HIDE DEF x, p
<1>4. (x \div 512) % 2 = 0 /\ (x \div 16) % 2 = 0
  <2>1. x \div 512 = 2 * a
    BY <1>1, <1>2, <1>3
  <2>2. x \div 16 = 2 * (32 * a + b)
    BY <1>1, <1>2, <1>3
  <2>3. QED
    BY <2>1, <2>2
<1>5. x \div 1024 = a /\ (x \div 32) % 16 = b /\ (x \div 4) % 4 = c /\ x % 4 = p
  <2>1. x \div 1024 = a
    BY <1>1, <1>2, <1>3
  <2>2. x \div 32 = 16 * (2 * a) + b
    BY <1>1, <1>2, <1>3
  <2>3. x \div 4 = 4 * (64 * a + 2 * b) + c
    BY <1>1, <1>2, <1>3
  <2>4. x % 4 = p
    BY <1>1, <1>2, <1>3
  <2>5. (x \div 32) % 16 = b
    BY <1>1, <2>2
  <2>6. (x \div 4) % 4 = c
    BY <1>1, <2>3
  <2>7. QED
    BY <2>1, <2>4, <2>5, <2>6
<1>6. UInt32(a) = a /\ UInt32(t) = t /\ UInt16(id) = id
  BY <1>1, IDsAreNumbers, SmallUInt32, SmallUInt16
<1>7. SplitTopic(x) = t
  <2>1. SplitTopic(x) = UInt32(UInt32(a) * 64 + b * 4 + c)
    BY <1>4, <1>5 DEF SplitTopic
  <2>2. a * 64 + b * 4 + c = t
    BY <1>1
  <2>3. QED
    BY <1>6, <2>1, <2>2
<1>8. SplitPost(x) = id
  BY <1>2, <1>4, <1>5, <1>6 DEF SplitPost
<1>9. QED
  BY <1>7, <1>8 DEF RoundTrip, x

\* ti(28) | 0 | ti(4) | 1 | pi(4)
LEMMA Layout2 ==
    ASSUME NEW t \in TopicID, NEW id \in PostID, ~ id - 1 < 4, id - 1 < 16
    PROVE  RoundTrip(t, id)
<1> DEFINE p == id - 1
           x == PackLongID(t, id)
<1>1. PICK a \in Nat, b \in Nat :
         b < 16 /\ t = 16 * a + b /\ t \div 16 = a /\ t % 16 = b
  BY Digits16, IDsAreNumbers
<1>2. p \in Nat /\ ~ p < 4 /\ p < 16 /\ id = p + 1
  BY IDsAreNumbers
<1>3. x = 1024 * a + 32 * b + 16 + p
  BY <1>1, <1>2 DEF PackLongID
<1> HIDE DEF x, p
<1>4. (x \div 512) % 2 = 0 /\ (x \div 16) % 2 = 1
  <2>1. x \div 512 = 2 * a
    BY <1>1, <1>2, <1>3
  <2>2. x \div 16 = 2 * (32 * a + b) + 1
    BY <1>1, <1>2, <1>3
  <2>3. QED
    BY <2>1, <2>2
<1>5. x \div 1024 = a /\ (x \div 32) % 16 = b /\ x % 16 = p
  <2>1. x \div 1024 = a
    BY <1>1, <1>2, <1>3
  <2>2. x \div 32 = 16 * (2 * a) + b
    BY <1>1, <1>2, <1>3
  <2>3. x = 16 * (64 * a + 2 * b + 1) + p
    BY <1>2, <1>3
  <2>4. QED
    BY <1>1, <1>2, <2>1, <2>2, <2>3
<1>6. UInt32(a) = a /\ UInt32(t) = t /\ UInt16(id) = id
  BY <1>1, IDsAreNumbers, SmallUInt32, SmallUInt16
<1>7. SplitTopic(x) = t
  <2>1. SplitTopic(x) = UInt32(UInt32(a) * 16 + b)
    BY <1>4, <1>5 DEF SplitTopic
  <2>2. a * 16 + b = t
    BY <1>1
  <2>3. QED
    BY <1>6, <2>1, <2>2
<1>8. SplitPost(x) = id
  BY <1>2, <1>4, <1>5, <1>6 DEF SplitPost
<1>9. QED
  BY <1>7, <1>8 DEF RoundTrip, x

\* ti(32) | 1 | pi(4) | 0 | pi(4)
LEMMA Layout3 ==
    ASSUME NEW t \in TopicID, NEW id \in PostID, ~ id - 1 < 16, id - 1 < 256
    PROVE  RoundTrip(t, id)
<1> DEFINE p == id - 1
           x == PackLongID(t, id)
<1>1. t \in Nat /\ p \in Nat /\ ~ p < 16 /\ p < 256 /\ id = p + 1
  BY IDsAreNumbers
<1>2. PICK a \in Nat, b \in Nat :
         b < 16 /\ p = 16 * a + b /\ p \div 16 = a /\ p % 16 = b
  BY <1>1, Digits16
<1>3. a < 16
  BY <1>1, <1>2
<1>4. x = 1024 * t + 512 + 32 * a + b
  BY <1>1, <1>2 DEF PackLongID
<1> HIDE DEF x, p
<1>5. (x \div 512) % 2 = 1 /\ (x \div 16) % 2 = 0
  <2>1. x \div 512 = 2 * t + 1
    BY <1>1, <1>2, <1>3, <1>4
  <2>2. x \div 16 = 2 * (32 * t + 16 + a)
    BY <1>1, <1>2, <1>3, <1>4
  <2>3. QED
    BY <1>1, <2>1, <2>2
<1>6. x \div 1024 = t /\ (x \div 32) % 16 = a /\ x % 16 = b
  <2>1. x \div 1024 = t
    BY <1>1, <1>2, <1>3, <1>4
  <2>2. x \div 32 = 16 * (2 * t + 1) + a
    BY <1>1, <1>2, <1>3, <1>4
  <2>3. x = 16 * (64 * t + 32 + 2 * a) + b
    BY <1>1, <1>2, <1>4
  <2>4. QED
    BY <1>1, <1>2, <1>3, <2>1, <2>2, <2>3
<1>7. UInt32(t) = t /\ UInt16(id) = id
  BY SmallUInt32, SmallUInt16
<1>8. SplitTopic(x) = t
  BY <1>5, <1>6, <1>7 DEF SplitTopic
<1>9. SplitPost(x) = id
  BY <1>1, <1>2, <1>5, <1>6, <1>7 DEF SplitPost
<1>10. QED
  BY <1>8, <1>9 DEF RoundTrip, x

\* ti(32) | pi(4) | 1 | pi(4) | 1 | pi(4)
LEMMA Layout4 ==
    ASSUME NEW t \in TopicID, NEW id \in PostID, ~ id - 1 < 256
    PROVE  RoundTrip(t, id)
<1> DEFINE p == id - 1
           x == PackLongID(t, id)
<1>1. t \in Nat /\ p \in Nat /\ ~ p < 256 /\ p < 4096 /\ id = p + 1
  BY IDsAreNumbers
<1>2. PICK h \in Nat, m \in Nat, l \in Nat :
         /\ h < 16 /\ m < 16 /\ l < 16
         /\ p = 256 * h + 16 * m + l
         /\ p \div 256 = h /\ (p \div 16) % 16 = m /\ p % 16 = l
  <2>1. PICK g \in Nat, l \in Nat :
           l < 16 /\ p = 16 * g + l /\ p \div 16 = g /\ p % 16 = l
    BY <1>1, Digits16
  <2>2. PICK h \in Nat, m \in Nat :
           m < 16 /\ g = 16 * h + m /\ g \div 16 = h /\ g % 16 = m
    BY Digits16
  <2>3. p = 256 * h + 16 * m + l
    BY <2>1, <2>2
  <2>4. p \div 256 = h /\ h < 16
    BY <1>1, <2>1, <2>2, <2>3
  <2>5. QED
    BY <2>1, <2>2, <2>3, <2>4, ZenonT(30)
<1>3. x = 16384 * t + 1024 * h + 512 + 32 * m + 16 + l
  <2>1. x = t * 16384 + h * 1024 + 512 + m * 32 + 16 + l
    BY <1>2 DEF PackLongID
  <2>2. QED
    BY <1>1, <1>2, <2>1
<1> HIDE DEF x, p
<1>4. (x \div 512) % 2 = 1 /\ (x \div 16) % 2 = 1
  <2>1. x \div 512 = 2 * (16 * t + h) + 1
    BY <1>1, <1>2, <1>3
  <2>2. x \div 16 = 2 * (512 * t + 32 * h + 16 + m) + 1
    BY <1>1, <1>2, <1>3
  <2>3. QED
    BY <1>1, <1>2, <2>1, <2>2
<1>5. /\ x \div 16384 = t /\ (x \div 1024) % 16 = h
      /\ (x \div 32) % 16 = m /\ x % 16 = l
  <2>1. x \div 16384 = t
    BY <1>1, <1>2, <1>3
  <2>2. x \div 1024 = 16 * t + h
    BY <1>1, <1>2, <1>3
  <2>3. x \div 32 = 16 * (32 * t + 2 * h + 1) + m
    BY <1>1, <1>2, <1>3
  <2>4. x = 16 * (1024 * t + 64 * h + 32 + 2 * m + 1) + l
    BY <1>1, <1>2, <1>3
  <2>5. (x \div 1024) % 16 = h
    BY <1>1, <1>2, <2>2
  <2>6. (x \div 32) % 16 = m
    BY <1>1, <1>2, <2>3
  <2>7. x % 16 = l
    BY <1>1, <1>2, <2>4
  <2>8. QED
    BY <2>1, <2>5, <2>6, <2>7
<1>6. UInt32(t) = t /\ UInt16(id) = id
  BY SmallUInt32, SmallUInt16
<1>7. SplitTopic(x) = t
  BY <1>4, <1>5, <1>6 DEF SplitTopic
<1>8. SplitPost(x) = id
  <2>1. SplitPost(x) = UInt16(h * 256 + m * 16 + l + 1)
    BY <1>4, <1>5 DEF SplitPost
  <2>2. h * 256 + m * 16 + l + 1 = id
    BY <1>1, <1>2
  <2>3. QED
    BY <1>6, <2>1, <2>2
<1>9. QED
  BY <1>7, <1>8 DEF RoundTrip, x

\* The number of a post leads back to that post, for every topic ID that a
\* uint32 can hold and every post ID that LongID accepts.
THEOREM SplitInvertsLongID == \A t \in TopicID, id \in PostID : RoundTrip(t, id)
<1> SUFFICES ASSUME NEW t \in TopicID, NEW id \in PostID PROVE RoundTrip(t, id)
  OBVIOUS
<1>1. id - 1 \in Int
  BY IDsAreNumbers
<1>2. QED
  BY <1>1, Layout1, Layout2, Layout3, Layout4

----------------------------------------------------------------------------

(***************************************************************************)
(* As long as the calls of Add do not overlap, the buffer gives the last   *)
(* messages, and a reader that they overtake never leaves it.  The         *)
(* invariant is about the writer w that is or was last in Add.             *)
(***************************************************************************)

\* The entries that were written in this round
Filled(w) == IF pc[w] = "move" THEN pos + 1 ELSE pos

\* The buffer has been full: the entries beyond are those of the last round.
Wrapped(w) == full \/ pc[w] = "full"

LogType(w) ==
    /\ w \in Writers /\ \A v \in Writers \ {w} : pc[v] = "idle"
    /\ pc \in [Writers -> {"idle", "reset", "full", "store", "move"}]
    /\ Msgs \in [0..(Cap - 1) -> Nat]
    /\ pos \in Nat /\ pos <= Cap
    /\ full \in BOOLEAN
    /\ added \in Nat

\* Where the position is in the steps of Add
PosInv(w) ==
    /\ pc[w] = "reset" => pos = Cap
    /\ pc[w] = "full" => pos = 0
    /\ pc[w] \in {"store", "move"} => pos < Cap

\* An entry of this round counts back from the newest message, one of the
\* last round from a whole buffer before.
EntriesInv(w) ==
    IF Wrapped(w)
    THEN /\ added >= Cap + Filled(w)
         /\ \A p \in 0..(Cap - 1) :
               Msgs[p] = IF p < Filled(w) THEN added - Filled(w) + 1 + p
                         ELSE added - Filled(w) + 1 + p - Cap
    ELSE /\ added = Filled(w)
         /\ \A p \in 0..(Cap - 1) : Msgs[p] = IF p < Filled(w) THEN p + 1 ELSE 0

ReaderInv(w) ==
    /\ size \in Nat
    /\ res \in Seq(0..(Cap - 1))
    /\ reading \in BOOLEAN
    /\ reading =>
          /\ size <= Cap /\ size <= added
          /\ Wrapped(w) \/ size <= pos
          /\ \A i \in DOMAIN res : Msgs[res[i]] # 0

LogInv(w) == LogType(w) /\ PosInv(w) /\ EntriesInv(w) /\ ReaderInv(w)

\* The invariant of the buffer holds at the start.
LEMMA LogInit == ASSUME NEW w \in Writers, Init PROVE LogInv(w)
BY CircularLogAssumption
   DEF Init, LogInv, LogType, PosInv, EntriesInv, ReaderInv, Filled, Wrapped

\* In a buffer that was full no entry is blank, and in one that was not those
\* below the position are not.
LEMMA NotBlank ==
    ASSUME NEW w, LogType(w), EntriesInv(w), NEW p \in 0..(Cap - 1), Wrapped(w) \/ p < pos
    PROVE  Msgs[p] # 0
BY CircularLogAssumption DEF LogType, EntriesInv, Filled

\* The place that a reader looks at is one of the buffer and not blank.
LEMMA PlaceIsThere ==
    ASSUME NEW w, LogInv(w), NEW i \in Nat,
           i < Cap, Wrapped(w) \/ i < pos
    PROVE  PlaceOf(i) \in 0..(Cap - 1) /\ Msgs[PlaceOf(i)] # 0
<1>1. PlaceOf(i) \in 0..(Cap - 1)
  BY CircularLogAssumption DEF LogInv, LogType, PlaceOf
<1>2. Wrapped(w) \/ PlaceOf(i) < pos
  BY DEF LogInv, LogType, PlaceOf
<1>3. QED
  BY <1>1, <1>2, NotBlank DEF LogInv

\* Each step of the writer keeps it (Add, one statement at a time).
LEMMA WriterKeepsInv ==
    ASSUME NEW w, LogInv(w),
           Add(w) \/ Reset(w) \/ SetFull(w) \/ Store(w) \/ Move(w)
    PROVE  LogInv(w)'
<1> USE CircularLogAssumption DEF LogInv, Goto, reader
<1>1. CASE Add(w)
  BY <1>1 DEF Add, LogType, PosInv, EntriesInv, ReaderInv, Filled, Wrapped
<1>2. CASE Reset(w)
  BY <1>2 DEF Reset, LogType, PosInv, EntriesInv, ReaderInv, Filled, Wrapped
<1>3. CASE SetFull(w)
  BY <1>3 DEF SetFull, LogType, PosInv, EntriesInv, ReaderInv, Filled, Wrapped
<1>4. CASE Store(w)
  <2>1. pos \in DOMAIN Msgs /\ Msgs' = [Msgs EXCEPT ![pos] = added + 1] /\ pc'[w] = "move"
        /\ added' = added + 1 /\ pos' = pos /\ full' = full
    BY <1>4 DEF Store, LogType, PosInv
  <2>2. LogType(w)' /\ PosInv(w)'
    BY <1>4, <2>1 DEF Store, LogType, PosInv
  <2>3. EntriesInv(w)'
    <3>1. Filled(w) = pos /\ Filled(w)' = pos + 1 /\ Wrapped(w) = full /\ Wrapped(w)' = full
      BY <1>4, <2>1 DEF Store, LogType, Filled, Wrapped
    <3>2. \A p \in 0..(Cap - 1) : Msgs'[p] = IF p = pos THEN added + 1 ELSE Msgs[p]
      BY <2>1 DEF LogType
    <3>3. full => added >= Cap + pos
      BY <3>1 DEF EntriesInv
    <3>4. CASE full
      <4>1. ASSUME NEW p \in 0..(Cap - 1)
            PROVE  Msgs'[p] = IF p < pos + 1 THEN added + 1 - (pos + 1) + 1 + p
                              ELSE added + 1 - (pos + 1) + 1 + p - Cap
        <5>1. Msgs[p] = IF p < pos THEN added - pos + 1 + p ELSE added - pos + 1 + p - Cap
          BY <3>1, <3>4 DEF EntriesInv
        <5>2. QED
          BY <3>2, <5>1 DEF LogType
      <4>2. QED
        BY <2>1, <3>1, <3>3, <3>4, <4>1 DEF EntriesInv, LogType
    <3>5. CASE ~ full
      <4>1. added = pos /\ \A p \in 0..(Cap - 1) : Msgs[p] = IF p < pos THEN p + 1 ELSE 0
        BY <3>1, <3>5 DEF EntriesInv
      <4>2. \A p \in 0..(Cap - 1) : Msgs'[p] = IF p < pos + 1 THEN p + 1 ELSE 0
        BY <3>2, <4>1 DEF LogType
      <4>3. QED
        BY <2>1, <3>1, <3>5, <4>1, <4>2 DEF EntriesInv
    <3>6. QED
      BY <3>4, <3>5 DEF LogType
  <2>4. ReaderInv(w)'
    BY <1>4, <2>1 DEF Store, LogType, ReaderInv, Wrapped
  <2>5. QED
    BY <2>2, <2>3, <2>4
<1>5. CASE Move(w)
  BY <1>5 DEF Move, LogType, PosInv, EntriesInv, ReaderInv, Filled, Wrapped
<1>6. QED
  BY <1>1, <1>2, <1>3, <1>4, <1>5

\* Each step of GetOrdered keeps it.
LEMMA ReaderKeepsInv ==
    ASSUME NEW w, LogInv(w), GetOrdered \/ ReadEntry \/ ReturnOrdered
    PROVE  LogInv(w)'
<1>0. UNCHANGED <<Msgs, pos, full, pc, added>>
  BY DEF GetOrdered, ReadEntry, ReturnOrdered
<1>1. LogType(w)' /\ PosInv(w)' /\ EntriesInv(w)'
  <2>1. LogType(w)' /\ PosInv(w)'
    BY <1>0 DEF LogInv, LogType, PosInv
  <2>2. Filled(w)' = Filled(w) /\ Wrapped(w)' = Wrapped(w)
    BY <1>0 DEF Filled, Wrapped
  <2>3. EntriesInv(w)'
    BY <1>0, <2>2 DEF LogInv, EntriesInv
  <2>4. QED
    BY <2>1, <2>3
<1>2. CASE GetOrdered
  BY <1>2, CircularLogAssumption
     DEF GetOrdered, LogInv, LogType, PosInv, EntriesInv, ReaderInv, Filled, Wrapped
<1>3. CASE ReadEntry
  <2>1. Len(res) \in Nat /\ Len(res) < Cap /\ (Wrapped(w) \/ Len(res) < pos)
    BY <1>3, CircularLogAssumption DEF ReadEntry, LogInv, LogType, ReaderInv
  <2>2. PlaceOf(Len(res)) \in 0..(Cap - 1) /\ Msgs[PlaceOf(Len(res))] # 0
    BY <2>1, PlaceIsThere
  <2>3. res' = Append(res, PlaceOf(Len(res))) /\ UNCHANGED <<reading, size, Msgs, pos, full, pc, added>>
    BY <1>3, <2>2 DEF ReadEntry, LogInv, LogType
  <2>4. ReaderInv(w)'
    BY <2>2, <2>3 DEF LogInv, ReaderInv, Wrapped
  <2>5. QED
    BY <1>1, <2>4 DEF LogInv
<1>4. CASE ReturnOrdered
  <2>1. size' = 0 /\ res' = <<>> /\ reading' = FALSE
    BY <1>4 DEF ReturnOrdered
  <2> DEFINE Places == Seq(0..(Cap - 1))
  <2>a. 0 \in Nat /\ <<>> \in Places
    OBVIOUS
  <2> HIDE DEF Places
  <2>b. size' \in Nat /\ res' \in Places
    BY <2>1, <2>a, Zenon
  <2>2. size' \in Nat /\ res' \in Seq(0..(Cap - 1))
    BY ONLY <2>b, Zenon DEF Places
  <2>3. reading' \in BOOLEAN /\ ~ reading'
    BY <2>1, Zenon
  <2>4. QED
    BY <1>1, <2>2, <2>3 DEF LogInv, ReaderInv
<1>5. QED
  BY <1>1, <1>2, <1>3, <1>4 DEF LogInv

\* When nobody writes, any writer may be taken for the last.
LEMMA AnyWriter ==
    ASSUME NEW w, LogInv(w), Quiet, NEW v \in Writers
    PROVE  LogInv(v)
<1>1. w \in Writers /\ pc[w] = "idle" /\ pc[v] = "idle"
  BY DEF LogInv, LogType, Quiet
<1>2. Filled(v) = Filled(w) /\ Wrapped(v) = Wrapped(w)
  BY <1>1 DEF Filled, Wrapped
<1>3. LogType(v) /\ PosInv(v)
  BY <1>1 DEF LogInv, LogType, PosInv, Quiet
<1>4. EntriesInv(v) /\ ReaderInv(v)
  BY <1>2 DEF LogInv, EntriesInv, ReaderInv
<1>5. QED
  BY <1>3, <1>4 DEF LogInv

\* Every step keeps it, unless one call of Add begins in another.
LEMMA LogStep ==
    ASSUME NEW w, LogInv(w), [Next]_vars, ~ overlapped'
    PROVE  \E v \in Writers : LogInv(v)'
<1>1. ASSUME NEW v \in Writers, Add(v) \/ Reset(v) \/ SetFull(v) \/ Store(v) \/ Move(v)
      PROVE  LogInv(v)'
  <2>1. CASE v = w
    BY <1>1, <2>1, WriterKeepsInv
  <2>2. CASE v # w
    <3>1. pc[v] = "idle"
      BY <2>2 DEF LogInv, LogType
    <3>2. Add(v)
      BY <1>1, <3>1 DEF Reset, SetFull, Store, Move
    <3>3. Quiet
      BY <3>2 DEF Add
    <3>4. LogInv(v)
      BY <3>3, AnyWriter
    <3>5. QED
      BY <1>1, <3>4, WriterKeepsInv
  <2>3. QED
    BY <2>1, <2>2
<1>2. w \in Writers
  BY DEF LogInv, LogType
<1>3. CASE GetOrdered \/ ReadEntry \/ ReturnOrdered
  BY <1>2, <1>3, ReaderKeepsInv
<1>4. CASE UNCHANGED vars
  BY <1>2, <1>4 DEF vars, reader, LogInv, LogType, PosInv, EntriesInv, ReaderInv, Filled, Wrapped
<1>5. QED
  BY <1>1, <1>3, <1>4 DEF Next

\* What the entries are gives the order of the messages.
LEMMA LogInvGivesOrder ==
    ASSUME NEW w, LogInv(w)
    PROVE  QuietOrder /\ ReadsMessages
<1>1. QuietOrder
  <2> SUFFICES ASSUME pc[w] = "idle"
               PROVE  LET n == IF full THEN Cap ELSE pos
                      IN  /\ n = IF added < Cap THEN added ELSE Cap
                          /\ \A i \in 0..(n - 1) :
                                PlaceOf(i) \in DOMAIN Msgs /\ Msgs[PlaceOf(i)] = added - i
    BY DEF QuietOrder, Quiet, LogInv, LogType
  <2> DEFINE n == IF full THEN Cap ELSE pos
  <2>1. n = IF added < Cap THEN added ELSE Cap
    BY CircularLogAssumption DEF LogInv, LogType, EntriesInv, Filled, Wrapped
  <2>2. ASSUME NEW i \in 0..(n - 1)
        PROVE  PlaceOf(i) \in DOMAIN Msgs /\ Msgs[PlaceOf(i)] = added - i
    <3>1. PlaceOf(i) \in 0..(Cap - 1)
      BY <2>2, CircularLogAssumption DEF LogInv, LogType, PlaceOf
    <3>2. Msgs[PlaceOf(i)] = added - i
      BY <2>2, <3>1, CircularLogAssumption
         DEF LogInv, LogType, EntriesInv, Filled, Wrapped, PlaceOf
    <3>3. QED
      BY <3>1, <3>2 DEF LogInv, LogType
  <2>3. QED
    BY <2>1, <2>2
<1>2. ReadsMessages
  <2>1. ASSUME reading, Len(res) < size
        PROVE  PlaceOf(Len(res)) \in DOMAIN Msgs
    <3>1. Len(res) \in Nat /\ Len(res) < Cap /\ (Wrapped(w) \/ Len(res) < pos)
      BY <2>1, CircularLogAssumption DEF LogInv, LogType, ReaderInv
    <3>2. QED
      BY <3>1, PlaceIsThere DEF LogInv, LogType
  <2>2. QED
    BY <2>1 DEF ReadsMessages, LogInv, ReaderInv
<1>3. QED
  BY <1>1, <1>2

\* Whatever the writers are, the size of the buffer and the number of messages:
\* as long as no call of Add began while another was in progress, GetOrdered
\* gives the last messages in order when nobody writes, and only messages at
\* any time (log.go:40-65).
THEOREM AddsInTurnAreOrdered == Spec => []AddsInTurnAreKept
<1> DEFINE Inv == overlapped \/ \E w \in Writers : LogInv(w)
<1>1. Init => Inv
  BY LogInit, CircularLogAssumption
<1>2. Inv /\ [Next]_vars => Inv'
  <2> SUFFICES ASSUME Inv, [Next]_vars, ~ overlapped' PROVE \E w \in Writers : LogInv(w)'
    OBVIOUS
  <2>1. ~ overlapped
    BY DEF Next, Add, Reset, SetFull, Store, Move, GetOrdered, ReadEntry, ReturnOrdered, vars
  <2>2. PICK w \in Writers : LogInv(w)
    BY <2>1
  <2>3. QED
    BY <2>2, LogStep
<1>3. Inv => AddsInTurnAreKept
  BY LogInvGivesOrder DEF AddsInTurnAreKept
<1>4. QED
  BY <1>1, <1>2, <1>3, PTL DEF Spec

(***************************************************************************)
(* Folds.  FoldLeft is defined by recursion on the set of the places that  *)
(* are left, the greatest last; here it becomes the sequence of the values *)
(* after 0, 1, 2, ... places.                                              *)
(***************************************************************************)

\* A set of numbers with 0 and the successor of each of its members has all
\* of them: the least one it had not would have a predecessor in it.
LEMMA Induct ==
    ASSUME NEW S, 0 \in S, \A n \in Nat : n \in S => n + 1 \in S
    PROVE  Nat \subseteq S
<1> SUFFICES ASSUME NEW x \in Nat \ S PROVE FALSE
  OBVIOUS
<1>1. PICK m \in Nat \ S : \A y \in Nat \ S : ~ <<y, m>> \in OpToRel(<, Nat)
  BY NatLessThanWellFounded, WFMin
<1>2. m # 0
  OBVIOUS
<1>3. m - 1 \in Nat /\ m - 1 < m /\ (m - 1) + 1 = m
  BY <1>2
<1>4. m - 1 \in S
  <2>1. CASE m - 1 \notin S
    <3>1. <<m - 1, m>> \in OpToRel(<, Nat)
      BY <1>3 DEF OpToRel
    <3>2. QED
      BY <1>1, <1>3, <2>1, <3>1
  <2>2. QED
    BY <2>1
<1>5. QED
  BY <1>3, <1>4

\* The greatest of a set of places that has the last one
LEMMA MaxIsLast ==
    ASSUME NEW n \in Nat, NEW s \in SUBSET (1..n), n \in s
    PROVE  Max(s) = n
<1>1. n \in s /\ \A y \in s : n >= y
  OBVIOUS
<1>2. \A x \in s : (\A y \in s : x >= y) => x = n
  OBVIOUS
<1>3. QED
  BY <1>1, <1>2 DEF Max

\* It is one of them.
LEMMA MaxOfPlaces ==
    ASSUME NEW n \in Nat
    PROVE  \A s \in SUBSET (1..n) : s # {} => Max(s) \in s
<1> DEFINE S == {k \in Nat : k <= n => \A s \in SUBSET (1..k) : s # {} => Max(s) \in s}
<1>1. 0 \in S
  <2>1. 1..0 = {}
    OBVIOUS
  <2>2. QED
    BY <2>1
<1>2. ASSUME NEW k \in Nat, k \in S PROVE k + 1 \in S
  <2> SUFFICES ASSUME k + 1 <= n, NEW s \in SUBSET (1..(k + 1)), s # {} PROVE Max(s) \in s
    OBVIOUS
  <2>1. CASE k + 1 \in s
    BY <2>1, MaxIsLast
  <2>2. CASE k + 1 \notin s
    <3>1. s \in SUBSET (1..k)
      BY <2>2
    <3>2. QED
      BY <1>2, <3>1
  <2>3. QED
    BY <2>1, <2>2
<1>3. n \in S
  BY <1>1, <1>2, Induct
<1>4. QED
  BY <1>3

\* The values of a fold of G over the places of 1..n that are in a set, as
\* the community modules define it
Iterates(it, G, base, n) ==
    it = [s \in SUBSET (1..n) |-> IF s = {} THEN base ELSE G[<<it[s \ {Max(s)}], Max(s)>>]]

\* From a value of A, a place leads to one of A.
Stays(G, A, n) == \A a \in A, i \in 1..n : G[<<a, i>>] \in A

\* The values after 0, 1, 2, ... places
Turns(f, G, A, base, n) ==
    /\ f \in [0..n -> A]
    /\ f[0] = base
    /\ \A i \in 1..n : f[i] = G[<<f[i - 1], i>>]

\* A place more
LEMMA OnePlaceMore ==
    ASSUME NEW A, NEW G, NEW base \in A, NEW n \in Nat,
           NEW it \in [SUBSET (1..n) -> A], Iterates(it, G, base, n),
           \A a \in A : G[<<a, n + 1>>] \in A
    PROVE  \E j \in [SUBSET (1..(n + 1)) -> A] : Iterates(j, G, base, n + 1)
<1> DEFINE m == n + 1
           rest(s) == s \ {m}
           v(s) == IF m \in s THEN G[<<it[rest(s)], m>>] ELSE it[s]
           j == [s \in SUBSET (1..m) |-> v(s)]
<1>1. m \in Nat /\ \A s \in SUBSET (1..m) : rest(s) \in SUBSET (1..n) /\ (m \notin s => s \in SUBSET (1..n))
  OBVIOUS
<1>2. \A s \in SUBSET (1..m) : v(s) \in A
  BY <1>1
<1>3. ASSUME NEW s \in SUBSET (1..m)
      PROVE  v(s) = IF s = {} THEN base ELSE G[<<j[s \ {Max(s)}], Max(s)>>]
  <2>1. CASE m \in s
    <3>1. Max(s) = m
      BY <1>1, <2>1, MaxIsLast
    <3>2. rest(s) \in SUBSET (1..m) /\ m \notin rest(s)
      OBVIOUS
    <3>3. j[rest(s)] = it[rest(s)]
      BY <3>2
    <3>4. QED
      BY <2>1, <3>1, <3>3
  <2>2. CASE m \notin s
    <3>1. s \in SUBSET (1..n)
      BY <1>1, <2>2
    <3>2. it[s] = IF s = {} THEN base ELSE G[<<it[s \ {Max(s)}], Max(s)>>]
      BY <3>1, Zenon DEF Iterates
    <3>3. s \ {Max(s)} \in SUBSET (1..m) /\ m \notin s \ {Max(s)}
      BY <2>2
    <3>4. j[s \ {Max(s)}] = it[s \ {Max(s)}]
      BY <3>3
    <3>5. QED
      BY <2>2, <3>2, <3>4
  <2>3. QED
    BY <2>1, <2>2
<1>4. j \in [SUBSET (1..m) -> A]
  BY <1>2
<1>5. Iterates(j, G, base, m)
  <2>1. j = [s \in SUBSET (1..m) |-> IF s = {} THEN base ELSE G[<<j[s \ {Max(s)}], Max(s)>>]]
    BY <1>3, Zenon
  <2> HIDE DEF j, m
  <2>2. QED
    BY <2>1, Zenon DEF Iterates
<1>6. QED
  BY <1>4, <1>5

\* Every fold whose values stay in a set has them all.
Iterable(G, A, base, n) == \E it \in [SUBSET (1..n) -> A] : Iterates(it, G, base, n)

\* Such a sequence of values exists for every number of places.
LEMMA IteratesExist ==
    ASSUME NEW A, NEW G, NEW base \in A, NEW n \in Nat, Stays(G, A, n)
    PROVE  Iterable(G, A, base, n)
<1> DEFINE S == {k \in Nat : k <= n => Iterable(G, A, base, k)}
<1>1. 0 \in S
  <2> DEFINE it == [s \in SUBSET (1..0) |-> base]
  <2>1. \A s \in SUBSET (1..0) : s = {}
    OBVIOUS
  <2>2. it = [s \in SUBSET (1..0) |-> IF s = {} THEN base ELSE G[<<it[s \ {Max(s)}], Max(s)>>]]
    BY <2>1, Zenon
  <2>3. it \in [SUBSET (1..0) -> A]
    OBVIOUS
  <2> HIDE DEF it
  <2>4. Iterates(it, G, base, 0)
    BY <2>2, Zenon DEF Iterates
  <2>5. Iterable(G, A, base, 0)
    BY <2>3, <2>4, Zenon DEF Iterable
  <2>6. QED
    BY <2>5
<1>2. ASSUME NEW k \in Nat, k \in S PROVE k + 1 \in S
  <2> SUFFICES ASSUME k + 1 <= n PROVE Iterable(G, A, base, k + 1)
    OBVIOUS
  <2>1. Iterable(G, A, base, k)
    BY <1>2
  <2>2. PICK it \in [SUBSET (1..k) -> A] : Iterates(it, G, base, k)
    BY <2>1, Zenon DEF Iterable
  <2>3. \A a \in A : G[<<a, k + 1>>] \in A
    BY DEF Stays
  <2>4. QED
    BY <2>2, <2>3, OnePlaceMore DEF Iterable
<1> HIDE DEF S
<1>3. n \in S
  BY <1>1, <1>2, Induct
<1>4. QED
  BY <1>3 DEF S

\* What a fold says of its values as long as they stay in the set
Follows(it, G, A, base, n) ==
    /\ it[{}] = base
    /\ \A s \in SUBSET (1..n) : s # {} /\ it[s \ {Max(s)}] \in A =>
          it[s] = G[<<it[s \ {Max(s)}], Max(s)>>]

\* The value of a fold over all places
Whole(it, n) == it[1..n]

\* What they are, one place after the other
LEMMA FollowsTurns ==
    ASSUME NEW A, NEW G, NEW base \in A, NEW n \in Nat, NEW it,
           Follows(it, G, A, base, n), Stays(G, A, n)
    PROVE  \E f : Turns(f, G, A, base, n) /\ Whole(it, n) = f[n]
<1> DEFINE f == [k \in 0..n |-> it[1..k]]
<1>1. f[0] = base
  <2>1. 1..0 = {}
    OBVIOUS
  <2>2. QED
    BY <2>1 DEF Follows
<1>2. ASSUME NEW i \in 1..n, f[i - 1] \in A PROVE f[i] = G[<<f[i - 1], i>>]
  <2>1. i \in 0..n /\ i - 1 \in 0..n /\ 1..i \in SUBSET (1..n) /\ 1..i # {} /\ (1..i) \ {i} = 1..(i - 1)
    OBVIOUS
  <2>2. Max(1..i) = i
    BY MaxIsLast
  <2>3. it[(1..i) \ {Max(1..i)}] \in A
    BY <1>2, <2>1, <2>2
  <2>4. it[1..i] = G[<<it[(1..i) \ {Max(1..i)}], Max(1..i)>>]
    BY <2>1, <2>3, Zenon DEF Follows
  <2>5. QED
    BY <2>1, <2>2, <2>4
<1>3. Whole(it, n) = f[n]
  BY DEF Whole
<1>4. f = [k \in 0..n |-> f[k]]
  OBVIOUS
<1> HIDE DEF f
<1>5. \A k \in 0..n : f[k] \in A
  <2> DEFINE S == {k \in Nat : k <= n => f[k] \in A}
  <2>1. 0 \in S
    BY <1>1
  <2>2. ASSUME NEW k \in Nat, k \in S PROVE k + 1 \in S
    <3> SUFFICES ASSUME k + 1 <= n PROVE f[k + 1] \in A
      OBVIOUS
    <3>1. k + 1 \in 1..n /\ k + 1 - 1 = k /\ f[k] \in A
      BY <2>2
    <3>2. f[k + 1] = G[<<f[k], k + 1>>]
      BY <1>2, <3>1
    <3>3. QED
      BY <3>1, <3>2 DEF Stays
  <2> HIDE DEF S
  <2>3. Nat \subseteq S
    BY <2>1, <2>2, Induct
  <2>4. QED
    BY <2>3 DEF S
<1>6. f \in [0..n -> A]
  BY <1>4, <1>5
<1>7. \A i \in 1..n : f[i] = G[<<f[i - 1], i>>]
  BY <1>2, <1>5
<1>8. Turns(f, G, A, base, n)
  BY <1>1, <1>6, <1>7 DEF Turns
<1>9. QED
  BY <1>3, <1>8

----------------------------------------------------------------------------
\* The turns of GetTopics
ListTurn(kinds, start, length, kind) ==
    [x \in Seq(Nat) \X Nat |-> AddTopic(x[1], kinds, x[2], start, length, kind)]

\* GetTopics is the value after the last place.
LEMMA GetTopicsTurns ==
    ASSUME NEW kinds, NEW n \in Nat, DOMAIN kinds = 1..n,
           NEW start, NEW length, NEW kind
    PROVE  \E f : /\ Turns(f, ListTurn(kinds, start, length, kind), Seq(Nat), <<>>, n)
                  /\ GetTopics(kinds, start, length, kind) = f[n]
<1> DEFINE G == ListTurn(kinds, start, length, kind)
           seq == [i \in DOMAIN kinds |-> i]
           P(it) == it = [s \in SUBSET (1..n) |->
                       IF s = {} THEN <<>>
                       ELSE AddTopic(it[s \ {Max(s)}], kinds, seq[Max(s)], start, length, kind)]
<1>1. ASSUME NEW a \in Seq(Nat), NEW i \in 1..n
      PROVE  /\ G[<<a, i>>] = AddTopic(a, kinds, i, start, length, kind)
             /\ G[<<a, i>>] \in Seq(Nat)
  <2>1. i \in Nat
    OBVIOUS
  <2>2. Append(a, i) \in Seq(Nat)
    BY <2>1
  <2>3. AddTopic(a, kinds, i, start, length, kind) \in Seq(Nat)
    BY <2>2, Zenon DEF AddTopic
  <2>4. QED
    BY <2>1, <2>3 DEF ListTurn
<1>3. DOMAIN seq = 1..n /\ \A i \in 1..n : seq[i] = i
  OBVIOUS
<1>4. GetTopics(kinds, start, length, kind) = (CHOOSE it : P(it))[1..n]
  BY <1>3, Zenon DEF GetTopics, FoldLeft, MapThenFoldSet
<1>2. Stays(G, Seq(Nat), n)
  BY <1>1 DEF Stays
<1>5. \A s \in SUBSET (1..n) : s # {} => Max(s) \in 1..n
  BY MaxOfPlaces
<1>6. PICK it \in [SUBSET (1..n) -> Seq(Nat)] : Iterates(it, G, <<>>, n)
  <2>1. <<>> \in Seq(Nat)
    OBVIOUS
  <2> HIDE DEF G
  <2>2. Iterable(G, Seq(Nat), <<>>, n)
    BY <1>2, <2>1, IteratesExist
  <2>3. QED
    BY <2>2, Zenon DEF Iterable
<1> HIDE DEF G, seq
<1>7. P(it)
  <2>1. ASSUME NEW s \in SUBSET (1..n), s # {}
        PROVE  G[<<it[s \ {Max(s)}], Max(s)>>]
               = AddTopic(it[s \ {Max(s)}], kinds, seq[Max(s)], start, length, kind)
    <3>1. it[s \ {Max(s)}] \in Seq(Nat)
      OBVIOUS
    <3>2. QED
      BY <1>1, <1>3, <1>5, <2>1, <3>1
  <2>2. QED
    BY <1>6, <2>1, Zenon DEF Iterates
<1>8. PICK c : P(c) /\ GetTopics(kinds, start, length, kind) = Whole(c, n)
  BY <1>4, <1>7, Zenon DEF Whole
<1>9. Follows(c, G, Seq(Nat), <<>>, n)
  <2>1. c[{}] = <<>>
    <3>1. {} \in SUBSET (1..n)
      OBVIOUS
    <3>2. QED
      BY <1>8, <3>1, Zenon
  <2>2. ASSUME NEW s \in SUBSET (1..n), s # {}, c[s \ {Max(s)}] \in Seq(Nat)
        PROVE  c[s] = G[<<c[s \ {Max(s)}], Max(s)>>]
    <3>1. c[s] = AddTopic(c[s \ {Max(s)}], kinds, seq[Max(s)], start, length, kind)
      BY <1>8, <2>2, Zenon
    <3>2. QED
      BY <1>1, <1>3, <1>5, <2>2, <3>1
  <2>3. QED
    BY <2>1, <2>2, Zenon DEF Follows
<1>10. QED
  <2>1. PICK base : base = <<>>
    OBVIOUS
  <2>2. base \in Seq(Nat) /\ Follows(c, G, Seq(Nat), base, n)
    BY <1>9, <2>1
  <2>3. \E f : Turns(f, G, Seq(Nat), base, n) /\ Whole(c, n) = f[n]
    BY <1>2, <2>2, FollowsTurns
  <2>4. QED
    BY <1>8, <2>1, <2>3, Zenon DEF G

\* A product grows with its factor.
LEMMA Grows == ASSUME NEW a \in Int, NEW b \in Int, NEW m \in Nat, a <= b PROVE a * m <= b * m
OBVIOUS

\* The page of a place: the pages before it end before the place, and with
\* this page they reach it.
LEMMA PageOfPlace ==
    ASSUME NEW m \in Nat \ {0}, NEW a \in Nat \ {0}
    PROVE  /\ intdivceil(a, m) \in Nat \ {0}
           /\ (intdivceil(a, m) - 1) * m < a
           /\ a <= intdivceil(a, m) * m
<1> DEFINE q == (a + m - 1) \div m
<1>1. q \in Nat /\ m * q <= a + m - 1 /\ a + m - 1 < m * (q + 1)
  OBVIOUS
<1>2. m * (q + 1) = m * q + m /\ (q - 1) * m = m * q - m /\ q * m = m * q
  BY <1>1
<1> HIDE DEF q
<1>3. q # 0
  BY <1>1, <1>2
<1>4. QED
  BY <1>1, <1>2, <1>3 DEF intdivceil, q

\* It is the only such page.
LEMMA OnlyPage ==
    ASSUME NEW m \in Nat \ {0}, NEW a \in Nat \ {0}, NEW p \in Nat \ {0},
           (p - 1) * m < a, a <= p * m
    PROVE  p = intdivceil(a, m)
<1> DEFINE q == intdivceil(a, m)
<1>1. q \in Nat \ {0} /\ (q - 1) * m < a /\ a <= q * m
  BY PageOfPlace
<1> HIDE DEF q
<1>2. CASE p < q
  <2>1. p * m <= (q - 1) * m
    BY <1>1, <1>2, Grows
  <2>2. QED
    BY <1>1, <2>1
<1>3. CASE q < p
  <2>1. q * m <= (p - 1) * m
    BY <1>1, <1>3, Grows
  <2>2. QED
    BY <1>1, <2>1
<1>4. QED
  BY <1>1, <1>2, <1>3 DEF q

\* A place before another is on a page before, or on the same.
LEMMA PagesInOrder ==
    ASSUME NEW m \in Nat \ {0}, NEW a \in Nat \ {0}, NEW b \in Nat \ {0}, a <= b
    PROVE  intdivceil(a, m) <= intdivceil(b, m)
<1> DEFINE p == intdivceil(a, m)
           q == intdivceil(b, m)
<1>1. p \in Nat \ {0} /\ (p - 1) * m < a /\ q \in Nat \ {0} /\ b <= q * m
  BY PageOfPlace
<1> HIDE DEF p, q
<1>2. CASE q < p
  <2>1. q * m <= (p - 1) * m
    BY <1>1, <1>2, Grows
  <2>2. QED
    BY <1>1, <2>1
<1>3. QED
  BY <1>1, <1>2 DEF p, q

\* What page p shows of a topic of n posts: those of its places, and before
\* them the first one.
LEMMA PageShows ==
    ASSUME NEW n \in Nat \ {0}, NEW p \in 1..intdivceil(n, PostsPerPage)
    PROVE  \E first \in Nat \ {0}, last \in Nat :
              /\ first = (p - 1) * PostsPerPage + 1
              /\ last = AtMost(p * PostsPerPage, n) /\ first <= last
              /\ p = 1 => /\ TopicPage(n, p) \in Seq(Nat) /\ Len(TopicPage(n, p)) = last
                          /\ \A j \in 1..last : TopicPage(n, p)[j] = j
              /\ p # 1 => /\ TopicPage(n, p) \in Seq(Nat) /\ Len(TopicPage(n, p)) = last - first + 2
                          /\ TopicPage(n, p)[1] = 1
                          /\ \A j \in 2..(last - first + 2) : TopicPage(n, p)[j] = first + j - 2
<1> DEFINE m == PostsPerPage
           pages == intdivceil(n, m)
           first == (p - 1) * m + 1
           last == AtMost(p * m, n)
           ids == [i \in 1..n |-> i]
           posts == SubSeq(ids, first, last)
<1>1. m \in Nat \ {0}
  BY PagesAssumption
<1>2. pages \in Nat \ {0} /\ (pages - 1) * m < n /\ p \in Nat \ {0} /\ p <= pages
  BY <1>1, PageOfPlace
<1>3. AtMost(AtLeast1(p), pages) = p
  BY <1>2 DEF AtMost, AtLeast1
<1>4. first \in Nat \ {0} /\ p * m \in Nat /\ p * m = first - 1 + m /\ (p - 1) * m = first - 1
  BY <1>1, <1>2
<1>5. first <= n
  <2>1. (p - 1) * m <= (pages - 1) * m
    BY <1>1, <1>2, Grows
  <2>2. (pages - 1) * m \in Int
    BY <1>1, <1>2
  <2> HIDE DEF first, pages
  <2>3. QED
    BY <1>2, <1>4, <2>1, <2>2
<1> HIDE DEF first, pages
<1>6. last \in Nat /\ first <= last /\ last <= n
  BY <1>1, <1>4, <1>5 DEF AtMost
<1> HIDE DEF last
<1>7. \A i \in first..last : ids[i] = i /\ ids[i] \in Nat
  BY <1>4, <1>6
<1> HIDE DEF ids
<1>8. /\ posts \in Seq(Nat) /\ Len(posts) = last - first + 1
      /\ \A j \in 1..(last - first + 1) : posts[j] = first + j - 1
  <2>1. /\ posts \in Seq(Nat) /\ Len(posts) = last - first + 1
        /\ \A j \in 1..(last - first + 1) : posts[j] = ids[first + j - 1]
    BY <1>4, <1>6, <1>7, SubSeqProperties
  <2>2. ASSUME NEW j \in 1..(last - first + 1) PROVE ids[first + j - 1] = first + j - 1
    BY <1>4, <1>6, <1>7
  <2>3. QED
    BY <2>1, <2>2
<1>9. TopicPage(n, p) = IF p = 1 THEN posts ELSE <<1>> \o posts
  BY <1>3, Zenon DEF TopicPage, first, last, pages, ids
<1> HIDE DEF posts
<1>10. CASE p = 1
  <2>1. first = 1
    BY <1>1, <1>10 DEF first
  <2>2. QED
    BY <1>4, <1>6, <1>8, <1>9, <1>10, <2>1, SMTT(20) DEF first, last
<1>11. CASE p # 1
  <2>1. TopicPage(n, p) = <<1>> \o posts
    BY <1>9, <1>11
  <2>2. <<1>> \in Seq(Nat) /\ Len(<<1>>) = 1 /\ <<1>>[1] = 1
    OBVIOUS
  <2>3. /\ TopicPage(n, p) \in Seq(Nat) /\ Len(TopicPage(n, p)) = last - first + 2
        /\ TopicPage(n, p)[1] = 1
        /\ \A j \in 2..(last - first + 2) : TopicPage(n, p)[j] = posts[j - 1]
    <3>11. PICK one \in Seq(Nat) : one = <<1>> /\ Len(one) = 1 /\ one[1] = 1
      BY <2>2
    <3>12. PICK k \in Nat : k = last - first + 1
      BY <1>4, <1>6
    <3>13. PICK rest \in Seq(Nat) : rest = posts /\ Len(rest) = k
      BY <1>8, <3>12
    <3>1. /\ one = <<1>> /\ rest = posts /\ Len(one) = 1 /\ one[1] = 1
          /\ k = last - first + 1 /\ Len(rest) = k
      BY <3>11, <3>12, <3>13
    <3>2. /\ one \o rest \in Seq(Nat) /\ Len(one \o rest) = 1 + k
          /\ \A j \in 1..(1 + k) : (one \o rest)[j] = IF j <= 1 THEN one[j] ELSE rest[j - 1]
      BY <3>1, ConcatProperties
    <3>3. TopicPage(n, p) = one \o rest /\ 1 + k = last - first + 2
      BY <1>4, <1>6, <2>1, <3>1
    <3>4. ASSUME NEW j \in 2..(last - first + 2) PROVE TopicPage(n, p)[j] = posts[j - 1]
      <4>1. j \in 1..(1 + k) /\ ~ j <= 1
        BY <3>3
      <4>2. QED
        BY <3>1, <3>2, <3>3, <4>1
    <3>5. TopicPage(n, p)[1] = 1
      BY <3>1, <3>2, <3>3
    <3>6. QED
      BY <3>2, <3>3, <3>4, <3>5
  <2>4. ASSUME NEW j \in 2..(last - first + 2) PROVE posts[j - 1] = first + j - 2
    <3>1. j - 1 \in 1..(last - first + 1) /\ first + (j - 1) - 1 = first + j - 2
      BY <1>4, <1>6
    <3>2. QED
      BY <1>8, <3>1
  <2>5. \A j \in 2..(last - first + 2) : TopicPage(n, p)[j] = first + j - 2
    BY <2>3, <2>4
  <2>6. first = (p - 1) * PostsPerPage + 1 /\ last = AtMost(p * PostsPerPage, n)
    BY DEF first, last
  <2>7. QED
    BY <1>4, <1>6, <1>11, <2>3, <2>5, <2>6
<1>12. QED
  BY <1>10, <1>11

\* The link of a post leads to the page that shows it.
LEMMA LinkLeadsToPost ==
    ASSUME NEW n \in Nat \ {0}, NEW id \in 1..n
    PROVE  LinkShowsPost(n, id)
<1> DEFINE m == PostsPerPage
           pages == intdivceil(n, m)
           q == intdivceil(id, m)
<1>1. m \in Nat \ {0}
  BY PagesAssumption
<1>2. id \in Nat \ {0} /\ id <= n
  OBVIOUS
<1>3. pages \in Nat \ {0} /\ q \in Nat \ {0} /\ (q - 1) * m < id /\ id <= q * m /\ q <= pages
  BY <1>1, <1>2, PageOfPlace, PagesInOrder
<1>4. ASSUME NEW p \in 1..pages
      PROVE  /\ id = 1 \/ (id \in Range(TopicPage(n, p)) <=> p = q)
             /\ TopicPage(n, p)[1] = 1
             /\ \A i, j \in DOMAIN TopicPage(n, p) : i < j => TopicPage(n, p)[i] < TopicPage(n, p)[j]
  <2>1. PICK first \in Nat \ {0}, last \in Nat :
           /\ first = (p - 1) * m + 1 /\ last = AtMost(p * m, n) /\ first <= last
           /\ p = 1 => /\ TopicPage(n, p) \in Seq(Nat) /\ Len(TopicPage(n, p)) = last
                       /\ \A j \in 1..last : TopicPage(n, p)[j] = j
           /\ p # 1 => /\ TopicPage(n, p) \in Seq(Nat) /\ Len(TopicPage(n, p)) = last - first + 2
                       /\ TopicPage(n, p)[1] = 1
                       /\ \A j \in 2..(last - first + 2) : TopicPage(n, p)[j] = first + j - 2
    BY PageShows
  <2>2. p \in Nat \ {0}
    BY <1>3
  <2>3. p = q <=> first <= id /\ id <= last
    <3>1. CASE p = q
      BY <1>1, <1>2, <1>3, <2>1, <3>1 DEF AtMost
    <3>2. CASE first <= id /\ id <= last
      <4>1. (p - 1) * m \in Int /\ p * m \in Int
        BY <1>1, <2>2
      <4>2. (p - 1) * m < id /\ id <= p * m
        BY <1>2, <2>1, <3>2, <4>1 DEF AtMost
      <4>3. QED
        BY <1>1, <1>2, <2>2, <3>2, <4>2, OnlyPage
    <3>3. QED
      BY <3>1, <3>2
  <2> HIDE DEF pages, q, m
  <2>4. CASE p = 1
    <3>1. first = 1
      BY <1>1, <2>1, <2>4
    <3>2. DOMAIN TopicPage(n, p) = 1..last /\ \A j \in 1..last : TopicPage(n, p)[j] = j
      BY <2>1, <2>4
    <3>3. Range(TopicPage(n, p)) = 1..last
      BY <3>2 DEF Range
    <3>4. QED
      BY <1>2, <2>1, <2>3, <3>1, <3>2, <3>3
  <2>5. CASE p # 1
    <3>1. DOMAIN TopicPage(n, p) = 1..(last - first + 2)
      BY <2>1, <2>5
    <3>2. /\ TopicPage(n, p)[1] = 1
          /\ \A j \in 2..(last - first + 2) : TopicPage(n, p)[j] = first + j - 2
      BY <2>1, <2>5
    <3>3. first > 1
      <4>1. (2 - 1) * m <= (p - 1) * m
        BY <1>1, <2>2, <2>5, Grows
      <4>2. QED
        BY <1>1, <2>1, <4>1
    <3>4. id = 1 \/ (id \in Range(TopicPage(n, p)) <=> first <= id /\ id <= last)
      <4>1. ASSUME first <= id, id <= last PROVE id \in Range(TopicPage(n, p))
        <5>1. id - first + 2 \in 2..(last - first + 2) /\ first + (id - first + 2) - 2 = id
          BY <1>2, <2>1, <4>1
        <5>2. TopicPage(n, p)[id - first + 2] = id
          BY <3>2, <5>1
        <5>3. QED
          BY <3>1, <5>1, <5>2 DEF Range
      <4>2. ASSUME id \in Range(TopicPage(n, p)), id # 1 PROVE first <= id /\ id <= last
        <5>1. PICK j \in 1..(last - first + 2) : TopicPage(n, p)[j] = id
          BY <3>1, <4>2 DEF Range
        <5>2. j \in 2..(last - first + 2)
          BY <3>2, <4>2, <5>1
        <5>3. id = first + j - 2
          BY <3>2, <5>1, <5>2
        <5>4. QED
          BY <5>2, <5>3
      <4>3. QED
        BY <4>1, <4>2
    <3>5. ASSUME NEW i \in 1..(last - first + 2), NEW j \in 1..(last - first + 2), i < j
          PROVE  TopicPage(n, p)[i] < TopicPage(n, p)[j]
      <4>1. TopicPage(n, p)[j] = first + j - 2
        BY <3>2, <3>5
      <4>2. CASE i = 1
        BY <2>1, <3>2, <3>3, <3>5, <4>1, <4>2, SMTT(20)
      <4>3. CASE i # 1
        BY <2>1, <3>2, <3>5, <4>1, <4>3
      <4>4. QED
        BY <4>2, <4>3
    <3>6. QED
      BY <2>3, <3>1, <3>2, <3>4, <3>5
  <2>6. QED
    BY <2>4, <2>5
<1>5. QED
  BY <1>3, <1>4 DEF LinkShowsPost, PageOfLink

----------------------------------------------------------------------------
(* Lists.                                                                  *)

\* What is in a sequence stays in it.
LEMMA StaysInRange ==
    ASSUME NEW s \in Seq(Nat), NEW v, NEW x \in Range(s)
    PROVE  x \in Range(Append(s, v))
<1>1. PICK j \in 1..Len(s) : s[j] = x
  BY DEF Range
<1>2. j \in 1..(Len(s) + 1) /\ Append(s, v)[j] = s[j] /\ DOMAIN Append(s, v) = 1..(Len(s) + 1)
  OBVIOUS
<1>3. QED
  BY <1>1, <1>2 DEF Range

\* What the turns of GetTopics collect: at most one topic a turn, none before
\* start, and a topic of the kind that the bound leaves room for, for good.
LEMMA TopicsCollected ==
    ASSUME NEW kinds, NEW n \in Nat, NEW start \in Nat, NEW length \in Nat, NEW kind, NEW f,
           Turns(f, ListTurn(kinds, start, length, kind), Seq(Nat), <<>>, n),
           NEW i \in 1..n, start < i, i <= start + length, kinds[i] = kind
    PROVE  i \in Range(f[n])
<1>1. /\ f[0] = <<>>
      /\ \A k \in 0..n : f[k] \in Seq(Nat)
      /\ \A k \in 1..n : f[k] = AddTopic(f[k - 1], kinds, k, start, length, kind)
  <2>1. f[0] = <<>> /\ \A k \in 0..n : f[k] \in Seq(Nat)
    BY DEF Turns
  <2>2. ASSUME NEW k \in 1..n PROVE f[k] = AddTopic(f[k - 1], kinds, k, start, length, kind)
    <3>1. <<f[k - 1], k>> \in Seq(Nat) \X Nat
      BY <2>1
    <3>2. f[k] = ListTurn(kinds, start, length, kind)[<<f[k - 1], k>>]
      BY DEF Turns
    <3>3. QED
      BY <3>1, <3>2, Zenon DEF ListTurn
  <2>3. QED
    BY <2>1, <2>2
<1> DEFINE S == {k \in Nat : k <= n => Len(f[k]) <= (IF k <= start THEN 0 ELSE k - start)}
<1>2. 0 \in S
  BY <1>1
<1>3. ASSUME NEW k \in Nat, k \in S PROVE k + 1 \in S
  <2> SUFFICES ASSUME k + 1 <= n
               PROVE  Len(f[k + 1]) <= (IF k + 1 <= start THEN 0 ELSE k + 1 - start)
    OBVIOUS
  <2>1. f[k] \in Seq(Nat) /\ f[k + 1] = AddTopic(f[k], kinds, k + 1, start, length, kind)
        /\ Len(f[k]) <= (IF k <= start THEN 0 ELSE k - start)
    BY <1>1, <1>3
  <2>2. CASE k + 1 > start /\ Len(f[k]) < length /\ kinds[k + 1] = kind
    <3>1. f[k + 1] = Append(f[k], k + 1)
      BY <2>1, <2>2 DEF AddTopic
    <3>2. Len(f[k + 1]) = Len(f[k]) + 1 /\ Len(f[k]) \in Nat
      BY <2>1, <3>1
    <3>3. QED
      BY <2>1, <2>2, <3>2
  <2>3. CASE ~ (k + 1 > start /\ Len(f[k]) < length /\ kinds[k + 1] = kind)
    <3>1. f[k + 1] = f[k]
      BY <2>1, <2>3 DEF AddTopic
    <3>2. Len(f[k]) \in Nat
      BY <2>1
    <3>3. QED
      BY <2>1, <3>1, <3>2
  <2>4. QED
    BY <2>2, <2>3
<1> HIDE DEF S
<1>4. Nat \subseteq S
  BY <1>2, <1>3, Induct
<1>5. i \in Range(f[i])
  <2>1. i - 1 \in Nat /\ i - 1 <= n /\ i - 1 \in 0..n
    OBVIOUS
  <2>2. f[i - 1] \in Seq(Nat) /\ Len(f[i - 1]) <= (IF i - 1 <= start THEN 0 ELSE i - 1 - start)
    BY <1>1, <1>4, <2>1 DEF S
  <2>3. Len(f[i - 1]) < length
    BY <2>2
  <2>4. f[i] = Append(f[i - 1], i)
    BY <1>1, <2>3 DEF AddTopic
  <2>5. PICK q \in Seq(Nat) : q = f[i - 1]
    BY <2>2
  <2>6. i = Append(q, i)[Len(q) + 1] /\ Len(q) + 1 \in DOMAIN Append(q, i)
    OBVIOUS
  <2>7. QED
    BY <2>4, <2>5, <2>6, Zenon DEF Range
<1> DEFINE T == {k \in Nat : k <= n /\ i <= k => i \in Range(f[k])}
<1>6. 0 \in T
  OBVIOUS
<1>7. ASSUME NEW k \in Nat, k \in T PROVE k + 1 \in T
  <2> SUFFICES ASSUME k + 1 <= n, i <= k + 1 PROVE i \in Range(f[k + 1])
    OBVIOUS
  <2>1. CASE i = k + 1
    BY <1>5, <2>1
  <2>2. CASE i <= k
    <3>1. i \in Range(f[k]) /\ f[k] \in Seq(Nat)
      BY <1>1, <1>7, <2>2
    <3>2. f[k + 1] = AddTopic(f[k], kinds, k + 1, start, length, kind)
      BY <1>1, <2>2
    <3>3. f[k + 1] = f[k] \/ f[k + 1] = Append(f[k], k + 1)
      BY <3>2, Zenon DEF AddTopic
    <3>4. QED
      BY <3>1, <3>3, StaysInRange
  <2>3. QED
    BY <2>1, <2>2
<1> HIDE DEF T
<1>8. n \in T
  BY <1>6, <1>7, Induct
<1>9. QED
  BY <1>8 DEF T

\* Every topic of the kind is on the page of its place, or before: a list
\* that leaves out other kinds is only shorter.
LEMMA TopicsAreListed ==
    ASSUME NEW n \in Nat, NEW kinds, DOMAIN kinds = 1..n, Len(kinds) = n, NEW kind
    PROVE  TopicsListed(kinds, kind)
<1> SUFFICES ASSUME NEW i \in 1..n, kinds[i] = kind
             PROVE  \E p \in 1..ListPages(kinds) : i \in Range(ListPage(kinds, p, kind))
  BY DEF TopicsListed
<1> DEFINE m == TopicsPerPage
           p == intdivceil(i, m)
           start == (p - 1) * m
<1>1. m \in Nat \ {0}
  BY PagesAssumption
<1>2. i \in Nat \ {0} /\ n \in Nat \ {0} /\ i <= n
  OBVIOUS
<1>3. /\ p \in Nat \ {0} /\ start < i /\ i <= p * m /\ p <= ListPages(kinds)
      /\ ListPages(kinds) \in Nat
  BY <1>1, <1>2, PageOfPlace, PagesInOrder DEF ListPages
<1>4. start \in Nat /\ i <= start + m
  BY <1>1, <1>2, <1>3
<1>5. ListPage(kinds, p, kind) = GetTopics(kinds, start, m, kind)
  BY <1>3 DEF ListPage, AtLeast1
<1> HIDE DEF m, start, p
<1>6. PICK f : /\ Turns(f, ListTurn(kinds, start, m, kind), Seq(Nat), <<>>, n)
               /\ GetTopics(kinds, start, m, kind) = f[n]
  BY GetTopicsTurns
<1>7. i \in Range(f[n])
  BY <1>1, <1>3, <1>4, <1>6, TopicsCollected
<1>8. QED
  BY <1>3, <1>5, <1>6, <1>7

(***************************************************************************)
(* Bytes as their bits.                                                    *)
(***************************************************************************)

\* The bits of a byte, the lowest first, and the byte they make
Bits == [1..8 -> {0, 1}]
Value(b) == b[1] + 2 * b[2] + 4 * b[3] + 8 * b[4] + 16 * b[5] + 32 * b[6] + 64 * b[7] + 128 * b[8]

Byte == 0..255

\* Addition without carry
Plus(x, y) == IF x = y THEN 0 ELSE 1
SumOf(a, b) == [i \in 1..8 |-> Plus(a[i], b[i])]

\* The bits of a byte, one by one.
LEMMA BitTypes ==
    ASSUME NEW b \in Bits
    PROVE  /\ \A i \in 1..8 : b[i] \in {0, 1}
           /\ b[1] \in {0, 1} /\ b[2] \in {0, 1} /\ b[3] \in {0, 1} /\ b[4] \in {0, 1}
           /\ b[5] \in {0, 1} /\ b[6] \in {0, 1} /\ b[7] \in {0, 1} /\ b[8] \in {0, 1}
BY DEF Bits

\* The places of a byte
LEMMA EightPlaces ==
    ASSUME NEW i \in 1..8
    PROVE  i = 1 \/ i = 2 \/ i = 3 \/ i = 4 \/ i = 5 \/ i = 6 \/ i = 7 \/ i = 8
OBVIOUS

\* A sum of bits has bits.
LEMMA SumIsBits == ASSUME NEW a \in Bits, NEW b \in Bits PROVE SumOf(a, b) \in Bits
BY DEF Bits, SumOf, Plus

\* The digits of a byte
LEMMA ValueDigits ==
    ASSUME NEW b \in Bits
    PROVE  /\ Value(b) \in Byte
           /\ (Value(b) \div 1) % 2 = b[1] /\ (Value(b) \div 2) % 2 = b[2]
           /\ (Value(b) \div 4) % 2 = b[3] /\ (Value(b) \div 8) % 2 = b[4]
           /\ (Value(b) \div 16) % 2 = b[5] /\ (Value(b) \div 32) % 2 = b[6]
           /\ (Value(b) \div 64) % 2 = b[7] /\ (Value(b) \div 128) % 2 = b[8]
<1>1. PICK b1 \in {0, 1}, b2 \in {0, 1}, b3 \in {0, 1}, b4 \in {0, 1},
           b5 \in {0, 1}, b6 \in {0, 1}, b7 \in {0, 1}, b8 \in {0, 1} :
         /\ b[1] = b1 /\ b[2] = b2 /\ b[3] = b3 /\ b[4] = b4
         /\ b[5] = b5 /\ b[6] = b6 /\ b[7] = b7 /\ b[8] = b8
  BY BitTypes
<1>2. PICK x \in Nat : x = b1 + 2 * b2 + 4 * b3 + 8 * b4 + 16 * b5 + 32 * b6 + 64 * b7 + 128 * b8
  OBVIOUS
<1>3. Value(b) = x
  BY <1>1, <1>2 DEF Value
<1>4. x \in Byte /\ (x \div 1) % 2 = b1 /\ (x \div 2) % 2 = b2 /\ (x \div 4) % 2 = b3 /\ (x \div 8) % 2 = b4
  BY <1>2 DEF Byte
<1>5. (x \div 16) % 2 = b5 /\ (x \div 32) % 2 = b6 /\ (x \div 64) % 2 = b7 /\ (x \div 128) % 2 = b8
  BY <1>2
<1>6. QED
  BY <1>1, <1>3, <1>4, <1>5

\* Every byte has its bits.
LEMMA ByteHasBits ==
    ASSUME NEW x \in Byte
    PROVE  \E b \in Bits : x = Value(b)
<1> DEFINE d(k) == (x \div k) % 2
           b == [i \in 1..8 |-> d(<<1, 2, 4, 8, 16, 32, 64, 128>>[i])]
<1>1. /\ b[1] = d(1) /\ b[2] = d(2) /\ b[3] = d(4) /\ b[4] = d(8)
      /\ b[5] = d(16) /\ b[6] = d(32) /\ b[7] = d(64) /\ b[8] = d(128)
  OBVIOUS
<1>2. b \in Bits
  <2>1. ASSUME NEW i \in 1..8 PROVE b[i] \in {0, 1}
    BY <1>1, EightPlaces DEF Byte
  <2>2. QED
    BY <2>1 DEF Bits
<1>3. x = d(1) + 2 * d(2) + 4 * d(4) + 8 * d(8) + 16 * d(16) + 32 * d(32) + 64 * d(64) + 128 * d(128)
  BY DEF Byte
<1> HIDE DEF b, d
<1>4. x = Value(b)
  BY <1>1, <1>3 DEF Value
<1>5. QED
  BY <1>2, <1>4

\* And no others.
LEMMA BitsAreUnique ==
    ASSUME NEW a \in Bits, NEW b \in Bits, Value(a) = Value(b)
    PROVE  a = b
<1>1. ASSUME NEW i \in 1..8 PROVE a[i] = b[i]
  BY ValueDigits, EightPlaces
<1>2. QED
  BY <1>1 DEF Bits

\* The bits by their weight, and the turns of Xor's fold: one bit after the
\* other
Weight == <<1, 2, 4, 8, 16, 32, 64, 128>>

XorTurn(a, b) ==
    [x \in Nat \X (1..8) |->
        x[1] + Weight[x[2]] * (((a \div Weight[x[2]]) + (b \div Weight[x[2]])) % 2)]

\* Xor is the value after eight places.
LEMMA XorTurns ==
    ASSUME NEW a \in Byte, NEW b \in Byte
    PROVE  \E f : Turns(f, XorTurn(a, b), Nat, 0, 8) /\ Xor(a, b) = f[8]
<1> DEFINE w == Weight
           op(sum, bit) == sum + bit * (((a \div bit) + (b \div bit)) % 2)
           P(it) == it = [s \in SUBSET (1..8) |-> IF s = {} THEN 0 ELSE op(it[s \ {Max(s)}], w[Max(s)])]
           G == XorTurn(a, b)
<1>1. ASSUME NEW x \in Nat, NEW i \in 1..8
      PROVE  G[<<x, i>>] = op(x, w[i]) /\ G[<<x, i>>] \in Nat
  <2>1. w[i] \in Nat \ {0}
    BY EightPlaces DEF Weight
  <2>2. G[<<x, i>>] = op(x, w[i])
    BY Zenon DEF XorTurn
  <2> HIDE DEF w
  <2>3. op(x, w[i]) \in Nat
    <3>1. PICK k \in Nat \ {0} : k = w[i]
      BY <2>1
    <3>2. ((a \div k) + (b \div k)) % 2 \in Nat
      BY DEF Byte
    <3>3. x + k * (((a \div k) + (b \div k)) % 2) \in Nat
      BY <3>2
    <3>4. QED
      BY <3>1, <3>3
  <2>4. QED
    BY <2>2, <2>3
<1>2. Stays(G, Nat, 8)
  BY <1>1 DEF Stays
<1>3. DOMAIN w = 1..8
  BY DEF Weight
<1>4. Xor(a, b) = (CHOOSE it : P(it))[1..8]
  BY <1>3, Zenon DEF Xor, Weight, FoldLeft, MapThenFoldSet
<1> HIDE DEF G, w
<1>5. ASSUME NEW it \in [SUBSET (1..8) -> Nat], Iterates(it, G, 0, 8)
      PROVE  P(it)
  <2>1. ASSUME NEW s \in SUBSET (1..8), s # {}
        PROVE  G[<<it[s \ {Max(s)}], Max(s)>>] = op(it[s \ {Max(s)}], w[Max(s)])
    <3>1. Max(s) \in 1..8 /\ it[s \ {Max(s)}] \in Nat
      BY <2>1, MaxOfPlaces
    <3>2. QED
      BY <1>1, <3>1
  <2>2. QED
    BY <1>5, <2>1, Zenon DEF Iterates
<1>6. ASSUME NEW c, P(c)
      PROVE  Follows(c, G, Nat, 0, 8)
  <2>1. c[{}] = 0
    <3>1. {} \in SUBSET (1..8)
      OBVIOUS
    <3>2. QED
      BY <1>6, <3>1, Zenon
  <2>2. ASSUME NEW s \in SUBSET (1..8), s # {}, c[s \ {Max(s)}] \in Nat
        PROVE  c[s] = G[<<c[s \ {Max(s)}], Max(s)>>]
    <3>1. c[s] = op(c[s \ {Max(s)}], w[Max(s)])
      BY <1>6, <2>2, Zenon
    <3>2. Max(s) \in 1..8
      BY <2>2, MaxOfPlaces
    <3>3. QED
      BY <1>1, <2>2, <3>1, <3>2
  <2>3. QED
    BY <2>1, <2>2, Zenon DEF Follows
<1>7. QED
  <2>1. PICK n \in Nat, z \in Nat : n = 8 /\ z = 0
    OBVIOUS
  <2>2. Iterable(G, Nat, z, n)
    BY <1>2, <2>1, IteratesExist
  <2>3. \E it : P(it)
    BY <1>5, <2>1, <2>2 DEF Iterable
  <2>4. PICK c : P(c) /\ Xor(a, b) = Whole(c, 8)
    BY <1>4, <2>3, Zenon DEF Whole
  <2>5. Follows(c, G, Nat, z, n) /\ Stays(G, Nat, n)
    BY <1>2, <1>6, <2>1, <2>4, Zenon
  <2>6. \E f : Turns(f, G, Nat, z, n) /\ Whole(c, n) = f[n]
    BY <2>5, FollowsTurns
  <2>7. QED
    BY <2>1, <2>4, <2>6, Zenon DEF G

\* The parity of a sum
LEMMA Parity ==
    ASSUME NEW x \in Nat, NEW y \in Nat
    PROVE  (x + y) % 2 = Plus(x % 2, y % 2)
<1>1. (x % 2 = 0 \/ x % 2 = 1) /\ (y % 2 = 0 \/ y % 2 = 1)
  OBVIOUS
<1>2. (x + y) % 2 = ((x % 2) + (y % 2)) % 2
  OBVIOUS
<1>3. QED
  BY <1>1, <1>2 DEF Plus

\* A turn of Xor
LEMMA XorTurnAt ==
    ASSUME NEW x, NEW y, NEW u \in Nat, NEW i \in 1..8
    PROVE  XorTurn(x, y)[<<u, i>>] = u + Weight[i] * (((x \div Weight[i]) + (y \div Weight[i])) % 2)
BY Zenon DEF XorTurn

\* Xor adds the bits without carry.
LEMMA XorOfBits ==
    ASSUME NEW a \in Bits, NEW b \in Bits
    PROVE  Xor(Value(a), Value(b)) = Value(SumOf(a, b))
<1> DEFINE c == SumOf(a, b)
<1>00. PICK x \in Byte : x = Value(a)
  BY ValueDigits
<1>1. PICK y \in Byte : y = Value(b)
  BY ValueDigits
<1>2. PICK f : Turns(f, XorTurn(x, y), Nat, 0, 8) /\ Xor(x, y) = f[8]
  BY XorTurns
<1>3. \A i \in 0..8 : f[i] \in Nat
  BY <1>2 DEF Turns
<1>4. ASSUME NEW i \in 1..8, NEW m \in Nat \ {0}, m = Weight[i],
             (x \div m) % 2 = a[i], (y \div m) % 2 = b[i]
      PROVE  f[i] = f[i - 1] + m * c[i]
  <2>1. f[i] = XorTurn(x, y)[<<f[i - 1], i>>]
    BY <1>2 DEF Turns
  <2>2. f[i - 1] \in Nat
    BY <1>3
  <2>3. f[i] = f[i - 1] + m * (((x \div m) + (y \div m)) % 2)
    <3>1. PICK u \in Nat : u = f[i - 1]
      BY <2>2
    <3>2. XorTurn(x, y)[<<u, i>>] = u + m * (((x \div m) + (y \div m)) % 2)
      <4>1. XorTurn(x, y)[<<u, i>>] = u + Weight[i] * (((x \div Weight[i]) + (y \div Weight[i])) % 2)
        BY XorTurnAt, ZenonT(30)
      <4>2. QED
        BY <1>4, <4>1, Zenon
    <3>3. QED
      BY <2>1, <3>1, <3>2, Zenon
  <2>4. x \div m \in Nat /\ y \div m \in Nat
    BY DEF Byte
  <2>5. ((x \div m) + (y \div m)) % 2 = Plus(a[i], b[i])
    BY <1>4, <2>4, Parity
  <2>6. c[i] = Plus(a[i], b[i])
    BY DEF SumOf
  <2> HIDE DEF c
  <2>7. QED
    BY <2>3, <2>5, <2>6, Zenon
<1> HIDE DEF c
<1>5. /\ f[1] = f[0] + 1 * c[1] /\ f[2] = f[1] + 2 * c[2]
      /\ f[3] = f[2] + 4 * c[3] /\ f[4] = f[3] + 8 * c[4]
      /\ f[5] = f[4] + 16 * c[5] /\ f[6] = f[5] + 32 * c[6]
      /\ f[7] = f[6] + 64 * c[7] /\ f[8] = f[7] + 128 * c[8]
  <2>1. /\ (x \div 1) % 2 = a[1] /\ (y \div 1) % 2 = b[1] /\ (x \div 2) % 2 = a[2] /\ (y \div 2) % 2 = b[2]
        /\ (x \div 4) % 2 = a[3] /\ (y \div 4) % 2 = b[3] /\ (x \div 8) % 2 = a[4] /\ (y \div 8) % 2 = b[4]
        /\ (x \div 16) % 2 = a[5] /\ (y \div 16) % 2 = b[5] /\ (x \div 32) % 2 = a[6] /\ (y \div 32) % 2 = b[6]
        /\ (x \div 64) % 2 = a[7] /\ (y \div 64) % 2 = b[7] /\ (x \div 128) % 2 = a[8] /\ (y \div 128) % 2 = b[8]
    BY <1>00, <1>1, ValueDigits
  <2>2. f[1] = f[0] + 1 * c[1]
    BY <1>4, <2>1 DEF Weight
  <2>3. f[2] = f[1] + 2 * c[2]
    BY <1>4, <2>1 DEF Weight
  <2>4. f[3] = f[2] + 4 * c[3]
    BY <1>4, <2>1 DEF Weight
  <2>5. f[4] = f[3] + 8 * c[4]
    BY <1>4, <2>1 DEF Weight
  <2>6. f[5] = f[4] + 16 * c[5]
    BY <1>4, <2>1 DEF Weight
  <2>7. f[6] = f[5] + 32 * c[6]
    BY <1>4, <2>1 DEF Weight
  <2>8. f[7] = f[6] + 64 * c[7]
    BY <1>4, <2>1 DEF Weight
  <2>9. f[8] = f[7] + 128 * c[8]
    BY <1>4, <2>1 DEF Weight
  <2>10. QED
    BY <2>2, <2>3, <2>4, <2>5, <2>6, <2>7, <2>8, <2>9
<1>6. f[0] = 0
  BY <1>2 DEF Turns
<1>7. c \in Bits
  BY SumIsBits DEF c
<1>8. f[8] = Value(c)
  <2>1. /\ c[1] \in {0, 1} /\ c[2] \in {0, 1} /\ c[3] \in {0, 1} /\ c[4] \in {0, 1}
        /\ c[5] \in {0, 1} /\ c[6] \in {0, 1} /\ c[7] \in {0, 1} /\ c[8] \in {0, 1}
    BY <1>7, BitTypes
  <2>2. QED
    BY <1>5, <1>6, <2>1 DEF Value
<1>9. QED
  BY <1>00, <1>1, <1>2, <1>8 DEF c

----------------------------------------------------------------------------
(* What follows about Xor: from the same laws of each bit.                 *)

\* Xor of bytes is a byte.
LEMMA XorIsByte == ASSUME NEW x \in Byte, NEW y \in Byte PROVE Xor(x, y) \in Byte
<1>1. PICK a \in Bits : x = Value(a)
  BY ByteHasBits
<1>2. PICK b \in Bits : y = Value(b)
  BY ByteHasBits
<1>3. QED
  BY <1>1, <1>2, XorOfBits, SumIsBits, ValueDigits

\* A bit of a sum
LEMMA SumAt ==
    ASSUME NEW a, NEW b, NEW i \in 1..8
    PROVE  SumOf(a, b)[i] = Plus(a[i], b[i])
BY DEF SumOf

\* Bytes that differ still do after the same byte was added to both.
LEMMA XorInjective ==
    ASSUME NEW x \in Byte, NEW y \in Byte, NEW z \in Byte, Xor(x, z) = Xor(y, z)
    PROVE  x = y
<1>1. PICK a \in Bits : x = Value(a)
  BY ByteHasBits
<1>2. PICK b \in Bits : y = Value(b)
  BY ByteHasBits
<1>3. PICK c \in Bits : z = Value(c)
  BY ByteHasBits
<1>4. SumOf(a, c) = SumOf(b, c)
  BY <1>1, <1>2, <1>3, XorOfBits, SumIsBits, BitsAreUnique
<1>5. ASSUME NEW i \in 1..8 PROVE a[i] = b[i]
  <2>1. Plus(a[i], c[i]) = Plus(b[i], c[i])
    BY <1>4, SumAt
  <2>2. QED
    BY <2>1, BitTypes DEF Plus
<1>6. QED
  BY <1>1, <1>2, <1>5 DEF Bits

\* Xor does not depend on the order.
LEMMA XorCommutes == ASSUME NEW x \in Byte, NEW y \in Byte PROVE Xor(x, y) = Xor(y, x)
<1>1. PICK a \in Bits : x = Value(a)
  BY ByteHasBits
<1>2. PICK b \in Bits : y = Value(b)
  BY ByteHasBits
<1>3. SumOf(a, b) = SumOf(b, a)
  BY DEF SumOf, Plus
<1>4. QED
  BY <1>1, <1>2, <1>3, XorOfBits

\* A byte that is added to both disappears from their sum.
LEMMA XorShift ==
    ASSUME NEW x \in Byte, NEW y \in Byte, NEW z \in Byte
    PROVE  Xor(Xor(z, x), Xor(z, y)) = Xor(x, y)
<1>1. PICK a \in Bits : x = Value(a)
  BY ByteHasBits
<1>2. PICK b \in Bits : y = Value(b)
  BY ByteHasBits
<1>3. PICK c \in Bits : z = Value(c)
  BY ByteHasBits
<1>4. ASSUME NEW i \in 1..8
      PROVE  Plus(Plus(c[i], a[i]), Plus(c[i], b[i])) = Plus(a[i], b[i])
  BY BitTypes DEF Plus
<1>5. SumOf(SumOf(c, a), SumOf(c, b)) = SumOf(a, b)
  BY <1>4 DEF SumOf
<1>6. QED
  BY <1>1, <1>2, <1>3, <1>5, XorOfBits, SumIsBits

\* An equation of two sums is turned over.
LEMMA XorTurnsOver ==
    ASSUME NEW p \in Byte, NEW q \in Byte, NEW x \in Byte, NEW y \in Byte, Xor(p, y) = Xor(q, x)
    PROVE  Xor(p, q) = Xor(x, y)
<1>1. PICK a \in Bits : x = Value(a)
  BY ByteHasBits
<1>2. PICK b \in Bits : y = Value(b)
  BY ByteHasBits
<1>3. PICK c \in Bits : p = Value(c)
  BY ByteHasBits
<1>4. PICK d \in Bits : q = Value(d)
  BY ByteHasBits
<1>5. SumOf(c, b) = SumOf(d, a)
  BY <1>1, <1>2, <1>3, <1>4, XorOfBits, SumIsBits, BitsAreUnique
<1>6. ASSUME NEW i \in 1..8 PROVE Plus(c[i], d[i]) = Plus(a[i], b[i])
  <2>1. Plus(c[i], b[i]) = Plus(d[i], a[i])
    BY <1>5, SumAt
  <2>2. QED
    BY <2>1, BitTypes DEF Plus
<1>7. SumOf(c, d) = SumOf(a, b)
  BY <1>6 DEF SumOf
<1>8. QED
  BY <1>1, <1>2, <1>3, <1>4, <1>7, XorOfBits

----------------------------------------------------------------------------
(* The table of crc8.go.                                                   *)

\* A shift of a byte through the polynomial
Shift(c) == IF c >= 128 THEN Xor((2 * c) % 256, 7) ELSE 2 * c

\* It moves each bit up, and adds the highest one to the lowest three.
Shifted(b) ==
    [i \in 1..8 |-> IF i = 1 THEN b[8]
                   ELSE IF i = 2 \/ i = 3 THEN Plus(b[i - 1], b[8]) ELSE b[i - 1]]

\* The places of what Shifted gives.
LEMMA ShiftedAt ==
    ASSUME NEW b \in Bits
    PROVE  /\ Shifted(b) \in Bits
           /\ Shifted(b)[1] = b[8]
           /\ Shifted(b)[2] = Plus(b[1], b[8]) /\ Shifted(b)[3] = Plus(b[2], b[8])
           /\ Shifted(b)[4] = b[3] /\ Shifted(b)[5] = b[4] /\ Shifted(b)[6] = b[5]
           /\ Shifted(b)[7] = b[6] /\ Shifted(b)[8] = b[7]
<1>1. /\ Shifted(b)[1] = b[8]
      /\ Shifted(b)[2] = Plus(b[1], b[8]) /\ Shifted(b)[3] = Plus(b[2], b[8])
      /\ Shifted(b)[4] = b[3] /\ Shifted(b)[5] = b[4] /\ Shifted(b)[6] = b[5]
      /\ Shifted(b)[7] = b[6] /\ Shifted(b)[8] = b[7]
  BY DEF Shifted
<1>2. ASSUME NEW i \in 1..8 PROVE Shifted(b)[i] \in {0, 1}
  BY <1>1, BitTypes, EightPlaces DEF Plus
<1>3. Shifted(b) = [i \in 1..8 |-> Shifted(b)[i]]
  BY DEF Shifted
<1>4. QED
  BY <1>1, <1>2, <1>3 DEF Bits

\* One step of the table, by the bits.
LEMMA ShiftOfBits ==
    ASSUME NEW b \in Bits
    PROVE  Shift(Value(b)) = Value(Shifted(b))
<1> DEFINE x == Value(b)
           d == Shifted(b)
<1>1. /\ d[1] = b[8] /\ d[2] = Plus(b[1], b[8]) /\ d[3] = Plus(b[2], b[8])
      /\ d[4] = b[3] /\ d[5] = b[4] /\ d[6] = b[5] /\ d[7] = b[6] /\ d[8] = b[7]
  BY ShiftedAt
<1> HIDE DEF d
<1>2. PICK b1 \in {0, 1}, b2 \in {0, 1}, b3 \in {0, 1}, b4 \in {0, 1},
           b5 \in {0, 1}, b6 \in {0, 1}, b7 \in {0, 1}, b8 \in {0, 1} :
         /\ b[1] = b1 /\ b[2] = b2 /\ b[3] = b3 /\ b[4] = b4
         /\ b[5] = b5 /\ b[6] = b6 /\ b[7] = b7 /\ b[8] = b8
  BY BitTypes
<1>3. x = b1 + 2 * b2 + 4 * b3 + 8 * b4 + 16 * b5 + 32 * b6 + 64 * b7 + 128 * b8
  BY <1>2 DEF Value
<1> HIDE DEF x
<1>4. CASE b8 = 0
  <2>1. x < 128
    BY <1>3, <1>4
  <2>2. Shift(x) = 2 * x
    BY <1>3, <2>1 DEF Shift
  <2>3. d[1] = 0 /\ d[2] = b1 /\ d[3] = b2
    BY <1>1, <1>2, <1>4 DEF Plus
  <2>4. 2 * x = d[1] + 2 * d[2] + 4 * d[3] + 8 * d[4] + 16 * d[5] + 32 * d[6] + 64 * d[7] + 128 * d[8]
    BY <1>1, <1>2, <1>3, <1>4, <2>3
  <2>5. QED
    BY <2>2, <2>4 DEF Value, d, x
<1>5. CASE b8 = 1
  <2>1. x >= 128 /\ (2 * x) % 256 = 2 * b1 + 4 * b2 + 8 * b3 + 16 * b4 + 32 * b5 + 64 * b6 + 128 * b7
    BY <1>3, <1>5
  <2> DEFINE u == <<0, b1, b2, b3, b4, b5, b6, b7>>
             v == <<1, 1, 1, 0, 0, 0, 0, 0>>
  <2>2. u \in Bits /\ v \in Bits
    BY DEF Bits
  <2>3. Value(u) = (2 * x) % 256
    BY <2>1 DEF Value
  <2>4. Value(v) = 7
    BY DEF Value
  <2>5. SumOf(u, v) = d
    <3>1. /\ SumOf(u, v)[1] = 1 /\ SumOf(u, v)[2] = Plus(b1, 1) /\ SumOf(u, v)[3] = Plus(b2, 1)
          /\ SumOf(u, v)[4] = b3 /\ SumOf(u, v)[5] = b4 /\ SumOf(u, v)[6] = b5
          /\ SumOf(u, v)[7] = b6 /\ SumOf(u, v)[8] = b7
      BY DEF SumOf, Plus
    <3>2. SumOf(u, v) \in Bits /\ d \in Bits
      BY <2>2, SumIsBits, ShiftedAt DEF d
    <3> HIDE DEF u, v
    <3>3. ASSUME NEW i \in 1..8 PROVE SumOf(u, v)[i] = d[i]
      BY <1>1, <1>2, <1>5, <3>1, EightPlaces
    <3>4. QED
      BY <3>2, <3>3 DEF Bits
  <2> HIDE DEF u, v
  <2>6. Xor((2 * x) % 256, 7) = Value(d)
    BY <2>2, <2>3, <2>4, <2>5, XorOfBits
  <2>7. QED
    BY <2>1, <2>6 DEF Shift, d, x
<1>6. QED
  BY <1>4, <1>5

\* One step of the table gives a byte.
LEMMA ShiftIsByte == ASSUME NEW x \in Byte PROVE Shift(x) \in Byte
<1>1. PICK a \in Bits : x = Value(a)
  BY ByteHasBits
<1>2. QED
  BY <1>1, ShiftOfBits, ShiftedAt, ValueDigits

\* A shift of a sum is the sum of the shifts.
LEMMA ShiftAdds ==
    ASSUME NEW x \in Byte, NEW y \in Byte
    PROVE  Shift(Xor(x, y)) = Xor(Shift(x), Shift(y))
<1>1. PICK a \in Bits : x = Value(a)
  BY ByteHasBits
<1>2. PICK b \in Bits : y = Value(b)
  BY ByteHasBits
<1>3. ASSUME NEW i \in 1..8 PROVE Shifted(SumOf(a, b))[i] = SumOf(Shifted(a), Shifted(b))[i]
  <2> DEFINE c == SumOf(a, b)
  <2>1. \A j \in 1..8 : c[j] = Plus(a[j], b[j])
    BY SumAt
  <2>2. c \in Bits
    BY SumIsBits
  <2>3. SumOf(Shifted(a), Shifted(b))[i] = Plus(Shifted(a)[i], Shifted(b)[i])
    BY SumAt
  <2> HIDE DEF c
  <2>4. Shifted(c)[i] = Plus(Shifted(a)[i], Shifted(b)[i])
    <3>1. \A j \in 1..8 : a[j] \in {0, 1} /\ b[j] \in {0, 1}
      BY BitTypes
    <3>2. CASE i = 1
      BY <2>1, <2>2, <3>2, ShiftedAt
    <3>3. CASE i = 2 \/ i = 3
      <4>1. \A p \in {0, 1}, q \in {0, 1}, r \in {0, 1}, s \in {0, 1} :
               Plus(Plus(p, q), Plus(r, s)) = Plus(Plus(p, r), Plus(q, s))
        BY DEF Plus
      <4>2. Shifted(c)[i] = Plus(c[i - 1], c[8]) /\ Shifted(a)[i] = Plus(a[i - 1], a[8])
            /\ Shifted(b)[i] = Plus(b[i - 1], b[8])
        BY <3>3 DEF Shifted
      <4>3. i - 1 \in 1..8 /\ 8 \in 1..8
        BY <3>3
      <4>4. QED
        BY <2>1, <3>1, <4>1, <4>2, <4>3
    <3>4. CASE i > 3
      <4>1. Shifted(c)[i] = c[i - 1] /\ Shifted(a)[i] = a[i - 1] /\ Shifted(b)[i] = b[i - 1]
        BY <3>4 DEF Shifted
      <4>2. i - 1 \in 1..8
        BY <3>4
      <4>3. QED
        BY <2>1, <4>1, <4>2
    <3>5. QED
      BY <3>2, <3>3, <3>4
  <2>5. QED
    BY <2>3, <2>4 DEF c
<1>4. Shifted(SumOf(a, b)) = SumOf(Shifted(a), Shifted(b))
  <2>1. Shifted(SumOf(a, b)) \in Bits /\ SumOf(Shifted(a), Shifted(b)) \in Bits
    BY SumIsBits, ShiftedAt
  <2>2. QED
    BY <1>3, <2>1 DEF Bits
<1>5. QED
  BY <1>1, <1>2, <1>4, XorOfBits, ShiftOfBits, SumIsBits, ShiftedAt

\* Bytes that differ are shifted to bytes that differ.
LEMMA ShiftInjective ==
    ASSUME NEW x \in Byte, NEW y \in Byte, Shift(x) = Shift(y)
    PROVE  x = y
<1>1. PICK a \in Bits : x = Value(a)
  BY ByteHasBits
<1>2. PICK b \in Bits : y = Value(b)
  BY ByteHasBits
<1>3. Shifted(a) = Shifted(b)
  BY <1>1, <1>2, ShiftOfBits, ShiftedAt, BitsAreUnique
<1>4. /\ a[8] = b[8] /\ Plus(a[1], a[8]) = Plus(b[1], b[8]) /\ Plus(a[2], a[8]) = Plus(b[2], b[8])
      /\ a[3] = b[3] /\ a[4] = b[4] /\ a[5] = b[5] /\ a[6] = b[6] /\ a[7] = b[7]
  BY <1>3, ShiftedAt
<1>5. a[1] = b[1] /\ a[2] = b[2]
  BY <1>4, BitTypes DEF Plus
<1>6. ASSUME NEW i \in 1..8 PROVE a[i] = b[i]
  BY <1>4, <1>5, EightPlaces
<1>7. QED
  BY <1>1, <1>2, <1>6 DEF Bits

\* The turns of an entry of the table: eight shifts
TableTurn == [x \in Byte \X (1..8) |-> Shift(x[1])]

\* An entry of the table is the value after eight steps.
LEMMA TableTurns ==
    ASSUME NEW x \in Byte
    PROVE  \E f : Turns(f, TableTurn, Byte, x, 8) /\ table8[x] = f[8]
<1> DEFINE w == <<1, 2, 3, 4, 5, 6, 7, 8>>
           P(it) == it = [s \in SUBSET (1..8) |-> IF s = {} THEN x ELSE Shift(it[s \ {Max(s)}])]
           G == TableTurn
<1>1. ASSUME NEW y \in Byte, NEW i \in 1..8
      PROVE  G[<<y, i>>] = Shift(y) /\ G[<<y, i>>] \in Byte
  <2>1. G[<<y, i>>] = Shift(y)
    BY Zenon DEF TableTurn
  <2>2. QED
    BY <2>1, ShiftIsByte
<1>2. Stays(G, Byte, 8)
  BY <1>1 DEF Stays
<1>3. DOMAIN w = 1..8
  OBVIOUS
<1>4. table8[x] = (CHOOSE it : P(it))[1..8]
  BY <1>3, Zenon DEF table8, Byte, Shift, FoldLeft, MapThenFoldSet
<1> HIDE DEF G, w
<1>5. ASSUME NEW it \in [SUBSET (1..8) -> Byte], Iterates(it, G, x, 8)
      PROVE  P(it)
  <2>1. ASSUME NEW s \in SUBSET (1..8), s # {}
        PROVE  G[<<it[s \ {Max(s)}], Max(s)>>] = Shift(it[s \ {Max(s)}])
    <3>1. Max(s) \in 1..8 /\ it[s \ {Max(s)}] \in Byte
      BY <2>1, MaxOfPlaces
    <3>2. QED
      BY <1>1, <3>1
  <2>2. QED
    BY <1>5, <2>1, Zenon DEF Iterates
<1>6. ASSUME NEW c, P(c)
      PROVE  Follows(c, G, Byte, x, 8)
  <2>1. c[{}] = x
    <3>1. {} \in SUBSET (1..8)
      OBVIOUS
    <3>2. QED
      BY <1>6, <3>1, Zenon
  <2>2. ASSUME NEW s \in SUBSET (1..8), s # {}, c[s \ {Max(s)}] \in Byte
        PROVE  c[s] = G[<<c[s \ {Max(s)}], Max(s)>>]
    <3>1. c[s] = Shift(c[s \ {Max(s)}])
      BY <1>6, <2>2, Zenon
    <3>2. Max(s) \in 1..8
      BY <2>2, MaxOfPlaces
    <3>3. QED
      BY <1>1, <2>2, <3>1, <3>2
  <2>3. QED
    BY <2>1, <2>2, Zenon DEF Follows
<1>7. QED
  <2>1. PICK n \in Nat : n = 8
    OBVIOUS
  <2>2. Iterable(G, Byte, x, n)
    BY <1>2, <2>1, IteratesExist
  <2>3. \E it : P(it)
    BY <1>5, <2>1, <2>2 DEF Iterable
  <2>4. PICK c : P(c) /\ table8[x] = Whole(c, 8)
    BY <1>4, <2>3, Zenon DEF Whole
  <2>5. Follows(c, G, Byte, x, n) /\ Stays(G, Byte, n)
    BY <1>2, <1>6, <2>1, <2>4, Zenon
  <2>6. \E f : Turns(f, G, Byte, x, n) /\ Whole(c, n) = f[n]
    BY <2>5, FollowsTurns
  <2>7. QED
    BY <2>1, <2>4, <2>6, Zenon DEF G

\* The same, as a sequence of shifts
LEMMA TableShifts ==
    ASSUME NEW x \in Byte
    PROVE  \E f \in [0..8 -> Byte] :
              f[0] = x /\ f[8] = table8[x] /\ \A k \in 0..7 : f[k + 1] = Shift(f[k])
<1>1. PICK f : Turns(f, TableTurn, Byte, x, 8) /\ table8[x] = f[8]
  BY TableTurns
<1>2. f \in [0..8 -> Byte] /\ f[0] = x
  BY <1>1 DEF Turns
<1>3. ASSUME NEW k \in 0..7 PROVE f[k + 1] = Shift(f[k])
  <2>1. k + 1 \in 1..8 /\ k + 1 - 1 = k /\ f[k] \in Byte
    BY <1>2
  <2>2. f[k + 1] = TableTurn[<<f[k], k + 1>>]
    BY <1>1, <2>1 DEF Turns
  <2>3. QED
    BY <2>1, <2>2 DEF TableTurn
<1>4. QED
  BY <1>1, <1>2, <1>3

\* The entries of the table are bytes.
LEMMA TableIsByte == ASSUME NEW x \in Byte PROVE table8[x] \in Byte
BY TableShifts

\* Different bytes have different entries.
LEMMA TableInjective ==
    ASSUME NEW x \in Byte, NEW y \in Byte, table8[x] = table8[y]
    PROVE  x = y
<1>1. PICK f \in [0..8 -> Byte] :
         f[0] = x /\ f[8] = table8[x] /\ \A k \in 0..7 : f[k + 1] = Shift(f[k])
  BY TableShifts
<1>2. PICK g \in [0..8 -> Byte] :
         g[0] = y /\ g[8] = table8[y] /\ \A k \in 0..7 : g[k + 1] = Shift(g[k])
  BY TableShifts
<1> DEFINE S == {k \in Nat : k <= 8 /\ x # y => f[k] # g[k]}
<1>3. 0 \in S
  BY <1>1, <1>2
<1>4. ASSUME NEW k \in Nat, k \in S PROVE k + 1 \in S
  <2> SUFFICES ASSUME k + 1 <= 8, x # y PROVE f[k + 1] # g[k + 1]
    OBVIOUS
  <2>1. k \in 0..7 /\ k \in 0..8 /\ f[k] # g[k]
    BY <1>4
  <2>2. f[k] \in Byte /\ g[k] \in Byte
    BY <2>1
  <2>3. QED
    BY <1>1, <1>2, <2>1, <2>2, ShiftInjective
<1> HIDE DEF S
<1>5. 8 \in S
  BY <1>3, <1>4, Induct
<1>6. QED
  BY <1>1, <1>2, <1>5 DEF S

\* The entry of a sum is the sum of the entries.
LEMMA TableAdds ==
    ASSUME NEW x \in Byte, NEW y \in Byte
    PROVE  table8[Xor(x, y)] = Xor(table8[x], table8[y])
<1>1. PICK f \in [0..8 -> Byte] :
         f[0] = x /\ f[8] = table8[x] /\ \A k \in 0..7 : f[k + 1] = Shift(f[k])
  BY TableShifts
<1>2. PICK g \in [0..8 -> Byte] :
         g[0] = y /\ g[8] = table8[y] /\ \A k \in 0..7 : g[k + 1] = Shift(g[k])
  BY TableShifts
<1>3. PICK z \in Byte : z = Xor(x, y)
  BY XorIsByte
<1>4. PICK h \in [0..8 -> Byte] :
         h[0] = z /\ h[8] = table8[z] /\ \A k \in 0..7 : h[k + 1] = Shift(h[k])
  BY TableShifts
<1> DEFINE S == {k \in Nat : k <= 8 => h[k] = Xor(f[k], g[k])}
<1>5. 0 \in S
  BY <1>1, <1>2, <1>3, <1>4
<1>6. ASSUME NEW k \in Nat, k \in S PROVE k + 1 \in S
  <2> SUFFICES ASSUME k + 1 <= 8 PROVE h[k + 1] = Xor(f[k + 1], g[k + 1])
    OBVIOUS
  <2>1. k \in 0..7 /\ k \in 0..8 /\ h[k] = Xor(f[k], g[k])
    BY <1>6
  <2>2. f[k] \in Byte /\ g[k] \in Byte
    BY <2>1
  <2>3. QED
    BY <1>1, <1>2, <1>4, <2>1, <2>2, ShiftAdds
<1> HIDE DEF S
<1>7. 8 \in S
  BY <1>5, <1>6, Induct
<1>8. QED
  BY <1>1, <1>2, <1>3, <1>4, <1>7 DEF S

\* Of the bytes below 128 the table leaves only 0 as it is.
LEMMA TableMoves ==
    ASSUME NEW x \in Byte, x < 128, table8[x] = x
    PROVE  x = 0
<1>1. PICK f \in [0..8 -> Byte] :
         f[0] = x /\ f[8] = table8[x] /\ \A k \in 0..7 : f[k + 1] = Shift(f[k])
  BY TableShifts
<1>2. PICK a0 \in Bits : x = Value(a0)
  BY ByteHasBits
<1> DEFINE a1 == Shifted(a0)
           a2 == Shifted(a1)
           a3 == Shifted(a2)
           a4 == Shifted(a3)
           a5 == Shifted(a4)
           a6 == Shifted(a5)
           a7 == Shifted(a6)
           a8 == Shifted(a7)
<1>3. f[1] = Shift(f[0]) /\ f[2] = Shift(f[1]) /\ f[3] = Shift(f[2]) /\ f[4] = Shift(f[3])
      /\ f[5] = Shift(f[4]) /\ f[6] = Shift(f[5]) /\ f[7] = Shift(f[6]) /\ f[8] = Shift(f[7])
  BY <1>1
<1>4. /\ a1 \in Bits /\ a2 \in Bits /\ a3 \in Bits /\ a4 \in Bits
      /\ a5 \in Bits /\ a6 \in Bits /\ a7 \in Bits /\ a8 \in Bits
  BY ShiftedAt
<1>5. a8 = a0
  <2> HIDE DEF a1, a2, a3, a4, a5, a6, a7, a8
  <2>1. f[1] = Value(a1)
    BY <1>1, <1>2, <1>3, ShiftOfBits DEF a1
  <2>2. f[2] = Value(a2)
    BY <1>3, <1>4, <2>1, ShiftOfBits DEF a2
  <2>3. f[3] = Value(a3)
    BY <1>3, <1>4, <2>2, ShiftOfBits DEF a3
  <2>4. f[4] = Value(a4)
    BY <1>3, <1>4, <2>3, ShiftOfBits DEF a4
  <2>5. f[5] = Value(a5)
    BY <1>3, <1>4, <2>4, ShiftOfBits DEF a5
  <2>6. f[6] = Value(a6)
    BY <1>3, <1>4, <2>5, ShiftOfBits DEF a6
  <2>7. f[7] = Value(a7)
    BY <1>3, <1>4, <2>6, ShiftOfBits DEF a7
  <2>8. f[8] = Value(a8)
    BY <1>3, <1>4, <2>7, ShiftOfBits DEF a8
  <2>9. QED
    BY <1>1, <1>2, <1>4, <2>8, BitsAreUnique
<1>6. a0[8] = 0
  <2>1. (x \div 128) % 2 = 0
    BY DEF Byte
  <2>2. QED
    BY <1>2, <2>1, ValueDigits
<1>7. ASSUME NEW b \in Bits, NEW c \in Bits, c = Shifted(b)
      PROVE  /\ c[1] = b[8] /\ c[2] = Plus(b[1], b[8]) /\ c[3] = Plus(b[2], b[8]) /\ c[4] = b[3]
             /\ c[5] = b[4] /\ c[6] = b[5] /\ c[7] = b[6] /\ c[8] = b[7]
  BY <1>7, ShiftedAt
<1>8. a0[1] = 0 /\ a0[2] = 0 /\ a0[3] = 0 /\ a0[4] = 0 /\ a0[5] = 0 /\ a0[6] = 0 /\ a0[7] = 0
  <2> HIDE DEF a1, a2, a3, a4, a5, a6, a7, a8
  <2>1. /\ a1[1] = a0[8] /\ a1[2] = Plus(a0[1], a0[8]) /\ a1[3] = Plus(a0[2], a0[8]) /\ a1[4] = a0[3]
        /\ a1[5] = a0[4] /\ a1[6] = a0[5] /\ a1[7] = a0[6] /\ a1[8] = a0[7]
    BY <1>4, <1>7 DEF a1
  <2>2. /\ a2[1] = a1[8] /\ a2[2] = Plus(a1[1], a1[8]) /\ a2[3] = Plus(a1[2], a1[8]) /\ a2[4] = a1[3]
        /\ a2[5] = a1[4] /\ a2[6] = a1[5] /\ a2[7] = a1[6] /\ a2[8] = a1[7]
    BY <1>4, <1>7 DEF a2
  <2>3. /\ a3[1] = a2[8] /\ a3[2] = Plus(a2[1], a2[8]) /\ a3[3] = Plus(a2[2], a2[8]) /\ a3[4] = a2[3]
        /\ a3[5] = a2[4] /\ a3[6] = a2[5] /\ a3[7] = a2[6] /\ a3[8] = a2[7]
    BY <1>4, <1>7 DEF a3
  <2>4. /\ a4[1] = a3[8] /\ a4[2] = Plus(a3[1], a3[8]) /\ a4[3] = Plus(a3[2], a3[8]) /\ a4[4] = a3[3]
        /\ a4[5] = a3[4] /\ a4[6] = a3[5] /\ a4[7] = a3[6] /\ a4[8] = a3[7]
    BY <1>4, <1>7 DEF a4
  <2>5. /\ a5[1] = a4[8] /\ a5[2] = Plus(a4[1], a4[8]) /\ a5[3] = Plus(a4[2], a4[8]) /\ a5[4] = a4[3]
        /\ a5[5] = a4[4] /\ a5[6] = a4[5] /\ a5[7] = a4[6] /\ a5[8] = a4[7]
    BY <1>4, <1>7 DEF a5
  <2>6. /\ a6[1] = a5[8] /\ a6[2] = Plus(a5[1], a5[8]) /\ a6[3] = Plus(a5[2], a5[8]) /\ a6[4] = a5[3]
        /\ a6[5] = a5[4] /\ a6[6] = a5[5] /\ a6[7] = a5[6] /\ a6[8] = a5[7]
    BY <1>4, <1>7 DEF a6
  <2>7. /\ a7[1] = a6[8] /\ a7[2] = Plus(a6[1], a6[8]) /\ a7[3] = Plus(a6[2], a6[8]) /\ a7[4] = a6[3]
        /\ a7[5] = a6[4] /\ a7[6] = a6[5] /\ a7[7] = a6[6] /\ a7[8] = a6[7]
    BY <1>4, <1>7 DEF a7
  <2>8. /\ a8[1] = a7[8] /\ a8[2] = Plus(a7[1], a7[8]) /\ a8[3] = Plus(a7[2], a7[8]) /\ a8[4] = a7[3]
        /\ a8[5] = a7[4] /\ a8[6] = a7[5] /\ a8[7] = a7[6] /\ a8[8] = a7[7]
    BY <1>4, <1>7 DEF a8
  <2>9. /\ a0[1] \in {0, 1} /\ a0[2] \in {0, 1} /\ a0[3] \in {0, 1} /\ a0[4] \in {0, 1}
        /\ a0[5] \in {0, 1} /\ a0[6] \in {0, 1} /\ a0[7] \in {0, 1}
    BY BitTypes
  <2>10. QED
    BY <1>5, <1>6, <2>1, <2>2, <2>3, <2>4, <2>5, <2>6, <2>7, <2>8, <2>9 DEF Plus
<1>9. QED
  BY <1>2, <1>6, <1>8 DEF Value

----------------------------------------------------------------------------
(* The checksum: what distinguishes two bytes distinguishes their sums.    *)

\* The checksum is a byte.
LEMMA CrcIsByte == ASSUME NEW v \in Byte, NEW b \in Byte PROVE crc8(v, b) \in Byte
BY XorIsByte, TableIsByte DEF crc8

\* The same byte after different sums gives different sums.
LEMMA CrcOfSums ==
    ASSUME NEW v \in Byte, NEW w \in Byte, NEW b \in Byte, crc8(v, b) = crc8(w, b)
    PROVE  v = w
<1>1. Xor(v, b) = Xor(w, b)
  BY XorIsByte, TableInjective DEF crc8
<1>2. QED
  BY <1>1, XorInjective

\* Different bytes after the same sum give different sums.
LEMMA CrcOfBytes ==
    ASSUME NEW v \in Byte, NEW b \in Byte, NEW c \in Byte, crc8(v, b) = crc8(v, c)
    PROVE  b = c
<1>1. Xor(v, b) = Xor(v, c)
  BY XorIsByte, TableInjective DEF crc8
<1>2. Xor(b, v) = Xor(c, v)
  BY <1>1, XorCommutes
<1>3. QED
  BY <1>2, XorInjective

\* The sum of two bytes below 128 is one.
LEMMA SmallSum ==
    ASSUME NEW x \in Byte, NEW y \in Byte, x < 128, y < 128
    PROVE  Xor(x, y) < 128
<1>1. PICK a \in Bits : x = Value(a)
  BY ByteHasBits
<1>2. PICK b \in Bits : y = Value(b)
  BY ByteHasBits
<1>3. a[8] = 0 /\ b[8] = 0
  <2>1. (x \div 128) % 2 = 0 /\ (y \div 128) % 2 = 0
    BY DEF Byte
  <2>2. QED
    BY <1>1, <1>2, <2>1, ValueDigits
<1> DEFINE c == SumOf(a, b)
<1>4. c \in Bits /\ c[8] = 0
  BY <1>3, SumIsBits, SumAt DEF Plus
<1> HIDE DEF c
<1>5. Value(c) < 128
  BY <1>4, BitTypes DEF Value
<1>6. QED
  BY <1>1, <1>2, <1>5, XorOfBits DEF c

\* Only equal bytes have the sum 0.
LEMMA EqualBytes == ASSUME NEW x \in Byte, NEW y \in Byte, Xor(x, y) = 0 PROVE x = y
<1>1. PICK a \in Bits : x = Value(a)
  BY ByteHasBits
<1>2. PICK b \in Bits : y = Value(b)
  BY ByteHasBits
<1> DEFINE c == SumOf(a, b)
<1>3. c \in Bits /\ Value(c) = 0
  BY <1>1, <1>2, XorOfBits, SumIsBits
<1>4. \A i \in 1..8 : c[i] = Plus(a[i], b[i])
  BY SumAt
<1> HIDE DEF c
<1>5. c[1] = 0 /\ c[2] = 0 /\ c[3] = 0 /\ c[4] = 0 /\ c[5] = 0 /\ c[6] = 0 /\ c[7] = 0 /\ c[8] = 0
  BY <1>3, BitTypes, SMTT(20) DEF Value
<1>6. ASSUME NEW i \in 1..8 PROVE a[i] = b[i]
  <2>1. Plus(a[i], b[i]) = 0
    BY <1>4, <1>5, EightPlaces
  <2>2. QED
    BY <2>1 DEF Plus
<1>7. QED
  BY <1>1, <1>2, <1>6 DEF Bits

\* Two bytes below 128 that are swapped change the checksum: the table adds,
\* and leaves no sum of two such bytes as it is but 0.
LEMMA CrcOfSwapped ==
    ASSUME NEW h \in Byte, NEW x \in Byte, NEW y \in Byte, x < 128, y < 128,
           crc8(crc8(h, x), y) = crc8(crc8(h, y), x)
    PROVE  x = y
<1>1. PICK p \in Byte, q \in Byte : p = crc8(h, x) /\ q = crc8(h, y)
  BY CrcIsByte
<1>2. Xor(p, y) = Xor(q, x)
  BY <1>1, XorIsByte, TableInjective DEF crc8
<1>3. Xor(p, q) = Xor(x, y)
  BY <1>2, XorTurnsOver
<1>4. table8[Xor(x, y)] = Xor(p, q)
  <2>1. Xor(h, x) \in Byte /\ Xor(h, y) \in Byte
    BY XorIsByte
  <2>2. table8[Xor(Xor(h, x), Xor(h, y))] = Xor(p, q)
    BY <1>1, <2>1, TableAdds DEF crc8
  <2>3. QED
    BY <2>2, XorShift
<1>5. Xor(x, y) = 0
  BY <1>3, <1>4, SmallSum, XorIsByte, TableMoves
<1>6. QED
  BY <1>5, EqualBytes

----------------------------------------------------------------------------
(* Reading, as the sequence of the reader's states.                        *)

ReadState(at, left, high, h, str, rest) ==
    [at |-> at, left |-> left, high |-> high, h |-> h, str |-> str, rest |-> rest]

ReadStates ==
    [at : {"char", "high", "low", "hash", "done", "invalid"}, left : Int, high : Byte, h : Byte,
     str : Seq(Int), rest : Seq(Byte)]

FirstState == ReadState("char", 0, 0, 0, <<>>, <<>>)

\* The bytes b lead from state s to state r.
Run(s, b, r) ==
    \E f : f[0] = s /\ f[Len(b)] = r /\ \A i \in 1..Len(b) : f[i] = ReadByte(f[i - 1], b[i])

\* Each case of ReadByte
LEMMA ReadChar ==
    ASSUME NEW l, NEW g, NEW h, NEW s, NEW e, NEW v \in Byte
    PROVE  /\ v = 0 => ReadByte(ReadState("char", l, g, h, s, e), v) = ReadState("hash", l, g, h, s, e)
           /\ v \in 1..127 => ReadByte(ReadState("char", l, g, h, s, e), v)
                              = ReadState("char", l, g, crc8(h, v), Append(s, v), e)
           /\ v > 127 => ReadByte(ReadState("char", l, g, h, s, e), v)
                         = ReadState("high", v - 128 + 1, g, h, s, e)
<1> DEFINE x == ReadState("char", l, g, h, s, e)
<1>1. CASE v = 0
  <2>1. ReadByte(x, v) = ReadState("hash", l, g, h, s, e)
    BY <1>1 DEF ReadState, ReadByte
  <2>2. QED
    BY <1>1, <2>1
<1>2. CASE v \in 1..127
  <2>1. v # 0 /\ ~ (v > 127)
    BY <1>2
  <2>2. ReadByte(x, v) = [x EXCEPT !.str = Append(@, v), !.h = crc8(@, v)]
    <3>1. x.at = "char"
      BY DEF ReadState
    <3> HIDE DEF x
    <3>2. QED
      BY <1>2, <2>1, <3>1, Zenon DEF ReadByte
  <2>3. ReadByte(x, v) = ReadState("char", l, g, crc8(h, v), Append(s, v), e)
    BY <2>2 DEF ReadState
  <2>4. QED
    BY <1>2, <2>1, <2>3
<1>3. CASE v > 127
  <2>1. v # 0 /\ ~ (v \in 1..127)
    BY <1>3
  <2>2. ReadByte(x, v) = [x EXCEPT !.at = "high", !.left = v - 128 + 1]
    <3>1. x.at = "char"
      BY DEF ReadState
    <3> HIDE DEF x
    <3>2. QED
      BY <1>3, <2>1, <3>1, Zenon DEF ReadByte
  <2>3. ReadByte(x, v) = ReadState("high", v - 128 + 1, g, h, s, e)
    BY <2>2 DEF ReadState
  <2>4. QED
    BY <1>3, <2>1, <2>3
<1>4. QED
  BY <1>1, <1>2, <1>3 DEF Byte

\* The zero that ends a string: its checksum is next.
LEMMA ReadZero ==
    ASSUME NEW l, NEW g, NEW h, NEW s, NEW e, NEW v, v = 0
    PROVE  ReadByte(ReadState("char", l, g, h, s, e), v) = ReadState("hash", l, g, h, s, e)
BY DEF ReadState, ReadByte

\* The high byte of a character.
LEMMA ReadHigh ==
    ASSUME NEW l, NEW g, NEW h, NEW s, NEW e, NEW v
    PROVE  ReadByte(ReadState("high", l, g, h, s, e), v) = ReadState("low", l, v, h, s, e)
BY DEF ReadState, ReadByte

\* The low byte of a character, which is complete with it.
LEMMA ReadLow ==
    ASSUME NEW l, NEW g, NEW h, NEW s, NEW e, NEW v
    PROVE  ReadByte(ReadState("low", l, g, h, s, e), v)
           = ReadState(IF l = 1 THEN "char" ELSE "high", l - 1, g, crc8(crc8(h, g), v),
                       Append(s, EncodeRune(g * 256 + v)), e)
BY DEF ReadState, ReadByte

\* The checksum decides.
LEMMA ReadHash ==
    ASSUME NEW l, NEW g, NEW h, NEW s, NEW e, NEW v
    PROVE  ReadByte(ReadState("hash", l, g, h, s, e), v)
           = ReadState(IF h = v THEN "done" ELSE "invalid", l, g, h, s, e)
BY DEF ReadState, ReadByte

\* What follows a string is left alone.
LEMMA ReadRest ==
    ASSUME NEW l, NEW g, NEW h, NEW s, NEW e, NEW v, NEW at \in {"done", "invalid"}
    PROVE  ReadByte(ReadState(at, l, g, h, s, e), v) = ReadState(at, l, g, h, s, Append(e, v))
BY DEF ReadState, ReadByte

\* A state of the reader is made of its fields.
LEMMA ReadStateParts ==
    ASSUME NEW s \in ReadStates
    PROVE  /\ s = ReadState(s.at, s.left, s.high, s.h, s.str, s.rest)
           /\ s.at \in {"char", "high", "low", "hash", "done", "invalid"} /\ s.left \in Int
           /\ s.high \in Byte /\ s.h \in Byte /\ s.str \in Seq(Int) /\ s.rest \in Seq(Byte)
BY DEF ReadStates, ReadState

\* And such fields make a state.
LEMMA ReadStateType ==
    ASSUME NEW at \in {"char", "high", "low", "hash", "done", "invalid"}, NEW l \in Int,
           NEW g \in Byte, NEW h \in Byte, NEW s \in Seq(Int), NEW e \in Seq(Byte)
    PROVE  ReadState(at, l, g, h, s, e) \in ReadStates
BY DEF ReadStates, ReadState

\* Reading nothing changes nothing.
LEMMA RunNil == ASSUME NEW s PROVE Run(s, <<>>, s)
<1> DEFINE f == [k \in {0} |-> s]
<1>1. Len(<<>>) = 0 /\ 1..0 = {}
  OBVIOUS
<1>2. f[0] = s
  OBVIOUS
<1> HIDE DEF f
<1>3. QED
  BY <1>1, <1>2 DEF Run

\* Reading one byte is one step.
LEMMA RunOne == ASSUME NEW s, NEW v PROVE Run(s, <<v>>, ReadByte(s, v))
<1> DEFINE r == ReadByte(s, v)
           f == [k \in {0, 1} |-> IF k = 0 THEN s ELSE r]
<1>1. f[0] = s /\ f[1] = r
  OBVIOUS
<1> HIDE DEF f
<1>2. PICK b : b = <<v>>
  OBVIOUS
<1>3. Len(b) = 1 /\ b[1] = v
  BY <1>2
<1>4. \A i \in 1..Len(b) : f[i] = ReadByte(f[i - 1], b[i])
  BY <1>1, <1>3
<1>5. f[Len(b)] = r
  BY <1>1, <1>3
<1>6. Run(s, b, r)
  BY <1>1, <1>4, <1>5, Zenon DEF Run
<1>7. QED
  BY <1>2, <1>6

\* Reading two parts is reading one and then the other.
LEMMA RunCat ==
    ASSUME NEW S, NEW a \in Seq(S), NEW b \in Seq(S), NEW s, NEW r, NEW t,
           Run(s, a, r), Run(r, b, t)
    PROVE  Run(s, a \o b, t)
<1>1. PICK f : f[0] = s /\ f[Len(a)] = r /\ \A i \in 1..Len(a) : f[i] = ReadByte(f[i - 1], a[i])
  BY DEF Run
<1>2. PICK g : g[0] = r /\ g[Len(b)] = t /\ \A i \in 1..Len(b) : g[i] = ReadByte(g[i - 1], b[i])
  BY DEF Run
<1> DEFINE c == a \o b
           n == Len(a)
           m == Len(b)
           h == [k \in Nat |-> IF k <= n THEN f[k] ELSE g[k - n]]
<1>3. n \in Nat /\ m \in Nat /\ Len(c) = n + m
  OBVIOUS
<1>4. \A i \in 1..(n + m) : c[i] = IF i <= n THEN a[i] ELSE b[i - n]
  OBVIOUS
<1>5. h[0] = s
  BY <1>1, <1>3
<1>6. h[n + m] = t
  BY <1>1, <1>2, <1>3
<1>7. ASSUME NEW i \in 1..(n + m) PROVE h[i] = ReadByte(h[i - 1], c[i])
  <2>1. CASE i <= n
    <3>1. h[i] = f[i] /\ h[i - 1] = f[i - 1] /\ c[i] = a[i] /\ i \in 1..n
      BY <1>3, <1>4, <2>1
    <3>2. f[i] = ReadByte(f[i - 1], a[i])
      BY <1>1, <3>1
    <3> HIDE DEF h, c
    <3>3. QED
      BY <3>1, <3>2
  <2>2. CASE i > n
    <3>1. PICK j \in 1..m : j = i - n
      <4>1. i - n \in 1..m
        BY <1>3, <2>2
      <4>2. QED
        BY <4>1
    <3>2. h[i] = g[j] /\ c[i] = b[j]
      BY <1>3, <1>4, <2>2, <3>1
    <3>3. h[i - 1] = g[j - 1]
      <4>1. CASE j = 1
        <5>1. i - 1 = n /\ i - 1 \in Nat /\ j - 1 = 0
          BY <1>3, <3>1, <4>1
        <5>2. h[i - 1] = r
          BY <1>1, <1>3, <5>1
        <5>3. QED
          BY <1>2, <5>1, <5>2
      <4>2. CASE j # 1
        <5>1. i - 1 \in Nat /\ ~ (i - 1 <= n) /\ (i - 1) - n = j - 1
          BY <1>3, <3>1, <4>2
        <5>2. QED
          BY <5>1
      <4>3. QED
        BY <4>1, <4>2
    <3>4. g[j] = ReadByte(g[j - 1], b[j])
      BY <1>2
    <3> HIDE DEF h, c
    <3>5. QED
      BY <3>2, <3>3, <3>4
  <2>3. QED
    BY <1>3, <2>1, <2>2
<1> HIDE DEF h, c, n, m
<1>8. QED
  BY <1>3, <1>5, <1>6, <1>7 DEF Run, c

\* Where the reading ends is determined.
LEMMA RunUnique ==
    ASSUME NEW b, NEW s, NEW r, NEW t, Len(b) \in Nat, Run(s, b, r), Run(s, b, t)
    PROVE  r = t
<1>1. PICK f : f[0] = s /\ f[Len(b)] = r /\ \A i \in 1..Len(b) : f[i] = ReadByte(f[i - 1], b[i])
  BY DEF Run
<1>2. PICK g : g[0] = s /\ g[Len(b)] = t /\ \A i \in 1..Len(b) : g[i] = ReadByte(g[i - 1], b[i])
  BY DEF Run
<1> DEFINE S == {k \in Nat : k <= Len(b) => f[k] = g[k]}
<1>3. 0 \in S
  BY <1>1, <1>2
<1>4. ASSUME NEW k \in Nat, k \in S PROVE k + 1 \in S
  <2> SUFFICES ASSUME k + 1 <= Len(b) PROVE f[k + 1] = g[k + 1]
    OBVIOUS
  <2>1. k + 1 \in 1..Len(b) /\ k + 1 - 1 = k /\ f[k] = g[k]
    BY <1>4
  <2>2. QED
    BY <1>1, <1>2, <2>1
<1> HIDE DEF S
<1>5. Nat \subseteq S
  BY <1>3, <1>4, Induct
<1>6. QED
  BY <1>1, <1>2, <1>5 DEF S

\* A run through one byte more
LEMMA RunThen ==
    ASSUME NEW S, NEW a \in Seq(S), NEW v \in S, NEW s, NEW r, Run(s, a, r)
    PROVE  Run(s, Append(a, v), ReadByte(r, v))
<1>1. Run(r, <<v>>, ReadByte(r, v)) /\ <<v>> \in Seq(S)
  BY RunOne
<1>2. Append(a, v) = a \o <<v>>
  OBVIOUS
<1>3. PICK b \in Seq(S) : b = <<v>>
  BY <1>1
<1>4. QED
  BY <1>1, <1>2, <1>3, RunCat

\* The reader stays in its states.
LEMMA ReadByteType ==
    ASSUME NEW s \in ReadStates, NEW v \in Byte
    PROVE  ReadByte(s, v) \in ReadStates
<1>1. PICK l \in Int, g \in Byte, h \in Byte, str \in Seq(Int), rest \in Seq(Byte), 
           at \in {"char", "high", "low", "hash", "done", "invalid"} :
        s = ReadState(at, l, g, h, str, rest)
  BY ReadStateParts
<1>2. v \in Int /\ g \in Int
  BY DEF Byte
<1>3. CASE at = "char"
  <2>1. CASE v = 0
    <3>1. ReadByte(s, v) = ReadState("hash", l, g, h, str, rest)
      BY <1>1, <1>3, <2>1, ReadChar
    <3>2. QED
      BY <3>1, ReadStateType
  <2>2. CASE v \in 1..127
    <3>1. ReadByte(s, v) = ReadState("char", l, g, crc8(h, v), Append(str, v), rest)
      BY <1>1, <1>3, <2>2, ReadChar
    <3>2. crc8(h, v) \in Byte
      BY <1>2, CrcIsByte
    <3>3. v \in Int
      BY DEF Byte
    <3>4. Append(str, v) \in Seq(Int)
      BY <1>2, <3>3, AppendProperties
    <3>5. ReadState("char", l, g, crc8(h, v), Append(str, v), rest) \in ReadStates
      <4>1. PICK t \in Seq(Int) : t = Append(str, v)
        BY <3>4, Zenon
      <4>2. PICK u \in Byte : u = crc8(h, v)
        BY <3>2, Zenon
      <4>3. ReadState("char", l, g, u, t, rest) \in ReadStates
        BY ReadStateType
      <4>4. QED
        BY <4>1, <4>2, <4>3, Zenon
    <3>6. QED
      BY <3>1, <3>5, Zenon
  <2>3. CASE v > 127
    <3>1. ReadByte(s, v) = ReadState("high", v - 128 + 1, g, h, str, rest)
      BY <1>1, <1>3, <2>3, ReadChar
    <3>2. v - 128 + 1 \in Int
      BY <1>2
    <3>3. QED
      BY <3>1, <3>2, ReadStateType
  <2>4. QED
    BY <2>1, <2>2, <2>3 DEF Byte
<1>4. CASE at = "high"
  <2>1. ReadByte(s, v) = ReadState("low", l, v, h, str, rest)
    BY <1>1, <1>4, ReadHigh
  <2>2. QED
    BY <2>1, ReadStateType
<1>5. CASE at = "low"
  <2>1. PICK u \in {"char", "high"} : u = IF l = 1 THEN "char" ELSE "high"
    OBVIOUS
  <2>2. ReadByte(s, v) = ReadState(u, l - 1, g, crc8(crc8(h, g), v), Append(str, EncodeRune(g * 256 + v)), rest)
    BY <1>1, <1>5, <2>1, ReadLow
  <2>3. crc8(crc8(h, g), v) \in Byte
    BY CrcIsByte
  <2>4. EncodeRune(g * 256 + v) \in Int
    BY <1>2 DEF EncodeRune, Replacement
  <2>5. Append(str, EncodeRune(g * 256 + v)) \in Seq(Int) /\ l - 1 \in Int
    BY <2>4
  <2>6. PICK e \in Seq(Int), k \in Int, c \in Byte :
            e = Append(str, EncodeRune(g * 256 + v)) /\ k = l - 1 /\ c = crc8(crc8(h, g), v)
    BY <2>3, <2>5, Zenon
  <2>7. ReadState(u, k, g, c, e, rest) \in ReadStates
    BY ReadStateType
  <2>8. QED
    BY <2>2, <2>6, <2>7, Zenon
<1>6. CASE at = "hash"
  <2>1. PICK u \in {"done", "invalid"} : u = IF h = v THEN "done" ELSE "invalid"
    OBVIOUS
  <2>2. ReadByte(s, v) = ReadState(u, l, g, h, str, rest)
    BY <1>1, <1>6, <2>1, ReadHash
  <2>3. QED
    BY <2>2, ReadStateType
<1>7. CASE at \in {"done", "invalid"}
  <2>1. ReadByte(s, v) = ReadState(at, l, g, h, str, Append(rest, v))
    BY <1>1, <1>7, ReadRest
  <2>2. Append(rest, v) \in Seq(Byte)
    OBVIOUS
  <2>3. PICK e \in Seq(Byte) : e = Append(rest, v)
    BY <2>2, Zenon
  <2>4. ReadState(at, l, g, h, str, e) \in ReadStates
    BY ReadStateType
  <2>5. QED
    BY <2>1, <2>3, <2>4, Zenon
<1>8. QED
  BY <1>3, <1>4, <1>5, <1>6, <1>7

\* The last state of a reader, and what ReadString makes of it
Reading(bytes) == FoldLeft(ReadByte, [at |-> "char", left |-> 0, high |-> 0, h |-> 0,
                                      str |-> <<>>, rest |-> <<>>], bytes)

Result(s) == [ok |-> s.at = "done", str |-> s.str, rest |-> s.rest]

\* ReadString gives the result of the last state.
LEMMA ReadStringIs == ASSUME NEW bytes PROVE ReadString(bytes) = Result(Reading(bytes))
BY Zenon DEF ReadString, Result, Reading

\* The state that ReadString starts in.
LEMMA FirstStateType == FirstState \in ReadStates
<1>1. PICK l \in Int, g \in Byte : l = 0 /\ g = 0
  BY DEF Byte
<1>2. PICK str \in Seq(Int) : str = <<>>
  <2>1. <<>> \in Seq(Int)
    BY EmptySeq
  <2>2. QED
    BY <2>1, Zenon
<1>3. PICK rest \in Seq(Byte) : rest = <<>>
  <2>1. <<>> \in Seq(Byte)
    BY EmptySeq
  <2>2. QED
    BY <2>1, Zenon
<1>4. ReadState("char", l, g, g, str, rest) \in ReadStates
  BY ReadStateType
<1>5. QED
  BY <1>1, <1>2, <1>3, <1>4 DEF FirstState

ReadTurn(bytes) == [x \in ReadStates \X Nat |-> ReadByte(x[1], bytes[x[2]])]

\* Reading is the value after the last byte.
LEMMA ReadTurns ==
    ASSUME NEW bytes \in Seq(Byte)
    PROVE  \E f : /\ Turns(f, ReadTurn(bytes), ReadStates, FirstState, Len(bytes))
                  /\ Reading(bytes) = f[Len(bytes)]
<1> DEFINE G == ReadTurn(bytes)
           n == Len(bytes)
           P(it) == it = [s \in SUBSET (1..n) |->
                       IF s = {} THEN FirstState
                       ELSE ReadByte(it[s \ {Max(s)}], bytes[Max(s)])]
<1>1. ASSUME NEW a \in ReadStates, NEW i \in 1..n
      PROVE  G[<<a, i>>] = ReadByte(a, bytes[i]) /\ G[<<a, i>>] \in ReadStates
  <2>1. i \in Nat /\ bytes[i] \in Byte
    OBVIOUS
  <2>2. QED
    BY <2>1, ReadByteType DEF ReadTurn
<1>2. n \in Nat /\ DOMAIN bytes = 1..n
  OBVIOUS
<1>3. Reading(bytes) = (CHOOSE it : P(it))[1..n]
  BY <1>2, Zenon DEF Reading, FirstState, ReadState, FoldLeft, MapThenFoldSet
<1>4. Stays(G, ReadStates, n)
  BY <1>1 DEF Stays
<1> HIDE DEF n
<1>5. \A s \in SUBSET (1..n) : s # {} => Max(s) \in 1..n
  BY <1>2, MaxOfPlaces
<1> HIDE DEF G
<1>6. PICK it \in [SUBSET (1..n) -> ReadStates] : Iterates(it, G, FirstState, n)
  <2>1. Iterable(G, ReadStates, FirstState, n)
    BY <1>2, <1>4, FirstStateType, IteratesExist
  <2>2. QED
    BY <2>1, Zenon DEF Iterable
<1>7. P(it)
  <2>1. ASSUME NEW s \in SUBSET (1..n), s # {}
        PROVE  G[<<it[s \ {Max(s)}], Max(s)>>] = ReadByte(it[s \ {Max(s)}], bytes[Max(s)])
    <3>1. it[s \ {Max(s)}] \in ReadStates
      OBVIOUS
    <3>2. QED
      BY <1>1, <1>5, <2>1, <3>1
  <2>2. QED
    BY <1>6, <2>1, Zenon DEF Iterates
<1>8. PICK c : P(c) /\ Reading(bytes) = Whole(c, n)
  BY <1>3, <1>7, Zenon DEF Whole
<1>9. Follows(c, G, ReadStates, FirstState, n)
  <2>1. c[{}] = FirstState
    <3>1. {} \in SUBSET (1..n)
      OBVIOUS
    <3>2. QED
      BY <1>8, <3>1, Zenon
  <2>2. ASSUME NEW s \in SUBSET (1..n), s # {}, c[s \ {Max(s)}] \in ReadStates
        PROVE  c[s] = G[<<c[s \ {Max(s)}], Max(s)>>]
    <3>1. c[s] = ReadByte(c[s \ {Max(s)}], bytes[Max(s)])
      BY <1>8, <2>2, Zenon
    <3>2. QED
      BY <1>1, <1>5, <2>2, <3>1
  <2>3. QED
    BY <2>1, <2>2, Zenon DEF Follows
<1>10. QED
  <2>1. \E f : Turns(f, G, ReadStates, FirstState, n) /\ Whole(c, n) = f[n]
    BY <1>2, <1>4, <1>9, FirstStateType, FollowsTurns
  <2>2. QED
    BY <1>8, <2>1 DEF G, n

\* Reading runs over all bytes.
LEMMA ReadingRuns ==
    ASSUME NEW bytes \in Seq(Byte)
    PROVE  Run(FirstState, bytes, Reading(bytes)) /\ Reading(bytes) \in ReadStates
<1>1. PICK f : /\ Turns(f, ReadTurn(bytes), ReadStates, FirstState, Len(bytes))
               /\ Reading(bytes) = f[Len(bytes)]
  BY ReadTurns
<1>2. Len(bytes) \in Nat
  OBVIOUS
<1>3. ASSUME NEW i \in 1..Len(bytes) PROVE f[i] = ReadByte(f[i - 1], bytes[i])
  <2>1. i \in Nat /\ i - 1 \in 0..Len(bytes)
    OBVIOUS
  <2>2. f[i - 1] \in ReadStates /\ f[i] = ReadTurn(bytes)[<<f[i - 1], i>>]
    BY <1>1, <2>1 DEF Turns
  <2>3. QED
    BY <2>1, <2>2 DEF ReadTurn
<1>4. f[0] = FirstState /\ f[Len(bytes)] \in ReadStates
  BY <1>1, <1>2 DEF Turns
<1>5. Run(FirstState, bytes, f[Len(bytes)])
  BY <1>3, <1>4 DEF Run
<1>6. QED
  BY <1>1, <1>4, <1>5

\* What a run from the first state says of ReadString
LEMMA ReadStringRuns ==
    ASSUME NEW bytes \in Seq(Byte), NEW s, Run(FirstState, bytes, s)
    PROVE  ReadString(bytes) = Result(s)
<1>1. Run(FirstState, bytes, Reading(bytes)) /\ Len(bytes) \in Nat
  BY ReadingRuns
<1>2. Reading(bytes) = s
  BY <1>1, RunUnique
<1>3. QED
  BY <1>2, ReadStringIs

\* A number of two bytes is its high and its low byte.
LEMMA TwoBytes ==
    ASSUME NEW n \in Nat
    PROVE  /\ n \div 256 \in Nat /\ n % 256 \in 0..255
           /\ n = (n \div 256) * 256 + (n % 256)
<1>1. n = (n \div 256) * 256 + (n % 256)
  OBVIOUS
<1>2. n \div 256 \in Nat
  OBVIOUS
<1>3. n % 256 \in 0..255
  OBVIOUS
<1>4. QED
  BY <1>1, <1>2, <1>3

\* A character is read back from its two bytes.
LEMMA HighAndLow ==
    ASSUME NEW r \in Character
    PROVE  High(r) \in Byte /\ Low(r) \in Byte /\ EncodeRune(High(r) * 256 + Low(r)) = r
<1>1. PICK n \in Nat : n = r /\ n < 65536 /\ n \notin Surrogates
  <2>1. MaxRune \in Nat /\ MaxRune < 65536
    BY DEF MaxRune
  <2>2. r \in Nat /\ r <= MaxRune /\ r \notin Surrogates
    BY <2>1 DEF Character
  <2>3. QED
    BY ONLY <2>1, <2>2, SMTT(20)
<1>2. PICK d \in Nat, m \in 0..255 : d = n \div 256 /\ m = n % 256 /\ n = d * 256 + m
  <2>1. n \div 256 \in Nat /\ n % 256 \in 0..255 /\ n = (n \div 256) * 256 + (n % 256)
    BY TwoBytes
  <2>2. QED
    BY ONLY <2>1, ZenonT(30)
<1>3. d < 256
  BY <1>1, <1>2
<1>4. d % 256 = d /\ d \in 0..255
  BY <1>3
<1>5. High(r) = d /\ Low(r) = m
  BY <1>1, <1>2, <1>4 DEF High, Low
<1>6. QED
  BY <1>1, <1>2, <1>4, <1>5 DEF Byte, EncodeRune

\* The queue of k characters that have two bytes, with what the reader's
\* checksum and string become over it
Pending(q, k, h0, str0, h, str) ==
    /\ k = 0 => q = <<>> /\ h = h0 /\ str = str0
    /\ \A l \in Nat, g \in Byte : l >= 1 /\ l >= k =>
          \E g2 \in Byte :
              Run(ReadState("high", l, g, h0, str0, <<>>), q,
                  ReadState(IF l = k THEN "char" ELSE "high", l - k, g2, h, str, <<>>))

\* Nothing is pending in an empty queue.
LEMMA PendingNone ==
    ASSUME NEW h, NEW str
    PROVE  Pending(<<>>, 0, h, str, h, str)
<1>1. ASSUME NEW l \in Nat, NEW g \in Byte, l >= 1
      PROVE  Run(ReadState("high", l, g, h, str, <<>>), <<>>,
                 ReadState(IF l = 0 THEN "char" ELSE "high", l - 0, g, h, str, <<>>))
  <2>1. l # 0 /\ l - 0 = l
    BY <1>1
  <2>2. QED
    BY <2>1, RunNil
<1>2. QED
  BY <1>1 DEF Pending

\* A character more in the queue
LEMMA PendingMore ==
    ASSUME NEW q \in Seq(Byte), NEW k \in Nat, NEW h0 \in Byte, NEW str0, NEW h \in Byte, NEW str,
           Pending(q, k, h0, str0, h, str), NEW r \in Character
    PROVE  Pending(q \o <<High(r), Low(r)>>, k + 1, h0, str0,
                   crc8(crc8(h, High(r)), Low(r)), Append(str, r))
<1>1. PICK a \in Byte, b \in Byte : a = High(r) /\ b = Low(r) /\ EncodeRune(a * 256 + b) = r
  BY HighAndLow
<1> DEFINE c == crc8(crc8(h, a), b)
           t == Append(str, r)
           none == <<>>
<1> HIDE DEF none
<1>2. ASSUME NEW l \in Nat, NEW g \in Byte, l >= k + 1
      PROVE  \E g2 \in Byte :
                 Run(ReadState("high", l, g, h0, str0, <<>>), q \o <<a, b>>,
                     ReadState(IF l = k + 1 THEN "char" ELSE "high", l - (k + 1), g2, c, t, <<>>))
  <2>1. l >= 1 /\ l >= k /\ l # k /\ l - k \in Nat /\ (l - k = 1 <=> l = k + 1) /\ l - k - 1 = l - (k + 1)
    BY <1>2
  <2>2. PICK m \in Nat : m = l - k
    BY <2>1
  <2>3. PICK g1 \in Byte :
            Run(ReadState("high", l, g, h0, str0, none), q, ReadState("high", m, g1, h, str, none))
    BY <2>1, <2>2 DEF Pending, none
  <2> DEFINE first == ReadState("high", l, g, h0, str0, none)
             last == ReadState(IF m = 1 THEN "char" ELSE "high", m - 1, a, c, t, none)
  <2>4. ReadByte(ReadState("high", m, g1, h, str, none), a) = ReadState("low", m, a, h, str, none)
    BY ReadHigh
  <2>5. ReadByte(ReadState("low", m, a, h, str, none), b) = last
    BY <1>1, ReadLow
  <2>6. Run(first, Append(q, a), ReadState("low", m, a, h, str, none))
    BY <2>3, <2>4, RunThen
  <2>7. Append(q, a) \in Seq(Byte)
    OBVIOUS
  <2>8. Run(first, Append(Append(q, a), b), last)
    <3> HIDE DEF first, last
    <3>1. QED
      BY <2>5, <2>6, <2>7, RunThen
  <2>9. Append(Append(q, a), b) = q \o <<a, b>>
    OBVIOUS
  <2>10. last = ReadState(IF l = k + 1 THEN "char" ELSE "high", l - (k + 1), a, c, t, none)
    BY <2>1, <2>2
  <2> HIDE DEF last
  <2>11. QED
    BY <2>8, <2>9, <2>10, Zenon DEF none
<1>3. k + 1 # 0
  OBVIOUS
<1> HIDE DEF c, t
<1>4. Pending(q \o <<a, b>>, k + 1, h0, str0, c, t)
  <2>1. PICK j \in Nat : j = k + 1
    OBVIOUS
  <2>2. PICK p : p = q \o <<a, b>>
    OBVIOUS
  <2>3. \A l \in Nat, g \in Byte : l >= 1 /\ l >= j =>
            \E g2 \in Byte :
                Run(ReadState("high", l, g, h0, str0, <<>>), p,
                    ReadState(IF l = j THEN "char" ELSE "high", l - j, g2, c, t, <<>>))
    BY <1>2, <2>1, <2>2, Zenon
  <2>4. Pending(p, j, h0, str0, c, t)
    BY <1>3, <2>1, <2>3, Zenon DEF Pending
  <2>5. QED
    BY <2>1, <2>2, <2>4, Zenon
<1>5. QED
  BY <1>1, <1>4 DEF c, t

\* The bytes o read as the string str with the checksum h.
Written(o, h, str) ==
    \E l \in Int, g \in Byte : Run(FirstState, o, ReadState("char", l, g, h, str, <<>>))

\* Nothing has been written at first.
LEMMA WrittenNone == Written(<<>>, 0, <<>>)
<1>1. PICK l \in Int, g \in Byte : l = 0 /\ g = 0
  BY DEF Byte
<1>2. Run(FirstState, <<>>, FirstState)
  BY RunNil
<1>3. QED
  BY <1>1, <1>2, Zenon DEF Written, FirstState

\* An ASCII character after what has been written.
LEMMA WrittenSmall ==
    ASSUME NEW o \in Seq(Byte), NEW h \in Byte, NEW str, Written(o, h, str), NEW r \in 1..127
    PROVE  Written(Append(o, r), crc8(h, r), Append(str, r))
<1> DEFINE none == <<>>
<1>1. PICK l \in Int, g \in Byte : Run(FirstState, o, ReadState("char", l, g, h, str, none))
  BY DEF Written
<1> HIDE DEF none
<1>2. r \in Byte
  BY DEF Byte
<1>3. ReadByte(ReadState("char", l, g, h, str, none), r)
      = ReadState("char", l, g, crc8(h, r), Append(str, r), none)
  BY <1>2, ReadChar
<1>4. Run(FirstState, Append(o, r), ReadState("char", l, g, crc8(h, r), Append(str, r), none))
  BY <1>1, <1>2, <1>3, RunThen
<1>5. QED
  BY <1>4, Zenon DEF Written, none

\* A group: its size, and the queue
LEMMA WrittenGroup ==
    ASSUME NEW o \in Seq(Byte), NEW q \in Seq(Byte), NEW k \in 1..GroupSize,
           NEW h0, NEW str0, NEW h, NEW str,
           Written(o, h0, str0), Pending(q, k, h0, str0, h, str)
    PROVE  /\ GroupByte(k) \in Byte
           /\ Written((o \o <<GroupByte(k)>>) \o q, h, str)
<1> DEFINE none == <<>>
<1>1. PICK v \in Byte : v = GroupByte(k) /\ v > 127 /\ v - 128 + 1 = k
  <2>1. GroupByte(k) \in Byte /\ GroupByte(k) > 127 /\ GroupByte(k) - 128 + 1 = k
    BY StringCodecAssumption DEF GroupByte, Byte
  <2>2. QED
    BY <2>1, Zenon
<1>2. PICK l \in Int, g \in Byte : Run(FirstState, o, ReadState("char", l, g, h0, str0, none))
  BY DEF Written
<1>3. k \in Nat /\ k >= 1 /\ k >= k /\ k \in Int
  BY StringCodecAssumption
<1>4. PICK g2 \in Byte : Run(ReadState("high", k, g, h0, str0, none), q,
                             ReadState("char", k - k, g2, h, str, none))
  BY <1>3 DEF Pending
<1> HIDE DEF none
<1>5. ReadByte(ReadState("char", l, g, h0, str0, none), v) = ReadState("high", k, g, h0, str0, none)
  BY <1>1, ReadChar
<1>6. Run(FirstState, Append(o, v), ReadState("high", k, g, h0, str0, none))
  BY <1>2, <1>5, RunThen
<1>7. Append(o, v) \in Seq(Byte) /\ Append(o, v) = o \o <<v>>
  OBVIOUS
<1>8. Run(FirstState, Append(o, v) \o q, ReadState("char", k - k, g2, h, str, none))
  BY <1>4, <1>6, <1>7, RunCat
<1>9. k - k \in Int
  BY <1>3
<1>10. Written((o \o <<v>>) \o q, h, str)
  BY <1>7, <1>8, <1>9, Zenon DEF Written, none
<1>11. QED
  BY <1>1, <1>10, Zenon

WriteState(o, q, h) == [out |-> o, queue |-> q, h |-> h]

\* The writer after the characters of str: what is out reads as a part of
\* them and the queue has the rest.
Writes(w, str) ==
    \E o \in Seq(Byte), q \in Seq(Byte), h \in Byte, k \in 0..(GroupSize - 1),
       h0 \in Byte, str0 \in Seq(Int) :
        /\ w = WriteState(o, q, h)
        /\ Len(q) = 2 * k
        /\ Written(o, h0, str0)
        /\ Pending(q, k, h0, str0, h, str)

\* The fields of a state of the writer.
LEMMA WriteStateParts ==
    ASSUME NEW o, NEW q, NEW h
    PROVE  WriteState(o, q, h).out = o /\ WriteState(o, q, h).queue = q /\ WriteState(o, q, h).h = h
BY DEF WriteState

WithOutAndQueue(w, a, b) == [w EXCEPT !.out = a, !.queue = b]
WithOutAndSum(w, a, b) == [w EXCEPT !.out = a, !.h = b]
WithQueueAndSum(w, a, b) == [w EXCEPT !.queue = a, !.h = b]

\* Two fields of the writer assigned at once.
LEMMA OutAndQueue ==
    ASSUME NEW o, NEW q, NEW h, NEW a, NEW b, NEW w, w = WriteState(o, q, h)
    PROVE  WithOutAndQueue(w, a, b) = WriteState(a, b, h)
<1>1. PICK v : v = [w EXCEPT !.out = a]
  OBVIOUS
<1>2. v = WriteState(a, q, h)
  BY <1>1 DEF WriteState
<1>3. [v EXCEPT !.queue = b] = WriteState(a, b, h)
  BY <1>2 DEF WriteState
<1>4. WithOutAndQueue(w, a, b) = [v EXCEPT !.queue = b]
  BY <1>1, Zenon DEF WithOutAndQueue
<1>5. QED
  BY <1>3, <1>4

\* The same, of two other fields.
LEMMA OutAndSum ==
    ASSUME NEW o, NEW q, NEW h, NEW a, NEW b, NEW w, w = WriteState(o, q, h)
    PROVE  WithOutAndSum(w, a, b) = WriteState(a, q, b)
<1>1. PICK v : v = [w EXCEPT !.out = a]
  OBVIOUS
<1>2. v = WriteState(a, q, h)
  BY <1>1 DEF WriteState
<1>3. [v EXCEPT !.h = b] = WriteState(a, q, b)
  BY <1>2 DEF WriteState
<1>4. WithOutAndSum(w, a, b) = [v EXCEPT !.h = b]
  BY <1>1, Zenon DEF WithOutAndSum
<1>5. QED
  BY <1>3, <1>4

\* The same, of the last two.
LEMMA QueueAndSum ==
    ASSUME NEW o, NEW q, NEW h, NEW a, NEW b, NEW w, w = WriteState(o, q, h)
    PROVE  WithQueueAndSum(w, a, b) = WriteState(o, a, b)
<1>1. PICK v : v = [w EXCEPT !.queue = a]
  OBVIOUS
<1>2. v = WriteState(o, a, h)
  BY <1>1 DEF WriteState
<1>3. [v EXCEPT !.h = b] = WriteState(o, a, b)
  BY <1>2 DEF WriteState
<1>4. WithQueueAndSum(w, a, b) = [v EXCEPT !.h = b]
  BY <1>1, Zenon DEF WithQueueAndSum
<1>5. QED
  BY <1>3, <1>4

\* The writer's first state has written the empty string.
LEMMA WritesNone == Writes(WriteState(<<>>, <<>>, 0), <<>>)
<1>1. PICK k \in 0..(GroupSize - 1), h \in Byte : k = 0 /\ h = 0
  BY StringCodecAssumption DEF Byte
<1>2. PICK none : none = <<>>
  OBVIOUS
<1>3. none \in Seq(Byte) /\ none \in Seq(Int) /\ Len(none) = 2 * k
  BY <1>1, <1>2
<1>4. Written(none, h, none) /\ Pending(none, k, h, none, h, none)
  BY <1>1, <1>2, WrittenNone, PendingNone
<1>5. Writes(WriteState(none, none, h), none)
  BY <1>3, <1>4 DEF Writes
<1>6. QED
  BY <1>1, <1>2, <1>5

\* The queue of a group, and what is out after it
LEMMA FlushGroup ==
    ASSUME NEW o \in Seq(Byte), NEW q \in Seq(Byte), NEW h, NEW k \in 1..GroupSize,
           Len(q) = 2 * k
    PROVE  appendQueue(WriteState(o, q, h)) = WriteState((o \o <<GroupByte(k)>>) \o q, <<>>, h)
<1>1. q # <<>> /\ Len(q) \div 2 = k
  BY StringCodecAssumption
<1> DEFINE s == WriteState(o, q, h)
           g == <<GroupByte(k)>>
<1>2. s.queue = q /\ s.out = o
  BY DEF WriteState
<1>3. appendQueue(s) = [s EXCEPT !.out = (@ \o g) \o q, !.queue = <<>>]
  <2> HIDE DEF s
  <2>1. QED
    BY <1>1, <1>2, Zenon DEF appendQueue
<1>4. [s EXCEPT !.out = (@ \o g) \o q, !.queue = <<>>] = WriteState((o \o g) \o q, <<>>, h)
  <2> HIDE DEF g
  <2>1. PICK x : x = (o \o g) \o q
    OBVIOUS
  <2>2. s = WriteState(o, q, h)
    OBVIOUS
  <2> HIDE DEF s
  <2>3. WithOutAndQueue(s, x, <<>>) = WriteState(x, <<>>, h)
    BY <2>2, OutAndQueue
  <2>4. (s.out \o g) \o q = x
    BY <1>2, <2>1, Zenon
  <2>5. [s EXCEPT !.out = (@ \o g) \o q, !.queue = <<>>] = WithOutAndQueue(s, x, <<>>)
    BY <2>4, Zenon DEF WithOutAndQueue
  <2>6. QED
    BY <2>1, <2>3, <2>5, Zenon
<1>5. QED
  BY <1>3, <1>4, Zenon

\* The queue goes out
LEMMA FlushWrites ==
    ASSUME NEW w, NEW str \in Seq(Int), Writes(w, str)
    PROVE  \E o \in Seq(Byte), h \in Byte :
              appendQueue(w) = WriteState(o, <<>>, h) /\ w.h = h /\ Written(o, h, str)
<1>1. PICK o \in Seq(Byte), q \in Seq(Byte), h \in Byte, k \in 0..(GroupSize - 1),
           h0 \in Byte, str0 \in Seq(Int) :
        /\ w = WriteState(o, q, h)
        /\ Len(q) = 2 * k
        /\ Written(o, h0, str0)
        /\ Pending(q, k, h0, str0, h, str)
  BY Zenon DEF Writes
<1>2. w.h = h /\ w.queue = q
  BY <1>1 DEF WriteState
<1>3. CASE k = 0
  <2>1. q = <<>> /\ h = h0 /\ str = str0
    BY <1>1, <1>3 DEF Pending
  <2>2. appendQueue(w) = w
    BY <1>2, <2>1, Zenon DEF appendQueue
  <2>3. QED
    BY <1>1, <1>2, <2>1, <2>2, Zenon
<1>4. CASE k # 0
  <2>1. k \in 1..GroupSize
    BY <1>4, StringCodecAssumption
  <2>2. PICK p \in Seq(Byte) : p = (o \o <<GroupByte(k)>>) \o q
    <3>1. GroupByte(k) \in Byte
      BY <1>1, <2>1, WrittenGroup
    <3>2. (o \o <<GroupByte(k)>>) \o q \in Seq(Byte)
      BY <3>1
    <3>3. QED
      BY <3>2, Zenon
  <2>3. Written(p, h, str)
    BY <1>1, <2>1, <2>2, WrittenGroup
  <2>4. appendQueue(w) = WriteState(p, <<>>, h)
    BY <1>1, <2>1, <2>2, FlushGroup
  <2>5. QED
    BY <1>2, <2>3, <2>4, Zenon
<1>5. QED
  BY <1>3, <1>4

\* A character of one byte
AllOut(o, h) == WriteState(o, <<>>, h)

\* An ASCII character: the queue goes out and the character after it.
LEMMA WriteSmall ==
    ASSUME NEW w, NEW o, NEW h, appendQueue(w) = AllOut(o, h), NEW r, r < 128
    PROVE  WriteChar(w, r) = AllOut(Append(o, r), crc8(h, r))
<1>1. PICK p, c : p = Append(o, r) /\ c = crc8(h, r)
  OBVIOUS
<1>2. WriteChar(w, r) = [appendQueue(w) EXCEPT !.out = Append(@, r), !.h = crc8(@, r)]
  BY Zenon DEF WriteChar
<1>3. [WriteState(o, <<>>, h) EXCEPT !.out = Append(@, r), !.h = crc8(@, r)] = WriteState(p, <<>>, c)
  <2> DEFINE s == WriteState(o, <<>>, h)
  <2>1. s.out = o /\ s.h = h
    BY WriteStateParts
  <2>2. s = WriteState(o, <<>>, h)
    OBVIOUS
  <2> HIDE DEF s
  <2>3. WithOutAndSum(s, p, c) = WriteState(p, <<>>, c)
    BY <2>2, OutAndSum
  <2>4. [s EXCEPT !.out = Append(@, r), !.h = crc8(@, r)] = WithOutAndSum(s, p, c)
    BY <1>1, <2>1, Zenon DEF WithOutAndSum
  <2>5. QED
    BY <2>3, <2>4, Zenon DEF s
<1>4. QED
  BY <1>1, <1>2, <1>3, Zenon DEF AllOut

\* The writer has written one character more after an ASCII character.
LEMMA SmallWrites ==
    ASSUME NEW w, NEW str \in Seq(Int), Writes(w, str), NEW r \in 1..127
    PROVE  Writes(WriteChar(w, r), Append(str, r))
<1>1. PICK o \in Seq(Byte), h \in Byte :
          appendQueue(w) = WriteState(o, <<>>, h) /\ w.h = h /\ Written(o, h, str)
  BY FlushWrites
<1>2. PICK c \in Byte, p \in Seq(Byte), t \in Seq(Int) : c = crc8(h, r) /\ p = Append(o, r) /\ t = Append(str, r)
  <2>1. r \in Byte
    BY DEF Byte
  <2>2. crc8(h, r) \in Byte
    BY <2>1, CrcIsByte
  <2>3. Append(o, r) \in Seq(Byte) /\ Append(str, r) \in Seq(Int)
    BY <2>1
  <2>4. QED
    BY <2>2, <2>3, Zenon
<1>3. Written(p, c, t)
  BY <1>1, <1>2, WrittenSmall
<1>4. WriteChar(w, r) = WriteState(p, <<>>, c)
  <2>1. appendQueue(w) = AllOut(o, h)
    BY <1>1, Zenon DEF AllOut
  <2>2. WriteChar(w, r) = AllOut(Append(o, r), crc8(h, r))
    BY <2>1, WriteSmall
  <2>3. QED
    BY <1>2, <2>2, Zenon DEF AllOut
<1>5. PICK k \in 0..(GroupSize - 1) : k = 0
  BY StringCodecAssumption
<1>6. PICK q \in Seq(Byte) : q = <<>> /\ Len(q) = 2 * k
  <2>1. <<>> \in Seq(Byte) /\ Len(<<>>) = 2 * k
    BY <1>5, EmptySeq
  <2>2. QED
    BY <2>1, Zenon
<1>7. Pending(q, k, c, t, c, t)
  BY <1>5, <1>6, PendingNone
<1>8. Writes(WriteState(p, q, c), t)
  BY <1>3, <1>6, <1>7, Zenon DEF Writes
<1>9. QED
  BY <1>2, <1>4, <1>6, <1>8, Zenon

\* The queue with a character more
Queued(q, r) == q \o <<High(r), Low(r)>>

\* A character in the queue takes two bytes.
LEMMA QueuedType ==
    ASSUME NEW q \in Seq(Byte), NEW r \in Character
    PROVE  Queued(q, r) \in Seq(Byte) /\ Len(Queued(q, r)) = Len(q) + 2
<1>1. PICK a \in Byte, b \in Byte : a = High(r) /\ b = Low(r)
  BY HighAndLow
<1>2. q \o <<a, b>> \in Seq(Byte) /\ Len(q \o <<a, b>>) = Len(q) + 2
  OBVIOUS
<1>3. QED
  BY <1>1, <1>2 DEF Queued

\* A character of two
LEMMA LargeWrites ==
    ASSUME NEW w, NEW str \in Seq(Int), Writes(w, str), NEW r \in Character, r >= 128
    PROVE  Writes(WriteChar(w, r), Append(str, r))
<1>1. PICK o \in Seq(Byte), q \in Seq(Byte), h \in Byte, k \in 0..(GroupSize - 1),
           h0 \in Byte, str0 \in Seq(Int) :
        /\ w = WriteState(o, q, h)
        /\ Len(q) = 2 * k
        /\ Written(o, h0, str0)
        /\ Pending(q, k, h0, str0, h, str)
  BY Zenon DEF Writes
<1>2. PICK c \in Byte, p \in Seq(Byte), t \in Seq(Int) :
          /\ c = crc8(crc8(h, High(r)), Low(r)) /\ p = Queued(q, r) /\ t = Append(str, r)
          /\ Len(p) = Len(q) + 2
  <2>1. r \in Int /\ High(r) \in Byte /\ Low(r) \in Byte
    BY HighAndLow DEF Character
  <2>2. crc8(crc8(h, High(r)), Low(r)) \in Byte
    BY <2>1, CrcIsByte
  <2>3. Append(str, r) \in Seq(Int)
    BY <2>1
  <2>4. QED
    BY <2>2, <2>3, QueuedType, Zenon
<1>3. PICK j \in 1..GroupSize : j = k + 1 /\ Len(p) = 2 * j /\ Len(p) \div 2 = j
  <2>1. k + 1 \in 1..GroupSize /\ Len(p) = 2 * (k + 1) /\ (2 * (k + 1)) \div 2 = k + 1
    BY <1>1, <1>2, StringCodecAssumption
  <2>2. QED
    BY <2>1
<1>4. Pending(p, j, h0, str0, c, t)
  <2>1. k \in Nat
    BY StringCodecAssumption
  <2>2. QED
    BY <1>1, <1>2, <1>3, <2>1, PendingMore DEF Queued
<1> DEFINE u == WriteState(o, p, c)
<1>5. WriteChar(w, r) = IF j = GroupSize THEN appendQueue(u) ELSE u
  <2>1. ~ (r < 128)
    BY DEF Character
  <2> DEFINE v == [w EXCEPT !.queue = @ \o <<High(r), Low(r)>>, !.h = crc8(crc8(@, High(r)), Low(r))]
  <2>2. WriteChar(w, r) = IF Len(v.queue) \div 2 = GroupSize THEN appendQueue(v) ELSE v
    BY <2>1, Zenon DEF WriteChar
  <2>3. v = u
    <3>1. w.queue = q /\ w.h = h
      BY <1>1, WriteStateParts
    <3>2. WithQueueAndSum(w, p, c) = u
      BY <1>1, QueueAndSum
    <3>3. v = WithQueueAndSum(w, p, c)
      BY <1>2, <3>1, Zenon DEF Queued, WithQueueAndSum
    <3>4. QED
      BY <3>2, <3>3, Zenon
  <2>4. u.queue = p
    BY DEF WriteState
  <2> HIDE DEF v, u
  <2>5. QED
    BY <1>3, <2>2, <2>3, <2>4, Zenon
<1>6. CASE j = GroupSize
  <2>1. GroupByte(j) \in Byte /\ Written((o \o <<GroupByte(j)>>) \o p, c, t)
    BY <1>1, <1>4, WrittenGroup
  <2>2. PICK out \in Seq(Byte) : out = (o \o <<GroupByte(j)>>) \o p
    <3>1. (o \o <<GroupByte(j)>>) \o p \in Seq(Byte)
      BY <2>1
    <3>2. QED
      BY <3>1, Zenon
  <2>3. appendQueue(u) = WriteState(out, <<>>, c)
    BY <1>3, <2>2, FlushGroup
  <2>4. PICK i \in 0..(GroupSize - 1) : i = 0
    BY StringCodecAssumption
  <2>5. PICK n \in Seq(Byte) : n = <<>> /\ Len(n) = 2 * i
    <3>1. <<>> \in Seq(Byte) /\ Len(<<>>) = 2 * i
      BY <2>4, EmptySeq
    <3>2. QED
      BY <3>1, Zenon
  <2>6. Pending(n, i, c, t, c, t)
    BY <2>4, <2>5, PendingNone
  <2>7. Writes(WriteState(out, n, c), t)
    BY <2>1, <2>2, <2>5, <2>6, Zenon DEF Writes
  <2> HIDE DEF u
  <2>8. QED
    BY <1>2, <1>5, <1>6, <2>3, <2>5, <2>7, Zenon
<1>7. CASE j # GroupSize
  <2>1. PICK i \in 0..(GroupSize - 1) : i = j
    BY <1>7, StringCodecAssumption
  <2>2. Writes(u, t)
    BY <1>1, <1>3, <1>4, <2>1, Zenon DEF Writes
  <2> HIDE DEF u
  <2>3. QED
    BY <1>2, <1>5, <1>7, <2>2, Zenon
<1>8. QED
  BY <1>6, <1>7

\* The writer has written one character more after any character.
LEMMA CharWrites ==
    ASSUME NEW w, NEW str \in Seq(Int), Writes(w, str), NEW r \in Character
    PROVE  Writes(WriteChar(w, r), Append(str, r))
<1>1. r \in Nat /\ r >= 1
  <2>1. MaxRune \in Nat
    BY DEF MaxRune
  <2>2. QED
    BY <2>1 DEF Character
<1>2. CASE r < 128
  <2>1. r \in 1..127
    BY <1>1, <1>2
  <2>2. QED
    BY <2>1, SmallWrites
<1>3. CASE r >= 128
  BY <1>3, LargeWrites
<1>4. QED
  BY <1>1, <1>2, <1>3

WriteStates ==
    {w \in [out : Seq(Byte), queue : Seq(Byte), h : Byte] : \E str \in Seq(Int) : Writes(w, str)}

\* Such a state of the writer has fields of the right types.
LEMMA WritesType == ASSUME NEW w, NEW str \in Seq(Int), Writes(w, str) PROVE w \in WriteStates
<1>1. PICK o \in Seq(Byte), q \in Seq(Byte), h \in Byte : w = WriteState(o, q, h)
  BY Zenon DEF Writes
<1>2. w \in [out : Seq(Byte), queue : Seq(Byte), h : Byte]
  BY <1>1 DEF WriteState
<1>3. QED
  BY <1>2 DEF WriteStates

\* The writer's last state, and what WriteString makes of it
Writing(text) == FoldLeft(WriteChar, [out |-> <<>>, queue |-> <<>>, h |-> 0], text)

\* WriteString gives what is out in the last state, a zero and the sum.
LEMMA WriteStringIs ==
    ASSUME NEW text
    PROVE  WriteString(text) = appendQueue(Writing(text)).out \o <<0, appendQueue(Writing(text)).h>>
BY Zenon DEF WriteString, Writing

WriteFirst == WriteState(<<>>, <<>>, 0)

WriteTurn(text) == [x \in WriteStates \X Nat |-> WriteChar(x[1], text[x[2]])]

\* Writing is the value after the last character.
LEMMA WriteTurns ==
    ASSUME NEW text \in Seq(Character)
    PROVE  \E f : /\ Turns(f, WriteTurn(text), WriteStates, WriteFirst, Len(text))
                  /\ Writing(text) = f[Len(text)]
<1> DEFINE G == WriteTurn(text)
           n == Len(text)
           P(it) == it = [s \in SUBSET (1..n) |->
                       IF s = {} THEN WriteFirst
                       ELSE WriteChar(it[s \ {Max(s)}], text[Max(s)])]
<1>1. ASSUME NEW a \in WriteStates, NEW i \in 1..n
      PROVE  G[<<a, i>>] = WriteChar(a, text[i]) /\ G[<<a, i>>] \in WriteStates
  <2>1. i \in Nat /\ text[i] \in Character
    OBVIOUS
  <2>2. PICK str \in Seq(Int) : Writes(a, str)
    BY DEF WriteStates
  <2>3. Append(str, text[i]) \in Seq(Int)
    BY <2>1 DEF Character
  <2>4. WriteChar(a, text[i]) \in WriteStates
    BY <2>1, <2>2, <2>3, CharWrites, WritesType
  <2>5. QED
    BY <2>1, <2>4 DEF WriteTurn
<1>2. n \in Nat /\ DOMAIN text = 1..n
  OBVIOUS
<1>3. WriteFirst \in WriteStates
  BY WritesNone, WritesType, EmptySeq DEF WriteFirst
<1>4. Writing(text) = (CHOOSE it : P(it))[1..n]
  BY <1>2, Zenon DEF Writing, WriteFirst, WriteState, FoldLeft, MapThenFoldSet
<1>5. Stays(G, WriteStates, n)
  BY <1>1 DEF Stays
<1> HIDE DEF n
<1>6. \A s \in SUBSET (1..n) : s # {} => Max(s) \in 1..n
  BY <1>2, MaxOfPlaces
<1> HIDE DEF G
<1>7. PICK it \in [SUBSET (1..n) -> WriteStates] : Iterates(it, G, WriteFirst, n)
  <2>1. Iterable(G, WriteStates, WriteFirst, n)
    BY <1>2, <1>3, <1>5, IteratesExist
  <2>2. QED
    BY <2>1, Zenon DEF Iterable
<1>8. P(it)
  <2>1. ASSUME NEW s \in SUBSET (1..n), s # {}
        PROVE  G[<<it[s \ {Max(s)}], Max(s)>>] = WriteChar(it[s \ {Max(s)}], text[Max(s)])
    <3>1. it[s \ {Max(s)}] \in WriteStates
      OBVIOUS
    <3>2. QED
      BY <1>1, <1>6, <2>1, <3>1
  <2>2. QED
    BY <1>7, <2>1, Zenon DEF Iterates
<1>9. PICK c : P(c) /\ Writing(text) = Whole(c, n)
  BY <1>4, <1>8, Zenon DEF Whole
<1>10. Follows(c, G, WriteStates, WriteFirst, n)
  <2>1. c[{}] = WriteFirst
    <3>1. {} \in SUBSET (1..n)
      OBVIOUS
    <3>2. QED
      BY <1>9, <3>1, Zenon
  <2>2. ASSUME NEW s \in SUBSET (1..n), s # {}, c[s \ {Max(s)}] \in WriteStates
        PROVE  c[s] = G[<<c[s \ {Max(s)}], Max(s)>>]
    <3>1. c[s] = WriteChar(c[s \ {Max(s)}], text[Max(s)])
      BY <1>9, <2>2, Zenon
    <3>2. QED
      BY <1>1, <1>6, <2>2, <3>1
  <2>3. QED
    BY <2>1, <2>2, Zenon DEF Follows
<1>11. QED
  <2>1. \E f : Turns(f, G, WriteStates, WriteFirst, n) /\ Whole(c, n) = f[n]
    BY <1>2, <1>3, <1>5, <1>10, FollowsTurns
  <2>2. QED
    BY <1>9, <2>1 DEF G, n

\* After the last character the writer has written all of them.
LEMMA WritingWrites ==
    ASSUME NEW text \in Seq(Character)
    PROVE  Writes(Writing(text), text)
<1>1. PICK f : /\ Turns(f, WriteTurn(text), WriteStates, WriteFirst, Len(text))
               /\ Writing(text) = f[Len(text)]
  BY WriteTurns
<1>2. PICK n \in Nat : n = Len(text)
  OBVIOUS
<1> DEFINE S == {k \in Nat : k <= n => Writes(f[k], SubSeq(text, 1, k))}
<1>3. 0 \in S
  <2>1. f[0] = WriteFirst
    BY <1>1 DEF Turns
  <2>2. SubSeq(text, 1, 0) = <<>>
    OBVIOUS
  <2>3. QED
    BY <2>1, <2>2, WritesNone DEF WriteFirst
<1>4. ASSUME NEW k \in Nat, k \in S PROVE k + 1 \in S
  <2> SUFFICES ASSUME k + 1 <= n PROVE Writes(f[k + 1], SubSeq(text, 1, k + 1))
    OBVIOUS
  <2>1. k + 1 \in 1..n /\ k + 1 - 1 = k /\ k \in 0..n /\ Writes(f[k], SubSeq(text, 1, k))
    BY <1>4
  <2>2. f[k] \in WriteStates /\ f[k + 1] = WriteTurn(text)[<<f[k], k + 1>>]
    BY <1>1, <1>2, <2>1 DEF Turns
  <2>3. text[k + 1] \in Character /\ k + 1 \in Nat
    BY <1>2, <2>1
  <2>4. f[k + 1] = WriteChar(f[k], text[k + 1])
    BY <2>2, <2>3 DEF WriteTurn
  <2>5. PICK str \in Seq(Int) : str = SubSeq(text, 1, k)
    <3>1. text \in Seq(Int)
      BY DEF Character
    <3>2. SubSeq(text, 1, k) \in Seq(Int)
      BY <1>2, <2>1, <3>1
    <3>3. QED
      BY <3>2, Zenon
  <2>6. SubSeq(text, 1, k + 1) = Append(SubSeq(text, 1, k), text[k + 1])
    BY <1>2, <2>1
  <2>7. Writes(WriteChar(f[k], text[k + 1]), Append(str, text[k + 1]))
    BY <2>1, <2>3, <2>5, CharWrites
  <2>8. QED
    BY <2>4, <2>5, <2>6, <2>7, Zenon
<1> HIDE DEF S
<1>5. Nat \subseteq S
  BY <1>3, <1>4, Induct
<1>6. Writes(f[n], SubSeq(text, 1, n))
  BY <1>5 DEF S
<1>7. SubSeq(text, 1, n) = text
  BY <1>2
<1>8. QED
  BY <1>1, <1>2, <1>6, <1>7, Zenon

\* What is read after the checksum is left for the next field.
LEMMA RestRuns ==
    ASSUME NEW l, NEW g, NEW h, NEW str, NEW x \in Seq(Byte),
           NEW at \in {"done", "invalid"}
    PROVE  Run(ReadState(at, l, g, h, str, <<>>), x, ReadState(at, l, g, h, str, x))
<1> DEFINE n == Len(x)
           f == [k \in 0..n |-> ReadState(at, l, g, h, str, SubSeq(x, 1, k))]
<1>1. n \in Nat
  OBVIOUS
<1>2. f[0] = ReadState(at, l, g, h, str, <<>>) /\ f[n] = ReadState(at, l, g, h, str, x)
  <2>1. SubSeq(x, 1, 0) = <<>> /\ SubSeq(x, 1, n) = x
    OBVIOUS
  <2>2. 0 \in 0..n /\ n \in 0..n
    BY <1>1
  <2> HIDE DEF n
  <2>3. QED
    BY <2>1, <2>2
<1>3. ASSUME NEW i \in 1..n PROVE f[i] = ReadByte(f[i - 1], x[i])
  <2>1. i \in 0..n /\ i - 1 \in 0..n
    BY <1>1
  <2>2. SubSeq(x, 1, i) = Append(SubSeq(x, 1, i - 1), x[i])
    OBVIOUS
  <2>3. ReadByte(ReadState(at, l, g, h, str, SubSeq(x, 1, i - 1)), x[i])
        = ReadState(at, l, g, h, str, Append(SubSeq(x, 1, i - 1), x[i]))
    BY ReadRest
  <2> HIDE DEF n
  <2>4. f[i] = ReadState(at, l, g, h, str, SubSeq(x, 1, i))
    BY <2>1, Zenon
  <2>5. f[i - 1] = ReadState(at, l, g, h, str, SubSeq(x, 1, i - 1))
    BY <2>1, Zenon
  <2> HIDE DEF f
  <2>6. QED
    BY <2>2, <2>3, <2>4, <2>5
<1> HIDE DEF f
<1>4. QED
  BY <1>2, <1>3 DEF Run

\* A string is read back, and what comes after it is left.
LEMMA StringReadsBack ==
    ASSUME NEW text \in Seq(Character), NEW x \in Seq(Byte)
    PROVE  /\ WriteString(text) \in Seq(Byte)
           /\ LET read == ReadString(WriteString(text) \o x)
              IN  read.ok /\ read.str = text /\ read.rest = x
<1>1. text \in Seq(Int)
  BY DEF Character
<1>2. PICK o \in Seq(Byte), h \in Byte :
          appendQueue(Writing(text)) = WriteState(o, <<>>, h) /\ Written(o, h, text)
  BY <1>1, WritingWrites, FlushWrites
<1>3. WriteString(text) = o \o <<0, h>>
  <2>1. WriteState(o, <<>>, h).out = o /\ WriteState(o, <<>>, h).h = h
    BY WriteStateParts
  <2>2. QED
    BY <1>2, <2>1, WriteStringIs, Zenon
<1> DEFINE none == <<>>
<1>4. PICK l \in Int, g \in Byte : Run(FirstState, o, ReadState("char", l, g, h, text, none))
  BY <1>2, Zenon DEF Written
<1> HIDE DEF none
<1>5. PICK z \in Byte : z = 0
  BY DEF Byte
<1>6. ReadByte(ReadState("char", l, g, h, text, none), z) = ReadState("hash", l, g, h, text, none)
  BY <1>5, ReadZero
<1>7. ReadByte(ReadState("hash", l, g, h, text, none), h) = ReadState("done", l, g, h, text, none)
  BY ReadHash
<1>8. Append(o, z) \in Seq(Byte) /\ Append(Append(o, z), h) = o \o <<0, h>>
  BY <1>5
<1>9. Run(FirstState, Append(o, z), ReadState("hash", l, g, h, text, none))
  BY <1>4, <1>6, RunThen
<1>10. Run(FirstState, Append(Append(o, z), h), ReadState("done", l, g, h, text, none))
  BY <1>7, <1>8, <1>9, RunThen
<1>11. PICK b \in Seq(Byte) : b = WriteString(text) /\ b = Append(Append(o, z), h)
  <2>1. Append(Append(o, z), h) \in Seq(Byte)
    BY <1>8
  <2>2. QED
    BY <1>3, <1>8, <2>1, Zenon
<1>12. Run(ReadState("done", l, g, h, text, none), x, ReadState("done", l, g, h, text, x))
  BY RestRuns DEF none
<1>13. Run(FirstState, b \o x, ReadState("done", l, g, h, text, x))
  BY <1>10, <1>11, <1>12, RunCat
<1>14. b \o x \in Seq(Byte)
  OBVIOUS
<1>15. ReadString(b \o x) = Result(ReadState("done", l, g, h, text, x))
  BY <1>13, <1>14, ReadStringRuns
<1> DEFINE s == ReadState("done", l, g, h, text, x)
<1>16. s.at = "done" /\ s.str = text /\ s.rest = x
  BY DEF ReadState
<1> HIDE DEF s
<1>17. Result(s).ok = (s.at = "done") /\ Result(s).str = s.str /\ Result(s).rest = s.rest
  BY Zenon DEF Result
<1>18. QED
  <2> DEFINE read == ReadString(WriteString(text) \o x)
  <2>1. read = Result(s)
    BY <1>11, <1>15, Zenon DEF s
  <2> HIDE DEF read
  <2>2. read.ok /\ read.str = text /\ read.rest = x
    BY <2>1, <1>16, <1>17
  <2>3. WriteString(text) \in Seq(Byte)
    BY <1>11
  <2>4. QED
    BY <2>2, <2>3 DEF read

----------------------------------------------------------------------------
(* The fields of a record.                                                 *)

\* The places of a concatenation.
LEMMA ConcatParts ==
    ASSUME NEW v \in Seq(Nat), NEW x \in Seq(Nat)
    PROVE  /\ v \o x \in Seq(Nat) /\ Len(v \o x) = Len(v) + Len(x)
           /\ \A i \in 1..Len(v) : (v \o x)[i] = v[i]
           /\ \A i \in 1..Len(x) : (v \o x)[Len(v) + i] = x[i]
OBVIOUS

\* A number of four bytes is read back, whatever follows it.
LEMMA NumberReadsBack ==
    ASSUME NEW n \in Nat
    PROVE  /\ WriteUInt32(n) \in Seq(Nat) /\ Len(WriteUInt32(n)) = 4
           /\ \A x \in Seq(Nat) : ReadUInt32(WriteUInt32(n) \o x) = n
<1>1. PICK d1 \in Nat, m1 \in 0..255 : d1 = n \div 256 /\ m1 = n % 256 /\ n = d1 * 256 + m1
  BY TwoBytes
<1>2. PICK d2 \in Nat, m2 \in 0..255 : d2 = d1 \div 256 /\ m2 = d1 % 256 /\ d1 = d2 * 256 + m2
  BY TwoBytes
<1>3. PICK d3 \in Nat, m3 \in 0..255 : d3 = d2 \div 256 /\ m3 = d2 % 256 /\ d2 = d3 * 256 + m3
  BY TwoBytes
<1>4. n = 65536 * d2 + (256 * m2 + m1) /\ 256 * m2 + m1 \in Nat /\ 256 * m2 + m1 < 65536
  BY <1>1, <1>2
<1>5. n \div 65536 = d2
  BY <1>4
<1>6. n = 16777216 * d3 + (65536 * m3 + 256 * m2 + m1) /\ 65536 * m3 + 256 * m2 + m1 \in Nat
      /\ 65536 * m3 + 256 * m2 + m1 < 16777216
  BY <1>1, <1>2, <1>3
<1>7. n \div 16777216 = d3
  BY <1>6
<1>8. WriteUInt32(n) = <<d3, m3, m2, m1>>
  BY <1>1, <1>2, <1>3, <1>5, <1>7, SMT DEF WriteUInt32, High, Low
<1> DEFINE w == <<d3, m3, m2, m1>>
<1>9. w \in Seq(Nat) /\ Len(w) = 4 /\ w[1] = d3 /\ w[2] = m3 /\ w[3] = m2 /\ w[4] = m1
  OBVIOUS
<1> HIDE DEF w
<1>10. ASSUME NEW x \in Seq(Nat) PROVE ReadUInt32(w \o x) = n
  <2>00. \A i \in 1..Len(w) : (w \o x)[i] = w[i]
    BY <1>9, ConcatParts
  <2>01. 1 \in 1..Len(w) /\ 2 \in 1..Len(w) /\ 3 \in 1..Len(w) /\ 4 \in 1..Len(w)
    BY <1>9
  <2>1. (w \o x)[1] = d3 /\ (w \o x)[2] = m3 /\ (w \o x)[3] = m2 /\ (w \o x)[4] = m1
    BY <1>9, <2>00, <2>01
  <2>2. ReadUInt32(w \o x) = ((d3 * 256 + m3) * 256 + m2) * 256 + m1
    BY <2>1, Zenon DEF ReadUInt32
  <2>3. QED
    BY <1>1, <1>2, <1>3, <2>2
<1>11. QED
  BY <1>8, <1>9, <1>10, Zenon DEF w

\* A number of two bytes is read back.
LEMMA ShortReadsBack ==
    ASSUME NEW m \in Nat, m \div 256 < 256
    PROVE  WriteUInt16(m) \in Seq(Byte) /\ ReadUInt16(WriteUInt16(m)) = m
<1>1. PICK d \in Nat, r \in 0..255 : d = m \div 256 /\ r = m % 256 /\ m = d * 256 + r
  BY TwoBytes
<1>2. d < 256
  BY <1>1, SMT
<1>3. d % 256 = d /\ d \in Byte /\ r \in Byte
  BY <1>2 DEF Byte
<1>4. WriteUInt16(m) = <<d, r>>
  <2>1. High(m) = d /\ Low(m) = r
    BY <1>1, <1>3, Zenon DEF High, Low
  <2>2. QED
    BY <2>1, Zenon DEF WriteUInt16
<1>5. PICK w : w = <<d, r>>
  OBVIOUS
<1>6. w \in Seq(Byte) /\ w[1] = d /\ w[2] = r
  BY <1>3, <1>5
<1>7. ReadUInt16(w) = d * 256 + r
  BY <1>6, Zenon DEF ReadUInt16
<1>8. WriteUInt16(m) \in Seq(Byte) /\ ReadUInt16(WriteUInt16(m)) = d * 256 + r
  BY <1>4, <1>5, <1>6, <1>7, Zenon
<1>9. d * 256 + r = m
  BY <1>1
<1>10. QED
  BY <1>8, <1>9, Zenon

\* The two parts of a sequence
LEMMA SecondPart ==
    ASSUME NEW w \in Seq(Nat), NEW y \in Seq(Nat)
    PROVE  SubSeq(w \o y, Len(w) + 1, Len(w \o y)) = y
<1> DEFINE z == w \o y
           n == Len(w)
           t == SubSeq(z, n + 1, Len(z))
<1>1. z \in Seq(Nat) /\ Len(z) = n + Len(y) /\ Len(y) \in Nat /\ n \in Nat
  BY ConcatParts, LenProperties
<1>2. \A i \in 1..Len(y) : z[n + i] = y[i]
  BY ConcatParts
<1> HIDE DEF z, n
<1>3. \A i \in (n + 1)..Len(z) : z[i] \in Nat
  <2>1. \A i \in 1..Len(z) : z[i] \in Nat
    BY <1>1, ElementOfSeq
  <2>2. \A i \in (n + 1)..Len(z) : i \in 1..Len(z)
    BY <1>1
  <2>3. QED
    BY <2>1, <2>2
<1>4. PICK k \in Nat : k = Len(z) /\ k = n + Len(y)
  BY <1>1
<1>5. PICK m \in Nat : m = n + 1
  BY <1>1
<1>6. \A i \in m..k : z[i] \in Nat
  BY <1>3, <1>4, <1>5
<1>7. /\ SubSeq(z, m, k) \in Seq(Nat)
      /\ Len(SubSeq(z, m, k)) = Len(y)
      /\ \A i \in 1..Len(y) : SubSeq(z, m, k)[i] = z[n + i]
  <2>1. /\ SubSeq(z, m, k) \in Seq(Nat)
        /\ Len(SubSeq(z, m, k)) = IF m <= k THEN k - m + 1 ELSE 0
        /\ \A i \in 1..(k - m + 1) : SubSeq(z, m, k)[i] = z[m + i - 1]
    BY <1>6, SubSeqProperties
  <2>2. (IF m <= k THEN k - m + 1 ELSE 0) = Len(y) /\ k - m + 1 = Len(y)
    BY <1>1, <1>4, <1>5
  <2>3. ASSUME NEW i \in 1..Len(y) PROVE SubSeq(z, m, k)[i] = z[n + i]
    <3>1. SubSeq(z, m, k)[i] = z[m + i - 1]
      BY <2>1, <2>2, Zenon
    <3>2. m + i - 1 = n + i
      BY <1>1, <1>5
    <3>3. QED
      BY <3>1, <3>2, Zenon
  <2>4. QED
    BY <2>1, <2>2, <2>3, Zenon
<1>8. \A i \in 1..Len(y) : t[i] = y[i]
  <2>1. t = SubSeq(z, m, k)
    BY <1>4, <1>5, Zenon
  <2>2. \A i \in 1..Len(y) : SubSeq(z, m, k)[i] = y[i]
    BY <1>2, <1>7, Zenon
  <2>3. QED
    BY <2>1, <2>2, Zenon
<1>9. t \in Seq(Nat) /\ Len(t) = Len(y)
  BY <1>4, <1>5, <1>7, Zenon
<1> HIDE DEF t
<1>10. t = y
  BY <1>8, <1>9, SeqEqual
<1>11. QED
  BY <1>10 DEF t, z, n

\* The first part of a concatenation.
LEMMA FirstPart ==
    ASSUME NEW w \in Seq(Nat), NEW y \in Seq(Nat)
    PROVE  SubSeq(w \o y, 1, Len(w)) = w
<1> DEFINE z == w \o y
           t == SubSeq(z, 1, Len(w))
<1>1. z \in Seq(Nat) /\ Len(w) \in Nat /\ \A i \in 1..Len(w) : z[i] = w[i]
  BY ConcatParts, LenProperties
<1> HIDE DEF z
<1>2. \A i \in 1..Len(w) : z[i] \in Nat
  BY <1>1, ElementOfSeq
<1>3. t \in Seq(Nat) /\ Len(t) = Len(w) /\ \A i \in 1..Len(w) : t[i] = z[i]
  BY <1>1, <1>2, SubSeqProperties
<1> HIDE DEF t
<1>4. t = w
  BY <1>1, <1>3, SeqEqual
<1>5. QED
  BY <1>4 DEF t, z

Fields(w, s, s2, u) == w \o s \o s2 \o u
Nested(w, s, s2, u) == w \o (s \o (s2 \o u))

\* Four fields, one after the other, however they are put together.
LEMMA FourFields ==
    ASSUME NEW w \in Seq(Nat), NEW s \in Seq(Nat), NEW s2 \in Seq(Nat), NEW u \in Seq(Nat)
    PROVE  Fields(w, s, s2, u) = Nested(w, s, s2, u)
<1>1. PICK v \in Seq(Nat) : v = w \o s
  BY ConcatParts, Zenon
<1>2. PICK x \in Seq(Nat) : x = s2 \o u
  BY ConcatParts, Zenon
<1>3. (v \o s2) \o u = v \o (s2 \o u)
  BY SMTT(30)
<1>4. (w \o s) \o x = w \o (s \o x)
  BY SMTT(30)
<1>5. QED
  BY <1>1, <1>2, <1>3, <1>4, Zenon DEF Fields, Nested

\* Every field of a record is read back, whatever the fields are.
LEMMA RecordReadsBack ==
    ASSUME NEW n \in Nat, NEW text \in Seq(Character), NEW text2 \in Seq(Character),
           NEW m \in Nat, m \div 256 < 256
    PROVE  FieldsReadBack(n, text, text2, m)
<1>1. PICK s \in Seq(Byte), s2 \in Seq(Byte), u \in Seq(Byte) :
          s = WriteString(text) /\ s2 = WriteString(text2) /\ u = WriteUInt16(m)
  <2>1. WriteString(text) \in Seq(Byte) /\ WriteString(text2) \in Seq(Byte)
    BY StringReadsBack, EmptySeq
  <2>2. WriteUInt16(m) \in Seq(Byte)
    BY ShortReadsBack
  <2>3. QED
    BY <2>1, <2>2, Zenon
<1>2. PICK x \in Seq(Byte) : x = s2 \o u
  <2>1. s2 \o u \in Seq(Byte)
    OBVIOUS
  <2>2. QED
    BY <2>1, Zenon
<1>3. PICK y \in Seq(Byte) : y = s \o x
  <2>1. s \o x \in Seq(Byte)
    OBVIOUS
  <2>2. QED
    BY <2>1, Zenon
<1>4. PICK w \in Seq(Nat) : w = WriteUInt32(n) /\ Len(w) = 4
  BY NumberReadsBack, Zenon
<1>5. s \in Seq(Nat) /\ s2 \in Seq(Nat) /\ u \in Seq(Nat) /\ y \in Seq(Nat)
  <2>1. Byte \subseteq Nat
    BY DEF Byte
  <2>2. QED
    BY <2>1, SeqMonotonic
<1>6. PICK bytes : bytes = w \o s \o s2 \o u
  OBVIOUS
<1>7. bytes = w \o y
  <2>1. Fields(w, s, s2, u) = Nested(w, s, s2, u)
    BY <1>5, FourFields
  <2>2. QED
    BY <1>2, <1>3, <1>6, <2>1, Zenon DEF Fields, Nested
<1>8. SubSeq(bytes, 5, Len(bytes)) = y
  <2>1. SubSeq(w \o y, Len(w) + 1, Len(w \o y)) = y
    BY <1>4, <1>5, SecondPart
  <2>3. Len(w) + 1 = 5
    BY <1>4
  <2>4. QED
    BY <1>7, <2>1, <2>3, Zenon
<1>9. ReadUInt32(bytes) = n
  <2>1. ReadUInt32(WriteUInt32(n) \o y) = n
    BY <1>5, NumberReadsBack, Zenon
  <2>2. QED
    BY <1>4, <1>7, <2>1, Zenon
<1>10. PICK one : one = ReadString(SubSeq(bytes, 5, Len(bytes)))
  OBVIOUS
<1>11. one.ok /\ one.str = text /\ one.rest = x
  <2>1. one = ReadString(WriteString(text) \o x)
    BY <1>1, <1>3, <1>8, <1>10, Zenon
  <2>2. QED
    BY <2>1, StringReadsBack
<1>12. PICK two : two = ReadString(one.rest)
  OBVIOUS
<1>13. two.ok /\ two.str = text2 /\ two.rest = u
  <2>1. two = ReadString(WriteString(text2) \o u)
    BY <1>1, <1>2, <1>11, <1>12, Zenon
  <2>2. QED
    BY <2>1, StringReadsBack
<1>14. ReadUInt16(two.rest) = m
  BY <1>1, <1>13, ShortReadsBack
<1>15. QED
  BY <1>1, <1>4, <1>6, <1>9, <1>10, <1>11, <1>12, <1>13, <1>14, Zenon DEF FieldsReadBack

----------------------------------------------------------------------------
(* Damage.                                                                 *)

\* They are bytes, and characters that are stored.
LEMMA AsciiType == Ascii \subseteq Byte /\ Ascii \subseteq Character
<1>1. Ascii \subseteq Byte
  BY DEF Ascii, Byte
<1>2. ASSUME NEW r \in Ascii PROVE r \in Character
  <2>1. r \in Nat /\ 1 <= r /\ r <= 127
    BY DEF Ascii
  <2>2. MaxRune \in Nat /\ 127 <= MaxRune
    BY DEF MaxRune
  <2>3. surrogateMin \in Nat /\ 127 < surrogateMin /\ surrogateMax \in Nat
    BY DEF surrogateMin, surrogateMax
  <2>4. r \notin Surrogates
    BY <2>1, <2>3 DEF Surrogates
  <2>5. r \in 1..MaxRune
    BY <2>1, <2>2
  <2>6. QED
    BY <2>4, <2>5 DEF Character
<1>3. QED
  BY <1>1, <1>2

\* The checksums after 0, 1, 2, ... bytes
Sums(f, d) ==
    /\ f \in [0..Len(d) -> Byte]
    /\ f[0] = 0
    /\ \A i \in 1..Len(d) : f[i] = crc8(f[i - 1], d[i])

SumTurn(d) == [x \in Byte \X Nat |-> crc8(x[1], d[x[2]])]

\* The sums of the parts of a string exist.
LEMMA SumsExist == ASSUME NEW d \in Seq(Byte) PROVE \E f : Sums(f, d)
<1>1. PICK n \in Nat : n = Len(d)
  OBVIOUS
<1>2. PICK z \in Byte : z = 0
  BY DEF Byte
<1> DEFINE G == SumTurn(d)
<1>3. ASSUME NEW a \in Byte, NEW i \in 1..n PROVE G[<<a, i>>] = crc8(a, d[i]) /\ G[<<a, i>>] \in Byte
  <2>1. i \in Nat /\ d[i] \in Byte
    BY <1>1
  <2>2. QED
    BY <2>1, CrcIsByte DEF SumTurn
<1>4. Stays(G, Byte, n)
  BY <1>3 DEF Stays
<1> HIDE DEF G
<1>5. Iterable(G, Byte, z, n)
  BY <1>4, IteratesExist
<1>6. PICK it \in [SUBSET (1..n) -> Byte] : Iterates(it, G, z, n)
  BY <1>5, Zenon DEF Iterable
<1>7. Follows(it, G, Byte, z, n)
  <2>1. it[{}] = z
    <3>1. {} \in SUBSET (1..n)
      OBVIOUS
    <3>2. QED
      BY <1>6, <3>1, Zenon DEF Iterates
  <2>2. \A s \in SUBSET (1..n) : s # {} /\ it[s \ {Max(s)}] \in Byte => it[s] = G[<<it[s \ {Max(s)}], Max(s)>>]
    BY <1>6, Zenon DEF Iterates
  <2>3. QED
    BY <2>1, <2>2, Zenon DEF Follows
<1>8. PICK f : Turns(f, G, Byte, z, n)
  BY <1>4, <1>7, FollowsTurns
<1>9. \A i \in 1..n : f[i] = crc8(f[i - 1], d[i])
  <2> TAKE i \in 1..n
  <2>1. f[i] = G[<<f[i - 1], i>>] /\ f[i - 1] \in Byte
    BY <1>8 DEF Turns
  <2>2. QED
    BY <1>3, <2>1
<1>10. QED
  BY <1>1, <1>2, <1>8, <1>9 DEF Sums, Turns

\* An empty queue has nothing to give out.
LEMMA FlushNone == ASSUME NEW o, NEW h PROVE appendQueue(WriteState(o, <<>>, h)) = WriteState(o, <<>>, h)
<1>1. WriteState(o, <<>>, h).queue = <<>>
  BY WriteStateParts
<1>2. QED
  BY <1>1, Zenon DEF appendQueue

\* A string of such characters is its bytes, a zero and the checksum.
LEMMA AsciiIsWritten ==
    ASSUME NEW text \in Seq(Ascii), NEW f, Sums(f, text)
    PROVE  WriteString(text) = text \o <<0, f[Len(text)]>>
<1>1. PICK n \in Nat : n = Len(text)
  OBVIOUS
<1>2. text \in Seq(Character) /\ text \in Seq(Byte)
  BY AsciiType, SeqMonotonic
<1>3. PICK g : /\ Turns(g, WriteTurn(text), WriteStates, WriteFirst, n)
               /\ Writing(text) = g[n]
  BY <1>1, <1>2, WriteTurns
<1> DEFINE S == {k \in Nat : k <= n => g[k] = WriteState(SubSeq(text, 1, k), <<>>, f[k])}
<1>4. 0 \in S
  <2>1. g[0] = WriteFirst /\ f[0] = 0 /\ SubSeq(text, 1, 0) = <<>>
    BY <1>3 DEF Turns, Sums
  <2>2. QED
    BY <2>1 DEF WriteFirst
<1>5. ASSUME NEW k \in Nat, k \in S PROVE k + 1 \in S
  <2> SUFFICES ASSUME k + 1 <= n
               PROVE  g[k + 1] = WriteState(SubSeq(text, 1, k + 1), <<>>, f[k + 1])
    OBVIOUS
  <2>1. k + 1 \in 1..n /\ k + 1 - 1 = k /\ k \in 0..n /\ g[k] = WriteState(SubSeq(text, 1, k), <<>>, f[k])
    BY <1>5
  <2>2. g[k] \in WriteStates /\ g[k + 1] = WriteTurn(text)[<<g[k], k + 1>>]
    BY <1>3, <2>1 DEF Turns
  <2>3. text[k + 1] \in Ascii /\ k + 1 \in Nat
    BY <1>1, <2>1
  <2>4. g[k + 1] = WriteChar(g[k], text[k + 1])
    BY <2>2, <2>3 DEF WriteTurn
  <2>5. f[k + 1] = crc8(f[k], text[k + 1])
    BY <1>1, <2>1 DEF Sums
  <2>6. SubSeq(text, 1, k + 1) = Append(SubSeq(text, 1, k), text[k + 1])
    BY <1>1, <2>1
  <2>7. appendQueue(g[k]) = WriteState(SubSeq(text, 1, k), <<>>, f[k])
    BY <2>1, FlushNone
  <2>8. WriteChar(g[k], text[k + 1]) = WriteState(SubSeq(text, 1, k + 1), <<>>, f[k + 1])
    <3>1. appendQueue(g[k]) = AllOut(SubSeq(text, 1, k), f[k])
      BY <2>7, Zenon DEF AllOut
    <3>2. text[k + 1] < 128
      <4>1. \A r \in Ascii : r < 128
        BY DEF Ascii
      <4>2. QED
        BY <2>3, <4>1, Zenon
    <3>3. WriteChar(g[k], text[k + 1])
          = AllOut(Append(SubSeq(text, 1, k), text[k + 1]), crc8(f[k], text[k + 1]))
      BY <3>1, <3>2, WriteSmall
    <3>4. QED
      BY <2>5, <2>6, <3>3, Zenon DEF AllOut
  <2>9. QED
    BY <2>4, <2>8
<1> HIDE DEF S
<1>6. Nat \subseteq S
  BY <1>4, <1>5, Induct
<1>7. g[n] = WriteState(SubSeq(text, 1, n), <<>>, f[n])
  BY <1>6 DEF S
<1>8. SubSeq(text, 1, n) = text
  BY <1>1
<1>9. appendQueue(Writing(text)) = WriteState(text, <<>>, f[n])
  BY <1>3, <1>7, <1>8, FlushNone
<1>10. WriteState(text, <<>>, f[n]).out = text /\ WriteState(text, <<>>, f[n]).h = f[n]
  BY WriteStateParts
<1>11. QED
  BY <1>1, <1>9, <1>10, WriteStringIs, Zenon

\* Reading them, the string ends well with its checksum only.
LEMMA AsciiIsRead ==
    ASSUME NEW d \in Seq(Ascii), NEW f, Sums(f, d), NEW v \in Byte, v # f[Len(d)]
    PROVE  ~ ReadString(d \o <<0, v>>).ok
<1>1. PICK n \in Nat : n = Len(d)
  OBVIOUS
<1> DEFINE none == <<>>
           g == [k \in 0..n |-> ReadState("char", 0, 0, f[k], SubSeq(d, 1, k), none)]
<1>2. d \in Seq(Byte)
  BY AsciiType, SeqMonotonic
<1>3. g[0] = FirstState
  <2>1. SubSeq(d, 1, 0) = none /\ f[0] = 0 /\ 0 \in 0..n
    BY DEF Sums
  <2>2. QED
    BY <2>1 DEF FirstState
<1>4. g[n] = ReadState("char", 0, 0, f[n], d, none)
  <2>1. SubSeq(d, 1, n) = d /\ n \in 0..n
    BY <1>1
  <2>2. QED
    BY <2>1
<1> HIDE DEF none
<1>5. ASSUME NEW i \in 1..n PROVE g[i] = ReadByte(g[i - 1], d[i])
  <2>1. i \in 0..n /\ i - 1 \in 0..n
    OBVIOUS
  <2>2. SubSeq(d, 1, i) = Append(SubSeq(d, 1, i - 1), d[i])
    BY <1>1
  <2>3. d[i] \in Byte /\ d[i] \in 1..127
    BY <1>1, <1>2 DEF Ascii
  <2>4. f[i] = crc8(f[i - 1], d[i])
    BY <1>1 DEF Sums
  <2>5. ReadByte(ReadState("char", 0, 0, f[i - 1], SubSeq(d, 1, i - 1), none), d[i])
        = ReadState("char", 0, 0, crc8(f[i - 1], d[i]), Append(SubSeq(d, 1, i - 1), d[i]), none)
    BY <2>3, ReadChar
  <2>6. g[i] = ReadState("char", 0, 0, f[i], SubSeq(d, 1, i), none)
    BY <2>1, Zenon
  <2>7. g[i - 1] = ReadState("char", 0, 0, f[i - 1], SubSeq(d, 1, i - 1), none)
    BY <2>1, Zenon
  <2> HIDE DEF g
  <2>8. QED
    BY <2>2, <2>4, <2>5, <2>6, <2>7
<1> HIDE DEF g
<1>6. Run(FirstState, d, ReadState("char", 0, 0, f[n], d, none))
  BY <1>1, <1>3, <1>4, <1>5 DEF Run
<1>7. PICK z \in Byte : z = 0
  BY DEF Byte
<1> DEFINE s == ReadState("hash", 0, 0, f[n], d, none)
           t == ReadState("invalid", 0, 0, f[n], d, none)
<1>8. ReadByte(ReadState("char", 0, 0, f[n], d, none), z) = s
  BY <1>7, ReadZero
<1>9. ReadByte(s, v) = t
  BY <1>1, ReadHash
<1> HIDE DEF s, t
<1>10. Run(FirstState, Append(d, z), s)
  BY <1>2, <1>6, <1>8, RunThen
<1>11. Append(d, z) \in Seq(Byte)
  BY <1>2
<1>12. Run(FirstState, Append(Append(d, z), v), t)
  BY <1>9, <1>10, <1>11, RunThen
<1>13. Append(Append(d, z), v) = d \o <<0, v>> /\ Append(Append(d, z), v) \in Seq(Byte)
  BY <1>2, <1>7
<1>14. ReadString(d \o <<0, v>>) = Result(t)
  BY <1>12, <1>13, ReadStringRuns
<1>15. t.at = "invalid"
  BY DEF ReadState, t
<1>16. Result(t).ok = (t.at = "done")
  BY Zenon DEF Result
<1>17. QED
  BY <1>14, <1>15, <1>16

\* While the bytes agree the checksums do, and once these differ they do for
\* as long as the bytes agree again.
LEMMA SumsAgree ==
    ASSUME NEW d, NEW e, NEW f, NEW g, Sums(f, d), Sums(g, e), NEW n \in Nat, Len(d) = n, Len(e) = n,
           NEW k \in 0..n, \A i \in 1..k : d[i] = e[i]
    PROVE  f[k] = g[k]
<1> DEFINE S == {j \in Nat : j <= k => f[j] = g[j]}
<1>1. 0 \in S
  BY DEF Sums
<1>2. ASSUME NEW j \in Nat, j \in S PROVE j + 1 \in S
  <2> SUFFICES ASSUME j + 1 <= k PROVE f[j + 1] = g[j + 1]
    OBVIOUS
  <2>1. j + 1 \in 1..n /\ j + 1 \in 1..k /\ j + 1 - 1 = j /\ f[j] = g[j]
    BY <1>2
  <2>2. f[j + 1] = crc8(f[j], d[j + 1]) /\ g[j + 1] = crc8(g[j], e[j + 1])
    BY <2>1 DEF Sums
  <2>3. QED
    BY <2>1, <2>2
<1> HIDE DEF S
<1>3. Nat \subseteq S
  BY <1>1, <1>2, Induct
<1>4. QED
  BY <1>3 DEF S

\* Sums that differ at a place differ at the end if the bytes after it agree.
LEMMA SumsDiffer ==
    ASSUME NEW n \in Nat, NEW d \in Seq(Byte), NEW e \in Seq(Byte), Len(d) = n, Len(e) = n,
           NEW f, NEW g, Sums(f, d), Sums(g, e),
           NEW k \in 0..n, f[k] # g[k], \A i \in (k + 1)..n : d[i] = e[i]
    PROVE  f[n] # g[n]
<1> DEFINE S == {j \in Nat : k <= j /\ j <= n => f[j] # g[j]}
<1>1. 0 \in S
  OBVIOUS
<1>2. ASSUME NEW j \in Nat, j \in S PROVE j + 1 \in S
  <2> SUFFICES ASSUME k <= j + 1, j + 1 <= n PROVE f[j + 1] # g[j + 1]
    OBVIOUS
  <2>1. CASE k = j + 1
    BY <2>1
  <2>2. CASE k # j + 1
    <3>1. j + 1 \in 1..n /\ j + 1 \in (k + 1)..n /\ j + 1 - 1 = j /\ j \in 0..n /\ f[j] # g[j]
      BY <1>2, <2>2
    <3>2. f[j + 1] = crc8(f[j], d[j + 1]) /\ g[j + 1] = crc8(g[j], e[j + 1])
      BY <3>1 DEF Sums
    <3>3. f[j] \in Byte /\ g[j] \in Byte
      BY <3>1 DEF Sums
    <3>4. d[j + 1] \in Byte /\ d[j + 1] = e[j + 1]
      BY <3>1
    <3>5. crc8(f[j], d[j + 1]) # crc8(g[j], d[j + 1])
      BY <3>1, <3>3, <3>4, CrcOfSums
    <3>6. QED
      BY <3>2, <3>4, <3>5
  <2>3. QED
    BY <2>1, <2>2
<1> HIDE DEF S
<1>3. Nat \subseteq S
  BY <1>1, <1>2, Induct
<1>4. QED
  BY <1>3 DEF S

\* One byte changed
LEMMA ChangeIsSeen ==
    ASSUME NEW n \in Nat, NEW d \in Seq(Byte), NEW e \in Seq(Byte), Len(d) = n, Len(e) = n,
           NEW f, NEW g, Sums(f, d), Sums(g, e),
           NEW i \in 1..n, d[i] # e[i], \A j \in 1..n : j # i => d[j] = e[j]
    PROVE  f[n] # g[n]
<1>1. i - 1 \in 0..n /\ i \in 0..n
  OBVIOUS
<1>2. f[i - 1] = g[i - 1]
  <2>1. \A j \in 1..(i - 1) : d[j] = e[j]
    OBVIOUS
  <2>2. QED
    BY <1>1, <2>1, SumsAgree
<1>3. f[i] # g[i]
  <2>1. f[i] = crc8(f[i - 1], d[i]) /\ g[i] = crc8(g[i - 1], e[i])
    BY DEF Sums
  <2>2. f[i - 1] \in Byte /\ d[i] \in Byte /\ e[i] \in Byte
    BY <1>1 DEF Sums
  <2>3. crc8(f[i - 1], d[i]) # crc8(f[i - 1], e[i])
    BY <2>2, CrcOfBytes
  <2>4. QED
    BY <1>2, <2>1, <2>3
<1>4. \A j \in (i + 1)..n : d[j] = e[j]
  OBVIOUS
<1>5. QED
  BY <1>1, <1>3, <1>4, SumsDiffer

\* Two that follow each other swapped
LEMMA SwapIsSeen ==
    ASSUME NEW n \in Nat, NEW d \in Seq(Byte), NEW e \in Seq(Byte), Len(d) = n, Len(e) = n,
           NEW f, NEW g, Sums(f, d), Sums(g, e),
           NEW i \in 2..n, e[i] = d[i - 1], e[i - 1] = d[i], d[i] # d[i - 1],
           d[i] < 128, d[i - 1] < 128,
           \A j \in 1..n : j # i /\ j # i - 1 => d[j] = e[j]
    PROVE  f[n] # g[n]
<1>1. PICK k \in 1..n : k = i - 1
  <2>1. i - 1 \in 1..n
    OBVIOUS
  <2>2. QED
    BY <2>1
<1>2. k - 1 \in 0..n /\ k \in 0..n /\ i \in 0..n /\ i \in 1..n /\ i - 1 = k
  BY <1>1
<1>3. f[k - 1] = g[k - 1]
  <2>1. \A j \in 1..(k - 1) : d[j] = e[j]
    BY <1>1
  <2>2. QED
    BY <1>2, <2>1, SumsAgree
<1>4. PICK h \in Byte, x \in Byte, y \in Byte : h = f[k - 1] /\ x = d[k] /\ y = d[i]
  <2>1. f[k - 1] \in Byte /\ d[k] \in Byte /\ d[i] \in Byte
    BY <1>2 DEF Sums
  <2>2. QED
    BY <2>1, Zenon
<1>5. f[i] = crc8(crc8(h, x), y)
  <2>1. f[k] = crc8(f[k - 1], d[k]) /\ f[i] = crc8(f[i - 1], d[i])
    BY <1>2 DEF Sums
  <2>2. QED
    BY <1>2, <1>4, <2>1
<1>6. g[i] = crc8(crc8(h, y), x)
  <2>1. g[k] = crc8(g[k - 1], e[k]) /\ g[i] = crc8(g[i - 1], e[i])
    BY <1>2 DEF Sums
  <2>2. QED
    BY <1>1, <1>2, <1>3, <1>4, <2>1
<1>7. f[i] # g[i]
  <2>1. x # y /\ x < 128 /\ y < 128
    BY <1>1, <1>4
  <2>2. QED
    BY <1>5, <1>6, <2>1, CrcOfSwapped
<1>8. \A j \in (i + 1)..n : d[j] = e[j]
  OBVIOUS
<1>9. QED
  BY <1>2, <1>7, <1>8, SumsDiffer

\* What has another checksum is refused.
LEMMA SeenIsCaught ==
    ASSUME NEW text \in Seq(Ascii), NEW d \in Seq(Ascii), Len(d) = Len(text),
           d # text => \A f, g : Sums(f, text) /\ Sums(g, d) => f[Len(text)] # g[Len(text)]
    PROVE  DamageIsCaught(text, d)
<1>1. PICK n \in Nat : n = Len(text)
  OBVIOUS
<1>2. text \in Seq(Byte) /\ d \in Seq(Byte) /\ text \in Seq(Nat)
  <2>1. Ascii \subseteq Byte /\ Ascii \subseteq Nat
    BY AsciiType DEF Ascii
  <2>2. QED
    BY <2>1, SeqMonotonic
<1>3. PICK f : Sums(f, text)
  BY <1>2, SumsExist
<1>4. PICK g : Sums(g, d)
  BY <1>2, SumsExist
<1>5. PICK v \in Byte : v = f[n]
  BY <1>1, <1>3 DEF Sums
<1>6. PICK bytes : bytes = WriteString(text)
  OBVIOUS
<1>7. bytes = text \o <<0, v>>
  BY <1>1, <1>3, <1>5, <1>6, AsciiIsWritten
<1>8. <<0, v>> \in Seq(Nat)
  BY DEF Byte
<1>9. SubSeq(bytes, 1, Len(text)) = text
  <2>1. SubSeq(text \o <<0, v>>, 1, Len(text)) = text
    BY <1>2, <1>8, FirstPart
  <2>2. QED
    BY <1>7, <2>1, Zenon
<1>10. SubSeq(bytes, Len(text) + 1, Len(bytes)) = <<0, v>>
  <2>1. SubSeq(text \o <<0, v>>, Len(text) + 1, Len(text \o <<0, v>>)) = <<0, v>>
    BY <1>2, <1>8, SecondPart
  <2>2. QED
    BY <1>7, <2>1, Zenon
<1>11. ASSUME d # text PROVE ~ ReadString(d \o <<0, v>>).ok
  <2>1. f[n] # g[n]
    BY <1>1, <1>3, <1>4, <1>11
  <2>2. v # g[Len(d)]
    BY <1>1, <1>5, <2>1
  <2>3. QED
    BY <1>4, <2>2, AsciiIsRead
<1>12. QED
  BY <1>6, <1>9, <1>10, <1>11, Zenon DEF DamageIsCaught

\* A string in which one byte was changed is refused.
LEMMA ChangeIsCaught ==
    ASSUME NEW text \in Seq(Ascii), NEW i \in 1..Len(text), NEW c \in Ascii
    PROVE  DamageIsCaught(text, [text EXCEPT ![i] = c])
<1> DEFINE d == [text EXCEPT ![i] = c]
<1>1. PICK n \in Nat : n = Len(text)
  OBVIOUS
<1>2. d \in Seq(Ascii) /\ Len(d) = n /\ \A j \in 1..n : d[j] = IF j = i THEN c ELSE text[j]
  BY <1>1, ExceptSeq
<1> HIDE DEF d
<1>3. text \in Seq(Byte) /\ d \in Seq(Byte)
  BY <1>2, AsciiType, SeqMonotonic
<1>4. ASSUME d # text, NEW f, NEW g, Sums(f, text), Sums(g, d) PROVE f[Len(text)] # g[Len(text)]
  <2>1. text[i] # d[i]
    <3>1. CASE text[i] = c
      <4>1. \A j \in 1..n : d[j] = text[j]
        BY <1>1, <1>2, <3>1
      <4>2. d = text
        BY <1>1, <1>2, <4>1, SeqEqual
      <4>3. QED
        BY <1>4, <4>2
    <3>2. CASE text[i] # c
      BY <1>1, <1>2, <3>2
    <3>3. QED
      BY <3>1, <3>2
  <2>2. \A j \in 1..n : j # i => text[j] = d[j]
    BY <1>2
  <2>3. i \in 1..n
    BY <1>1
  <2>4. f[n] # g[n]
    BY <1>1, <1>2, <1>3, <1>4, <2>1, <2>2, <2>3, ChangeIsSeen, SMTT(20)
  <2>5. QED
    BY <1>1, <2>4
<1>5. DamageIsCaught(text, d)
  BY <1>1, <1>2, <1>4, SeenIsCaught
<1>6. QED
  BY <1>5 DEF d

\* A string in which two neighbours were swapped is refused.
LEMMA SwapIsCaught ==
    ASSUME NEW text \in Seq(Ascii), NEW i \in 2..Len(text)
    PROVE  DamageIsCaught(text, [text EXCEPT ![i] = text[i - 1], ![i - 1] = text[i]])
<1> DEFINE d == [text EXCEPT ![i] = text[i - 1], ![i - 1] = text[i]]
<1>1. PICK n \in Nat : n = Len(text)
  OBVIOUS
<1>2. i \in 1..n /\ i - 1 \in 1..n /\ text[i] \in Ascii /\ text[i - 1] \in Ascii /\ i # i - 1
  BY <1>1
<1>3. d \in Seq(Ascii) /\ Len(d) = n
      /\ \A j \in 1..n : d[j] = IF j = i THEN text[i - 1] ELSE IF j = i - 1 THEN text[i] ELSE text[j]
  <2>1. DOMAIN d = 1..n
    BY <1>1
  <2>2. \A j \in 1..n : d[j] = IF j = i THEN text[i - 1] ELSE IF j = i - 1 THEN text[i] ELSE text[j]
    BY <1>1, <1>2
  <2>3. \A j \in 1..n : d[j] \in Ascii
    BY <1>1, <1>2, <2>2
  <2>4. d = [j \in 1..n |-> d[j]]
    BY <2>1
  <2> HIDE DEF d
  <2>5. d \in [1..n -> Ascii]
    BY <2>3, <2>4
  <2>6. QED
    BY <2>2, <2>5
<1> HIDE DEF d
<1>4. text \in Seq(Byte) /\ d \in Seq(Byte)
  BY <1>3, AsciiType, SeqMonotonic
<1>5. ASSUME d # text, NEW f, NEW g, Sums(f, text), Sums(g, d) PROVE f[Len(text)] # g[Len(text)]
  <2>1. text[i] # text[i - 1]
    <3>1. CASE text[i] = text[i - 1]
      <4>1. \A j \in 1..n : d[j] = text[j]
        BY <1>3, <3>1
      <4>2. d = text
        BY <1>1, <1>3, <4>1, SeqEqual
      <4>3. QED
        BY <1>5, <4>2
    <3>2. QED
      BY <3>1
  <2>2. \A j \in 1..n : j # i /\ j # i - 1 => text[j] = d[j]
    BY <1>3
  <2>3. d[i] = text[i - 1] /\ d[i - 1] = text[i]
    BY <1>2, <1>3
  <2>4. text[i] < 128 /\ text[i - 1] < 128
    <3>1. \A r \in Ascii : r < 128
      BY DEF Ascii
    <3>2. QED
      BY <1>2, <3>1, Zenon
  <2>5. i \in 2..n
    BY <1>1
  <2>6. f[n] # g[n]
    BY <1>1, <1>3, <1>4, <1>5, <2>1, <2>2, <2>3, <2>4, <2>5, SwapIsSeen, SMTT(20)
  <2>7. QED
    BY <1>1, <2>6
<1>6. DamageIsCaught(text, d)
  BY <1>1, <1>3, <1>5, SeenIsCaught
<1>7. QED
  BY <1>6 DEF d

----------------------------------------------------------------------------
(***************************************************************************)
(* The search.  First the pairs of a query.                                *)
(***************************************************************************)
Pair == Nat \X Nat

PairState(m, last) == [m |-> m, last |-> last]
PairStates == [m : Seq(Pair), last : Nat]
NoPairs == PairState(<<>>, 0)

\* The fields of such a state
LEMMA PairStateParts ==
    ASSUME NEW m, NEW last, NEW s, s = PairState(m, last)
    PROVE  s.m = m /\ s.last = last
BY DEF PairState

\* The first one
LEMMA NoPairsType == NoPairs \in PairStates
<1>1. <<>> \in Seq(Pair)
  BY EmptySeq
<1>2. QED
  BY <1>1 DEF NoPairs, PairState, PairStates

\* What a turn of stringCompare's first loop makes of it
LEMMA AddPairIs ==
    ASSUME NEW query, NEW s, NEW i
    PROVE  /\ (query[i] = Space \/ Len(s.m) > MaxPairs) => AddPair(query, s, i) = s
           /\ ~ (query[i] = Space \/ Len(s.m) > MaxPairs) /\ i > 1 =>
                 AddPair(query, s, i) = PairState(Append(s.m, <<s.last, Lower(query[i])>>), Lower(query[i]))
           /\ ~ (query[i] = Space \/ Len(s.m) > MaxPairs) /\ ~ (i > 1) =>
                 AddPair(query, s, i) = PairState(s.m, Lower(query[i]))
BY Zenon DEF AddPair, PairState

\* A character stays a number.
LEMMA LowerType == ASSUME NEW r \in Nat PROVE Lower(r) \in Nat
<1>1. r + 32 \in Nat
  OBVIOUS
<1>2. QED
  BY <1>1, Zenon DEF Lower

\* Each turn gives such a state again.
LEMMA AddPairType ==
    ASSUME NEW query, NEW s \in PairStates, NEW i \in Nat, query[i] \in Nat
    PROVE  AddPair(query, s, i) \in PairStates
<1>1. s.m \in Seq(Pair) /\ s.last \in Nat /\ Lower(query[i]) \in Nat
  BY LowerType DEF PairStates
<1>2. <<s.last, Lower(query[i])>> \in Pair
  BY <1>1 DEF Pair
<1>3. PICK t \in Seq(Pair) : t = Append(s.m, <<s.last, Lower(query[i])>>)
  BY <1>1, <1>2, AppendProperties
<1>4. PICK q \in Nat : q = Lower(query[i])
  BY <1>1
<1>5. PairState(t, q) \in PairStates /\ PairState(s.m, q) \in PairStates
  BY <1>1 DEF PairState, PairStates
<1>6. QED
  BY <1>3, <1>4, <1>5, AddPairIs, Zenon

\* The turns of the loop
PairTurn(query) == [x \in PairStates \X Nat |-> AddPair(query, x[1], x[2])]

\* So Pairs is the value after the last character.
LEMMA PairTurns ==
    ASSUME NEW query \in Seq(Nat)
    PROVE  \E f : /\ Turns(f, PairTurn(query), PairStates, NoPairs, Len(query))
                  /\ Pairs(query) = f[Len(query)].m
<1> DEFINE n == Len(query)
           G == PairTurn(query)
           seq == [i \in DOMAIN query |-> i]
           P(it) == it = [s \in SUBSET (1..n) |->
                       IF s = {} THEN NoPairs
                       ELSE AddPair(query, it[s \ {Max(s)}], seq[Max(s)])]
<1>0. n \in Nat /\ DOMAIN query = 1..n /\ \A i \in 1..n : query[i] \in Nat
  OBVIOUS
<1>1. ASSUME NEW a \in PairStates, NEW i \in 1..n
      PROVE  /\ G[<<a, i>>] = AddPair(query, a, i)
             /\ G[<<a, i>>] \in PairStates
  <2>1. i \in Nat
    BY <1>0
  <2>2. AddPair(query, a, i) \in PairStates
    BY <1>0, <2>1, AddPairType
  <2>3. QED
    BY <2>1, <2>2 DEF PairTurn
<1>2. DOMAIN seq = 1..n /\ \A i \in 1..n : seq[i] = i
  BY <1>0
<1>3. Pairs(query) = (CHOOSE it : P(it))[1..n].m
  BY <1>2, Zenon DEF Pairs, FoldLeft, MapThenFoldSet, NoPairs, PairState
<1>4. Stays(G, PairStates, n)
  BY <1>1 DEF Stays
<1>5. \A s \in SUBSET (1..n) : s # {} => Max(s) \in 1..n
  BY <1>0, MaxOfPlaces
<1>6. PICK it \in [SUBSET (1..n) -> PairStates] : Iterates(it, G, NoPairs, n)
  <2> HIDE DEF G, n
  <2>1. Iterable(G, PairStates, NoPairs, n)
    BY <1>0, <1>4, NoPairsType, IteratesExist
  <2>2. QED
    BY <2>1, Zenon DEF Iterable
<1> HIDE DEF G, seq, n
<1>7. P(it)
  <2>1. ASSUME NEW s \in SUBSET (1..n), s # {}
        PROVE  G[<<it[s \ {Max(s)}], Max(s)>>] = AddPair(query, it[s \ {Max(s)}], seq[Max(s)])
    <3>1. it[s \ {Max(s)}] \in PairStates
      OBVIOUS
    <3>2. QED
      BY <1>1, <1>2, <1>5, <2>1, <3>1
  <2>2. QED
    BY <1>6, <2>1, Zenon DEF Iterates
<1>8. PICK c : P(c) /\ Pairs(query) = Whole(c, n).m
  BY <1>3, <1>7, Zenon DEF Whole
<1>9. Follows(c, G, PairStates, NoPairs, n)
  <2>1. c[{}] = NoPairs
    <3>1. {} \in SUBSET (1..n)
      OBVIOUS
    <3>2. QED
      BY <1>8, <3>1, Zenon
  <2>2. ASSUME NEW s \in SUBSET (1..n), s # {}, c[s \ {Max(s)}] \in PairStates
        PROVE  c[s] = G[<<c[s \ {Max(s)}], Max(s)>>]
    <3>1. c[s] = AddPair(query, c[s \ {Max(s)}], seq[Max(s)])
      BY <1>8, <2>2, Zenon
    <3>2. QED
      BY <1>1, <1>2, <1>5, <2>2, <3>1
  <2>3. QED
    BY <2>1, <2>2, Zenon DEF Follows
<1> HIDE DEF P
<1>10. PICK f : Turns(f, G, PairStates, NoPairs, n) /\ Whole(c, n) = f[n]
  BY <1>0, <1>4, <1>9, NoPairsType, FollowsTurns
<1>11. QED
  BY <1>8, <1>10, Zenon DEF G, n

\* The pairs after k characters: those of the characters so far, unless there
\* are enough of them.
PairsUpTo(s, query, k) ==
    /\ s.m \in Seq(Pair) /\ Len(s.m) < k
    /\ Len(s.m) <= MaxPairs => Len(s.m) = k - 1 /\ s.last = Lower(query[k])
    /\ \A j \in 1..Len(s.m) : s.m[j] = <<Lower(query[j]), Lower(query[j + 1])>>

\* The first character makes no pair.
LEMMA FirstPair ==
    ASSUME NEW query, query[1] # Space
    PROVE  PairsUpTo(AddPair(query, NoPairs, 1), query, 1)
<1>1. NoPairs.m = <<>> /\ <<>> \in Seq(Pair) /\ Len(<<>>) = 0
  BY EmptySeq, PairStateParts DEF NoPairs
<1>2. ~ (query[1] = Space \/ Len(NoPairs.m) > MaxPairs) /\ ~ (1 > 1)
  BY <1>1, SearchAssumption
<1>3. PICK m : m = NoPairs.m
  OBVIOUS
<1>4. AddPair(query, NoPairs, 1) = PairState(m, Lower(query[1]))
  BY <1>2, <1>3, AddPairIs, Zenon
<1>5. PICK s : s = AddPair(query, NoPairs, 1)
  OBVIOUS
<1>6. s.m = m /\ s.last = Lower(query[1])
  <2>1. s = PairState(m, Lower(query[1]))
    BY <1>4, <1>5, Zenon
  <2>2. QED
    BY <2>1, PairStateParts
<1>7. s.m \in Seq(Pair) /\ Len(s.m) = 0
  BY <1>1, <1>3, <1>6
<1>8. PairsUpTo(s, query, 1)
  BY <1>6, <1>7 DEF PairsUpTo
<1>9. QED
  BY <1>5, <1>8, Zenon

\* Every other one makes a pair with the one before it.
LEMMA NextPair ==
    ASSUME NEW query \in Seq(Nat), NEW k \in Nat \ {0}, k + 1 <= Len(query), query[k + 1] # Space,
           NEW s \in PairStates, PairsUpTo(s, query, k)
    PROVE  PairsUpTo(AddPair(query, s, k + 1), query, k + 1)
<1>1. s.m \in Seq(Pair) /\ Len(s.m) \in Nat /\ MaxPairs \in Nat
  BY SearchAssumption DEF PairsUpTo
<1>2. CASE Len(s.m) > MaxPairs
  <2>1. AddPair(query, s, k + 1) = s
    BY <1>2, AddPairIs, Zenon
  <2>2. PairsUpTo(s, query, k + 1)
    <3>1. Len(s.m) < k
      BY DEF PairsUpTo
    <3>2. Len(s.m) < k + 1 /\ ~ (Len(s.m) <= MaxPairs)
      BY ONLY <1>1, <1>2, <3>1, k \in Nat
    <3>3. QED
      BY <1>1, <3>2, Zenon DEF PairsUpTo
  <2>3. QED
    BY <2>1, <2>2, Zenon
<1>3. CASE ~ (Len(s.m) > MaxPairs)
  <2>1. Len(s.m) = k - 1 /\ s.last = Lower(query[k])
    BY <1>1, <1>3 DEF PairsUpTo
  <2>2. query[k] \in Nat /\ query[k + 1] \in Nat
    BY ElementOfSeq
  <2>3. PICK u \in Nat, v \in Nat : u = Lower(query[k]) /\ v = Lower(query[k + 1])
    BY <2>2, LowerType, Zenon
  <2>4. k + 1 > 1 /\ k + 1 \in Nat
    OBVIOUS
  <2>5. AddPair(query, s, k + 1) = PairState(Append(s.m, <<u, v>>), v)
    BY <1>3, <2>1, <2>3, <2>4, AddPairIs, Zenon
  <2>6. PICK p \in Pair : p = <<u, v>>
    BY DEF Pair
  <2>7. PICK m \in Seq(Pair) : m = s.m
    BY <1>1
  <2>8. PICK t \in Seq(Pair) : t = Append(m, p)
    BY AppendProperties
  <2>9. Len(t) = k /\ t[k] = p /\ \A j \in 1..(k - 1) : t[j] = m[j]
    BY <2>1, <2>7, <2>8, AppendProperties
  <2>10. PICK r : r = PairState(t, v)
    OBVIOUS
  <2>11. r.m = t /\ r.last = v
    BY <2>10, PairStateParts
  <2>12. ASSUME NEW j \in 1..k PROVE t[j] = <<Lower(query[j]), Lower(query[j + 1])>>
    <3>1. CASE j = k
      BY <2>3, <2>6, <2>9, <3>1, Zenon
    <3>2. CASE j # k
      <4>1. j \in 1..(k - 1) /\ j \in 1..Len(s.m)
        BY <2>1, <3>2
      <4>2. s.m[j] = <<Lower(query[j]), Lower(query[j + 1])>>
        BY <4>1, Zenon DEF PairsUpTo
      <4>3. QED
        BY <2>7, <2>9, <4>1, <4>2, Zenon
    <3>3. QED
      BY <3>1, <3>2
  <2>13. Len(r.m) = k /\ (k + 1) - 1 = k /\ k < k + 1
    BY <2>9, <2>11
  <2>14. PairsUpTo(r, query, k + 1)
    BY <2>3, <2>8, <2>11, <2>12, <2>13, Zenon DEF PairsUpTo
  <2>15. QED
    BY <2>5, <2>6, <2>7, <2>8, <2>10, <2>14, Zenon
<1>4. QED
  BY <1>2, <1>3

\* The pairs of a query of more than one character and without spaces
LEMMA PairsOfQuery ==
    ASSUME NEW query \in Seq(Nat), Searchable(query)
    PROVE  /\ Pairs(query) \in Seq(Pair)
           /\ Len(Pairs(query)) \in 1..(Len(query) - 1)
           /\ \A j \in 1..Len(Pairs(query)) : Pairs(query)[j] = <<Lower(query[j]), Lower(query[j + 1])>>
<1>1. /\ Len(query) \in Nat /\ Len(query) > 1
      /\ \A i \in 1..Len(query) : query[i] # Space
  BY DEF Searchable, Range
<1>2. PICK n \in Nat : n = Len(query)
  BY <1>1
<1>3. PICK f : Turns(f, PairTurn(query), PairStates, NoPairs, n) /\ Pairs(query) = f[n].m
  BY <1>2, PairTurns
<1>4. f[0] = NoPairs /\ \A k \in 0..n : f[k] \in PairStates
  BY <1>3 DEF Turns
<1>5. ASSUME NEW i \in 1..n PROVE f[i] = AddPair(query, f[i - 1], i)
  <2>1. f[i] = PairTurn(query)[<<f[i - 1], i>>]
    BY <1>3 DEF Turns
  <2>2. i - 1 \in 0..n /\ i \in Nat
    BY <1>2
  <2>3. f[i - 1] \in PairStates
    BY <1>4, <2>2
  <2>4. PICK a \in PairStates : a = f[i - 1]
    BY <2>3
  <2>5. PairTurn(query)[<<a, i>>] = AddPair(query, a, i)
    BY <2>2 DEF PairTurn
  <2>6. QED
    BY <2>1, <2>4, <2>5, Zenon
<1> DEFINE S == {k \in Nat : k + 1 <= n => PairsUpTo(f[k + 1], query, k + 1)}
<1>6. 0 \in S
  <2>1. 1 \in 1..n /\ 1 - 1 = 0 /\ 0 + 1 = 1
    BY <1>1, <1>2
  <2>2. f[1] = AddPair(query, NoPairs, 1)
    BY <1>4, <1>5, <2>1
  <2>3. PairsUpTo(f[1], query, 1)
    BY <1>1, <1>2, <2>1, <2>2, FirstPair
  <2>4. QED
    BY <2>1, <2>3
<1>7. ASSUME NEW k \in Nat, k \in S PROVE k + 1 \in S
  <2> SUFFICES ASSUME (k + 1) + 1 <= n PROVE PairsUpTo(f[(k + 1) + 1], query, (k + 1) + 1)
    OBVIOUS
  <2>1. PICK i \in Nat \ {0} : i = k + 1
    OBVIOUS
  <2>2. i \in 0..n /\ i + 1 \in 1..n /\ (i + 1) - 1 = i /\ k + 1 <= n
    BY <1>2, <2>1
  <2>3. PairsUpTo(f[i], query, i)
    BY <1>7, <2>1, <2>2
  <2>4. f[i + 1] = AddPair(query, f[i], i + 1)
    BY <1>5, <2>2
  <2>5. f[i] \in PairStates /\ query[i + 1] # Space /\ i + 1 <= Len(query)
    BY <1>1, <1>2, <1>4, <2>2
  <2>6. PairsUpTo(AddPair(query, f[i], i + 1), query, i + 1)
    BY <2>3, <2>5, NextPair
  <2>7. QED
    BY <2>1, <2>4, <2>6, Zenon
<1> HIDE DEF S
<1>8. Nat \subseteq S
  BY <1>6, <1>7, Induct
<1>9. n - 1 \in Nat /\ (n - 1) + 1 = n
  BY <1>1, <1>2
<1>10. PairsUpTo(f[n], query, n)
  <2>1. PICK k \in Nat : k + 1 = n
    BY <1>9
  <2>2. k \in S /\ k + 1 <= n
    BY <1>2, <1>8, <2>1
  <2>3. PairsUpTo(f[k + 1], query, k + 1)
    BY <2>2, Zenon DEF S
  <2>4. QED
    BY <2>1, <2>3, Zenon
<1>11. f[n].m \in Seq(Pair) /\ Len(f[n].m) \in 1..(n - 1)
  <2>1. f[n].m \in Seq(Pair) /\ Len(f[n].m) < n /\ (Len(f[n].m) <= MaxPairs => Len(f[n].m) = n - 1)
    BY <1>10, Zenon DEF PairsUpTo
  <2>2. Len(f[n].m) \in Nat /\ MaxPairs \in Nat
    BY <2>1, SearchAssumption
  <2>3. QED
    BY <1>1, <1>2, <2>1, <2>2
<1>12. QED
  BY <1>2, <1>3, <1>10, <1>11, Zenon DEF PairsUpTo

\* A text that contains the query matches: each pair of the query begins at a
\* place of its own.
LEMMA IncludedMatches ==
    ASSUME NEW query \in Seq(Nat), Searchable(query), NEW text, Len(text) \in Nat, Includes(text, query)
    PROVE  Pairs(query) # <<>> /\ stringCompare(text, Pairs(query))
<1>1. PICK m \in Seq(Pair) : m = Pairs(query)
  BY PairsOfQuery
<1>2. /\ Len(m) \in 1..(Len(query) - 1)
      /\ \A j \in 1..Len(m) : m[j] = <<Lower(query[j]), Lower(query[j + 1])>>
  BY <1>1, PairsOfQuery
<1>3. PICK i \in 0..(Len(text) - Len(query)) :
        \A k \in DOMAIN query : Lower(text[i + k]) = Lower(query[k])
  BY DEF Includes
<1>4. PICK n \in Nat, q \in Nat, l \in Nat :
        n = Len(m) /\ q = Len(query) /\ l = Len(text) /\ n > 0 /\ n < q /\ i \in Nat /\ i + q <= l
  BY <1>2, <1>3
<1>5. DOMAIN query = 1..q
  BY <1>4
<1> DEFINE I == {p \in 1..(Len(text) - 1) : <<Lower(text[p]), Lower(text[p + 1])>> \in Range(m)}
           J == (i + 1)..(i + n)
<1>6. J \subseteq I
  <2> SUFFICES ASSUME NEW p \in J PROVE p \in I
    OBVIOUS
  <2>1. PICK j \in 1..n : p = i + j /\ p + 1 = i + (j + 1) /\ j + 1 \in 1..q /\ j \in 1..q
    <3>1. p - i \in 1..n /\ p = i + (p - i) /\ p + 1 = i + ((p - i) + 1) /\ (p - i) + 1 \in 1..q /\ p - i \in 1..q
      BY <1>4
    <3>2. QED
      BY <3>1
  <2>2. Lower(text[p]) = Lower(query[j]) /\ Lower(text[p + 1]) = Lower(query[j + 1])
    BY <1>3, <1>5, <2>1
  <2>3. <<Lower(text[p]), Lower(text[p + 1])>> = m[j]
    BY <1>2, <1>4, <2>1, <2>2, Zenon
  <2>4. j \in DOMAIN m
    BY <1>4
  <2>5. m[j] \in Range(m)
    BY <2>4, Zenon DEF Range
  <2>6. p \in 1..(Len(text) - 1)
    BY <1>4, <2>1
  <2>7. QED
    BY <2>3, <2>5, <2>6, Zenon
<1>7. IsFiniteSet(I)
  <2>1. IsFiniteSet(1..(l - 1))
    BY <1>4, FS_Interval
  <2>2. I \subseteq 1..(l - 1)
    BY <1>4
  <2> HIDE DEF I
  <2>3. QED
    BY <2>1, <2>2, FS_Subset
<1>8. IsFiniteSet(J) /\ Cardinality(J) = n
  <2>1. PICK a \in Int, b \in Int : a = i + 1 /\ b = i + n /\ a <= b /\ b - a + 1 = n
    BY <1>4
  <2>2. IsFiniteSet(a..b) /\ Cardinality(a..b) = IF a > b THEN 0 ELSE b - a + 1
    BY FS_Interval
  <2>3. Cardinality(a..b) = n
    BY <2>1, <2>2
  <2>4. QED
    BY <2>1, <2>2, <2>3
<1> HIDE DEF I, J
<1>9. Cardinality(J) <= Cardinality(I) /\ Cardinality(I) \in Nat
  BY <1>6, <1>7, FS_Subset, FS_CardinalityType
<1>10. Score(text, m) = Cardinality(I)
  BY Zenon DEF Score, I
<1>11. Enough(Score(text, m), Len(m))
  <2>1. PICK c \in Nat : c = Score(text, m) /\ n <= c
    BY <1>8, <1>9, <1>10
  <2>2. c >= n \div 2 + 1
    BY <1>4, <2>1
  <2>3. QED
    BY <1>4, <2>1, <2>2, Zenon DEF Enough
<1>12. m # <<>>
  BY <1>4
<1>13. QED
  BY <1>1, <1>11, <1>12, Zenon DEF stringCompare

----------------------------------------------------------------------------
(***************************************************************************)
(* What has been found so far: the posts, by topic and place, in the order *)
(* in which they are searched.                                             *)
(***************************************************************************)
Place == Nat \X Nat

FoundState(list, total) == [res |-> list, total |-> total]
FoundStates == [res : Seq(Place), total : Nat]
NothingFound == FoundState(<<>>, 0)

Has(s, p) == \E a \in 1..Len(s.res) : s.res[a] = p

\* No post twice, no more than max of them, and none after post i of topic t
FoundOK(s, max, t, i) ==
    /\ s \in FoundStates
    /\ s.total <= max => Len(s.res) = s.total
    /\ s.total > max => Len(s.res) = max
    /\ \A a, b \in 1..Len(s.res) : s.res[a] = s.res[b] => a = b
    /\ \A a \in 1..Len(s.res) : (s.res[a][1] < t \/ (s.res[a][1] = t /\ s.res[a][2] <= i))

\* What is found stays found.
GoesOn(s, u) ==
    /\ s.total <= u.total
    /\ \A p \in Place : Has(s, p) => Has(u, p)

\* The fields of such a state
LEMMA FoundStateParts ==
    ASSUME NEW list, NEW total, NEW s, s = FoundState(list, total)
    PROVE  s.res = list /\ s.total = total
BY DEF FoundState

\* The types of its fields
LEMMA FoundStateType ==
    ASSUME NEW s \in FoundStates
    PROVE  s.res \in Seq(Place) /\ s.total \in Nat /\ Len(s.res) \in Nat
BY DEF FoundStates

\* The first one
LEMMA NothingFoundOK ==
    ASSUME NEW max \in Nat
    PROVE  NothingFound \in FoundStates /\ FoundOK(NothingFound, max, 1, 0)
<1>1. PICK e \in Seq(Place) : e = <<>> /\ Len(e) = 0
  BY EmptySeq
<1>2. PICK s : s = FoundState(e, 0)
  OBVIOUS
<1>3. s.res = e /\ s.total = 0
  BY <1>2, FoundStateParts
<1>4. s \in FoundStates
  BY <1>2 DEF FoundState, FoundStates
<1>5. FoundOK(s, max, 1, 0)
  BY <1>1, <1>3, <1>4 DEF FoundOK
<1>6. s = NothingFound
  BY <1>1, <1>2, Zenon DEF NothingFound
<1>7. QED
  BY <1>4, <1>5, <1>6, Zenon

\* A state goes on to itself, and on and on.
LEMMA GoesOnSame == ASSUME NEW s \in FoundStates PROVE GoesOn(s, s)
<1>1. s.total <= s.total
  BY FoundStateType
<1>2. QED
  BY <1>1, Zenon DEF GoesOn

\* And so does what it goes on to.
LEMMA GoesOnTwice ==
    ASSUME NEW s \in FoundStates, NEW u \in FoundStates, NEW v \in FoundStates, GoesOn(s, u), GoesOn(u, v)
    PROVE  GoesOn(s, v)
<1>1. s.total <= v.total
  <2>1. s.total <= u.total /\ u.total <= v.total
    BY Zenon DEF GoesOn
  <2>2. s.total \in Nat /\ u.total \in Nat /\ v.total \in Nat
    BY FoundStateType, Zenon
  <2>3. QED
    BY <2>1, <2>2
<1>2. QED
  BY <1>1, Zenon DEF GoesOn

\* What Find makes of a state
LEMMA FindIs ==
    ASSUME NEW s, NEW p, NEW max
    PROVE  /\ s.total + 1 <= max => Find(s, p, max) = FoundState(Append(s.res, p), s.total + 1)
           /\ ~ (s.total + 1 <= max) => Find(s, p, max) = FoundState(s.res, s.total + 1)
BY Zenon DEF Find, FoundState

\* Find gives such a state again.
LEMMA FindType ==
    ASSUME NEW s \in FoundStates, NEW p \in Place, NEW max
    PROVE  Find(s, p, max) \in FoundStates
<1>1. s.res \in Seq(Place) /\ s.total \in Nat
  BY FoundStateType
<1>2. PICK r \in Seq(Place) : r = Append(s.res, p)
  BY <1>1, AppendProperties
<1>3. PICK n \in Nat : n = s.total + 1
  BY <1>1
<1>4. FoundState(r, n) \in FoundStates /\ FoundState(s.res, n) \in FoundStates
  BY <1>1 DEF FoundState, FoundStates
<1>5. QED
  BY <1>2, <1>3, <1>4, FindIs, Zenon

\* A post that is found comes after those before it, and is there unless too
\* many have been found.
LEMMA FindKeeps ==
    ASSUME NEW s, NEW max \in Nat, NEW t \in Nat, NEW i \in Nat \ {0}, FoundOK(s, max, t, i - 1)
    PROVE  /\ FoundOK(Find(s, <<t, i>>, max), max, t, i)
           /\ GoesOn(s, Find(s, <<t, i>>, max))
           /\ Find(s, <<t, i>>, max).total <= max => Has(Find(s, <<t, i>>, max), <<t, i>>)
<1>1. s \in FoundStates /\ s.res \in Seq(Place) /\ s.total \in Nat /\ Len(s.res) \in Nat
  BY FoundStateType DEF FoundOK
<1>2. PICK p \in Place : p = <<t, i>> /\ p[1] = t /\ p[2] = i
  <2>1. <<t, i>> \in Nat \X Nat /\ <<t, i>>[1] = t /\ <<t, i>>[2] = i
    OBVIOUS
  <2>2. QED
    BY <2>1 DEF Place
<1>3. PICK u \in FoundStates : u = Find(s, p, max)
  BY <1>1, FindType
<1>4. PICK r \in Seq(Place), k \in Nat : r = s.res /\ k = Len(r)
  BY <1>1
<1>5. \A a \in 1..k : /\ r[a] \in Place /\ r[a][1] \in Nat /\ r[a][2] \in Nat
                      /\ (r[a][1] < t \/ (r[a][1] = t /\ r[a][2] <= i - 1))
  <2>1. \A a \in 1..k : r[a] \in Place
    BY <1>4, ElementOfSeq
  <2>2. \A a \in 1..k : (r[a][1] < t \/ (r[a][1] = t /\ r[a][2] <= i - 1))
    BY <1>4 DEF FoundOK
  <2>3. \A q \in Place : q[1] \in Nat /\ q[2] \in Nat
    BY DEF Place
  <2>4. QED
    BY <2>1, <2>2, <2>3
<1>6. \A a \in 1..k, b \in 1..k : r[a] = r[b] => a = b
  BY <1>4 DEF FoundOK
<1>7. \A a \in 1..k : r[a] # p
  BY <1>2, <1>5
<1>8. \A a \in 1..k : (r[a][1] < t \/ (r[a][1] = t /\ r[a][2] <= i))
  BY <1>5
<1>9. CASE s.total + 1 <= max
  <2>1. PICK v \in Seq(Place) : v = Append(r, p)
    BY AppendProperties
  <2>2. Len(v) = k + 1 /\ v[k + 1] = p /\ \A a \in 1..k : v[a] = r[a]
    BY <1>4, <2>1, AppendProperties
  <2>3. u = FoundState(v, s.total + 1)
    BY <1>3, <1>4, <1>9, <2>1, FindIs, Zenon
  <2>4. u.res = v /\ u.total = s.total + 1
    BY <2>3, FoundStateParts
  <2>5. k = s.total
    BY <1>1, <1>4, <1>9 DEF FoundOK
  <2>6. \A a \in 1..(k + 1) : a \in 1..k \/ a = k + 1
    BY <1>4
  <2>7. \A a, b \in 1..(k + 1) : v[a] = v[b] => a = b
    <3> SUFFICES ASSUME NEW a \in 1..(k + 1), NEW b \in 1..(k + 1), v[a] = v[b] PROVE a = b
      OBVIOUS
    <3>1. (a \in 1..k \/ a = k + 1) /\ (b \in 1..k \/ b = k + 1)
      BY <2>6, Zenon
    <3>2. QED
      BY <1>6, <1>7, <2>2, <3>1
  <2>8. \A a \in 1..(k + 1) : (v[a][1] < t \/ (v[a][1] = t /\ v[a][2] <= i))
    <3> SUFFICES ASSUME NEW a \in 1..(k + 1) PROVE (v[a][1] < t \/ (v[a][1] = t /\ v[a][2] <= i))
      OBVIOUS
    <3>1. CASE a \in 1..k
      BY <1>8, <2>2, <3>1
    <3>2. CASE a = k + 1
      BY <1>2, <2>2, <3>2
    <3>3. QED
      BY <2>6, <3>1, <3>2
  <2>9. FoundOK(u, max, t, i)
    <3>1. Len(u.res) = k + 1 /\ u.total = k + 1 /\ ~ (k + 1 > max)
      BY <1>1, <1>9, <2>2, <2>4, <2>5
    <3>2. QED
      BY <2>4, <2>7, <2>8, <3>1, Zenon DEF FoundOK
  <2>10. GoesOn(s, u)
    <3>1. ASSUME NEW q \in Place, Has(s, q) PROVE Has(u, q)
      <4>1. PICK a \in 1..k : r[a] = q
        BY <1>4, <3>1 DEF Has
      <4>2. v[a] = q /\ a \in 1..(k + 1)
        BY <2>2, <4>1
      <4>3. QED
        BY <2>2, <2>4, <4>2, Zenon DEF Has
    <3>2. s.total <= u.total
      BY <1>1, <2>4
    <3>3. QED
      BY <3>1, <3>2, Zenon DEF GoesOn
  <2>11. Has(u, p)
    <3>1. k + 1 \in 1..(k + 1)
      OBVIOUS
    <3>2. QED
      BY <2>2, <2>4, <3>1, Zenon DEF Has
  <2>12. QED
    BY <1>2, <1>3, <2>9, <2>10, <2>11, Zenon
<1>10. CASE ~ (s.total + 1 <= max)
  <2>1. u = FoundState(r, s.total + 1)
    BY <1>3, <1>4, <1>10, FindIs, Zenon
  <2>2. u.res = r /\ u.total = s.total + 1
    BY <2>1, FoundStateParts
  <2>3. k = max /\ ~ (u.total <= max) /\ s.total <= u.total
    <3>1. s.total = max \/ s.total > max
      BY <1>1, <1>10
    <3>2. s.total <= max => k = s.total
      BY <1>4 DEF FoundOK
    <3>3. s.total > max => k = max
      BY <1>4 DEF FoundOK
    <3>4. QED
      BY <1>1, <1>10, <2>2, <3>1, <3>2, <3>3
  <2>4. FoundOK(u, max, t, i)
    BY <1>4, <1>6, <1>8, <2>2, <2>3, Zenon DEF FoundOK
  <2>5. GoesOn(s, u)
    BY <1>4, <2>2, <2>3, Zenon DEF GoesOn, Has
  <2>6. QED
    BY <1>2, <1>3, <2>3, <2>4, <2>5, Zenon
<1>11. QED
  BY <1>9, <1>10

\* Later posts change nothing of what was said about the earlier ones.
LEMMA FoundLater ==
    ASSUME NEW s, NEW max \in Nat, NEW t \in Nat, NEW i \in Nat, FoundOK(s, max, t, i)
    PROVE  FoundOK(s, max, t, i + 1) /\ FoundOK(s, max, t + 1, 0)
<1>1. s \in FoundStates /\ s.res \in Seq(Place)
  BY FoundStateType DEF FoundOK
<1>2. \A a \in 1..Len(s.res) : s.res[a][1] \in Nat /\ s.res[a][2] \in Nat
  <2>1. \A a \in 1..Len(s.res) : s.res[a] \in Place
    BY <1>1, ElementOfSeq
  <2>2. \A q \in Place : q[1] \in Nat /\ q[2] \in Nat
    BY DEF Place
  <2>3. QED
    BY <2>1, <2>2
<1>3. \A a \in 1..Len(s.res) : (s.res[a][1] < t \/ (s.res[a][1] = t /\ s.res[a][2] <= i))
  BY Zenon DEF FoundOK
<1>4. /\ \A a \in 1..Len(s.res) : (s.res[a][1] < t \/ (s.res[a][1] = t /\ s.res[a][2] <= i + 1))
      /\ \A a \in 1..Len(s.res) : s.res[a][1] < t + 1
  <2>1. ASSUME NEW a \in 1..Len(s.res)
        PROVE  (s.res[a][1] < t \/ (s.res[a][1] = t /\ s.res[a][2] <= i + 1)) /\ s.res[a][1] < t + 1
    <3>1. PICK x, y : x = s.res[a][1] /\ y = s.res[a][2]
      OBVIOUS
    <3>2. x \in Nat /\ y \in Nat /\ (x < t \/ (x = t /\ y <= i))
      BY <1>2, <1>3, <3>1, Zenon
    <3>3. (x < t \/ (x = t /\ y <= i + 1)) /\ x < t + 1
      BY ONLY <3>2, t \in Nat, i \in Nat
    <3>4. QED
      BY <3>1, <3>3, Zenon
  <2>2. QED
    BY <2>1, Zenon
<1>5. FoundOK(s, max, t, i + 1)
  <2>1. \A a \in 1..Len(s.res) : (s.res[a][1] < t \/ (s.res[a][1] = t /\ s.res[a][2] <= i + 1))
    BY <1>4, Zenon
  <2>2. QED
    BY <2>1, Zenon DEF FoundOK
<1>6. FoundOK(s, max, t + 1, 0)
  <2>1. \A a \in 1..Len(s.res) : (s.res[a][1] < t + 1 \/ (s.res[a][1] = t + 1 /\ s.res[a][2] <= 0))
    BY <1>4, Zenon
  <2>2. QED
    BY <2>1, Zenon DEF FoundOK
<1>7. QED
  BY <1>5, <1>6

\* What the search of a post does
LEMMA SearchPostIs ==
    ASSUME NEW s, NEW t, NEW i, NEW topic, NEW m, NEW max
    PROVE  /\ \/ SearchPost(s, t, i, topic, m, max) = s
              \/ SearchPost(s, t, i, topic, m, max) = Find(s, <<t, i>>, max)
           /\ m # <<>> /\ stringCompare(topic.posts[i].message, m) /\ ~ (s.total > max) =>
                 SearchPost(s, t, i, topic, m, max) = Find(s, <<t, i>>, max)
BY Zenon DEF SearchPost

\* So does the search of a post.
LEMMA SearchPostType ==
    ASSUME NEW s \in FoundStates, NEW t \in Nat, NEW i \in Nat, NEW topic, NEW m, NEW max
    PROVE  SearchPost(s, t, i, topic, m, max) \in FoundStates
<1>1. <<t, i>> \in Place
  BY DEF Place
<1>2. Find(s, <<t, i>>, max) \in FoundStates
  BY <1>1, FindType
<1>3. QED
  BY <1>2, SearchPostIs, Zenon

\* A post that matches is there unless too many have been found.
LEMMA SearchPostKeeps ==
    ASSUME NEW s, NEW max \in Nat, NEW t \in Nat, NEW i \in Nat \ {0}, NEW topic, NEW m,
           FoundOK(s, max, t, i - 1), NEW u, u = SearchPost(s, t, i, topic, m, max)
    PROVE  /\ FoundOK(u, max, t, i) /\ GoesOn(s, u)
           /\ m # <<>> /\ stringCompare(topic.posts[i].message, m) /\ u.total <= max => Has(u, <<t, i>>)
<1>1. CASE u = Find(s, <<t, i>>, max)
  BY <1>1, FindKeeps, Zenon
<1>2. CASE u = s /\ u # Find(s, <<t, i>>, max)
  <2>1. s \in FoundStates /\ s.total \in Nat
    BY FoundStateType DEF FoundOK
  <2>2. PICK j \in Nat : j = i - 1 /\ i = j + 1
    OBVIOUS
  <2>3. FoundOK(s, max, t, j + 1)
    BY <2>2, FoundLater, Zenon
  <2>4. m # <<>> /\ stringCompare(topic.posts[i].message, m) => s.total > max
    <3> SUFFICES ASSUME m # <<>>, stringCompare(topic.posts[i].message, m), ~ (s.total > max) PROVE FALSE
      OBVIOUS
    <3>1. SearchPost(s, t, i, topic, m, max) = Find(s, <<t, i>>, max)
      BY SearchPostIs, Zenon
    <3>2. QED
      BY <1>2, <3>1, Zenon
  <2>5. s.total > max => ~ (s.total <= max)
    BY <2>1
  <2>6. QED
    BY <1>2, <2>1, <2>2, <2>3, <2>4, <2>5, GoesOnSame, Zenon
<1>3. QED
  BY <1>1, <1>2, SearchPostIs, Zenon

----------------------------------------------------------------------------
(* The loop over the posts of a topic.                                     *)

PostsSearched(s, t, topic, m, max) ==
    FoldLeft(LAMBDA acc, i : SearchPost(acc, t, i, topic, m, max), s, [i \in DOMAIN topic.posts |-> i])

PostTurn(t, topic, m, max) ==
    [x \in FoundStates \X Nat |-> SearchPost(x[1], t, x[2], topic, m, max)]

\* The search of the first posts of a topic is the value after the last one.
LEMMA PostTurns ==
    ASSUME NEW n \in Nat, NEW topic, DOMAIN topic.posts = 1..n,
           NEW t \in Nat, NEW m, NEW max, NEW first \in FoundStates
    PROVE  \E f : /\ Turns(f, PostTurn(t, topic, m, max), FoundStates, first, n)
                  /\ PostsSearched(first, t, topic, m, max) = f[n]
<1> DEFINE G == PostTurn(t, topic, m, max)
           seq == [i \in DOMAIN topic.posts |-> i]
           P(it) == it = [s \in SUBSET (1..n) |->
                       IF s = {} THEN first
                       ELSE SearchPost(it[s \ {Max(s)}], t, seq[Max(s)], topic, m, max)]
<1>1. ASSUME NEW a \in FoundStates, NEW i \in 1..n
      PROVE  /\ G[<<a, i>>] = SearchPost(a, t, i, topic, m, max)
             /\ G[<<a, i>>] \in FoundStates
  <2>1. i \in Nat
    OBVIOUS
  <2>2. SearchPost(a, t, i, topic, m, max) \in FoundStates
    BY <2>1, SearchPostType
  <2>3. QED
    BY <2>1, <2>2 DEF PostTurn
<1>2. DOMAIN seq = 1..n /\ \A i \in 1..n : seq[i] = i
  OBVIOUS
<1>3. PostsSearched(first, t, topic, m, max) = (CHOOSE it : P(it))[1..n]
  BY <1>2, Zenon DEF PostsSearched, FoldLeft, MapThenFoldSet
<1>4. Stays(G, FoundStates, n)
  BY <1>1 DEF Stays
<1>5. \A s \in SUBSET (1..n) : s # {} => Max(s) \in 1..n
  BY MaxOfPlaces
<1>6. PICK it \in [SUBSET (1..n) -> FoundStates] : Iterates(it, G, first, n)
  <2> HIDE DEF G
  <2>1. Iterable(G, FoundStates, first, n)
    BY <1>4, IteratesExist
  <2>2. QED
    BY <2>1, Zenon DEF Iterable
<1> HIDE DEF G, seq
<1>7. P(it)
  <2>1. ASSUME NEW s \in SUBSET (1..n), s # {}
        PROVE  G[<<it[s \ {Max(s)}], Max(s)>>]
               = SearchPost(it[s \ {Max(s)}], t, seq[Max(s)], topic, m, max)
    <3>1. it[s \ {Max(s)}] \in FoundStates
      OBVIOUS
    <3>2. QED
      BY <1>1, <1>2, <1>5, <2>1, <3>1
  <2>2. QED
    BY <1>6, <2>1, Zenon DEF Iterates
<1>8. PICK c : P(c) /\ PostsSearched(first, t, topic, m, max) = Whole(c, n)
  BY <1>3, <1>7, Zenon DEF Whole
<1>9. Follows(c, G, FoundStates, first, n)
  <2>1. c[{}] = first
    <3>1. {} \in SUBSET (1..n)
      OBVIOUS
    <3>2. QED
      BY <1>8, <3>1, Zenon
  <2>2. ASSUME NEW s \in SUBSET (1..n), s # {}, c[s \ {Max(s)}] \in FoundStates
        PROVE  c[s] = G[<<c[s \ {Max(s)}], Max(s)>>]
    <3>1. c[s] = SearchPost(c[s \ {Max(s)}], t, seq[Max(s)], topic, m, max)
      BY <1>8, <2>2, Zenon
    <3>2. QED
      BY <1>1, <1>2, <1>5, <2>2, <3>1
  <2>3. QED
    BY <2>1, <2>2, Zenon DEF Follows
<1> HIDE DEF P
<1>10. PICK f : Turns(f, G, FoundStates, first, n) /\ Whole(c, n) = f[n]
  BY <1>4, <1>9, FollowsTurns
<1>11. QED
  BY <1>8, <1>10, Zenon DEF G

\* What the search of the posts of a topic keeps, and what it finds
LEMMA PostsKeep ==
    ASSUME NEW n \in Nat, NEW topic, DOMAIN topic.posts = 1..n,
           NEW t \in Nat, NEW m, NEW max \in Nat, NEW s, FoundOK(s, max, t, 0),
           NEW u, u = PostsSearched(s, t, topic, m, max)
    PROVE  /\ FoundOK(u, max, t, n) /\ GoesOn(s, u)
           /\ m # <<>> /\ u.total <= max =>
                 \A i \in 1..n : stringCompare(topic.posts[i].message, m) => Has(u, <<t, i>>)
<1>1. s \in FoundStates
  BY DEF FoundOK
<1>2. PICK f : Turns(f, PostTurn(t, topic, m, max), FoundStates, s, n) /\ u = f[n]
  <2>1. PICK f : /\ Turns(f, PostTurn(t, topic, m, max), FoundStates, s, n)
                 /\ PostsSearched(s, t, topic, m, max) = f[n]
    BY <1>1, PostTurns
  <2>2. QED
    BY <2>1, Zenon
<1>3. f[0] = s /\ \A k \in 0..n : f[k] \in FoundStates
  BY <1>2 DEF Turns
<1>4. ASSUME NEW i \in 1..n PROVE f[i] = SearchPost(f[i - 1], t, i, topic, m, max)
  <2>1. f[i] = PostTurn(t, topic, m, max)[<<f[i - 1], i>>]
    BY <1>2 DEF Turns
  <2>2. i - 1 \in 0..n /\ i \in Nat
    OBVIOUS
  <2>3. PICK a \in FoundStates : a = f[i - 1]
    BY <1>3, <2>2
  <2>4. PostTurn(t, topic, m, max)[<<a, i>>] = SearchPost(a, t, i, topic, m, max)
    BY <2>2 DEF PostTurn
  <2>5. QED
    BY <2>1, <2>3, <2>4, Zenon
<1> DEFINE Q(k) == /\ FoundOK(f[k], max, t, k) /\ GoesOn(s, f[k])
                   /\ m # <<>> /\ f[k].total <= max =>
                         \A i \in 1..k : stringCompare(topic.posts[i].message, m) => Has(f[k], <<t, i>>)
           S == {k \in Nat : k <= n => Q(k)}
<1>5. 0 \in S
  <2>1. FoundOK(f[0], max, t, 0) /\ GoesOn(s, f[0])
    BY <1>1, <1>3, GoesOnSame
  <2>2. 1..0 = {}
    OBVIOUS
  <2>3. QED
    BY <2>1, <2>2
<1>6. ASSUME NEW k \in Nat, k \in S PROVE k + 1 \in S
  <2> SUFFICES ASSUME k + 1 <= n PROVE Q(k + 1)
    OBVIOUS
  <2>1. PICK i \in Nat \ {0} : i = k + 1
    OBVIOUS
  <2>2. k \in 0..n /\ i \in 0..n /\ i \in 1..n /\ i - 1 = k /\ k <= n
    BY <2>1
  <2>3. Q(k)
    BY <1>6, <2>2
  <2>4. f[k] \in FoundStates /\ f[i] \in FoundStates /\ f[i] = SearchPost(f[k], t, i, topic, m, max)
    BY <1>3, <1>4, <2>2
  <2>5. FoundOK(f[k], max, t, i - 1) /\ GoesOn(s, f[k])
    BY <2>2, <2>3
  <2> HIDE DEF Q
  <2>6. /\ FoundOK(f[i], max, t, i) /\ GoesOn(f[k], f[i])
        /\ m # <<>> /\ stringCompare(topic.posts[i].message, m) /\ f[i].total <= max => Has(f[i], <<t, i>>)
    BY <2>4, <2>5, SearchPostKeeps, Zenon
  <2>7. GoesOn(s, f[i])
    BY <1>1, <2>4, <2>5, <2>6, GoesOnTwice
  <2>8. ASSUME m # <<>>, f[i].total <= max, NEW j \in 1..i, stringCompare(topic.posts[j].message, m)
        PROVE  Has(f[i], <<t, j>>)
    <3>1. CASE j = i
      BY <2>6, <2>8, <3>1, Zenon
    <3>2. CASE j # i
      <4>1. j \in 1..k /\ <<t, j>> \in Place
        BY <2>1, <3>2 DEF Place
      <4>2. f[k].total <= max
        <5>1. f[k].total \in Nat /\ f[i].total \in Nat
          BY <2>4, FoundStateType, Zenon
        <5>2. f[k].total <= f[i].total
          BY <2>6, Zenon DEF GoesOn
        <5>3. QED
          BY <2>8, <5>1, <5>2
      <4>3. Has(f[k], <<t, j>>)
        BY <2>3, <2>8, <4>1, <4>2, Zenon DEF Q
      <4>4. QED
        BY <2>6, <4>1, <4>3, Zenon DEF GoesOn
    <3>3. QED
      BY <3>1, <3>2
  <2>9. QED
    BY <2>1, <2>6, <2>7, <2>8, Zenon DEF Q
<1> HIDE DEF S
<1>7. Nat \subseteq S
  BY <1>5, <1>6, Induct
<1>8. Q(n)
  BY <1>7 DEF S
<1>9. QED
  BY <1>2, <1>8, Zenon

----------------------------------------------------------------------------
(* The loop over the topics.                                               *)

\* What is found of a topic
Given(u, t, topic, m, max) ==
    m # <<>> /\ u.total <= max =>
        \A i \in DOMAIN topic.posts : stringCompare(topic.posts[i].message, m) =>
            Has(u, <<t, i>>) \/ (stringCompare(topic.subject, m) /\ Has(u, <<t, 1>>))

\* It stays given.
LEMMA StaysGiven ==
    ASSUME NEW s \in FoundStates, NEW u \in FoundStates, GoesOn(s, u), NEW max \in Nat,
           NEW n \in Nat, NEW topic, DOMAIN topic.posts = 1..n,
           NEW t \in Nat, NEW m, Given(s, t, topic, m, max)
    PROVE  Given(u, t, topic, m, max)
<1>1. u.total <= max => s.total <= max
  <2>1. s.total \in Nat /\ u.total \in Nat
    BY FoundStateType, Zenon
  <2>2. s.total <= u.total
    BY Zenon DEF GoesOn
  <2>3. QED
    BY <2>1, <2>2
<1>2. \A i \in DOMAIN topic.posts : Has(s, <<t, i>>) => Has(u, <<t, i>>)
  <2>1. \A i \in DOMAIN topic.posts : <<t, i>> \in Place
    BY DEF Place
  <2>2. QED
    BY <2>1, Zenon DEF GoesOn
<1>3. Has(s, <<t, 1>>) => Has(u, <<t, 1>>)
  <2>1. <<t, 1>> \in Place
    BY DEF Place
  <2>2. QED
    BY <2>1, Zenon DEF GoesOn
<1>4. QED
  BY <1>1, <1>2, <1>3, Zenon DEF Given

\* What the search of a topic does
LEMMA SearchTopicIs ==
    ASSUME NEW s, NEW t, NEW topic, NEW m, NEW max
    PROVE  /\ m # <<>> /\ stringCompare(topic.subject, m) =>
                 SearchTopic(s, t, topic, m, max) = Find(s, <<t, 1>>, max)
           /\ ~ (m # <<>> /\ stringCompare(topic.subject, m)) =>
                 SearchTopic(s, t, topic, m, max) = PostsSearched(s, t, topic, m, max)
BY Zenon DEF SearchTopic, PostsSearched

\* So does the search of a topic.
LEMMA SearchTopicType ==
    ASSUME NEW s \in FoundStates, NEW t \in Nat, NEW n \in Nat, NEW topic, DOMAIN topic.posts = 1..n,
           NEW m, NEW max
    PROVE  SearchTopic(s, t, topic, m, max) \in FoundStates
<1>1. <<t, 1>> \in Place
  BY DEF Place
<1>2. Find(s, <<t, 1>>, max) \in FoundStates
  BY <1>1, FindType
<1>3. PICK f : /\ Turns(f, PostTurn(t, topic, m, max), FoundStates, s, n)
               /\ PostsSearched(s, t, topic, m, max) = f[n]
  BY PostTurns
<1>4. f[n] \in FoundStates
  BY <1>3 DEF Turns
<1>5. QED
  BY <1>2, <1>3, <1>4, SearchTopicIs, Zenon

\* A topic more: what matches of it is found, and nothing found before is lost.
LEMMA TopicKeeps ==
    ASSUME NEW n \in Nat, NEW topic, DOMAIN topic.posts = 1..n,
           NEW t \in Nat, NEW m, NEW max \in Nat, NEW s, FoundOK(s, max, t, 0),
           NEW u, u = SearchTopic(s, t, topic, m, max)
    PROVE  FoundOK(u, max, t + 1, 0) /\ GoesOn(s, u) /\ Given(u, t, topic, m, max)
<1>1. CASE m # <<>> /\ stringCompare(topic.subject, m)
  <2>1. u = Find(s, <<t, 1>>, max)
    BY <1>1, SearchTopicIs, Zenon
  <2>2. PICK i \in Nat \ {0} : i = 1 /\ i - 1 = 0
    OBVIOUS
  <2>3. FoundOK(s, max, t, i - 1)
    BY <2>2
  <2>4. FoundOK(u, max, t, i) /\ GoesOn(s, u) /\ (u.total <= max => Has(u, <<t, i>>))
    BY <2>1, <2>2, <2>3, FindKeeps, Zenon
  <2>5. FoundOK(u, max, t + 1, 0)
    BY <2>4, FoundLater, Zenon
  <2>6. Given(u, t, topic, m, max)
    BY <1>1, <2>2, <2>4, Zenon DEF Given
  <2>7. QED
    BY <2>4, <2>5, <2>6
<1>2. CASE ~ (m # <<>> /\ stringCompare(topic.subject, m))
  <2>1. u = PostsSearched(s, t, topic, m, max)
    BY <1>2, SearchTopicIs, Zenon
  <2>2. /\ FoundOK(u, max, t, n) /\ GoesOn(s, u)
        /\ m # <<>> /\ u.total <= max =>
              \A i \in 1..n : stringCompare(topic.posts[i].message, m) => Has(u, <<t, i>>)
    BY <2>1, PostsKeep, Zenon
  <2>3. FoundOK(u, max, t + 1, 0)
    BY <2>2, FoundLater, Zenon
  <2>4. Given(u, t, topic, m, max)
    <3>1. m # <<>> /\ u.total <= max =>
              \A i \in DOMAIN topic.posts : stringCompare(topic.posts[i].message, m) => Has(u, <<t, i>>)
      BY <2>2
    <3>2. QED
      BY <3>1, Zenon DEF Given
  <2>5. QED
    BY <2>2, <2>3, <2>4
<1>3. QED
  BY <1>1, <1>2

\* The topics of a store, the posts of each in a sequence
IsForum(topics, n) == DOMAIN topics = 1..n /\ \A t \in 1..n : \E k \in Nat : DOMAIN topics[t].posts = 1..k

TopicsSearched(topics, m, max, n) ==
    FoldLeft(LAMBDA s, t : SearchTopic(s, t, topics[t], m, max), NothingFound, [t \in 1..n |-> t])

TopicTurn(topics, m, max) ==
    [x \in FoundStates \X Nat |-> SearchTopic(x[1], x[2], topics[x[2]], m, max)]

\* GetPostsBy searches the topics one after the other.
LEMMA GetPostsByIs ==
    ASSUME NEW topics, NEW query, NEW max, NEW n
    PROVE  GetPostsBy(topics, query, max, n) = TopicsSearched(topics, Pairs(query), max, n)
BY Zenon DEF GetPostsBy, TopicsSearched, NothingFound, FoundState

\* Its value is the one after the last topic.
LEMMA TopicTurns ==
    ASSUME NEW n \in Nat, NEW topics, IsForum(topics, n), NEW m, NEW max \in Nat
    PROVE  \E f : /\ Turns(f, TopicTurn(topics, m, max), FoundStates, NothingFound, n)
                  /\ TopicsSearched(topics, m, max, n) = f[n]
<1> DEFINE G == TopicTurn(topics, m, max)
           seq == [t \in 1..n |-> t]
           P(it) == it = [s \in SUBSET (1..n) |->
                       IF s = {} THEN NothingFound
                       ELSE SearchTopic(it[s \ {Max(s)}], seq[Max(s)], topics[seq[Max(s)]], m, max)]
<1>1. ASSUME NEW a \in FoundStates, NEW i \in 1..n
      PROVE  /\ G[<<a, i>>] = SearchTopic(a, i, topics[i], m, max)
             /\ G[<<a, i>>] \in FoundStates
  <2>1. i \in Nat
    OBVIOUS
  <2>2. PICK k \in Nat : DOMAIN topics[i].posts = 1..k
    BY DEF IsForum
  <2>3. SearchTopic(a, i, topics[i], m, max) \in FoundStates
    BY <2>1, <2>2, SearchTopicType
  <2>4. QED
    BY <2>1, <2>3 DEF TopicTurn
<1>2. DOMAIN seq = 1..n /\ \A i \in 1..n : seq[i] = i
  OBVIOUS
<1>3. TopicsSearched(topics, m, max, n) = (CHOOSE it : P(it))[1..n]
  BY <1>2, Zenon DEF TopicsSearched, FoldLeft, MapThenFoldSet
<1>4. Stays(G, FoundStates, n)
  BY <1>1 DEF Stays
<1>5. \A s \in SUBSET (1..n) : s # {} => Max(s) \in 1..n
  BY MaxOfPlaces
<1>6. NothingFound \in FoundStates
  BY NothingFoundOK
<1>7. PICK it \in [SUBSET (1..n) -> FoundStates] : Iterates(it, G, NothingFound, n)
  <2> HIDE DEF G
  <2>1. Iterable(G, FoundStates, NothingFound, n)
    BY <1>4, <1>6, IteratesExist
  <2>2. QED
    BY <2>1, Zenon DEF Iterable
<1> HIDE DEF G, seq
<1>8. P(it)
  <2>1. ASSUME NEW s \in SUBSET (1..n), s # {}
        PROVE  G[<<it[s \ {Max(s)}], Max(s)>>]
               = SearchTopic(it[s \ {Max(s)}], seq[Max(s)], topics[seq[Max(s)]], m, max)
    <3>1. it[s \ {Max(s)}] \in FoundStates
      OBVIOUS
    <3>2. QED
      BY <1>1, <1>2, <1>5, <2>1, <3>1
  <2>2. QED
    BY <1>7, <2>1, Zenon DEF Iterates
<1>9. PICK c : P(c) /\ TopicsSearched(topics, m, max, n) = Whole(c, n)
  BY <1>3, <1>8, Zenon DEF Whole
<1>10. Follows(c, G, FoundStates, NothingFound, n)
  <2>1. c[{}] = NothingFound
    <3>1. {} \in SUBSET (1..n)
      OBVIOUS
    <3>2. QED
      BY <1>9, <3>1, Zenon
  <2>2. ASSUME NEW s \in SUBSET (1..n), s # {}, c[s \ {Max(s)}] \in FoundStates
        PROVE  c[s] = G[<<c[s \ {Max(s)}], Max(s)>>]
    <3>1. c[s] = SearchTopic(c[s \ {Max(s)}], seq[Max(s)], topics[seq[Max(s)]], m, max)
      BY <1>9, <2>2, Zenon
    <3>2. Max(s) \in 1..n
      BY <1>5, <2>2, Zenon
    <3>3. seq[Max(s)] = Max(s)
      BY <1>2, <3>2, Zenon
    <3>4. G[<<c[s \ {Max(s)}], Max(s)>>] = SearchTopic(c[s \ {Max(s)}], Max(s), topics[Max(s)], m, max)
      BY <1>1, <2>2, <3>2, Zenon
    <3>5. QED
      BY <3>1, <3>3, <3>4, Zenon
  <2>3. QED
    BY <2>1, <2>2, Zenon DEF Follows
<1> HIDE DEF P
<1>11. PICK f : Turns(f, G, FoundStates, NothingFound, n) /\ Whole(c, n) = f[n]
  BY <1>4, <1>6, <1>10, FollowsTurns
<1>12. QED
  BY <1>9, <1>11, Zenon DEF G

\* What is found in the end: what matches of every topic
LEMMA TopicsKeep ==
    ASSUME NEW n \in Nat, NEW topics, IsForum(topics, n), NEW m, NEW max \in Nat,
           NEW u, u = TopicsSearched(topics, m, max, n)
    PROVE  FoundOK(u, max, n + 1, 0) /\ \A t \in 1..n : Given(u, t, topics[t], m, max)
<1>1. PICK f : Turns(f, TopicTurn(topics, m, max), FoundStates, NothingFound, n) /\ u = f[n]
  BY TopicTurns, Zenon
<1>2. f[0] = NothingFound /\ \A k \in 0..n : f[k] \in FoundStates
  BY <1>1 DEF Turns
<1>3. ASSUME NEW i \in 1..n PROVE f[i] = SearchTopic(f[i - 1], i, topics[i], m, max)
  <2>1. f[i] = TopicTurn(topics, m, max)[<<f[i - 1], i>>]
    BY <1>1 DEF Turns
  <2>2. i - 1 \in 0..n /\ i \in Nat
    OBVIOUS
  <2>3. PICK a \in FoundStates : a = f[i - 1]
    BY <1>2, <2>2
  <2>4. TopicTurn(topics, m, max)[<<a, i>>] = SearchTopic(a, i, topics[i], m, max)
    BY <2>2 DEF TopicTurn
  <2>5. QED
    BY <2>1, <2>3, <2>4, Zenon
<1> DEFINE Q(k) == FoundOK(f[k], max, k + 1, 0) /\ \A t \in 1..k : Given(f[k], t, topics[t], m, max)
           S == {k \in Nat : k <= n => Q(k)}
<1>4. 0 \in S
  <2>1. FoundOK(f[0], max, 0 + 1, 0)
    BY <1>2, NothingFoundOK
  <2>2. 1..0 = {}
    OBVIOUS
  <2>3. QED
    BY <2>1, <2>2
<1>5. ASSUME NEW k \in Nat, k \in S PROVE k + 1 \in S
  <2> SUFFICES ASSUME k + 1 <= n PROVE Q(k + 1)
    OBVIOUS
  <2>1. PICK i \in Nat : i = k + 1 /\ k \in 0..n /\ i \in 0..n /\ i \in 1..n /\ i - 1 = k /\ k <= n
    OBVIOUS
  <2>2. Q(k)
    BY <1>5, <2>1
  <2>3. f[k] \in FoundStates /\ f[i] \in FoundStates /\ f[i] = SearchTopic(f[k], i, topics[i], m, max)
    BY <1>2, <1>3, <2>1
  <2>4. PICK l \in Nat : DOMAIN topics[i].posts = 1..l
    BY <2>1 DEF IsForum
  <2>5. FoundOK(f[k], max, i, 0)
    BY <2>1, <2>2
  <2> HIDE DEF Q
  <2>6. FoundOK(f[i], max, i + 1, 0) /\ GoesOn(f[k], f[i]) /\ Given(f[i], i, topics[i], m, max)
    BY <2>3, <2>4, <2>5, TopicKeeps, Zenon
  <2>7. ASSUME NEW t \in 1..i PROVE Given(f[i], t, topics[t], m, max)
    <3>1. CASE t = i
      BY <2>6, <3>1, Zenon
    <3>2. CASE t # i
      <4>1. t \in 1..k /\ t \in Nat /\ t \in 1..n
        BY <2>1, <3>2
      <4>2. Given(f[k], t, topics[t], m, max)
        BY <2>2, <4>1, Zenon DEF Q
      <4>3. PICK j \in Nat : DOMAIN topics[t].posts = 1..j
        BY <4>1 DEF IsForum
      <4>4. QED
        BY <2>3, <2>6, <4>1, <4>2, <4>3, StaysGiven, Zenon
    <3>3. QED
      BY <3>1, <3>2
  <2>8. QED
    BY <2>1, <2>6, <2>7, Zenon DEF Q
<1> HIDE DEF S
<1>6. Nat \subseteq S
  BY <1>4, <1>5, Induct
<1>7. Q(n)
  BY <1>6 DEF S
<1>8. QED
  BY <1>1, <1>7, Zenon

\* Whatever the forum, the query and the bound: a search gives no post twice,
\* no more than were asked for, and all that contain the query.
LEMMA SearchIsComplete ==
    ASSUME NEW n \in Nat, NEW topics, IsForum(topics, n), Len(topics) = n,
           \A t \in 1..n : \A i \in DOMAIN topics[t].posts : Len(topics[t].posts[i].message) \in Nat,
           NEW query \in Seq(Nat), NEW max \in Nat
    PROVE  SearchFinds(topics, query, max)
<1>1. PICK u : u = GetPostsBy(topics, query, max, n)
  OBVIOUS
<1>2. FoundOK(u, max, n + 1, 0) /\ \A t \in 1..n : Given(u, t, topics[t], Pairs(query), max)
  BY <1>1, GetPostsByIs, TopicsKeep, Zenon
<1>3. u \in FoundStates /\ u.res \in Seq(Place) /\ u.total \in Nat /\ Len(u.res) \in Nat
  BY <1>2, FoundStateType DEF FoundOK
<1>4. DOMAIN u.res = 1..Len(u.res)
  BY <1>3
<1>5. Len(u.res) <= max /\ Len(u.res) <= u.total
  <2>1. (u.total <= max => Len(u.res) = u.total) /\ (u.total > max => Len(u.res) = max)
    BY <1>2, Zenon DEF FoundOK
  <2>2. QED
    BY <1>3, <2>1
<1>6. IsInjective(u.res)
  <2>1. \A a, b \in 1..Len(u.res) : u.res[a] = u.res[b] => a = b
    BY <1>2, Zenon DEF FoundOK
  <2>2. QED
    BY <1>4, <2>1, Zenon DEF IsInjective
<1>7. ASSUME Searchable(query), u.total <= max, NEW t \in DOMAIN topics, NEW i \in DOMAIN topics[t].posts,
             Includes(topics[t].posts[i].message, query)
      PROVE  \/ <<t, i>> \in Range(u.res)
             \/ stringCompare(topics[t].subject, Pairs(query)) /\ <<t, 1>> \in Range(u.res)
  <2>1. t \in 1..n
    BY DEF IsForum
  <2>2. Pairs(query) # <<>> /\ stringCompare(topics[t].posts[i].message, Pairs(query))
    BY <1>7, <2>1, IncludedMatches
  <2>3. Given(u, t, topics[t], Pairs(query), max)
    BY <1>2, <2>1
  <2>4. Has(u, <<t, i>>) \/ (stringCompare(topics[t].subject, Pairs(query)) /\ Has(u, <<t, 1>>))
    BY <1>7, <2>2, <2>3, Zenon DEF Given
  <2>5. \A p : Has(u, p) => p \in Range(u.res)
    BY <1>4, Zenon DEF Has, Range
  <2>6. QED
    BY <2>4, <2>5, Zenon
<1>8. QED
  BY <1>1, <1>5, <1>6, <1>7, Zenon DEF SearchFinds

\* The forum of the searches is one that SearchIsComplete speaks of.
LEMMA ForumIs ==
    ASSUME NEW query \in Seq(Nat)
    PROVE  /\ IsForum(Forum(query), 2) /\ Len(Forum(query)) = 2
           /\ \A t \in 1..2 : \A i \in DOMAIN Forum(query)[t].posts : Len(Forum(query)[t].posts[i].message) \in Nat
<1> DEFINE post(text) == [message |-> text, asked |-> Len(text) % 2 = 0]
<1>1. PICK a : a = post(<<66, 97>>)
  OBVIOUS
<1>2. PICK b : b = post(query)
  OBVIOUS
<1>3. PICK c : c = post(<<67>> \o query)
  OBVIOUS
<1>4. PICK d : d = post(<<97>>)
  OBVIOUS
<1>5. PICK e : e = post(query \o query)
  OBVIOUS
<1>6. \A text : post(text).message = text
  OBVIOUS
<1>7. /\ Len(a.message) \in Nat /\ Len(b.message) \in Nat /\ Len(c.message) \in Nat
      /\ Len(d.message) \in Nat /\ Len(e.message) \in Nat
  <2>1. /\ a.message = <<66, 97>> /\ b.message = query /\ c.message = <<67>> \o query
        /\ d.message = <<97>> /\ e.message = query \o query
    BY <1>1, <1>2, <1>3, <1>4, <1>5, <1>6
  <2>2. \A q \in Seq(Nat) : Len(q) \in Nat
    OBVIOUS
  <2>3. <<66, 97>> \in Seq(Nat) /\ <<67>> \o query \in Seq(Nat) /\ <<97>> \in Seq(Nat) /\ query \o query \in Seq(Nat)
    OBVIOUS
  <2>4. QED
    BY <2>1, <2>2, <2>3
<1>8. PICK p : p = <<a, b>>
  OBVIOUS
<1>9. PICK q : q = <<c, d, e>>
  OBVIOUS
<1>10. PICK x : x = [subject |-> query, posts |-> p]
  OBVIOUS
<1>11. PICK y : y = [subject |-> <<66>>, posts |-> q]
  OBVIOUS
<1>12. PICK f : f = Forum(query)
  OBVIOUS
<1>13. f = <<x, y>>
  BY <1>1, <1>2, <1>3, <1>4, <1>5, <1>8, <1>9, <1>10, <1>11, <1>12, Zenon DEF Forum
<1> HIDE DEF post
<1>14. f[1] = x /\ f[2] = y /\ Len(f) = 2 /\ DOMAIN f = 1..2
  BY <1>13
<1>15. x.posts = p /\ y.posts = q
  BY <1>10, <1>11
<1>16. DOMAIN p = 1..2 /\ DOMAIN q = 1..3
  BY <1>8, <1>9
<1>17. p[1] = a /\ p[2] = b /\ q[1] = c /\ q[2] = d /\ q[3] = e
  BY <1>8, <1>9
<1>18. \A i \in DOMAIN p : Len(p[i].message) \in Nat
  BY <1>7, <1>16, <1>17
<1>19. \A i \in DOMAIN q : Len(q[i].message) \in Nat
  BY <1>7, <1>16, <1>17
<1>20. \A t \in 1..2 : t = 1 \/ t = 2
  OBVIOUS
<1>21. \A t \in 1..2 : \A i \in DOMAIN f[t].posts : Len(f[t].posts[i].message) \in Nat
  BY <1>14, <1>15, <1>18, <1>19, <1>20, Zenon
<1>22. IsForum(f, 2)
  BY <1>14, <1>15, <1>16, <1>20 DEF IsForum
<1>23. QED
  BY <1>12, <1>14, <1>21, <1>22, Zenon

----------------------------------------------------------------------------
(***************************************************************************)
(* The parts together.  What a property needs of the run is only what the  *)
(* inputs of a part are: the steps of the others leave them alone.         *)
(***************************************************************************)

HelpersInv ==
    /\ part = "numbers" => \E t \in TopicID, id \in PostID : input = <<t, id>>
    /\ part = "topics" => \E n \in Nat \ {0} : input = <<n>>
    /\ part = "strings" => input \in Seq(Characters)
    /\ part = "lists" => input \in Seq(Kinds)
    /\ part = "queries" => input \in Seq(Words)

\* A list of inputs that Grow extends
LEMMA GrownInput ==
    ASSUME NEW name, NEW values, NEW max, Grow(name, values, max),
           part = name => input \in Seq(values)
    PROVE  part = name /\ part' = part /\ input' \in Seq(values)
<1>1. part = name /\ part' = part /\ input \in Seq(values)
  BY DEF Grow
<1>2. PICK v \in values : input' = Append(input, v)
  BY DEF Grow
<1>3. QED
  BY <1>1, <1>2

\* The inputs at the start
LEMMA HelpersInitInv == HelpersInit => HelpersInv
<1> SUFFICES ASSUME HelpersInit PROVE HelpersInv
  OBVIOUS
<1>1. CASE part = "numbers" /\ input \in {<<0, id>> : id \in PostIDs}
  <2>1. PICK id \in PostIDs : input = <<0, id>>
    BY <1>1
  <2>2. 0 \in TopicID /\ id \in PostID
    BY HelpersAssumption, TopicRangeAssumption DEF TopicID
  <2>3. QED
    BY <1>1, <2>1, <2>2 DEF HelpersInv
<1>2. CASE part \in {"strings", "lists", "queries", "texts"} /\ input = <<>>
  BY <1>2, EmptySeq DEF HelpersInv
<1>3. CASE part = "topics" /\ input = <<1>>
  <2>1. 1 \in Nat \ {0}
    OBVIOUS
  <2>2. QED
    BY <1>3, <2>1 DEF HelpersInv
<1>4. CASE part = "logger" /\ input = <<>>
  BY <1>4 DEF HelpersInv
<1>5. QED
  BY <1>1, <1>2, <1>3, <1>4, Zenon DEF HelpersInit

\* One topic more, or one post more: the inputs stay what they were.
LEMMA CountedInput ==
    ASSUME NEW name, NEW max, Count(name, max)
    PROVE  /\ part = name /\ part' = part /\ input[1] < max
           /\ \A n \in Nat : input = <<n>> => input' = <<n + 1>>
           /\ \A n \in Nat : \A id : input = <<n, id>> => input' = <<n + 1, id>>
<1>1. part = name /\ part' = part /\ input[1] < max /\ input' = [input EXCEPT ![1] = input[1] + 1]
  BY DEF Count
<1>2. ASSUME NEW n \in Nat, input = <<n>> PROVE input' = <<n + 1>>
  BY <1>1, <1>2
<1>3. ASSUME NEW n \in Nat, NEW id, input = <<n, id>> PROVE input' = <<n + 1, id>>
  BY <1>1, <1>3
<1>4. QED
  BY <1>1, <1>2, <1>3

\* Every step keeps the inputs of its part.
LEMMA HelpersNextInv == HelpersInv /\ [HelpersNext]_<<part, input, vars>> => HelpersInv'
<1> SUFFICES ASSUME HelpersInv, [HelpersNext]_<<part, input, vars>> PROVE HelpersInv'
  OBVIOUS
<1>1. CASE Count("numbers", TopicRange - 1)
  <2>1. PICK t \in TopicID, id \in PostID : input = <<t, id>>
    BY <1>1 DEF Count, HelpersInv
  <2>2. t \in Nat /\ TopicRange \in Nat /\ TopicID = 0..(TopicRange - 1)
    BY TopicRangeAssumption DEF TopicID
  <2>3. part = "numbers" /\ part' = part /\ t < TopicRange - 1 /\ input' = <<t + 1, id>>
    BY <1>1, <2>1, <2>2, CountedInput
  <2>4. t + 1 \in TopicID
    BY <2>2, <2>3, SMT
  <2>5. QED
    BY <2>3, <2>4 DEF HelpersInv
<1>2. CASE Count("topics", MaxTopicPosts)
  <2>1. PICK n \in Nat \ {0} : input = <<n>>
    BY <1>2 DEF Count, HelpersInv
  <2>2. part = "topics" /\ part' = part /\ input' = <<n + 1>>
    BY <1>2, <2>1, CountedInput
  <2>3. n + 1 \in Nat \ {0}
    OBVIOUS
  <2>4. QED
    BY <2>2, <2>3 DEF HelpersInv
<1>3. CASE Grow("strings", Characters, MaxText)
  <2>1. part = "strings" /\ part' = part /\ input' \in Seq(Characters)
    BY <1>3, GrownInput DEF HelpersInv
  <2>2. QED
    BY <2>1 DEF HelpersInv
<1>4. CASE Grow("lists", Kinds, MaxTopics)
  <2>1. part = "lists" /\ part' = part /\ input' \in Seq(Kinds)
    BY <1>4, GrownInput DEF HelpersInv
  <2>2. QED
    BY <2>1 DEF HelpersInv
<1>5. CASE Grow("queries", Words, MaxQuery)
  <2>1. part = "queries" /\ part' = part /\ input' \in Seq(Words)
    BY <1>5, GrownInput DEF HelpersInv
  <2>2. QED
    BY <2>1 DEF HelpersInv
<1>6. CASE Grow("texts", Pieces, MaxPieces)
  BY <1>6 DEF Grow, HelpersInv
<1>7. CASE part = "logger" /\ Next /\ UNCHANGED <<part, input>>
  BY <1>7 DEF HelpersInv
<1>8. CASE UNCHANGED <<part, input, vars>>
  BY <1>8 DEF HelpersInv
<1>9. QED
  BY <1>1, <1>2, <1>3, <1>4, <1>5, <1>6, <1>7, <1>8, Zenon DEF HelpersNext

\* The inputs in every state
LEMMA HelpersInputs == HelpersSpec => []HelpersInv
<1>1. HelpersInit => HelpersInv
  BY HelpersInitInv
<1>2. HelpersInv /\ [HelpersNext]_<<part, input, vars>> => HelpersInv'
  BY HelpersNextInv
<1>3. QED
  BY <1>1, <1>2, PTL DEF HelpersSpec

\* The number of every post of every topic leads back to it.
LEMMA NumbersLeadBack == HelpersInv => LongIDRoundTrip
<1> SUFFICES ASSUME HelpersInv, part = "numbers" PROVE RoundTrip(input[1], input[2])
  BY DEF LongIDRoundTrip
<1>1. PICK t \in TopicID, id \in PostID : input = <<t, id>>
  BY DEF HelpersInv
<1>2. input[1] = t /\ input[2] = id
  BY <1>1
<1>3. RoundTrip(t, id)
  BY SplitInvertsLongID
<1>4. QED
  BY <1>2, <1>3

\* Every post is on the page that its link leads to, and every topic on one
\* of the pages of a list of its kind.
LEMMA AllIsShown == HelpersInv => PagesShowAll
<1> SUFFICES ASSUME HelpersInv PROVE PagesShowAll
  OBVIOUS
<1>1. ASSUME part = "topics", NEW id \in 1..input[1] PROVE LinkShowsPost(input[1], id)
  <2>1. PICK n \in Nat \ {0} : input = <<n>>
    BY <1>1 DEF HelpersInv
  <2>2. input[1] = n /\ n \in Nat /\ n >= 1 /\ id \in 1..n
    BY <1>1, <2>1
  <2>3. LinkShowsPost(n, id)
    BY <2>2, LinkLeadsToPost
  <2>4. QED
    BY <2>2, <2>3
<1>2. ASSUME part = "lists", NEW kind \in Kinds PROVE TopicsListed(input, kind)
  <2>1. input \in Seq(Kinds)
    BY <1>2 DEF HelpersInv
  <2>2. Len(input) \in Nat /\ DOMAIN input = 1..Len(input)
    BY <2>1
  <2>3. QED
    BY <2>2, TopicsAreListed
<1>3. QED
  BY <1>1, <1>2 DEF PagesShowAll

\* A record with the string in it is read back.
LEMMA StringIsRecorded == ASSUME NEW text \in Seq(Character) PROVE Recorded(text)
<1>1. Reverse(text) \in Seq(Character)
  <2>1. Len(text) \in Nat /\ \A i \in 1..Len(text) : text[(Len(text) - i) + 1] \in Character
    OBVIOUS
  <2>2. QED
    BY <2>1 DEF Reverse
<1>2. PICK n \in Nat : n = 65536 + Len(text)
  BY SMT
<1>3. PICK m \in Nat : m = 255
  BY SMT
<1>4. m \div 256 < 256
  BY <1>3, SMT
<1>5. FieldsReadBack(n, text, Reverse(text), m)
  BY <1>1, <1>4, RecordReadsBack
<1>6. QED
  BY ONLY <1>2, <1>3, <1>5, SMT DEF Recorded

\* A damaged string is refused.
LEMMA StringIsChecked == ASSUME NEW text \in Seq(Ascii) PROVE Checked(text)
<1>1. DOMAIN text = 1..Len(text) /\ Len(text) \in Nat
  OBVIOUS
<1>2. ASSUME NEW i \in DOMAIN text, NEW c \in {1, 64, 127}
      PROVE  DamageIsCaught(text, [text EXCEPT ![i] = c])
  <2>1. c \in Ascii
    BY <1>2 DEF Ascii
  <2>2. i \in 1..Len(text)
    BY <1>1
  <2>3. QED
    BY <2>1, <2>2, ChangeIsCaught
<1>3. ASSUME NEW i \in DOMAIN text, i > 1
      PROVE  DamageIsCaught(text, [text EXCEPT ![i] = text[i - 1], ![i - 1] = text[i]])
  <2>1. i \in 2..Len(text)
    BY <1>1, <1>3
  <2>2. QED
    BY <2>1, SwapIsCaught
<1>4. ASSUME NEW i \in DOMAIN text
      PROVE  /\ \A c \in {1, 64, 127} : DamageIsCaught(text, [text EXCEPT ![i] = c])
             /\ i > 1 => DamageIsCaught(text, [text EXCEPT ![i] = text[i - 1], ![i - 1] = text[i]])
  <2>1. \A c \in {1, 64, 127} : DamageIsCaught(text, [text EXCEPT ![i] = c])
    BY <1>2, Zenon
  <2>2. i > 1 => DamageIsCaught(text, [text EXCEPT ![i] = text[i - 1], ![i - 1] = text[i]])
    BY <1>3, Zenon
  <2>3. QED
    BY <2>1, <2>2
<1>5. QED
  BY ONLY <1>4, Zenon DEF Checked

\* So a string is read back, and refused when it is damaged.
LEMMA StringsAreReadBack == HelpersInv => StringsReadBack
<1> SUFFICES ASSUME HelpersInv, part = "strings"
             PROVE  Recorded(input) /\ (Range(input) \subseteq Ascii => Checked(input))
  BY DEF StringsReadBack
<1>1. input \in Seq(Characters) /\ Characters \subseteq Character
  BY HelpersAssumption DEF HelpersInv
<1>2. input \in Seq(Character)
  BY <1>1
<1>3. ASSUME Range(input) \subseteq Ascii PROVE input \in Seq(Ascii)
  <2>1. DOMAIN input = 1..Len(input) /\ Len(input) \in Nat
    BY <1>2
  <2>2. \A j \in 1..Len(input) : input[j] \in Ascii
    BY <1>3, <2>1 DEF Range
  <2>3. QED
    BY <1>2, <2>1, <2>2
<1>4. QED
  BY <1>2, <1>3, StringIsRecorded, StringIsChecked

\* What the inputs of the searches are is all that the property needs.
LEMMA SearchesAreAnswered == HelpersInv => SearchGivesMatches
<1> SUFFICES ASSUME HelpersInv, part = "queries", NEW max \in 0..3 PROVE SearchFinds(Forum(input), input, max)
  BY DEF SearchGivesMatches
<1>1. input \in Seq(Nat)
  <2>1. input \in Seq(Words) /\ Words \subseteq Nat
    BY HelpersAssumption DEF HelpersInv
  <2>2. \A w : w \in Seq(Words) => w \in Seq(Nat)
    <3>1. ASSUME NEW w \in Seq(Words) PROVE w \in Seq(Nat)
      <4>1. w \in [1..Len(w) -> Words] /\ Len(w) \in Nat
        OBVIOUS
      <4>2. w \in [1..Len(w) -> Nat]
        BY <2>1, <4>1
      <4>3. QED
        BY ONLY <4>1, <4>2
    <3>2. QED
      BY <3>1
  <2>3. QED
    BY <2>1, <2>2, Zenon
<1>2. PICK f : f = Forum(input)
  OBVIOUS
<1>3. /\ IsForum(f, 2) /\ Len(f) = 2
      /\ \A t \in 1..2 : \A i \in DOMAIN f[t].posts : Len(f[t].posts[i].message) \in Nat
  BY <1>1, <1>2, ForumIs, Zenon
<1>4. 2 \in Nat /\ max \in Nat
  OBVIOUS
<1>5. SearchFinds(f, input, max)
  BY <1>1, <1>3, <1>4, SearchIsComplete
<1>6. QED
  BY <1>2, <1>5, Zenon

\* The number of a post leads back to that post, for every post of every
\* topic that a number can be made for (struct.go:107-141).
THEOREM NumbersLeadToPosts == HelpersSpec => []LongIDRoundTrip
<1>1. HelpersInv => LongIDRoundTrip
  BY NumbersLeadBack
<1>2. QED
  BY <1>1, HelpersInputs, PTL

\* However many posts a topic has, the link of each leads to a page that
\* shows it, and however many topics there are, each is on some page of the
\* lists that include its kind (handle_topic.go:51-72, 94-157).
THEOREM PagesShowEverything == HelpersSpec => []PagesShowAll
<1>1. HelpersInv => PagesShowAll
  BY AllIsShown
<1>2. QED
  BY <1>1, HelpersInputs, PTL

\* Whatever its length and its characters, a string that is stored is read
\* back from between the other fields of a record; and when one byte of an
\* ASCII string was changed, or two neighbours were swapped, its checksum
\* makes the reader refuse it (buffer.go:131-212).
THEOREM StringsAreKept == HelpersSpec => []StringsReadBack
<1>1. HelpersInv => StringsReadBack
  BY StringsAreReadBack
<1>2. QED
  BY <1>1, HelpersInputs, PTL

\* At any point: for every query and every bound of the run, a search gives no
\* post twice, no more than the bound, and each post whose text contains the
\* query, unless there were more than it was asked for
\* (store.go:488-566, util.go:205-256).
THEOREM SearchesFindMatches == HelpersSpec => []SearchGivesMatches
<1>1. HelpersInv => SearchGivesMatches
  BY SearchesAreAnswered
<1>2. QED
  BY <1>1, HelpersInputs, PTL

=============================================================================
