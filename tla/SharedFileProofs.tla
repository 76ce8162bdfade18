-------------------------- MODULE SharedFileProofs --------------------------
(***************************************************************************)
(* Proofs about SharedFile: the appends and copies that exclude each other *)
(* lose nothing, and their bytes are what DataFile says of records.        *)
(*                                                                         *)
(* All of them use one file offset, so the hypothesis is Exclusive: what   *)
(* store.Lock gives to the operations that take it, and what configLock    *)
(* does not.  Then the offset is where append or Dup has just put it, and  *)
(* the invariant follows append through the bytes of the header.           *)
(***************************************************************************)
EXTENDS SharedFile, SequenceTheorems, TLAPS

\* One append at a time, and none beside a copy
Exclusive ==
    /\ \A p, q \in Callers : pc[p] # "idle" /\ pc[q] # "idle" => p = q
    /\ dup # "idle" => \A p \in Callers : pc[p] = "idle"

Byte == 0..255

\* Record i of file f
RecordAt(f, i) == SubSeq(f, HeaderSize + 2 * i - 1, HeaderSize + 2 * i)

\* A file that loads, with n records
Shaped(f) ==
    /\ f \in Seq(Byte) /\ Len(f) >= HeaderSize
    /\ f[1] = 122 /\ f[2] = 122 /\ f[3] = 122 /\ f[4] \in {0, 1}

Whole(f, n) ==
    /\ Shaped(f)
    /\ SizeOf(f) = HeaderSize + 2 * n
    /\ HeaderSize + 2 * n <= Len(f)
    /\ \A i \in 1..n : RecordAt(f, i) \in Records

\* The slot that is not in use
Spare(f) == IF f[4] = 0 THEN Slot1 ELSE Slot0

Before == {"idle", "seek data", "write data"}
Behind == {"seek header", "read header", "seek slot", "write slot", "seek flag", "write flag"}

TypeInv ==
    /\ pc \in [Callers -> Before \cup Behind \cup {"tell", "return"}]
    /\ rec \in [Callers -> Records \cup {NoRecord}]
    /\ newptr \in [Callers -> Nat] /\ seen \in [Callers -> Nat]
    /\ acked \in Seq(Records) /\ Len(acked) <= MaxAppends
    /\ dup \in {"idle", "seek", "copy"}

\* The file holds what was acknowledged, and at most one record more.
FileInv ==
    /\ ptr = HeaderSize + 2 * Len(acked)
    /\ \A i \in 1..Len(acked) : RecordAt(file, i) = acked[i]
    /\ (\A p \in Callers : pc[p] # "return") => Whole(file, Len(acked))
    /\ (\A p \in Callers : pc[p] \in Before) => Len(file) = ptr

\* What append knows at each of its steps
CallerInv(p) ==
    /\ pc[p] = "idle" <=> rec[p] = NoRecord
    /\ pc[p] # "idle" => Len(acked) < MaxAppends
    /\ pc[p] = "write data" => off = ptr
    /\ pc[p] = "tell" => off = ptr + 2
    /\ pc[p] \notin Before => Len(file) = ptr + 2 /\ RecordAt(file, Len(acked) + 1) = rec[p]
    /\ pc[p] \in Behind \cup {"return"} => newptr[p] = ptr + 2
    /\ pc[p] = "read header" => off = 0
    /\ pc[p] \in {"seek slot", "write slot", "seek flag", "write flag"} => seen[p] = file[4]
    /\ pc[p] = "write slot" => off = Spare(file)
    /\ pc[p] \in {"seek flag", "write flag"} => SlotOf(file, Spare(file)) = newptr[p]
    /\ pc[p] = "write flag" => off = 3
    /\ pc[p] = "return" => Whole(file, Len(acked) + 1) /\ seen[p] = 1 - file[4]

\* What Dup has copied, and what it has left
DupInv ==
    /\ dup = "seek" => copy = <<>>
    /\ dup = "copy" => /\ copy \in Seq(Byte) /\ Len(copy) = off /\ off <= Len(file)
                       /\ \A k \in 1..off : copy[k] = file[k]
    /\ dup = "idle" /\ copy # <<>> =>
          \E n \in 0..Len(acked) : Whole(copy, n) /\ \A i \in 1..n : RecordAt(copy, i) = acked[i]

IInv == TypeInv /\ FileInv /\ (\A p \in Callers : CallerInv(p)) /\ DupInv
----------------------------------------------------------------------------
(* Bytes.                                                                  *)

LEMMA MaxTwo ==
    ASSUME NEW a \in Int, NEW b \in Int
    PROVE  Max({a, b}) = IF a >= b THEN a ELSE b
<1> DEFINE m == IF a >= b THEN a ELSE b
<1>1. m \in {a, b} /\ (\A y \in {a, b} : m >= y)
  OBVIOUS
<1>2. \A x \in {a, b} : (\A y \in {a, b} : x >= y) => x = m
  OBVIOUS
<1> HIDE DEF m
<1>3. (CHOOSE x \in {a, b} : \A y \in {a, b} : x >= y) = m
  BY <1>1, <1>2
<1>4. QED
  BY <1>3 DEF m, Max

LEMMA MinTwo ==
    ASSUME NEW a \in Int, NEW b \in Int
    PROVE  Min({a, b}) = IF a <= b THEN a ELSE b
<1> DEFINE m == IF a <= b THEN a ELSE b
<1>1. m \in {a, b} /\ (\A y \in {a, b} : m <= y)
  OBVIOUS
<1>2. \A x \in {a, b} : (\A y \in {a, b} : x <= y) => x = m
  OBVIOUS
<1> HIDE DEF m
<1>3. (CHOOSE x \in {a, b} : \A y \in {a, b} : x <= y) = m
  BY <1>1, <1>2
<1>4. QED
  BY <1>3 DEF m, Min

\* A write of b at offset o that makes g of f
Wrote(f, g, o, b) ==
    /\ g \in Seq(Byte)
    /\ Len(g) = IF Len(f) >= o + Len(b) THEN Len(f) ELSE o + Len(b)
    /\ \A k \in 1..Len(f) : k <= o \/ k > o + Len(b) => g[k] = f[k]
    /\ \A j \in 1..Len(b) : g[o + j] = b[j]

LEMMA WriteFacts ==
    ASSUME file \in Seq(Byte), NEW o \in Nat, o <= Len(file), NEW b \in Seq(Byte)
    PROVE  Wrote(file, WriteAt(o, b), o, b)
<1> DEFINE n == IF Len(file) >= o + Len(b) THEN Len(file) ELSE o + Len(b)
           e(k) == IF k \in (o + 1)..(o + Len(b)) THEN b[k - o] ELSE file[k]
<1>1. Len(file) \in Nat /\ Len(b) \in Nat /\ n \in Nat
  OBVIOUS
<1>2. WriteAt(o, b) = [k \in 1..n |-> e(k)]
  BY <1>1, MaxTwo DEF WriteAt
<1>3. \A k \in 1..n : e(k) \in Byte
  <2>1. ASSUME NEW k \in 1..n PROVE e(k) \in Byte
    <3>1. CASE k \in (o + 1)..(o + Len(b))
      <4>1. k - o \in 1..Len(b)
        BY <1>1, <3>1
      <4>2. QED
        BY <3>1, <4>1, ElementOfSeq
    <3>2. CASE k \notin (o + 1)..(o + Len(b))
      <4>1. k \in 1..Len(file)
        BY <1>1, <3>2
      <4>2. QED
        BY <3>2, <4>1, ElementOfSeq
    <3>3. QED
      BY <3>1, <3>2
  <2>2. QED
    BY <2>1
<1>4. /\ \A k \in 1..Len(file) : k \in 1..n /\ (k <= o \/ k > o + Len(b) => e(k) = file[k])
      /\ \A j \in 1..Len(b) : o + j \in 1..n
  BY <1>1
<1>5. ASSUME NEW j \in 1..Len(b) PROVE e(o + j) = b[j]
  <2>1. o + j \in (o + 1)..(o + Len(b)) /\ (o + j) - o = j
    BY <1>1
  <2>2. QED
    BY <2>1
<1> HIDE DEF e, n
<1>6. [k \in 1..n |-> e(k)] \in Seq(Byte) /\ Len([k \in 1..n |-> e(k)]) = n
  BY <1>1, <1>3
<1>7. \A k \in 1..n : WriteAt(o, b)[k] = e(k)
  BY <1>2
<1>8. Len(WriteAt(o, b)) = n /\ WriteAt(o, b) \in Seq(Byte)
  BY <1>2, <1>6
<1>9. /\ \A k \in 1..Len(file) : k <= o \/ k > o + Len(b) => WriteAt(o, b)[k] = file[k]
      /\ \A j \in 1..Len(b) : WriteAt(o, b)[o + j] = b[j]
  BY <1>4, <1>5, <1>7
<1>10. QED
  BY <1>8, <1>9 DEF n, Wrote

LEMMA TwoBytes ==
    ASSUME NEW f \in Seq(Byte), NEW i \in Nat \ {0}, HeaderSize + 2 * i <= Len(f)
    PROVE  RecordAt(f, i) = <<f[15 + 2 * i], f[16 + 2 * i]>>
<1> DEFINE m == 15 + 2 * i
<1>1. m \in Int /\ m + 1 \in Int /\ \A k \in m..(m + 1) : f[k] \in Byte
  BY ElementOfSeq DEF HeaderSize
<1>2. RecordAt(f, i) = SubSeq(f, m, m + 1)
  BY DEF RecordAt, HeaderSize
<1>3. m <= m + 1 /\ (m + 1) - m + 1 = 2
  BY <1>1
<1> HIDE DEF m
<1>4. /\ SubSeq(f, m, m + 1) \in Seq(Byte) /\ Len(SubSeq(f, m, m + 1)) = 2
      /\ \A j \in 1..2 : SubSeq(f, m, m + 1)[j] = f[m + j - 1]
  BY <1>1, <1>3, SubSeqProperties
<1>5. SubSeq(f, m, m + 1) = <<f[m], f[m + 1]>>
  <2>1. f[m] \in Byte /\ f[m + 1] \in Byte /\ m + 1 - 1 = m /\ m + 2 - 1 = m + 1
    BY <1>1
  <2>2. <<f[m], f[m + 1]>> \in Seq(Byte) /\ Len(<<f[m], f[m + 1]>>) = 2
    BY <2>1
  <2>3. \A j \in 1..2 : <<f[m], f[m + 1]>>[j] = SubSeq(f, m, m + 1)[j]
    <3>1. SubSeq(f, m, m + 1)[1] = f[m + 1 - 1] /\ SubSeq(f, m, m + 1)[2] = f[m + 2 - 1]
      BY <1>4
    <3>2. SubSeq(f, m, m + 1)[1] = f[m] /\ SubSeq(f, m, m + 1)[2] = f[m + 1]
      BY <2>1, <3>1
    <3>3. <<f[m], f[m + 1]>>[1] = f[m] /\ <<f[m], f[m + 1]>>[2] = f[m + 1]
      OBVIOUS
    <3>4. \A j \in 1..2 : j = 1 \/ j = 2
      OBVIOUS
    <3>5. QED
      BY <3>2, <3>3, <3>4, Zenon
  <2>4. QED
    BY <1>4, <2>2, <2>3, SeqEqual
<1>6. QED
  BY <1>2, <1>5 DEF m

\* A record is the same where its bytes are.
LEMMA SameRecords ==
    ASSUME NEW f \in Seq(Byte), NEW g \in Seq(Byte), Len(f) <= Len(g),
           \A k \in 17..Len(f) : g[k] = f[k],
           NEW i \in Nat \ {0}, HeaderSize + 2 * i <= Len(f)
    PROVE  RecordAt(g, i) = RecordAt(f, i)
<1>1. 15 + 2 * i \in 17..Len(f) /\ 16 + 2 * i \in 17..Len(f) /\ HeaderSize + 2 * i <= Len(g)
  BY DEF HeaderSize
<1>2. QED
  BY <1>1, TwoBytes

\* A file that is whole is read by loadDB.
LEMMA WholeLoads ==
    ASSUME NEW f, NEW n \in Nat, Whole(f, n)
    PROVE  Loads(f) /\ Loaded(f) = [i \in 1..n |-> RecordAt(f, i)]
<1>1. /\ f \in Seq(Byte) /\ Len(f) \in Nat /\ SizeOf(f) = 16 + 2 * n /\ 16 + 2 * n <= Len(f)
  BY DEF Whole, Shaped, HeaderSize
<1>2. Min({SizeOf(f), Len(f)}) = 16 + 2 * n
  BY <1>1, MinTwo
<1>3. ((16 + 2 * n) - HeaderSize) \div RecordSize = n /\ ((16 + 2 * n) - HeaderSize) % RecordSize = 0
  BY DEF HeaderSize, RecordSize
<1>4. Loads(f)
  <2>1. \A i \in 1..n : RecordAt(f, i) \in Records
    BY DEF Whole
  <2>2. Len(f) >= HeaderSize /\ SizeOf(f) >= HeaderSize /\ f[4] \in {0, 1}
    BY <1>1 DEF Whole, Shaped, HeaderSize
  <2>3. \A k \in 1..3 : f[k] = 122
    <3>1. \A k \in 1..3 : k = 1 \/ k = 2 \/ k = 3
      OBVIOUS
    <3>2. QED
      BY <3>1 DEF Whole, Shaped
  <2>4. QED
    BY <1>2, <1>3, <2>1, <2>2, <2>3, Zenon DEF Loads, RecordAt
<1>5. Loaded(f) = [i \in 1..n |-> RecordAt(f, i)]
  BY <1>2, <1>3 DEF Loaded, RecordsUpTo, RecordAt
<1>6. QED
  BY <1>4, <1>5

LEMMA PrefixFacts ==
    ASSUME NEW s \in Seq(Records), NEW t \in Seq(Records), Len(s) <= Len(t),
           \A i \in 1..Len(s) : s[i] = t[i]
    PROVE  IsPrefix(s, t)
<1>1. Len(s) \in Nat /\ Len(t) \in Nat
  OBVIOUS
<1> DEFINE n == Len(s)
<1>2. \A i \in 1..n : s[i] \in Records /\ t[i] \in Records
  BY <1>1, ElementOfSeq
<1>3. /\ SubSeq(s, 1, n) \in Seq(Records) /\ SubSeq(t, 1, n) \in Seq(Records)
      /\ Len(SubSeq(s, 1, n)) = n /\ Len(SubSeq(t, 1, n)) = n
      /\ \A i \in 1..n : SubSeq(s, 1, n)[i] = s[i] /\ SubSeq(t, 1, n)[i] = t[i]
  BY <1>1, <1>2, SubSeqProperties
<1>4. SubSeq(s, 1, n) = SubSeq(t, 1, n)
  BY <1>3, SeqEqual
<1>5. QED
  BY <1>4 DEF IsPrefix

----------------------------------------------------------------------------
(* What the writes of append do to the file.                               *)

LEMMA SameSlot ==
    ASSUME NEW f, NEW g, NEW o, \A j \in 1..6 : g[o + j] = f[o + j]
    PROVE  SlotOf(g, o) = SlotOf(f, o)
<1>1. (\E k \in 1..4 : g[o + k] # 0) <=> (\E k \in 1..4 : f[o + k] # 0)
  <2>1. \A k \in 1..4 : k \in 1..6
    OBVIOUS
  <2>2. QED
    BY <2>1
<1>2. g[o + 5] = f[o + 5] /\ g[o + 6] = f[o + 6]
  <2>1. 5 \in 1..6 /\ 6 \in 1..6
    OBVIOUS
  <2>2. QED
    BY <2>1
<1>3. QED
  BY <1>1, <1>2 DEF SlotOf

LEMMA HeaderPlaces ==
    ASSUME NEW m \in Nat, m >= 16, NEW e \in Nat, e <= 16
    PROVE  /\ \A k \in 17..m : k \in 1..m /\ k > e
           /\ \A k \in 1..16 : k \in 1..m
OBVIOUS

\* A write in the header leaves the records alone.
SameLog(f, g) ==
    /\ g \in Seq(Byte) /\ Len(g) = Len(f)
    /\ \A i \in Nat \ {0} : HeaderSize + 2 * i <= Len(f) => RecordAt(g, i) = RecordAt(f, i)

\* A write of the l bytes of b at offset o stays in the header of f.
InHeader(f, m, o, b, l) ==
    /\ f \in Seq(Byte) /\ m \in Nat /\ m = Len(f) /\ m >= 16
    /\ l \in Nat /\ l = Len(b) /\ o \in Nat /\ o + l <= 16

HeaderKept(f, g, o, b, l) ==
    /\ SameLog(f, g)
    /\ \A k \in 1..16 : k <= o \/ k > o + l => g[k] = f[k]
    /\ \A j \in 1..l : g[o + j] = b[j]

LEMMA HeaderWritten ==
    ASSUME NEW f, NEW g, NEW o, NEW b, NEW m, NEW l, InHeader(f, m, o, b, l), Wrote(f, g, o, b)
    PROVE  HeaderKept(f, g, o, b, l)
<1>0. f \in Seq(Byte) /\ m \in Nat /\ m = Len(f) /\ m >= 16 /\ l = Len(b) /\ l \in Nat /\ o \in Nat /\ o + l <= 16
  BY DEF InHeader
<1>1. /\ g \in Seq(Byte) /\ Len(g) = IF m >= o + l THEN m ELSE o + l
      /\ \A k \in 1..m : k <= o \/ k > o + l => g[k] = f[k]
      /\ \A j \in 1..l : g[o + j] = b[j]
  BY <1>0 DEF Wrote
<1>2. Len(g) = m
  BY <1>0, <1>1
<1>3. /\ \A k \in 17..m : k \in 1..m /\ k > o + l
      /\ \A k \in 1..16 : k \in 1..m
  <2>1. o + l \in Nat
    BY <1>0
  <2>2. QED
    BY <1>0, <2>1, HeaderPlaces
<1>4. \A k \in 17..m : g[k] = f[k]
  BY <1>1, <1>3
<1>5. ASSUME NEW i \in Nat \ {0}, HeaderSize + 2 * i <= m PROVE RecordAt(g, i) = RecordAt(f, i)
  <2>1. Len(f) <= Len(g)
    BY <1>0, <1>2
  <2>2. QED
    BY <1>0, <1>1, <1>4, <1>5, <2>1, SameRecords
<1>6. SameLog(f, g)
  BY <1>0, <1>1, <1>2, <1>5 DEF SameLog
<1>7. \A k \in 1..16 : k <= o \/ k > o + l => g[k] = f[k]
  BY <1>1, <1>3, Zenon
<1>8. QED
  BY <1>1, <1>6, <1>7 DEF HeaderKept

LEMMA RecordBytes ==
    ASSUME NEW r \in Records
    PROVE  r \in Seq(Byte) /\ Len(r) = 2 /\ r = <<r[1], r[2]>>
<1>1. ASSUME NEW a \in Byte, NEW b \in Byte, r = <<a, b>>
      PROVE  r \in Seq(Byte) /\ Len(r) = 2 /\ r = <<r[1], r[2]>>
  <2>1. <<a, b>> \in Seq(Byte) /\ Len(<<a, b>>) = 2 /\ <<a, b>>[1] = a /\ <<a, b>>[2] = b
    OBVIOUS
  <2>2. QED
    BY <1>1, <2>1, Zenon
<1>2. 77 \in Byte /\ 1 \in Byte /\ 66 \in Byte /\ 2 \in Byte
  BY DEF Byte
<1>3. QED
  BY <1>1, <1>2, Zenon DEF Records

\* A record written at the end
Added(f, g, o, n, r) ==
    /\ g \in Seq(Byte) /\ Len(g) = o + 2
    /\ \A k \in 1..o : g[k] = f[k]
    /\ \A i \in 1..n : RecordAt(g, i) = RecordAt(f, i)
    /\ RecordAt(g, n + 1) = r

LEMMA RecordWritten ==
    ASSUME NEW f \in Seq(Byte), NEW n \in Nat, NEW o \in Nat, o = Len(f), o = 16 + 2 * n,
           NEW g, NEW r \in Records, Wrote(f, g, o, r)
    PROVE  Added(f, g, o, n, r)
<1>1. Len(r) = 2 /\ r = <<r[1], r[2]>>
  BY RecordBytes
<1>2. /\ g \in Seq(Byte) /\ Len(g) = IF o >= o + 2 THEN o ELSE o + 2
      /\ \A k \in 1..o : k <= o \/ k > o + 2 => g[k] = f[k]
      /\ \A j \in 1..2 : g[o + j] = r[j]
  BY <1>1, Zenon DEF Wrote
<1>3. Len(g) = o + 2
  BY <1>2
<1>4. \A k \in 1..o : g[k] = f[k]
  BY <1>2
<1>5. g[o + 1] = r[1] /\ g[o + 2] = r[2]
  <2>1. 1 \in 1..2 /\ 2 \in 1..2
    OBVIOUS
  <2>2. QED
    BY <1>2, <2>1, Zenon
<1>6. ASSUME NEW i \in 1..n PROVE RecordAt(g, i) = RecordAt(f, i)
  <2>1. i \in Nat \ {0} /\ HeaderSize + 2 * i <= o
    BY DEF HeaderSize
  <2>2. Len(f) <= Len(g) /\ \A k \in 17..Len(f) : g[k] = f[k]
    BY <1>3, <1>4
  <2>3. HeaderSize + 2 * i <= Len(f)
    BY <2>1
  <2>4. QED
    BY <1>2, <2>1, <2>2, <2>3, SameRecords, Zenon
<1>7. RecordAt(g, n + 1) = r
  <2>1. n + 1 \in Nat \ {0} /\ HeaderSize + 2 * (n + 1) <= o + 2
    BY DEF HeaderSize
  <2>2. HeaderSize + 2 * (n + 1) <= Len(g)
    BY <1>3, <2>1
  <2>3. RecordAt(g, n + 1) = <<g[15 + 2 * (n + 1)], g[16 + 2 * (n + 1)]>>
    BY <1>2, <2>1, <2>2, TwoBytes, Zenon
  <2>4. 15 + 2 * (n + 1) = o + 1 /\ 16 + 2 * (n + 1) = o + 2
    OBVIOUS
  <2>5. QED
    BY <1>1, <1>5, <2>3, <2>4, Zenon
<1>8. QED
  BY <1>2, <1>3, <1>4, <1>6, <1>7 DEF Added

LEMMA ShapedSame ==
    ASSUME NEW f, NEW g, Shaped(f), g \in Seq(Byte), NEW m \in Nat, NEW l \in Nat,
           Len(f) = m, Len(g) = l, m <= l,
           g[1] = f[1], g[2] = f[2], g[3] = f[3], g[4] \in {0, 1}
    PROVE  Shaped(g)
<1>1. m >= HeaderSize
  BY DEF Shaped
<1>2. l >= HeaderSize
  BY <1>1 DEF HeaderSize
<1>3. QED
  BY <1>2 DEF Shaped

\* What is behind the end of the log does not change the log.
LEMMA WholeKept ==
    ASSUME NEW f, NEW n \in Nat, Whole(f, n), NEW g \in Seq(Byte), NEW m \in Nat, NEW l \in Nat,
           Len(f) = m, Len(g) = l, m <= l, \A k \in 1..m : g[k] = f[k]
    PROVE  Whole(g, n)
<1>1. f \in Seq(Byte) /\ 16 <= m /\ 16 + 2 * n <= m /\ Shaped(f) /\ SizeOf(f) = HeaderSize + 2 * n
      /\ \A i \in 1..n : RecordAt(f, i) \in Records
  BY DEF Whole, Shaped, HeaderSize
<1>2. \A k \in 1..16 : k \in 1..m
  BY <1>1
<1>3. \A k \in 1..16 : g[k] = f[k]
  BY <1>2
<1>4. g[1] = f[1] /\ g[2] = f[2] /\ g[3] = f[3] /\ g[4] = f[4]
  BY <1>3
<1>5. ASSUME NEW o \in {Slot0, Slot1} PROVE SlotOf(g, o) = SlotOf(f, o)
  <2>1. \A j \in 1..6 : o + j \in 1..16
    BY DEF Slot0, Slot1
  <2>2. QED
    BY <1>3, <2>1, SameSlot
<1>6. Shaped(g)
  BY <1>1, <1>4, ShapedSame DEF Shaped
<1>7. SizeOf(g) = SizeOf(f)
  BY <1>4, <1>5 DEF SizeOf
<1>8. ASSUME NEW i \in 1..n PROVE RecordAt(g, i) \in Records
  <2>1. i \in Nat \ {0} /\ HeaderSize + 2 * i <= m
    BY <1>1 DEF HeaderSize
  <2>2. \A k \in 17..m : g[k] = f[k]
    OBVIOUS
  <2>3. HeaderSize + 2 * i <= Len(f) /\ Len(f) <= Len(g) /\ \A k \in 17..Len(f) : g[k] = f[k]
    BY <2>1, <2>2
  <2>4. RecordAt(g, i) = RecordAt(f, i)
    BY <1>1, <2>1, <2>3, SameRecords, Zenon
  <2>5. QED
    BY <1>1, <2>4
<1>9. HeaderSize + 2 * n <= Len(g)
  BY <1>1 DEF HeaderSize
<1>10. QED
  BY <1>1, <1>6, <1>7, <1>8, <1>9, Zenon DEF Whole

LEMMA SixBytes ==
    ASSUME NEW h \in Byte, NEW l \in Byte, NEW b, b = <<0, 0, 0, 0, h, l>>
    PROVE  /\ b \in Seq(Byte) /\ Len(b) = 6
           /\ b[1] = 0 /\ b[2] = 0 /\ b[3] = 0 /\ b[4] = 0 /\ b[5] = h /\ b[6] = l
<1>1. 0 \in Byte
  BY DEF Byte
<1>2. QED
  BY <1>1

LEMMA SlotLength ==
    ASSUME NEW n \in Nat, n < TooLong
    PROVE  /\ SlotBytes(n) \in Seq(Byte) /\ Len(SlotBytes(n)) = 6
           /\ \A g, o : (\A j \in 1..6 : g[o + j] = SlotBytes(n)[j]) => SlotOf(g, o) = n
<1>1. PICK h, l : h = n \div 256 /\ l = n % 256
  OBVIOUS
<1>2. h \in Byte /\ l \in Byte /\ 256 * h + l = n
  BY <1>1, SMT DEF TooLong, Byte
<1>3. PICK b : b = SlotBytes(n) /\ b = <<0, 0, 0, 0, h, l>>
  BY <1>1 DEF SlotBytes
<1>4. /\ b \in Seq(Byte) /\ Len(b) = 6
      /\ b[1] = 0 /\ b[2] = 0 /\ b[3] = 0 /\ b[4] = 0 /\ b[5] = h /\ b[6] = l
  BY <1>2, <1>3, SixBytes
<1>5. ASSUME NEW g, NEW o, \A j \in 1..6 : g[o + j] = b[j] PROVE SlotOf(g, o) = n
  <2>1. 1 \in 1..6 /\ 2 \in 1..6 /\ 3 \in 1..6 /\ 4 \in 1..6 /\ 5 \in 1..6 /\ 6 \in 1..6
    OBVIOUS
  <2>2. /\ g[o + 1] = 0 /\ g[o + 2] = 0 /\ g[o + 3] = 0 /\ g[o + 4] = 0
        /\ g[o + 5] = h /\ g[o + 6] = l
    BY <1>4, <1>5, <2>1, Zenon
  <2>3. \A k \in 1..4 : k = 1 \/ k = 2 \/ k = 3 \/ k = 4
    OBVIOUS
  <2>4. ~ \E k \in 1..4 : g[o + k] # 0
    BY <2>2, <2>3, Zenon
  <2>5. SlotOf(g, o) = 256 * g[o + 5] + g[o + 6]
    BY <2>4, Zenon DEF SlotOf
  <2>6. QED
    BY <1>2, <2>2, <2>5, Zenon
<1>6. QED
  BY <1>3, <1>4, <1>5, Zenon

\* A length is read from a slot as it was written.
LEMMA SlotWritten ==
    ASSUME NEW f \in Seq(Byte), NEW m \in Nat, m = Len(f), m >= 16, NEW g, NEW n \in Nat, n < TooLong,
           NEW o \in {Slot0, Slot1}, Wrote(f, g, o, SlotBytes(n))
    PROVE  /\ SameLog(f, g)
           /\ SlotOf(g, o) = n
           /\ \A s \in {Slot0, Slot1} \ {o} : SlotOf(g, s) = SlotOf(f, s)
           /\ \A k \in 1..4 : g[k] = f[k]
<1>1. PICK b : b = SlotBytes(n)
  OBVIOUS
<1>2. Len(b) = 6 /\ ((\A j \in 1..6 : g[o + j] = b[j]) => SlotOf(g, o) = n)
  <2>1. /\ Len(SlotBytes(n)) = 6
        /\ (\A j \in 1..6 : g[o + j] = SlotBytes(n)[j]) => SlotOf(g, o) = n
    BY SlotLength
  <2>2. QED
    BY <1>1, <2>1
<1>3. o \in Nat /\ o + 6 <= 16 /\ Wrote(f, g, o, b)
  BY <1>1 DEF Slot0, Slot1
<1>4. /\ SameLog(f, g)
      /\ \A k \in 1..16 : k <= o \/ k > o + 6 => g[k] = f[k]
      /\ \A j \in 1..6 : g[o + j] = b[j]
  <2>1. PICK l \in Nat : l = 6
    OBVIOUS
  <2>2. InHeader(f, m, o, b, l)
    BY <1>2, <1>3, <2>1 DEF InHeader
  <2>3. HeaderKept(f, g, o, b, l)
    BY <1>3, <2>2, HeaderWritten, Zenon
  <2>4. QED
    BY <2>1, <2>3 DEF HeaderKept
<1>5. ASSUME NEW s \in {Slot0, Slot1}, s # o PROVE SlotOf(g, s) = SlotOf(f, s)
  <2>1. \A j \in 1..6 : s + j \in 1..16 /\ (s + j <= o \/ s + j > o + 6)
    BY <1>5 DEF Slot0, Slot1
  <2>2. \A j \in 1..6 : g[s + j] = f[s + j]
    BY <1>4, <2>1, Zenon
  <2>3. QED
    BY <2>2, SameSlot, Zenon
<1>6. \A k \in 1..4 : g[k] = f[k]
  <2>1. \A k \in 1..4 : k \in 1..16 /\ k <= o
    BY DEF Slot0, Slot1
  <2>2. QED
    BY <1>4, <2>1, Zenon
<1>7. QED
  BY <1>2, <1>4, <1>5, <1>6, Zenon

\* The flag is one byte.
LEMMA FlagWritten ==
    ASSUME NEW f \in Seq(Byte), NEW m \in Nat, m = Len(f), m >= 16, NEW g, NEW b, Wrote(f, g, 3, <<b>>)
    PROVE  /\ SameLog(f, g)
           /\ g[1] = f[1] /\ g[2] = f[2] /\ g[3] = f[3] /\ g[4] = b
           /\ \A s \in {Slot0, Slot1} : SlotOf(g, s) = SlotOf(f, s)
<1>0. Len(<<b>>) = 1 /\ <<b>>[1] = b
  OBVIOUS
<1>1. PICK w : w = <<b>> /\ Len(w) = 1 /\ w[1] = b
  BY <1>0, Zenon
<1>2. /\ SameLog(f, g)
      /\ \A k \in 1..16 : k <= 3 \/ k > 3 + 1 => g[k] = f[k]
      /\ \A j \in 1..1 : g[3 + j] = w[j]
  <2>1. PICK l \in Nat, o \in Nat : l = 1 /\ o = 3
    OBVIOUS
  <2>2. InHeader(f, m, o, w, l) /\ Wrote(f, g, o, w)
    BY <1>1, <2>1 DEF InHeader
  <2>3. HeaderKept(f, g, o, w, l)
    BY <2>2, HeaderWritten, Zenon
  <2>4. QED
    BY <2>1, <2>3 DEF HeaderKept
<1>3. \A k \in 1..16 : k <= 3 \/ k > 4 => g[k] = f[k]
  BY <1>2
<1>4. g[1] = f[1] /\ g[2] = f[2] /\ g[3] = f[3] /\ g[4] = b
  <2>1. 1 \in 1..1 /\ 3 + 1 = 4 /\ 1 \in 1..16 /\ 2 \in 1..16 /\ 3 \in 1..16 /\ 1 <= 3 /\ 2 <= 3 /\ 3 <= 3
    OBVIOUS
  <2>2. QED
    BY <1>1, <1>2, <1>3, <2>1, Zenon
<1>5. ASSUME NEW s \in {Slot0, Slot1} PROVE SlotOf(g, s) = SlotOf(f, s)
  <2>1. \A j \in 1..6 : s + j \in 1..16 /\ s + j > 4
    BY DEF Slot0, Slot1
  <2>2. \A j \in 1..6 : g[s + j] = f[s + j]
    BY <1>3, <2>1, Zenon
  <2>3. QED
    BY <2>2, SameSlot, Zenon
<1>6. QED
  BY <1>2, <1>4, <1>5

\* The length goes to the slot that is not in use: the log stays as it is.
LEMMA SlotKeeps ==
    ASSUME NEW f, NEW n \in Nat, Whole(f, n), NEW w \in Nat, w < TooLong,
           NEW g, Wrote(f, g, Spare(f), SlotBytes(w))
    PROVE  /\ Whole(g, n) /\ SameLog(f, g)
           /\ Spare(g) = Spare(f) /\ SlotOf(g, Spare(f)) = w /\ g[4] = f[4]
           /\ \A s \in {Slot0, Slot1} \ {Spare(f)} : SlotOf(g, s) = SlotOf(f, s)
<1>1. /\ f \in Seq(Byte) /\ Len(f) >= 16 /\ f[4] \in {0, 1} /\ f[1] = 122 /\ f[2] = 122 /\ f[3] = 122
      /\ SizeOf(f) = HeaderSize + 2 * n /\ HeaderSize + 2 * n <= Len(f)
      /\ \A i \in 1..n : RecordAt(f, i) \in Records
  BY DEF Whole, Shaped, HeaderSize
<1>2. PICK m \in Nat : m = Len(f)
  BY <1>1
<1>3. PICK o : o = Spare(f)
  OBVIOUS
<1>4. o \in {Slot0, Slot1} /\ Wrote(f, g, o, SlotBytes(w)) /\ m >= 16
  BY <1>1, <1>2, <1>3 DEF Spare
<1>5. /\ SameLog(f, g)
      /\ SlotOf(g, o) = w
      /\ \A s \in {Slot0, Slot1} \ {o} : SlotOf(g, s) = SlotOf(f, s)
      /\ \A k \in 1..4 : g[k] = f[k]
  BY <1>1, <1>2, <1>4, SlotWritten
<1>6. g[1] = f[1] /\ g[2] = f[2] /\ g[3] = f[3] /\ g[4] = f[4]
  BY <1>5
<1>7. Spare(g) = o
  BY <1>3, <1>6 DEF Spare
<1>8. SizeOf(g) = SizeOf(f)
  <2>1. (IF f[4] = 0 THEN Slot0 ELSE Slot1) \in {Slot0, Slot1} \ {o}
    BY <1>3 DEF Spare, Slot0, Slot1
  <2>2. QED
    BY <1>5, <1>6, <2>1 DEF SizeOf
<1>9. g \in Seq(Byte) /\ Len(g) = m
  BY <1>2, <1>5 DEF SameLog
<1>10. Shaped(g)
  <2>1. Shaped(f) /\ g[4] \in {0, 1} /\ m <= m
    BY <1>1, <1>6 DEF Whole
  <2>2. QED
    BY <1>2, <1>6, <1>9, <2>1, ShapedSame
<1>11. ASSUME NEW i \in 1..n PROVE RecordAt(g, i) \in Records
  <2>1. i \in Nat \ {0} /\ HeaderSize + 2 * i <= Len(f)
    BY <1>1, <1>2 DEF HeaderSize
  <2>2. QED
    BY <1>1, <1>5, <2>1 DEF SameLog
<1>12. Whole(g, n)
  BY <1>1, <1>2, <1>8, <1>9, <1>10, <1>11 DEF Whole
<1>13. QED
  BY <1>3, <1>5, <1>6, <1>7, <1>12

\* The flag is turned: the log has one record more.
LEMMA FlagTurns ==
    ASSUME NEW f, NEW n \in Nat, Whole(f, n), SlotOf(f, Spare(f)) = HeaderSize + 2 * (n + 1),
           HeaderSize + 2 * (n + 1) <= Len(f), RecordAt(f, n + 1) \in Records,
           NEW g, NEW b, b = 1 - f[4], Wrote(f, g, 3, <<b>>)
    PROVE  /\ Whole(g, n + 1) /\ SameLog(f, g) /\ g[4] = b
           /\ \A s \in {Slot0, Slot1} : SlotOf(g, s) = SlotOf(f, s)
<1>1. /\ f \in Seq(Byte) /\ Len(f) >= 16 /\ f[4] \in {0, 1} /\ Shaped(f)
      /\ \A i \in 1..n : RecordAt(f, i) \in Records
  BY DEF Whole, Shaped, HeaderSize
<1>2. PICK m \in Nat : m = Len(f)
  BY <1>1
<1>3. /\ SameLog(f, g)
      /\ g[1] = f[1] /\ g[2] = f[2] /\ g[3] = f[3] /\ g[4] = b
      /\ \A s \in {Slot0, Slot1} : SlotOf(g, s) = SlotOf(f, s)
  BY <1>1, <1>2, FlagWritten
<1>4. b \in {0, 1} /\ (b = 0 <=> f[4] # 0)
  BY <1>1
<1>5. SizeOf(g) = HeaderSize + 2 * (n + 1)
  <2>1. SizeOf(g) = SlotOf(g, Spare(f))
    BY <1>3, <1>4 DEF SizeOf, Spare
  <2>2. Spare(f) \in {Slot0, Slot1}
    BY DEF Spare
  <2>3. QED
    BY <1>3, <2>1, <2>2
<1>6. g \in Seq(Byte) /\ Len(g) = m
  BY <1>2, <1>3 DEF SameLog
<1>7. Shaped(g)
  <2>1. g[4] \in {0, 1} /\ m <= m
    BY <1>3, <1>4
  <2>2. QED
    BY <1>1, <1>2, <1>3, <1>6, <2>1, ShapedSame
<1>8. ASSUME NEW i \in 1..(n + 1) PROVE RecordAt(g, i) \in Records
  <2>1. i \in Nat \ {0} /\ HeaderSize + 2 * i <= Len(f)
    BY <1>2 DEF HeaderSize
  <2>2. RecordAt(g, i) = RecordAt(f, i)
    BY <1>3, <2>1 DEF SameLog
  <2>3. i \in 1..n \/ i = n + 1
    OBVIOUS
  <2>4. QED
    BY <1>1, <2>2, <2>3
<1>9. Whole(g, n + 1)
  BY <1>2, <1>5, <1>6, <1>7, <1>8 DEF Whole
<1>10. QED
  BY <1>3, <1>9

----------------------------------------------------------------------------
(* The steps of append.  The caller that moves is alone.                   *)

Steps == Before \cup Behind \cup {"tell", "return"}

LEMMA SharedInit == Init => IInv
<1> SUFFICES ASSUME Init PROVE IInv
  OBVIOUS
<1>1. TypeInv
  <2>1. "idle" \in Before \cup Behind \cup {"tell", "return"}
    BY DEF Before
  <2>2. HeaderSize \in Nat /\ 0 \in Nat /\ acked \in Seq(Records) /\ Len(acked) = 0
    BY DEF Init, HeaderSize
  <2>3. MaxAppends \in Nat
    BY SharedFileAssumption
  <2>4. QED
    BY <2>1, <2>2, <2>3 DEF Init, TypeInv
<1>2. FileInv
  <2>1. /\ 122 \in Byte /\ 0 \in Byte /\ 16 \in Byte
        /\ file = <<122, 122, 122, 0, 0, 0, 0, 0, 0, 16, 0, 0, 0, 0, 0, 16>>
    BY DEF Byte, Init, EmptyFile
  <2>2. file \in Seq(Byte) /\ Len(file) = 16
    BY <2>1
  <2>3. /\ file[1] = 122 /\ file[2] = 122 /\ file[3] = 122 /\ file[4] = 0
        /\ file[5] = 0 /\ file[6] = 0 /\ file[7] = 0 /\ file[8] = 0 /\ file[9] = 0 /\ file[10] = 16
    BY <2>1
  <2>4. Shaped(file)
    BY <2>2, <2>3 DEF Shaped, HeaderSize
  <2>5. SizeOf(file) = 16
    <3>1. \A k \in 1..4 : k = 1 \/ k = 2 \/ k = 3 \/ k = 4
      OBVIOUS
    <3>2. ~ \E k \in 1..4 : file[Slot0 + k] # 0
      BY <2>3, <3>1 DEF Slot0
    <3>3. SlotOf(file, Slot0) = 256 * file[9] + file[10]
      BY <3>2 DEF SlotOf, Slot0
    <3>4. QED
      BY <2>3, <3>3 DEF SizeOf
  <2>6. Len(acked) = 0 /\ ptr = 16
    BY DEF Init, HeaderSize
  <2>7. Whole(file, 0)
    BY <2>2, <2>4, <2>5 DEF Whole, HeaderSize
  <2>8. QED
    BY <2>2, <2>6, <2>7 DEF FileInv, HeaderSize
<1>3. ASSUME NEW p \in Callers PROVE CallerInv(p)
  BY Zenon DEF Init, CallerInv, Before, Behind
<1>4. DupInv
  BY DEF Init, DupInv
<1>5. QED
  BY <1>1, <1>2, <1>3, <1>4 DEF IInv

\* The caller that moves, and those that do not
LEMMA Moved ==
    ASSUME IInv, Exclusive, NEW p \in Callers, pc[p] # "idle",
           NEW s \in Steps, pc' = [pc EXCEPT ![p] = s],
           \A q \in Callers : q # p => rec'[q] = rec[q]
    PROVE  /\ pc'[p] = s /\ pc' \in [Callers -> Steps]
           /\ \A q \in Callers : q # p => pc[q] = "idle" /\ pc'[q] = "idle" /\ CallerInv(q)'
           /\ dup = "idle" /\ rec[p] \in Records /\ Len(acked) < MaxAppends
<1>1. pc \in [Callers -> Steps] /\ rec[p] \in Records \cup {NoRecord}
  BY DEF IInv, TypeInv, Steps
<1>2. pc'[p] = s /\ pc' \in [Callers -> Steps]
  BY <1>1
<1>3. ASSUME NEW q \in Callers, q # p
      PROVE  pc[q] = "idle" /\ pc'[q] = "idle" /\ CallerInv(q)'
  <2>1. pc[q] = "idle"
    BY <1>3 DEF Exclusive
  <2>2. pc'[q] = "idle"
    BY <1>1, <1>3, <2>1
  <2>3. rec[q] = NoRecord
    BY <2>1, Zenon DEF IInv, CallerInv
  <2>4. rec'[q] = NoRecord
    BY <1>3, <2>3
  <2>5. QED
    BY <2>1, <2>2, <2>4, Zenon DEF CallerInv, Before, Behind
<1>4. dup = "idle"
  BY DEF Exclusive
<1>5. rec[p] # NoRecord /\ Len(acked) < MaxAppends
  BY Zenon DEF IInv, CallerInv
<1>6. QED
  BY <1>1, <1>2, <1>3, <1>4, <1>5

\* What was copied stays as it is while no copy is made.
LEMMA CopyKept ==
    ASSUME DupInv, dup = "idle", UNCHANGED <<acked, dupVars>>
    PROVE  DupInv'
BY Zenon DEF DupInv, dupVars

\* A step that changes neither the file nor the log
LEMMA QuietStep ==
    ASSUME IInv, Exclusive, NEW p \in Callers, pc[p] \notin {"idle", "return"},
           NEW s \in Steps \ {"idle", "return"}, pc' = [pc EXCEPT ![p] = s],
           s \in Before => pc[p] \in Before,
           newptr' \in [Callers -> Nat], seen' \in [Callers -> Nat],
           UNCHANGED <<file, ptr, rec, acked, dupVars>>, CallerInv(p)'
    PROVE  IInv'
<1>1. /\ pc'[p] = s /\ pc' \in [Callers -> Steps]
      /\ \A q \in Callers : q # p => pc[q] = "idle" /\ pc'[q] = "idle" /\ CallerInv(q)'
      /\ dup = "idle"
  BY Moved, Zenon
<1>2. TypeInv'
  BY <1>1 DEF IInv, TypeInv, dupVars, Steps
<1>3. FileInv'
  <2>1. \A q \in Callers : pc[q] # "return"
    BY <1>1, Zenon
  <2>2. (\A q \in Callers : pc'[q] \in Before) => (\A q \in Callers : pc[q] \in Before)
    BY <1>1, Zenon DEF Before
  <2>3. file' = file /\ ptr' = ptr /\ acked' = acked
    OBVIOUS
  <2>4. FileInv
    BY DEF IInv
  <2>5. QED
    BY <2>1, <2>2, <2>3, <2>4, Zenon DEF FileInv
<1>4. DupInv'
  BY <1>1, CopyKept DEF IInv
<1>5. \A q \in Callers : CallerInv(q)'
  BY <1>1
<1>6. QED
  BY <1>2, <1>3, <1>4, <1>5 DEF IInv

LEMMA SeekDataStep ==
    ASSUME IInv, Exclusive, NEW p \in Callers, SeekData(p) PROVE IInv'
<1>1. /\ pc[p] = "seek data" /\ pc' = [pc EXCEPT ![p] = "write data"] /\ off' = ptr
      /\ UNCHANGED <<file, ptr, rec, newptr, seen, acked, dupVars>>
  BY Zenon DEF SeekData, Seek, Goto
<1>2. "write data" \in Steps \ {"idle", "return"} /\ "seek data" \in Before
  BY DEF Steps, Before
<1>3. newptr' \in [Callers -> Nat] /\ seen' \in [Callers -> Nat]
  BY <1>1, Zenon DEF IInv, TypeInv
<1>4. pc'[p] = "write data" /\ rec[p] \in Records /\ Len(acked) < MaxAppends
  BY <1>1, <1>2, Moved, Zenon
<1>5. CallerInv(p)'
  BY <1>1, <1>4, RecordAssumption, Zenon DEF CallerInv, Before, Behind
<1>6. QED
  BY <1>1, <1>2, <1>3, <1>5, QuietStep, Zenon

LEMMA TellStep ==
    ASSUME IInv, Exclusive, NEW p \in Callers, Tell(p) PROVE IInv'
<1>1. /\ pc[p] = "tell" /\ pc' = [pc EXCEPT ![p] = "seek header"]
      /\ newptr' = [newptr EXCEPT ![p] = off]
      /\ UNCHANGED <<file, ptr, rec, seen, acked, dupVars>>
  BY Zenon DEF Tell, Goto
<1>2. "seek header" \in Steps \ {"idle", "return"} /\ "seek header" \notin Before /\ "tell" \notin Before
  BY Zenon DEF Steps, Before, Behind
<1>3. /\ off = ptr + 2
      /\ Len(file) = ptr + 2 /\ RecordAt(file, Len(acked) + 1) = rec[p]
  BY <1>1, <1>2, Zenon DEF IInv, CallerInv
<1>4. newptr' \in [Callers -> Nat] /\ seen' \in [Callers -> Nat] /\ newptr'[p] = off
  <2>1. newptr \in [Callers -> Nat] /\ seen \in [Callers -> Nat]
    BY Zenon DEF IInv, TypeInv
  <2>2. off \in Nat
    BY <1>3 DEF IInv, FileInv, HeaderSize, TypeInv
  <2>3. newptr' = [newptr EXCEPT ![p] = off] /\ seen' = seen
    BY <1>1, Zenon
  <2>4. QED
    BY <2>1, <2>2, <2>3
<1>5. pc'[p] = "seek header" /\ rec[p] \in Records /\ Len(acked) < MaxAppends
  BY <1>1, <1>2, Moved, Zenon
<1>6. CallerInv(p)'
  BY <1>1, <1>3, <1>4, <1>5, RecordAssumption, Zenon DEF CallerInv, Before, Behind
<1>7. QED
  BY <1>1, <1>2, <1>4, <1>6, QuietStep, Zenon

LEMMA SeekHeaderStep ==
    ASSUME IInv, Exclusive, NEW p \in Callers, SeekHeader(p) PROVE IInv'
<1>1. /\ pc[p] = "seek header" /\ pc' = [pc EXCEPT ![p] = "read header"] /\ off' = 0
      /\ UNCHANGED <<file, ptr, rec, newptr, seen, acked, dupVars>>
  BY Zenon DEF SeekHeader, Seek, Goto
<1>2. /\ "read header" \in Steps \ {"idle", "return"} /\ "read header" \notin Before
      /\ "seek header" \notin Before /\ "seek header" \in Behind
  BY Zenon DEF Steps, Before, Behind
<1>3. newptr' \in [Callers -> Nat] /\ seen' \in [Callers -> Nat]
  BY <1>1, Zenon DEF IInv, TypeInv
<1>4. pc'[p] = "read header" /\ rec[p] \in Records /\ Len(acked) < MaxAppends
  BY <1>1, <1>2, Moved, Zenon
<1>5. /\ newptr[p] = ptr + 2 /\ Len(file) = ptr + 2
      /\ RecordAt(file, Len(acked) + 1) = rec[p]
  BY <1>1, <1>2, Zenon DEF IInv, CallerInv
<1>6. CallerInv(p)'
  BY <1>1, <1>4, <1>5, RecordAssumption, Zenon DEF CallerInv, Before, Behind
<1>7. QED
  BY <1>1, <1>2, <1>3, <1>6, QuietStep, Zenon

LEMMA ReadHeaderStep ==
    ASSUME IInv, Exclusive, NEW p \in Callers, ReadHeader(p) PROVE IInv'
<1>1. pc[p] = "read header" /\ UNCHANGED <<file, ptr, rec, newptr, acked, dupVars>>
  BY Zenon DEF ReadHeader
<1>2. /\ "seek slot" \in Steps \ {"idle", "return"} /\ "seek slot" \notin Before
      /\ "read header" \notin Before /\ "read header" \in Behind
  BY Zenon DEF Steps, Before, Behind
<1>3. /\ newptr[p] = ptr + 2 /\ Len(file) = ptr + 2 /\ off = 0
      /\ RecordAt(file, Len(acked) + 1) = rec[p]
  BY <1>1, <1>2, Zenon DEF IInv, CallerInv
<1>4. off < Len(file) /\ off + 4 <= Len(file) /\ off + 4 = 4
  BY <1>3 DEF IInv, FileInv, TypeInv, HeaderSize
<1>5. /\ pc' = [pc EXCEPT ![p] = "seek slot"]
      /\ seen' = [seen EXCEPT ![p] = file[4]]
  BY <1>4, Zenon DEF ReadHeader, Goto
<1>6. /\ pc'[p] = "seek slot" /\ rec[p] \in Records /\ Len(acked) < MaxAppends
      /\ \A q \in Callers : q # p => pc[q] = "idle"
  BY <1>1, <1>2, <1>5, Moved, Zenon
<1>7. file[4] \in {0, 1}
  <2>1. \A q \in Callers : pc[q] # "return"
    BY <1>1, <1>6, Zenon
  <2>2. Whole(file, Len(acked))
    BY <2>1, Zenon DEF IInv, FileInv
  <2>3. QED
    BY <2>2, Zenon DEF Whole, Shaped
<1>8. newptr' \in [Callers -> Nat] /\ seen' \in [Callers -> Nat] /\ seen'[p] = file[4]
  <2>1. newptr \in [Callers -> Nat] /\ seen \in [Callers -> Nat]
    BY Zenon DEF IInv, TypeInv
  <2>2. seen' = [seen EXCEPT ![p] = file[4]] /\ newptr' = newptr
    BY <1>1, <1>5, Zenon
  <2>3. file[4] \in Nat
    BY <1>7
  <2>4. QED
    BY <2>1, <2>2, <2>3
<1>9. CallerInv(p)'
  BY <1>1, <1>3, <1>6, <1>8, RecordAssumption, Zenon DEF CallerInv, Before, Behind
<1>10. QED
  BY <1>1, <1>2, <1>5, <1>8, <1>9, QuietStep, Zenon

LEMMA SeekSlotStep ==
    ASSUME IInv, Exclusive, NEW p \in Callers, SeekSlot(p) PROVE IInv'
<1>1. /\ pc[p] = "seek slot" /\ pc' = [pc EXCEPT ![p] = "write slot"]
      /\ off' = IF seen[p] = 0 THEN Slot1 ELSE Slot0
      /\ UNCHANGED <<file, ptr, rec, newptr, seen, acked, dupVars>>
  BY Zenon DEF SeekSlot, Seek, Goto
<1>2. /\ "write slot" \in Steps \ {"idle", "return"} /\ "write slot" \notin Before
      /\ "seek slot" \notin Before /\ "seek slot" \in Behind
  BY Zenon DEF Steps, Before, Behind
<1>3. newptr' \in [Callers -> Nat] /\ seen' \in [Callers -> Nat]
  BY <1>1, Zenon DEF IInv, TypeInv
<1>4. pc'[p] = "write slot" /\ rec[p] \in Records /\ Len(acked) < MaxAppends
  BY <1>1, <1>2, Moved, Zenon
<1>5. /\ newptr[p] = ptr + 2 /\ Len(file) = ptr + 2 /\ seen[p] = file[4]
      /\ RecordAt(file, Len(acked) + 1) = rec[p]
  BY <1>1, <1>2, Zenon DEF IInv, CallerInv
<1>6. off' = Spare(file)'
  BY <1>1, <1>5, Zenon DEF Spare
<1>7. CallerInv(p)'
  BY <1>1, <1>4, <1>5, <1>6, RecordAssumption, Zenon DEF CallerInv, Before, Behind
<1>8. QED
  BY <1>1, <1>2, <1>3, <1>7, QuietStep, Zenon

LEMMA SeekFlagStep ==
    ASSUME IInv, Exclusive, NEW p \in Callers, SeekFlag(p) PROVE IInv'
<1>1. /\ pc[p] = "seek flag" /\ pc' = [pc EXCEPT ![p] = "write flag"] /\ off' = 3
      /\ UNCHANGED <<file, ptr, rec, newptr, seen, acked, dupVars>>
  BY Zenon DEF SeekFlag, Seek, Goto
<1>2. /\ "write flag" \in Steps \ {"idle", "return"} /\ "write flag" \notin Before
      /\ "seek flag" \notin Before /\ "seek flag" \in Behind
  BY Zenon DEF Steps, Before, Behind
<1>3. newptr' \in [Callers -> Nat] /\ seen' \in [Callers -> Nat]
  BY <1>1, Zenon DEF IInv, TypeInv
<1>4. pc'[p] = "write flag" /\ rec[p] \in Records /\ Len(acked) < MaxAppends
  BY <1>1, <1>2, Moved, Zenon
<1>5. /\ newptr[p] = ptr + 2 /\ Len(file) = ptr + 2 /\ seen[p] = file[4]
      /\ SlotOf(file, Spare(file)) = newptr[p]
      /\ RecordAt(file, Len(acked) + 1) = rec[p]
  BY <1>1, <1>2, Zenon DEF IInv, CallerInv
<1>6. SlotOf(file, Spare(file))' = newptr[p]
  BY <1>1, <1>5, Zenon
<1>7. CallerInv(p)'
  BY <1>1, <1>4, <1>5, <1>6, RecordAssumption, Zenon DEF CallerInv, Before, Behind
<1>8. QED
  BY <1>1, <1>2, <1>3, <1>7, QuietStep, Zenon

\* A step that writes, and leaves the log as it was
LEMMA LoudStep ==
    ASSUME IInv, Exclusive, NEW p \in Callers, pc[p] # "idle",
           NEW s \in Steps \ Before, pc' = [pc EXCEPT ![p] = s],
           newptr' = newptr, seen' \in [Callers -> Nat],
           UNCHANGED <<ptr, rec, acked, dupVars>>,
           \A i \in 1..Len(acked) : RecordAt(file', i) = RecordAt(file, i),
           s = "return" \/ Whole(file', Len(acked)), CallerInv(p)'
    PROVE  IInv'
<1>1. /\ pc'[p] = s /\ pc' \in [Callers -> Steps]
      /\ \A q \in Callers : q # p => pc[q] = "idle" /\ pc'[q] = "idle" /\ CallerInv(q)'
      /\ dup = "idle"
  BY Moved, Zenon
<1>2. TypeInv'
  BY <1>1 DEF IInv, TypeInv, dupVars, Steps
<1>3. FileInv'
  <2>1. ~ \A q \in Callers : pc'[q] \in Before
    BY <1>1, Zenon
  <2>2. ptr' = ptr /\ acked' = acked
    OBVIOUS
  <2>3. (\A q \in Callers : pc'[q] # "return") => Whole(file', Len(acked'))
    BY <1>1, <2>2, Zenon
  <2>4. ptr = HeaderSize + 2 * Len(acked) /\ \A i \in 1..Len(acked) : RecordAt(file, i) = acked[i]
    BY Zenon DEF IInv, FileInv
  <2>5. \A i \in 1..Len(acked') : RecordAt(file', i) = acked'[i]
    BY <2>2, <2>4, Zenon
  <2>6. QED
    BY <2>1, <2>2, <2>3, <2>4, <2>5, Zenon DEF FileInv
<1>4. DupInv'
  BY <1>1, CopyKept DEF IInv
<1>5. \A q \in Callers : CallerInv(q)'
  BY <1>1
<1>6. QED
  BY <1>2, <1>3, <1>4, <1>5 DEF IInv

\* What a caller that is not yet done knows of the file
LEMMA FileFacts ==
    ASSUME IInv, Exclusive, NEW p \in Callers, pc[p] \notin {"idle", "return"}
    PROVE  /\ Whole(file, Len(acked)) /\ file \in Seq(Byte)
           /\ ptr = 16 + 2 * Len(acked) /\ ptr \in Nat /\ Len(acked) \in Nat
           /\ ptr <= Len(file)
           /\ pc[p] \in Before => Len(file) = ptr
           /\ \A i \in 1..Len(acked) : RecordAt(file, i) = acked[i] /\ acked[i] \in Records
<1>1. \A q \in Callers : q # p => pc[q] = "idle"
  BY Zenon DEF Exclusive
<1>2. Whole(file, Len(acked)) /\ (pc[p] \in Before => Len(file) = ptr)
  <2>1. \A q \in Callers : pc[q] # "return"
    BY <1>1, Zenon
  <2>2. pc[p] \in Before => \A q \in Callers : pc[q] \in Before
    BY <1>1, Zenon DEF Before
  <2>3. QED
    BY <2>1, <2>2, Zenon DEF IInv, FileInv
<1>3. acked \in Seq(Records) /\ ptr = HeaderSize + 2 * Len(acked)
      /\ \A i \in 1..Len(acked) : RecordAt(file, i) = acked[i]
  BY Zenon DEF IInv, TypeInv, FileInv
<1>4. ptr = 16 + 2 * Len(acked) /\ ptr \in Nat /\ Len(acked) \in Nat
  BY <1>3 DEF HeaderSize
<1>5. file \in Seq(Byte) /\ ptr <= Len(file)
  BY <1>2, <1>3 DEF Whole, Shaped
<1>6. \A i \in 1..Len(acked) : acked[i] \in Records
  BY <1>3, ElementOfSeq
<1>7. QED
  BY <1>2, <1>3, <1>4, <1>5, <1>6

LEMMA AppendCallStep ==
    ASSUME IInv, NEW p \in Callers, NEW r \in Records, AppendCall(p, r) PROVE IInv'
<1>1. /\ pc[p] = "idle" /\ pc' = [pc EXCEPT ![p] = "seek data"]
      /\ Len(acked) < MaxAppends /\ rec' = [rec EXCEPT ![p] = r]
      /\ file' = file /\ off' = off /\ ptr' = ptr /\ newptr' = newptr /\ seen' = seen
      /\ acked' = acked /\ dup' = dup /\ copy' = copy
  BY Zenon DEF AppendCall, Goto, dupVars
<1>2. pc \in [Callers -> Steps] /\ rec \in [Callers -> Records \cup {NoRecord}] /\ "seek data" \in Steps
  BY Zenon DEF IInv, TypeInv, Steps, Before
<1>3. /\ pc' \in [Callers -> Steps] /\ rec' \in [Callers -> Records \cup {NoRecord}]
      /\ pc'[p] = "seek data" /\ rec'[p] = r
      /\ \A q \in Callers : q # p => pc'[q] = pc[q] /\ rec'[q] = rec[q]
  <2>0. pc \in [Callers -> Steps] /\ rec \in [Callers -> Records \cup {NoRecord}]
    BY <1>2, Zenon
  <2>1. PICK s \in Steps : s = "seek data"
    BY <1>2, Zenon
  <2>2. pc' = [pc EXCEPT ![p] = s] /\ rec' = [rec EXCEPT ![p] = r]
    BY <1>1, <2>1, Zenon
  <2>3. /\ pc' \in [Callers -> Steps] /\ rec' \in [Callers -> Records \cup {NoRecord}]
        /\ pc'[p] = s /\ rec'[p] = r
        /\ \A q \in Callers : q # p => pc'[q] = pc[q] /\ rec'[q] = rec[q]
    BY <2>0, <2>2
  <2>4. QED
    BY <2>1, <2>3, Zenon
<1>4. TypeInv'
  BY <1>1, <1>3, Zenon DEF IInv, TypeInv, Steps
<1>5. FileInv'
  <2>1. \A q \in Callers : pc'[q] # "return" => pc[q] # "return"
    BY <1>1, <1>3, Zenon
  <2>2. \A q \in Callers : pc'[q] \in Before => pc[q] \in Before
    BY <1>1, <1>3, Zenon DEF Before
  <2>3. QED
    BY <1>1, <2>1, <2>2, Zenon DEF IInv, FileInv
<1>6. ASSUME NEW q \in Callers PROVE CallerInv(q)'
  <2>1. CASE q = p
    BY <1>1, <1>3, <2>1, RecordAssumption, Zenon DEF CallerInv, Before, Behind
  <2>2. CASE q # p
    <3>1. CallerInv(q) /\ pc'[q] = pc[q] /\ rec'[q] = rec[q]
      BY <1>3, <2>2, Zenon DEF IInv
    <3>2. QED
      BY <1>1, <3>1, Zenon DEF CallerInv
  <2>3. QED
    BY <2>1, <2>2
<1>7. DupInv'
  BY <1>1, Zenon DEF IInv, DupInv
<1>8. QED
  BY <1>4, <1>5, <1>6, <1>7 DEF IInv

\* The record goes to the end of the file, whose header stays as it is.
LEMMA DataWritten ==
    ASSUME IInv, Exclusive, NEW p \in Callers, WriteData(p)
    PROVE  /\ Added(file, file', ptr, Len(acked), rec[p]) /\ Whole(file', Len(acked))
           /\ off' = ptr + 2 /\ rec[p] \in Records /\ Len(acked) < MaxAppends
           /\ Len(file) = ptr /\ file'[4] = file[4]
           /\ \A s \in {Slot0, Slot1} : SlotOf(file', s) = SlotOf(file, s)
<1>1. /\ pc[p] = "write data" /\ pc' = [pc EXCEPT ![p] = "tell"]
      /\ file' = WriteAt(off, rec[p]) /\ off' = off + Len(rec[p])
      /\ UNCHANGED <<ptr, rec, newptr, seen, acked, dupVars>>
  BY Zenon DEF WriteData, Write, Goto
<1>2. "tell" \in Steps \ Before /\ "write data" \in Before
  BY Zenon DEF Steps, Before
<1>3. /\ Whole(file, Len(acked)) /\ file \in Seq(Byte)
      /\ ptr = 16 + 2 * Len(acked) /\ ptr \in Nat /\ Len(acked) \in Nat /\ Len(file) = ptr
  BY <1>1, <1>2, FileFacts, Zenon
<1>4. off = ptr
  BY <1>1, Zenon DEF IInv, CallerInv
<1>5. pc'[p] = "tell" /\ rec[p] \in Records /\ Len(acked) < MaxAppends
  BY <1>1, <1>2, Moved, Zenon
<1>6. PICK f, g, n, o, r :
        /\ f = file /\ g = file' /\ n = Len(acked) /\ o = ptr /\ r = rec[p]
  OBVIOUS
<1>7. /\ f \in Seq(Byte) /\ n \in Nat /\ o \in Nat /\ o = Len(f) /\ o = 16 + 2 * n
      /\ r \in Records /\ Whole(f, n)
  BY <1>3, <1>5, <1>6
<1>8. r \in Seq(Byte) /\ Len(r) = 2
  BY <1>7, RecordBytes
<1>9. Wrote(f, g, o, r)
  <2>1. o <= Len(file)
    BY <1>6, <1>7
  <2>2. Wrote(file, WriteAt(o, r), o, r)
    BY <1>3, <1>7, <1>8, <2>1, WriteFacts
  <2>3. QED
    BY <1>1, <1>4, <1>6, <2>2, Zenon
<1>10. Added(f, g, o, n, r)
  BY <1>7, <1>9, RecordWritten, Zenon
<1>11. Whole(g, n)
  <2>1. PICK l \in Nat : l = o + 2
    BY <1>7
  <2>2. Len(f) = o /\ Len(g) = l /\ o <= l
    BY <1>7, <1>10, <2>1 DEF Added
  <2>3. QED
    BY <1>7, <1>10, <2>2, WholeKept, Zenon DEF Added
<1>12. \A k \in 1..16 : g[k] = f[k]
  <2>1. \A k \in 1..16 : k \in 1..o
    BY <1>7
  <2>2. QED
    BY <1>10, <2>1, Zenon DEF Added
<1>13. ASSUME NEW s \in {Slot0, Slot1} PROVE SlotOf(g, s) = SlotOf(f, s)
  <2>1. \A j \in 1..6 : s + j \in 1..16
    BY DEF Slot0, Slot1
  <2>2. QED
    BY <1>12, <2>1, SameSlot
<1>14. g[4] = f[4] /\ off' = ptr + 2
  <2>1. off' = ptr + 2
    BY <1>1, <1>4, <1>6, <1>8, Zenon
  <2>2. 4 \in 1..16
    OBVIOUS
  <2>3. QED
    BY <1>12, <2>1, <2>2, Zenon
<1>15. QED
  BY <1>3, <1>5, <1>6, <1>10, <1>11, <1>13, <1>14, Zenon

LEMMA WriteDataStep ==
    ASSUME IInv, Exclusive, NEW p \in Callers, WriteData(p) PROVE IInv'
<1>1. /\ pc[p] = "write data" /\ pc' = [pc EXCEPT ![p] = "tell"]
      /\ UNCHANGED <<ptr, rec, newptr, seen, acked, dupVars>>
  BY Zenon DEF WriteData, Write, Goto
<1>2. "tell" \in Steps \ Before
  BY Zenon DEF Steps, Before
<1>3. /\ Len(file') = ptr + 2 /\ off' = ptr + 2 /\ Whole(file', Len(acked))
      /\ RecordAt(file', Len(acked) + 1) = rec[p]
      /\ \A i \in 1..Len(acked) : RecordAt(file', i) = RecordAt(file, i)
      /\ rec[p] \in Records /\ Len(acked) < MaxAppends
  BY DataWritten, Zenon DEF Added
<1>4. pc'[p] = "tell"
  BY <1>1, <1>2, Moved, Zenon
<1>5. CallerInv(p)'
  <2>1. off' = ptr' + 2 /\ Len(file') = ptr' + 2 /\ RecordAt(file', Len(acked') + 1) = rec'[p]
    BY <1>1, <1>3, Zenon
  <2>2. rec'[p] # NoRecord /\ Len(acked') < MaxAppends
    BY <1>1, <1>3, RecordAssumption, Zenon
  <2>3. QED
    BY <1>4, <2>1, <2>2, Zenon DEF CallerInv, Before, Behind
<1>6. newptr' = newptr /\ seen' \in [Callers -> Nat]
  BY <1>1, Zenon DEF IInv, TypeInv
<1>7. QED
  BY <1>1, <1>2, <1>3, <1>5, <1>6, LoudStep, Zenon

LEMMA Within == \A n \in Int : \A i \in 1..n : i \in 1..(n + 1)
OBVIOUS

\* The length goes to the spare slot.
LEMMA SlotBytesWritten ==
    ASSUME IInv, Exclusive, NEW p \in Callers, WriteSlot(p)
    PROVE  /\ Whole(file', Len(acked)) /\ file'[4] = file[4] /\ seen[p] = file[4]
           /\ Len(file') = ptr + 2 /\ newptr[p] = ptr + 2
           /\ Spare(file') = Spare(file) /\ SlotOf(file', Spare(file)) = newptr[p]
           /\ \A s \in {Slot0, Slot1} \ {Spare(file)} : SlotOf(file', s) = SlotOf(file, s)
           /\ \A i \in 1..(Len(acked) + 1) : RecordAt(file', i) = RecordAt(file, i)
           /\ RecordAt(file', Len(acked) + 1) = rec[p]
           /\ rec[p] \in Records /\ Len(acked) < MaxAppends
<1>1. /\ pc[p] = "write slot" /\ pc' = [pc EXCEPT ![p] = "seek flag"]
      /\ file' = WriteAt(off, SlotBytes(newptr[p]))
      /\ UNCHANGED <<ptr, rec, newptr, seen, acked, dupVars>>
  BY Zenon DEF WriteSlot, Write, Goto
<1>2. "seek flag" \in Steps \ Before /\ "write slot" \notin Before /\ "write slot" \in Behind
  BY Zenon DEF Steps, Before, Behind
<1>3. /\ Whole(file, Len(acked)) /\ file \in Seq(Byte)
      /\ ptr = 16 + 2 * Len(acked) /\ ptr \in Nat /\ Len(acked) \in Nat
  BY <1>1, <1>2, FileFacts, Zenon
<1>4. /\ newptr[p] = ptr + 2 /\ Len(file) = ptr + 2 /\ seen[p] = file[4] /\ off = Spare(file)
      /\ RecordAt(file, Len(acked) + 1) = rec[p]
  BY <1>1, <1>2, Zenon DEF IInv, CallerInv
<1>5. pc'[p] = "seek flag" /\ rec[p] \in Records /\ Len(acked) < MaxAppends
  BY <1>1, <1>2, Moved, Zenon
<1>6. PICK f, g, n, o, w :
        f = file /\ g = file' /\ n = Len(acked) /\ o = Spare(file) /\ w = newptr[p]
  OBVIOUS
<1>7. /\ f \in Seq(Byte) /\ n \in Nat /\ w = 18 + 2 * n /\ n < MaxAppends /\ Whole(f, n) /\ Len(f) = w
      /\ o = Spare(f)
  <2>1. /\ f \in Seq(Byte) /\ n \in Nat /\ Whole(f, n) /\ Len(f) = w /\ o = Spare(f)
        /\ w = ptr + 2 /\ ptr = 16 + 2 * n /\ n < MaxAppends
    BY <1>3, <1>4, <1>5, <1>6, Zenon
  <2>2. QED
    BY <2>1
<1>8. w \in Nat /\ w < TooLong
  <2>1. MaxAppends \in Nat
    BY SharedFileAssumption
  <2>2. 16 + 2 * MaxAppends < TooLong
    BY LengthAssumption DEF HeaderSize, RecordSize
  <2>3. TooLong \in Nat
    BY SMT DEF TooLong
  <2>4. QED
    BY <1>7, <2>1, <2>2, <2>3
<1>9. Wrote(f, g, o, SlotBytes(w))
  <2>1. o \in Nat /\ o <= Len(file)
    BY <1>6, <1>7 DEF Spare, Slot0, Slot1
  <2>2. SlotBytes(w) \in Seq(Byte)
    BY <1>8, SlotLength
  <2>3. Wrote(file, WriteAt(o, SlotBytes(w)), o, SlotBytes(w))
    BY <1>3, <2>1, <2>2, WriteFacts, Zenon
  <2>4. QED
    BY <1>1, <1>4, <1>6, <2>3, Zenon
<1>10. /\ Whole(g, n) /\ SameLog(f, g)
       /\ Spare(g) = Spare(f) /\ SlotOf(g, Spare(f)) = w /\ g[4] = f[4]
       /\ \A s \in {Slot0, Slot1} \ {Spare(f)} : SlotOf(g, s) = SlotOf(f, s)
  <2>1. Wrote(f, g, Spare(f), SlotBytes(w))
    BY <1>7, <1>9, Zenon
  <2>2. QED
    BY <1>7, <1>8, <2>1, SlotKeeps
<1>11. Len(g) = Len(f) /\ \A i \in 1..(n + 1) : RecordAt(g, i) = RecordAt(f, i)
  <2>1. \A i \in 1..(n + 1) : i \in Nat \ {0} /\ HeaderSize + 2 * i <= Len(f)
    BY <1>7 DEF HeaderSize
  <2>2. QED
    BY <1>10, <2>1, Zenon DEF SameLog
<1>12. n + 1 \in 1..(n + 1)
  BY <1>7
<1>13. RecordAt(g, n + 1) = rec[p] /\ Len(g) = ptr + 2
  BY <1>4, <1>6, <1>11, <1>12, Zenon
<1>14. QED
  BY <1>4, <1>5, <1>6, <1>10, <1>11, <1>13, Zenon

LEMMA WriteSlotStep ==
    ASSUME IInv, Exclusive, NEW p \in Callers, WriteSlot(p) PROVE IInv'
<1>1. /\ pc[p] = "write slot" /\ pc' = [pc EXCEPT ![p] = "seek flag"]
      /\ UNCHANGED <<ptr, rec, newptr, seen, acked, dupVars>>
  BY Zenon DEF WriteSlot, Write, Goto
<1>2. "seek flag" \in Steps \ Before
  BY Zenon DEF Steps, Before, Behind
<1>3. /\ Whole(file', Len(acked)) /\ file'[4] = file[4] /\ seen[p] = file[4]
      /\ Len(file') = ptr + 2 /\ newptr[p] = ptr + 2
      /\ Spare(file') = Spare(file) /\ SlotOf(file', Spare(file)) = newptr[p]
      /\ \A i \in 1..(Len(acked) + 1) : RecordAt(file', i) = RecordAt(file, i)
      /\ RecordAt(file', Len(acked) + 1) = rec[p]
      /\ rec[p] \in Records /\ Len(acked) < MaxAppends
  BY SlotBytesWritten, Zenon
<1>4. pc'[p] = "seek flag"
  BY <1>1, <1>2, Moved, Zenon
<1>5. CallerInv(p)'
  <2>1. /\ Len(file') = ptr' + 2 /\ newptr'[p] = ptr' + 2 /\ seen'[p] = file'[4]
        /\ RecordAt(file', Len(acked') + 1) = rec'[p] /\ SlotOf(file', Spare(file')) = newptr'[p]
    BY <1>1, <1>3, Zenon
  <2>2. rec'[p] # NoRecord /\ Len(acked') < MaxAppends
    BY <1>1, <1>3, RecordAssumption, Zenon
  <2>3. QED
    BY <1>4, <2>1, <2>2, Zenon DEF CallerInv, Before, Behind
<1>6. newptr' = newptr /\ seen' \in [Callers -> Nat]
  BY <1>1, Zenon DEF IInv, TypeInv
<1>7. \A i \in 1..Len(acked) : RecordAt(file', i) = RecordAt(file, i)
  BY <1>3, Within
<1>8. QED
  BY <1>1, <1>2, <1>3, <1>5, <1>6, <1>7, LoudStep, Zenon

\* The flag turns to the slot that has just been written.
LEMMA FlagByteWritten ==
    ASSUME IInv, Exclusive, NEW p \in Callers, WriteFlag(p)
    PROVE  /\ Whole(file', Len(acked) + 1) /\ file'[4] = 1 - file[4]
           /\ seen[p] = file[4] /\ seen[p] = 1 - file'[4]
           /\ Len(file') = ptr + 2 /\ newptr[p] = ptr + 2
           /\ \A s \in {Slot0, Slot1} : SlotOf(file', s) = SlotOf(file, s)
           /\ \A i \in 1..(Len(acked) + 1) : RecordAt(file', i) = RecordAt(file, i)
           /\ RecordAt(file', Len(acked) + 1) = rec[p]
           /\ rec[p] \in Records /\ Len(acked) < MaxAppends
<1>1. /\ pc[p] = "write flag" /\ pc' = [pc EXCEPT ![p] = "return"]
      /\ file' = WriteAt(off, <<IF seen[p] = 0 THEN 1 ELSE 0>>)
      /\ UNCHANGED <<ptr, rec, newptr, seen, acked, dupVars>>
  BY Zenon DEF WriteFlag, Write, Goto
<1>2. "return" \in Steps \ Before /\ "write flag" \notin Before /\ "write flag" \in Behind
  BY Zenon DEF Steps, Before, Behind
<1>3. /\ Whole(file, Len(acked)) /\ file \in Seq(Byte)
      /\ ptr = 16 + 2 * Len(acked) /\ ptr \in Nat /\ Len(acked) \in Nat
  BY <1>1, <1>2, FileFacts, Zenon
<1>4. /\ newptr[p] = ptr + 2 /\ Len(file) = ptr + 2 /\ seen[p] = file[4] /\ off = 3
      /\ SlotOf(file, Spare(file)) = newptr[p]
      /\ RecordAt(file, Len(acked) + 1) = rec[p]
  BY <1>1, <1>2, Zenon DEF IInv, CallerInv
<1>5. pc'[p] = "return" /\ rec[p] \in Records /\ Len(acked) < MaxAppends
  BY <1>1, <1>2, Moved, Zenon
<1>6. PICK f, g, n, b :
        f = file /\ g = file' /\ n = Len(acked) /\ b = IF seen[p] = 0 THEN 1 ELSE 0
  OBVIOUS
<1>7. /\ f \in Seq(Byte) /\ n \in Nat /\ Len(f) = 18 + 2 * n /\ Whole(f, n)
      /\ SlotOf(f, Spare(f)) = 18 + 2 * n
  BY <1>3, <1>4, <1>6
<1>8. f[4] \in {0, 1}
  BY <1>7, Zenon DEF Whole, Shaped
<1>9. b = 1 - f[4] /\ b \in Byte /\ f[4] = 1 - b
  BY <1>4, <1>6, <1>8 DEF Byte
<1>10. Wrote(f, g, 3, <<b>>)
  <2>1. 3 \in Nat /\ 3 <= Len(file) /\ <<b>> \in Seq(Byte)
    BY <1>6, <1>7, <1>9
  <2>2. PICK o \in Nat, w \in Seq(Byte) : o = 3 /\ w = <<b>> /\ o <= Len(file)
    BY <2>1
  <2>3. Wrote(file, WriteAt(o, w), o, w)
    BY <1>3, <2>2, WriteFacts, Zenon
  <2>4. QED
    BY <1>1, <1>4, <1>6, <2>2, <2>3, Zenon
<1>11. /\ Whole(g, n + 1) /\ SameLog(f, g) /\ g[4] = b
       /\ \A s \in {Slot0, Slot1} : SlotOf(g, s) = SlotOf(f, s)
  <2>1. /\ SlotOf(f, Spare(f)) = HeaderSize + 2 * (n + 1) /\ HeaderSize + 2 * (n + 1) <= Len(f)
    BY <1>7 DEF HeaderSize
  <2>2. RecordAt(f, n + 1) \in Records
    BY <1>4, <1>5, <1>6, Zenon
  <2>3. QED
    BY <1>7, <1>9, <1>10, <2>1, <2>2, FlagTurns, Zenon
<1>12. Len(g) = Len(f) /\ \A i \in 1..(n + 1) : RecordAt(g, i) = RecordAt(f, i)
  <2>1. \A i \in 1..(n + 1) : i \in Nat \ {0} /\ HeaderSize + 2 * i <= Len(f)
    BY <1>7 DEF HeaderSize
  <2>2. QED
    BY <1>11, <2>1, Zenon DEF SameLog
<1>13. n + 1 \in 1..(n + 1)
  BY <1>7
<1>14. RecordAt(g, n + 1) = rec[p] /\ Len(g) = ptr + 2
  BY <1>4, <1>6, <1>12, <1>13, Zenon
<1>15. g[4] = 1 - f[4] /\ seen[p] = 1 - g[4]
  BY <1>4, <1>6, <1>9, <1>11, Zenon
<1>16. QED
  BY <1>4, <1>5, <1>6, <1>11, <1>12, <1>14, <1>15, Zenon

LEMMA WriteFlagStep ==
    ASSUME IInv, Exclusive, NEW p \in Callers, WriteFlag(p) PROVE IInv'
<1>1. /\ pc[p] = "write flag" /\ pc' = [pc EXCEPT ![p] = "return"]
      /\ UNCHANGED <<ptr, rec, newptr, seen, acked, dupVars>>
  BY Zenon DEF WriteFlag, Write, Goto
<1>2. "return" \in Steps \ Before
  BY Zenon DEF Steps, Before
<1>3. /\ Whole(file', Len(acked) + 1) /\ seen[p] = 1 - file'[4]
      /\ Len(file') = ptr + 2 /\ newptr[p] = ptr + 2
      /\ \A i \in 1..(Len(acked) + 1) : RecordAt(file', i) = RecordAt(file, i)
      /\ RecordAt(file', Len(acked) + 1) = rec[p]
      /\ rec[p] \in Records /\ Len(acked) < MaxAppends
  BY FlagByteWritten, Zenon
<1>4. pc'[p] = "return"
  BY <1>1, <1>2, Moved, Zenon
<1>5. CallerInv(p)'
  <2>1. /\ Len(file') = ptr' + 2 /\ newptr'[p] = ptr' + 2 /\ seen'[p] = 1 - file'[4]
        /\ RecordAt(file', Len(acked') + 1) = rec'[p] /\ Whole(file', Len(acked') + 1)
    BY <1>1, <1>3, Zenon
  <2>2. rec'[p] # NoRecord /\ Len(acked') < MaxAppends
    BY <1>1, <1>3, RecordAssumption, Zenon
  <2>3. QED
    BY <1>4, <2>1, <2>2, Zenon DEF CallerInv, Before, Behind
<1>6. newptr' = newptr /\ seen' \in [Callers -> Nat]
  BY <1>1, Zenon DEF IInv, TypeInv
<1>7. \A i \in 1..Len(acked) : RecordAt(file', i) = RecordAt(file, i)
  BY <1>3, Within
<1>8. QED
  BY <1>1, <1>2, <1>5, <1>6, <1>7, LoudStep, Zenon

LEMMA ReturnNilStep ==
    ASSUME IInv, Exclusive, NEW p \in Callers, ReturnNil(p) PROVE IInv'
<1>1. /\ pc[p] = "return" /\ pc' = [pc EXCEPT ![p] = "idle"]
      /\ ptr' = newptr[p] /\ acked' = Append(acked, rec[p])
      /\ rec' = [rec EXCEPT ![p] = NoRecord]
      /\ file' = file /\ off' = off /\ newptr' = newptr /\ seen' = seen
      /\ dup' = dup /\ copy' = copy
  BY Zenon DEF ReturnNil, Goto, dupVars
<1>2. "idle" \in Steps /\ "return" \notin Before
  BY Zenon DEF Steps, Before
<1>3. rec \in [Callers -> Records \cup {NoRecord}] /\ acked \in Seq(Records)
  BY Zenon DEF IInv, TypeInv
<1>4. /\ rec' \in [Callers -> Records \cup {NoRecord}] /\ rec'[p] = NoRecord
      /\ \A q \in Callers : q # p => rec'[q] = rec[q]
  <2>1. rec' = [rec EXCEPT ![p] = NoRecord]
    BY <1>1, Zenon
  <2>2. QED
    BY <1>3, <2>1
<1>5. /\ pc'[p] = "idle" /\ pc' \in [Callers -> Steps]
      /\ \A q \in Callers : q # p => pc'[q] = "idle" /\ CallerInv(q)'
      /\ dup = "idle" /\ rec[p] \in Records /\ Len(acked) < MaxAppends
  BY <1>1, <1>2, <1>4, Moved, Zenon
<1>6. /\ newptr[p] = ptr + 2 /\ Len(file) = ptr + 2 /\ Whole(file, Len(acked) + 1)
      /\ RecordAt(file, Len(acked) + 1) = rec[p]
  BY <1>1, <1>2, Zenon DEF IInv, CallerInv
<1>7. ptr = 16 + 2 * Len(acked) /\ \A i \in 1..Len(acked) : RecordAt(file, i) = acked[i]
  BY DEF IInv, FileInv, HeaderSize
<1>8. PICK n, r : n = Len(acked) /\ r = rec[p]
  OBVIOUS
<1>9. /\ n \in Nat /\ acked' \in Seq(Records) /\ Len(acked') = n + 1 /\ acked'[n + 1] = r
      /\ \A i \in 1..n : acked'[i] = acked[i]
  <2>1. r \in Records /\ acked' = Append(acked, r)
    BY <1>1, <1>5, <1>8, Zenon
  <2>2. QED
    BY <1>3, <1>8, <2>1
<1>10. TypeInv'
  <2>1. Len(acked') <= MaxAppends
    BY <1>5, <1>8, <1>9, SharedFileAssumption
  <2>2. QED
    BY <1>1, <1>4, <1>5, <1>9, <2>1, Zenon DEF IInv, TypeInv, Steps
<1>11. FileInv'
  <2>1. ptr' = HeaderSize + 2 * Len(acked') /\ Len(file') = ptr'
    BY <1>1, <1>6, <1>7, <1>8, <1>9 DEF HeaderSize
  <2>2. \A i \in 1..(n + 1) : i \in 1..n \/ i = n + 1
    BY <1>9
  <2>3. \A i \in 1..Len(acked') : RecordAt(file', i) = acked'[i]
    BY <1>1, <1>6, <1>7, <1>8, <1>9, <2>2, Zenon
  <2>4. Whole(file', Len(acked'))
    BY <1>1, <1>6, <1>8, <1>9, Zenon
  <2>5. QED
    BY <2>1, <2>3, <2>4, Zenon DEF FileInv
<1>12. CallerInv(p)'
  BY <1>4, <1>5, Zenon DEF CallerInv, Before, Behind
<1>13. DupInv'
  <2>1. ASSUME copy # <<>>
        PROVE  \E k \in 0..Len(acked') : Whole(copy, k) /\ \A i \in 1..k : RecordAt(copy, i) = acked'[i]
    <3>1. PICK k \in 0..Len(acked) : Whole(copy, k) /\ \A i \in 1..k : RecordAt(copy, i) = acked[i]
      BY <1>5, <2>1, Zenon DEF IInv, DupInv
    <3>2. k \in 0..Len(acked') /\ \A i \in 1..k : i \in 1..n
      BY <1>8, <1>9
    <3>3. \A i \in 1..k : RecordAt(copy, i) = acked'[i]
      BY <1>9, <3>1, <3>2, Zenon
    <3>4. QED
      BY <3>1, <3>2, <3>3
  <2>2. QED
    BY <1>1, <1>5, <2>1, Zenon DEF DupInv
<1>14. QED
  BY <1>5, <1>10, <1>11, <1>12, <1>13, Zenon DEF IInv

----------------------------------------------------------------------------
(* The steps of Dup.  No append runs beside it.                            *)

LEMMA Middle ==
    ASSUME NEW f \in Seq(Byte), NEW o \in Nat, NEW e \in Nat, o < e, e <= Len(f)
    PROVE  LET s == SubSeq(f, o + 1, e)
           IN  s \in Seq(Byte) /\ Len(s) = e - o /\ \A j \in 1..(e - o) : s[j] = f[o + j]
<1>1. PICK m \in Nat : m = o + 1
  OBVIOUS
<1>2. m \in Int /\ e \in Int /\ \A k \in m..e : k \in 1..Len(f)
  BY <1>1
<1>3. \A k \in m..e : f[k] \in Byte
  BY <1>2, ElementOfSeq
<1>4. PICK s : s = SubSeq(f, m, e)
  OBVIOUS
<1>5. s \in Seq(Byte) /\ Len(s) = (IF m <= e THEN e - m + 1 ELSE 0)
      /\ \A j \in 1..(e - m + 1) : s[j] = f[m + j - 1]
  BY <1>2, <1>3, <1>4, SubSeqProperties
<1>6. e - m + 1 = e - o /\ m <= e /\ \A j \in 1..(e - o) : m + j - 1 = o + j
  BY <1>1
<1>7. s \in Seq(Byte) /\ Len(s) = e - o /\ \A j \in 1..(e - o) : s[j] = f[o + j]
  BY <1>5, <1>6
<1>8. QED
  BY <1>1, <1>4, <1>7

\* The first o bytes of f
Copied(f, c, o) ==
    c \in Seq(Byte) /\ Len(c) = o /\ \A k \in 1..o : c[k] = f[k]

LEMMA CopyGrows ==
    ASSUME NEW f \in Seq(Byte), NEW o \in Nat, NEW e \in Nat, o < e, e <= Len(f),
           NEW c, Copied(f, c, o)
    PROVE  Copied(f, c \o SubSeq(f, o + 1, e), e)
<1>0. PICK d : d = c \o SubSeq(f, o + 1, e)
  OBVIOUS
<1>c. c \in Seq(Byte) /\ Len(c) = o /\ \A k \in 1..o : c[k] = f[k]
  BY DEF Copied
<1>1. PICK s : s = SubSeq(f, o + 1, e)
  OBVIOUS
<1>2. s \in Seq(Byte) /\ Len(s) = e - o /\ \A j \in 1..(e - o) : s[j] = f[o + j]
  BY <1>1, Middle
<1>3. d = c \o s
  BY <1>0, <1>1
<1>4. /\ d \in Seq(Byte) /\ Len(d) = Len(c) + Len(s)
      /\ \A k \in 1..(Len(c) + Len(s)) : d[k] = IF k <= Len(c) THEN c[k] ELSE s[k - Len(c)]
  <2>1. s \in Seq(Byte)
    BY <1>2, Zenon
  <2>2. /\ c \o s \in Seq(Byte) /\ Len(c \o s) = Len(c) + Len(s)
        /\ \A k \in 1..(Len(c) + Len(s)) : (c \o s)[k] = IF k <= Len(c) THEN c[k] ELSE s[k - Len(c)]
    BY <1>c, <2>1, ConcatProperties
  <2>3. QED
    BY <1>3, <2>2, Zenon
<1>5. Len(c) + Len(s) = e
  <2>1. Len(s) = e - o
    BY <1>2, Zenon
  <2>2. QED
    BY <1>c, <2>1
<1>6. ASSUME NEW k \in 1..e PROVE d[k] = f[k]
  <2>1. d[k] = IF k <= o THEN c[k] ELSE s[k - o]
    BY <1>4, <1>5, <1>c
  <2>2. CASE k <= o
    <3>1. k \in 1..o
      BY <2>2
    <3>2. QED
      BY <1>c, <2>1, <2>2, <3>1, Zenon
  <2>3. CASE ~ (k <= o)
    <3>1. k - o \in 1..(e - o) /\ o + (k - o) = k
      BY <2>3
    <3>2. s[k - o] = f[o + (k - o)]
      BY <1>2, <3>1, Zenon
    <3>3. QED
      BY <2>1, <2>3, <3>1, <3>2, Zenon
  <2>4. QED
    BY <2>2, <2>3
<1>7. Copied(f, d, e)
  BY <1>4, <1>5, <1>6 DEF Copied
<1>8. QED
  BY <1>0, <1>7

\* A step of Dup leaves append where it was.
LEMMA IdleStep ==
    ASSUME IInv, UNCHANGED <<file, ptr, appendVars>>, dup' \in {"idle", "seek", "copy"},
           off' = off \/ \A p \in Callers : pc[p] = "idle",
           DupInv'
    PROVE  IInv'
<1>1. /\ file' = file /\ ptr' = ptr /\ pc' = pc /\ rec' = rec /\ newptr' = newptr
      /\ seen' = seen /\ acked' = acked
  BY Zenon DEF appendVars
<1>2. TypeInv'
  BY <1>1, Zenon DEF IInv, TypeInv
<1>3. FileInv'
  BY <1>1, Zenon DEF IInv, FileInv
<1>4. ASSUME NEW p \in Callers PROVE CallerInv(p)'
  <2>1. CallerInv(p)
    BY Zenon DEF IInv
  <2>2. CASE off' = off
    BY <1>1, <2>1, <2>2, Zenon DEF CallerInv
  <2>3. CASE pc[p] = "idle"
    BY <1>1, <2>1, <2>3, Zenon DEF CallerInv, Before, Behind
  <2>4. QED
    BY <2>2, <2>3
<1>5. QED
  BY <1>2, <1>3, <1>4, Zenon DEF IInv

LEMMA DupSteps ==
    ASSUME IInv, Exclusive, DupCall \/ DupStep PROVE IInv'
<1>1. CASE DupCall
  <2>1. /\ UNCHANGED <<file, ptr, appendVars>> /\ off' = off
        /\ dup' = "seek" /\ copy' = <<>>
    BY <1>1, Zenon DEF DupCall
  <2>2. DupInv'
    BY <2>1, Zenon DEF DupInv
  <2>3. QED
    BY <2>1, <2>2, IdleStep, Zenon
<1>2. CASE DupSeek
  <2>1. /\ UNCHANGED <<file, ptr, appendVars>> /\ off' = 0 /\ file' = file
        /\ dup = "seek" /\ dup' = "copy" /\ copy' = copy
    BY <1>2, Zenon DEF DupSeek
  <2>2. \A p \in Callers : pc[p] = "idle"
    BY <2>1, Zenon DEF Exclusive
  <2>3. copy' = <<>>
    BY <2>1, Zenon DEF IInv, DupInv
  <2>4. file \in Seq(Byte)
    BY <2>2, Zenon DEF IInv, FileInv, Whole, Shaped
  <2>5. /\ copy' \in Seq(Byte) /\ Len(copy') = off' /\ off' <= Len(file')
        /\ \A k \in 1..off' : copy'[k] = file'[k]
    BY <2>1, <2>3, <2>4
  <2>6. DupInv'
    BY <2>1, <2>5, Zenon DEF DupInv
  <2>7. QED
    BY <2>1, <2>2, <2>6, IdleStep, Zenon
<1>3. CASE DupCopy
  <2>1. /\ UNCHANGED <<file, ptr, appendVars>> /\ file' = file
        /\ dup = "copy" /\ dup' = "copy" /\ off < Len(file)
        /\ copy' = copy \o SubSeq(file, off + 1, Min({off + Chunk, Len(file)}))
        /\ off' = Min({off + Chunk, Len(file)})
    BY <1>3, Zenon DEF DupCopy
  <2>2. \A p \in Callers : pc[p] = "idle"
    BY <2>1, Zenon DEF Exclusive
  <2>3. file \in Seq(Byte)
    BY <2>2, Zenon DEF IInv, FileInv, Whole, Shaped
  <2>4. copy \in Seq(Byte) /\ Len(copy) = off /\ \A k \in 1..off : copy[k] = file[k]
    BY <2>1, Zenon DEF IInv, DupInv
  <2>5. /\ copy' \in Seq(Byte) /\ Len(copy') = off' /\ off' <= Len(file')
        /\ \A k \in 1..off' : copy'[k] = file'[k]
    <3>1. PICK f, c, o, e : f = file /\ c = copy /\ o = off /\ e = Min({o + Chunk, Len(f)})
      OBVIOUS
    <3>2. /\ f \in Seq(Byte) /\ c \in Seq(Byte) /\ Len(c) = o /\ o < Len(f)
          /\ \A k \in 1..o : c[k] = f[k]
      BY <2>1, <2>3, <2>4, <3>1, Zenon
    <3>3. o \in Nat /\ e \in Nat /\ o = Len(c) /\ o < e /\ e <= Len(f)
      <4>1. o \in Nat /\ Len(f) \in Nat
        BY <3>2
      <4>2. o + Chunk \in Int /\ Chunk \in Nat \ {0}
        BY <4>1, SharedFileAssumption
      <4>3. e = IF o + Chunk <= Len(f) THEN o + Chunk ELSE Len(f)
        BY <3>1, <4>1, <4>2, MinTwo
      <4>4. QED
        BY <3>2, <4>1, <4>2, <4>3
    <3>4. Copied(f, c, o)
      BY <3>2, Zenon DEF Copied
    <3>5. Copied(f, c \o SubSeq(f, o + 1, e), e)
      BY <3>2, <3>3, <3>4, CopyGrows
    <3>6. Copied(f, copy', e) /\ off' = e /\ file' = f
      BY <2>1, <3>1, <3>5, Zenon
    <3>7. QED
      BY <3>3, <3>6, Zenon DEF Copied
  <2>6. DupInv'
    BY <2>1, <2>5, Zenon DEF DupInv
  <2>7. QED
    BY <2>1, <2>2, <2>6, IdleStep, Zenon
<1>4. CASE DupReturn
  <2>1. /\ UNCHANGED <<file, ptr, appendVars>> /\ off' = off /\ file' = file /\ acked' = acked
        /\ dup = "copy" /\ dup' = "idle" /\ copy' = copy /\ off = Len(file)
    BY <1>4, Zenon DEF DupReturn, appendVars
  <2>2. \A p \in Callers : pc[p] = "idle"
    BY <2>1, Zenon DEF Exclusive
  <2>3. /\ Whole(file, Len(acked)) /\ file \in Seq(Byte)
        /\ \A i \in 1..Len(acked) : RecordAt(file, i) = acked[i]
    BY <2>2, Zenon DEF IInv, FileInv, Whole, Shaped
  <2>4. copy \in Seq(Byte) /\ Len(copy) = off /\ \A k \in 1..off : copy[k] = file[k]
    BY <2>1, Zenon DEF IInv, DupInv
  <2>5. copy = file
    BY <2>1, <2>3, <2>4, SeqEqual, Zenon
  <2>6. Len(acked) \in 0..Len(acked)
    BY DEF IInv, TypeInv
  <2>7. DupInv'
    BY <2>1, <2>3, <2>5, <2>6, Zenon DEF DupInv
  <2>8. QED
    BY <2>1, <2>7, IdleStep, Zenon
<1>5. QED
  BY <1>1, <1>2, <1>3, <1>4 DEF DupStep

LEMMA SharedStep ==
    ASSUME IInv, Exclusive, [Next]_vars PROVE IInv'
<1>1. ASSUME NEW p \in Callers, AppendStep(p) PROVE IInv'
  BY <1>1, SeekDataStep, WriteDataStep, TellStep, SeekHeaderStep, ReadHeaderStep, SeekSlotStep,
     WriteSlotStep, SeekFlagStep, WriteFlagStep, ReturnNilStep, Zenon DEF AppendStep
<1>2. CASE UNCHANGED vars
  <2>1. UNCHANGED <<file, ptr, appendVars>> /\ off' = off /\ UNCHANGED dupVars /\ acked' = acked /\ file' = file
    BY <1>2, Zenon DEF vars, appendVars
  <2>2. dup' = dup /\ copy' = copy
    BY <2>1, Zenon DEF dupVars
  <2>3. DupInv'
    BY <2>1, <2>2, Zenon DEF IInv, DupInv
  <2>4. dup' \in {"idle", "seek", "copy"}
    BY <2>2, Zenon DEF IInv, TypeInv
  <2>5. QED
    BY <2>1, <2>3, <2>4, IdleStep, Zenon
<1>3. QED
  BY <1>1, <1>2, AppendCallStep, DupSteps, Zenon DEF Next

\* Every step of a run whose appends and copies exclude each other keeps
\* the invariant: the file is whole, and each caller is where it was.
THEOREM SharedInvariant == Spec /\ []Exclusive => []IInv
<1>1. Init => IInv
  BY SharedInit
<1>2. IInv /\ Exclusive /\ [Next]_vars => IInv'
  BY SharedStep
<1>3. QED
  BY <1>1, <1>2, PTL DEF Spec

LEMMA AcksLoad ==
    ASSUME IInv PROVE AckedLoads
<1>1. /\ acked \in Seq(Records) /\ \A i \in 1..Len(acked) : RecordAt(file, i) = acked[i]
      /\ Len(acked) \in Nat
  <2>1. acked \in Seq(Records) /\ \A i \in 1..Len(acked) : RecordAt(file, i) = acked[i]
    BY Zenon DEF IInv, TypeInv, FileInv
  <2>2. QED
    BY <2>1
<1>2. PICK n \in Nat : /\ Whole(file, n)
                       /\ n = Len(acked) \/ n = Len(acked) + 1
  <2>1. CASE \A p \in Callers : pc[p] # "return"
    BY <1>1, <2>1, Zenon DEF IInv, FileInv
  <2>2. CASE \E p \in Callers : pc[p] = "return"
    <3>1. Whole(file, Len(acked) + 1)
      BY <2>2, Zenon DEF IInv, CallerInv
    <3>2. Len(acked) + 1 \in Nat
      BY <1>1
    <3>3. QED
      BY <3>1, <3>2
  <2>3. QED
    BY <2>1, <2>2
<1>3. Loads(file) /\ Loaded(file) = [i \in 1..n |-> RecordAt(file, i)]
  BY <1>2, WholeLoads
<1>4. PICK t, m : t = Loaded(file) /\ m = Len(acked) /\ m \in Nat
  BY <1>1
<1>5. t = [i \in 1..n |-> RecordAt(file, i)] /\ \A i \in 1..n : RecordAt(file, i) \in Records
  BY <1>2, <1>3, <1>4, Zenon DEF Whole
<1>6. t \in Seq(Records) /\ Len(t) = n /\ \A i \in 1..n : t[i] = RecordAt(file, i)
  BY <1>5
<1>7. n = m \/ n = m + 1
  BY <1>2, <1>4
<1>8. Len(acked) <= Len(t) /\ Len(t) <= Len(acked) + 1 /\ \A i \in 1..m : i \in 1..n
  <2>1. Len(t) = n /\ Len(acked) = m
    BY <1>4, <1>6, Zenon
  <2>2. QED
    BY <1>7, <2>1
<1>9. \A i \in 1..Len(acked) : acked[i] = t[i]
  BY <1>1, <1>4, <1>6, <1>8, Zenon
<1>10. IsPrefix(acked, t)
  BY <1>1, <1>6, <1>8, <1>9, PrefixFacts
<1>11. QED
  BY <1>3, <1>4, <1>8, <1>10, Zenon DEF AckedLoads

LEMMA CopyLoads ==
    ASSUME IInv PROVE SnapshotLoads
<1> SUFFICES ASSUME dup = "idle", copy # <<>> PROVE Loads(copy) /\ IsPrefix(Loaded(copy), acked)
  BY DEF SnapshotLoads
<1>1. PICK n \in 0..Len(acked) : Whole(copy, n) /\ \A i \in 1..n : RecordAt(copy, i) = acked[i]
  BY Zenon DEF IInv, DupInv
<1>2. acked \in Seq(Records)
  BY Zenon DEF IInv, TypeInv
<1>3. PICK m \in Nat : m = Len(acked)
  BY <1>2
<1>4. n \in Nat /\ n <= m
  BY <1>3
<1>5. Loads(copy) /\ Loaded(copy) = [i \in 1..n |-> RecordAt(copy, i)]
  BY <1>1, <1>4, WholeLoads
<1>6. PICK t : t = Loaded(copy)
  OBVIOUS
<1>7. t = [i \in 1..n |-> RecordAt(copy, i)] /\ \A i \in 1..n : RecordAt(copy, i) \in Records
  BY <1>1, <1>5, <1>6, Zenon DEF Whole
<1>8. t \in Seq(Records) /\ Len(t) = n /\ \A i \in 1..n : t[i] = RecordAt(copy, i)
  BY <1>4, <1>7
<1>9. Len(t) <= Len(acked) /\ \A i \in 1..Len(t) : t[i] = acked[i]
  BY <1>1, <1>3, <1>4, <1>8
<1>10. IsPrefix(t, acked)
  BY <1>2, <1>8, <1>9, PrefixFacts
<1>11. QED
  BY <1>5, <1>6, <1>10, Zenon

----------------------------------------------------------------------------
(* What the locks give.                                                    *)

\* When every operation takes store.Lock, as all but UpdateConfig and
\* SetMaxLiveTopics do, one append runs at a time, and none beside a Dup.
THEOREM LocksExclude ==
    ASSUME ConfigCallers = {} PROVE Spec => []Exclusive
<1> DEFINE I == Exclusive /\ pc \in [Callers -> Steps]
<1>1. Init => I
  <2> SUFFICES ASSUME Init PROVE I
    OBVIOUS
  <2>1. pc = [p \in Callers |-> "idle"] /\ dup = "idle"
    BY DEF Init
  <2>2. "idle" \in Steps
    BY Zenon DEF Steps, Before
  <2>3. \A p \in Callers : pc[p] = "idle"
    BY <2>1, Zenon
  <2>4. QED
    BY <2>1, <2>2, <2>3, Zenon DEF Exclusive
<1>2. I /\ [Next]_vars => I'
  <2> SUFFICES ASSUME I, [Next]_vars PROVE I'
    OBVIOUS
  <2>1. ASSUME NEW p \in Callers, AppendStep(p) PROVE I'
    <3>1. PICK s \in Steps : pc' = [pc EXCEPT ![p] = s]
      <4>1. {"seek data", "write data", "tell", "seek header", "read header", "seek slot",
             "write slot", "seek flag", "write flag", "return", "idle"} \subseteq Steps
        BY Zenon DEF Steps, Before, Behind
      <4>2. \E s \in Steps : pc' = [pc EXCEPT ![p] = s]
        BY <2>1, <4>1, Zenon DEF AppendStep, SeekData, WriteData, Tell, SeekHeader, ReadHeader,
           SeekSlot, WriteSlot, SeekFlag, WriteFlag, ReturnNil, Seek, Write, Goto
      <4>3. QED
        BY <4>2
    <3>2. pc[p] # "idle" /\ dup' = dup
      BY <2>1, Zenon DEF AppendStep, SeekData, WriteData, Tell, SeekHeader, ReadHeader,
         SeekSlot, WriteSlot, SeekFlag, WriteFlag, ReturnNil, Seek, Write, Goto, dupVars
    <3>3. pc' \in [Callers -> Steps] /\ \A q \in Callers : q # p => pc'[q] = pc[q]
      BY <3>1
    <3>4. QED
      BY <3>2, <3>3, Zenon DEF Exclusive
  <2>2. ASSUME NEW p \in Callers, NEW r \in Records, AppendCall(p, r) PROVE I'
    <3>1. pc' = [pc EXCEPT ![p] = "seek data"] /\ dup' = dup /\ LockIsFree(p)
      BY <2>2, Zenon DEF AppendCall, Goto, dupVars
    <3>2. dup = "idle" /\ \A q \in Callers : pc[q] = "idle"
      <4>1. Callers = StoreCallers
        BY DEF Callers
      <4>2. p \in StoreCallers /\ p \notin ConfigCallers
        BY <4>1
      <4>3. QED
        BY <3>1, <4>1, <4>2, Zenon DEF LockIsFree
    <3>3. PICK s \in Steps : s = "seek data"
      BY Zenon DEF Steps, Before
    <3>4. pc' = [pc EXCEPT ![p] = s]
      BY <3>1, <3>3, Zenon
    <3>5. pc' \in [Callers -> Steps] /\ \A q \in Callers : q # p => pc'[q] = pc[q]
      BY <3>4
    <3>6. QED
      BY <3>1, <3>2, <3>5, Zenon DEF Exclusive
  <2>3. CASE DupCall
    <3>1. pc' = pc /\ \A q \in Callers : pc[q] = "idle"
      BY <2>3, Zenon DEF DupCall, appendVars, Callers
    <3>2. QED
      BY <3>1, Zenon DEF Exclusive
  <2>4. CASE DupStep \/ UNCHANGED vars
    <3>1. pc' = pc /\ (dup' # "idle" => dup # "idle")
      BY <2>4, Zenon DEF DupStep, DupSeek, DupCopy, DupReturn, vars, appendVars, dupVars
    <3>2. QED
      BY <3>1, Zenon DEF Exclusive
  <2>5. QED
    BY <2>1, <2>2, <2>3, <2>4, Zenon DEF Next
<1>3. QED
  BY <1>1, <1>2, PTL DEF Spec

\* Under store.Lock every acknowledged record is in the file at every
\* moment of every append, and a restart would load it.
THEOREM AcksAreLoaded ==
    ASSUME ConfigCallers = {} PROVE Spec => []AckedLoads
<1>1. IInv => AckedLoads
  BY AcksLoad
<1>2. QED
  BY <1>1, LocksExclude, SharedInvariant, PTL

\* A snapshot that Dup has finished loads, to a beginning of the log.
THEOREM SnapshotsLoad ==
    ASSUME ConfigCallers = {} PROVE Spec => []SnapshotLoads
<1>1. IInv => SnapshotLoads
  BY CopyLoads
<1>2. QED
  BY <1>1, LocksExclude, SharedInvariant, PTL

----------------------------------------------------------------------------
(* The bytes implement the records: what DataFile sees of a state.         *)

AbsData == RecordsUpTo(file, Len(file))
AbsSlot == [i \in {0, 1} |-> Place(SlotOf(file, IF i = 0 THEN Slot0 ELSE Slot1))]
AbsNew ==
    Place(CASE pc[Caller] \in {"idle", "seek data", "write data"} -> ptr
            [] pc[Caller] = "tell" -> off
            [] OTHER -> newptr[Caller])
AbsSeen ==
    IF Step(Caller) \in {"slot", "flag", "return"} THEN seen[Caller]
    ELSE IF ptr = HeaderSize THEN 0 ELSE 1 - file[4]

\* seen as the last append left it
Rested == IF ptr = HeaderSize THEN 0 ELSE 1 - file[4]

Late == {"seek slot", "write slot", "seek flag", "write flag", "return"}

View ==
    /\ Place(ptr) = Len(acked)
    /\ \A p \in StoreCallers : pc[p] # "idle" =>
          /\ Caller = p
          /\ pc[p] \in {"seek data", "write data"} =>
                Step(Caller) = "data" /\ AbsData = acked /\ AbsNew = Len(acked)
          /\ pc[p] \in {"tell", "seek header", "read header"} => Step(Caller) = "header"
          /\ pc[p] \in {"seek slot", "write slot"} => Step(Caller) = "slot"
          /\ pc[p] \in {"seek flag", "write flag"} => Step(Caller) = "flag"
          /\ pc[p] = "return" => Step(Caller) = "return"
          /\ pc[p] \notin Before => AbsData = Append(acked, rec[p]) /\ AbsNew = Len(acked) + 1
          /\ AbsSeen = IF pc[p] \in Late THEN seen[p] ELSE Rested
    /\ (\A p \in StoreCallers : pc[p] = "idle") =>
          /\ Caller \in StoreCallers /\ Step(Caller) = "idle" /\ rec[Caller] = NoRecord
          /\ AbsData = acked /\ AbsNew = Len(acked) /\ AbsSeen = Rested

\* A file of whole records is the sequence of them.
LEMMA DataIs ==
    ASSUME NEW f \in Seq(Byte), NEW a \in Seq(Records), Len(f) = 16 + 2 * Len(a),
           \A i \in 1..Len(a) : RecordAt(f, i) = a[i]
    PROVE  RecordsUpTo(f, Len(f)) = a
<1>1. PICK n \in Nat : n = Len(a)
  OBVIOUS
<1>2. PICK l : l = Len(f)
  OBVIOUS
<1>3. (l - HeaderSize) \div RecordSize = n
  <2>1. l = 16 + 2 * n
    BY <1>1, <1>2
  <2>2. QED
    BY <2>1 DEF HeaderSize, RecordSize
<1>4. RecordsUpTo(f, l) = [i \in 1..n |-> RecordAt(f, i)]
  BY <1>3, Zenon DEF RecordsUpTo, RecordAt
<1>5. PICK t : t = [i \in 1..n |-> RecordAt(f, i)]
  OBVIOUS
<1>6. \A i \in 1..n : RecordAt(f, i) = a[i] /\ a[i] \in Records
  BY <1>1, ElementOfSeq
<1>7. t \in Seq(Records) /\ Len(t) = n /\ \A i \in 1..n : t[i] = a[i]
  <2>1. \A i \in 1..n : RecordAt(f, i) \in Records
    BY <1>6
  <2>2. t \in Seq(Records) /\ Len(t) = n /\ \A i \in 1..n : t[i] = RecordAt(f, i)
    BY <1>5, <2>1
  <2>3. QED
    BY <1>6, <2>2, Zenon
<1>8. t = a
  BY <1>1, <1>7, SeqEqual, Zenon
<1>9. QED
  BY <1>2, <1>4, <1>5, <1>8, Zenon

LEMMA Places ==
    ASSUME NEW n \in Nat, NEW o, o = 16 + 2 * n PROVE Place(o) = n
BY DEF Place, HeaderSize, RecordSize

\* The caller that is not idle
LEMMA CallerIs ==
    ASSUME NEW p \in StoreCallers, pc[p] # "idle", \A q \in StoreCallers : q # p => pc[q] = "idle"
    PROVE  Caller = p
<1>1. \A q \in StoreCallers : pc[q] # "idle" <=> q = p
  OBVIOUS
<1>2. (CHOOSE q \in StoreCallers : pc[q] # "idle") = p
  BY <1>1, Zenon
<1>3. QED
  BY <1>2, Zenon DEF Caller

LEMMA ViewHolds ==
    ASSUME ConfigCallers = {} PROVE IInv /\ Exclusive => View
<1> SUFFICES ASSUME IInv, Exclusive PROVE View
  OBVIOUS
<1>1. Callers = StoreCallers
  BY DEF Callers
<1>2. /\ acked \in Seq(Records) /\ ptr = 16 + 2 * Len(acked) /\ Len(acked) \in Nat
      /\ \A i \in 1..Len(acked) : RecordAt(file, i) = acked[i]
  <2>1. acked \in Seq(Records) /\ ptr = HeaderSize + 2 * Len(acked)
        /\ \A i \in 1..Len(acked) : RecordAt(file, i) = acked[i]
    BY Zenon DEF IInv, TypeInv, FileInv
  <2>2. QED
    BY <2>1 DEF HeaderSize
<1>3. Place(ptr) = Len(acked) /\ Place(ptr + 2) = Len(acked) + 1
  <2>1. Len(acked) + 1 \in Nat /\ ptr + 2 = 16 + 2 * (Len(acked) + 1)
    BY <1>2
  <2>2. QED
    BY <1>2, <2>1, Places
<1>4. file \in Seq(Byte)
  <2>1. CASE \A p \in Callers : pc[p] # "return"
    BY <2>1, Zenon DEF IInv, FileInv, Whole, Shaped
  <2>2. CASE \E p \in Callers : pc[p] = "return"
    BY <2>2, Zenon DEF IInv, CallerInv, Whole, Shaped
  <2>3. QED
    BY <2>1, <2>2
<1>5. ASSUME \A q \in StoreCallers : pc[q] \in Before PROVE AbsData = acked
  <2>1. Len(file) = ptr
    BY <1>1, <1>5, Zenon DEF IInv, FileInv
  <2>2. QED
    BY <1>2, <1>4, <2>1, DataIs DEF AbsData
<1>6. ASSUME NEW p \in StoreCallers, pc[p] # "idle"
      PROVE  /\ Caller = p
             /\ pc[p] \in {"seek data", "write data"} =>
                   Step(Caller) = "data" /\ AbsData = acked /\ AbsNew = Len(acked)
             /\ pc[p] \in {"tell", "seek header", "read header"} => Step(Caller) = "header"
             /\ pc[p] \in {"seek slot", "write slot"} => Step(Caller) = "slot"
             /\ pc[p] \in {"seek flag", "write flag"} => Step(Caller) = "flag"
             /\ pc[p] = "return" => Step(Caller) = "return"
             /\ pc[p] \notin Before => AbsData = Append(acked, rec[p]) /\ AbsNew = Len(acked) + 1
             /\ AbsSeen = IF pc[p] \in Late THEN seen[p] ELSE Rested
  <2>1. \A q \in StoreCallers : q # p => pc[q] = "idle"
    BY <1>1, <1>6, Zenon DEF Exclusive
  <2>2. Caller = p
    BY <1>6, <2>1, CallerIs
  <2>3. /\ pc[p] \in {"seek data", "write data"} => Step(p) = "data"
        /\ pc[p] \in {"tell", "seek header", "read header"} => Step(p) = "header"
        /\ pc[p] \in {"seek slot", "write slot"} => Step(p) = "slot"
        /\ pc[p] \in {"seek flag", "write flag"} => Step(p) = "flag"
        /\ pc[p] = "return" => Step(p) = "return"
    BY Zenon DEF Step
  <2>4. pc[p] \in {"seek data", "write data"} => AbsData = acked /\ AbsNew = Len(acked)
    <3>1. ASSUME pc[p] \in {"seek data", "write data"} PROVE AbsData = acked /\ AbsNew = Len(acked)
      <4>1. AbsData = acked
        BY <1>5, <2>1, <3>1, Zenon DEF Before
      <4>2. AbsNew = Place(ptr)
        BY <2>2, <3>1, Zenon DEF AbsNew
      <4>3. QED
        BY <1>3, <4>1, <4>2, Zenon
    <3>2. QED
      BY <3>1, Zenon
  <2>5. pc[p] \notin Before => AbsData = Append(acked, rec[p]) /\ AbsNew = Len(acked) + 1
    <3>1. ASSUME pc[p] \notin Before PROVE AbsData = Append(acked, rec[p]) /\ AbsNew = Len(acked) + 1
      <4>1. /\ Len(file) = ptr + 2 /\ RecordAt(file, Len(acked) + 1) = rec[p]
            /\ pc[p] = "tell" => off = ptr + 2
            /\ pc[p] \in Behind \cup {"return"} => newptr[p] = ptr + 2
        BY <1>1, <3>1, Zenon DEF IInv, CallerInv
      <4>2. rec[p] \in Records
        <5>1. rec[p] # NoRecord /\ rec[p] \in Records \cup {NoRecord}
          BY <1>1, <1>6, Zenon DEF IInv, CallerInv, TypeInv
        <5>2. QED
          BY <5>1
      <4>3. PICK a, r, n : a = acked /\ r = rec[p] /\ n = Len(acked)
        OBVIOUS
      <4>4. /\ a \in Seq(Records) /\ r \in Records /\ n = Len(a) /\ n \in Nat
            /\ ptr = 16 + 2 * n /\ Len(file) = ptr + 2
            /\ \A i \in 1..n : RecordAt(file, i) = a[i]
            /\ RecordAt(file, n + 1) = r
        BY <1>2, <4>1, <4>2, <4>3, Zenon
      <4>5. PICK b : b = Append(a, r)
        OBVIOUS
      <4>6. /\ b \in Seq(Records) /\ Len(b) = n + 1 /\ b[n + 1] = r
            /\ \A i \in 1..n : b[i] = a[i]
        BY <4>4, <4>5
      <4>7. \A i \in 1..Len(b) : RecordAt(file, i) = b[i]
        <5>1. \A i \in 1..(n + 1) : i \in 1..n \/ i = n + 1
          BY <4>4
        <5>2. QED
          BY <4>4, <4>6, <5>1, Zenon
      <4>8. Len(file) = 16 + 2 * Len(b)
        BY <4>4, <4>6
      <4>9. AbsData = b
        BY <1>4, <4>6, <4>7, <4>8, DataIs, Zenon DEF AbsData
      <4>10. AbsNew = Place(ptr + 2)
        <5>1. pc[p] \in Behind \cup {"tell", "return"}
          BY <1>1, <3>1, Zenon DEF IInv, TypeInv
        <5>2. CASE pc[p] = "tell"
          BY <2>2, <4>1, <5>2 DEF AbsNew
        <5>3. CASE pc[p] # "tell"
          <6>1. newptr[p] = ptr + 2
            BY <4>1, <5>1, <5>3, Zenon
          <6>2. pc[p] \notin {"idle", "seek data", "write data"}
            BY <3>1, Zenon DEF Before
          <6>3. AbsNew = Place(newptr[p])
            BY <2>2, <5>3, <6>2, Zenon DEF AbsNew
          <6>4. QED
            BY <6>1, <6>3, Zenon
        <5>4. QED
          BY <5>2, <5>3
      <4>11. QED
        BY <1>3, <4>3, <4>5, <4>9, <4>10, Zenon
    <3>2. QED
      BY <3>1
  <2>6. AbsSeen = IF pc[p] \in Late THEN seen[p] ELSE Rested
    <3>1. pc[p] \in Late <=> Step(p) \in {"slot", "flag", "return"}
      <4>1. pc[p] \in Before \cup Behind \cup {"tell", "return"}
        BY <1>1, Zenon DEF IInv, TypeInv
      <4>2. QED
        BY <1>6, <2>3, <4>1, Zenon DEF Before, Behind, Late
    <3>2. QED
      BY <2>2, <3>1, Zenon DEF AbsSeen, Rested
  <2>7. QED
    BY <2>2, <2>3, <2>4, <2>5, <2>6, Zenon
<1>7. ASSUME \A p \in StoreCallers : pc[p] = "idle"
      PROVE  /\ Caller \in StoreCallers /\ Step(Caller) = "idle" /\ rec[Caller] = NoRecord
             /\ AbsData = acked /\ AbsNew = Len(acked) /\ AbsSeen = Rested
  <2>1. PICK p \in StoreCallers : Caller = p
    <3>1. Caller = CHOOSE p \in StoreCallers : TRUE
      BY <1>7, Zenon DEF Caller
    <3>2. \E p \in StoreCallers : TRUE
      BY SharedFileAssumption
    <3>3. (CHOOSE p \in StoreCallers : TRUE) \in StoreCallers
      BY <3>2
    <3>4. QED
      BY <3>1, <3>3
  <2>2. pc[p] = "idle" /\ rec[p] = NoRecord
    BY <1>1, <1>7, Zenon DEF IInv, CallerInv
  <2>3. Step(p) = "idle"
    BY <2>2 DEF Step
  <2>4. AbsData = acked
    BY <1>5, <1>7, Zenon DEF Before
  <2>5. AbsNew = Place(ptr)
    BY <2>1, <2>2 DEF AbsNew
  <2>6. AbsSeen = Rested
    BY <2>1, <2>3, Zenon DEF AbsSeen, Rested
  <2>7. QED
    BY <1>3, <2>1, <2>2, <2>3, <2>4, <2>5, <2>6, Zenon
<1>8. QED
  BY <1>3, <1>6, <1>7, Zenon DEF View

AbsVars ==
    <<AbsData, AbsSlot, file[4], Place(ptr), Step(Caller), rec[Caller], AbsNew, AbsSeen, acked>>

LEMMA AbsVarsIs == Abstract!vars = AbsVars
BY DEF Abstract!vars, AbsVars, AbsData, AbsSlot, AbsNew, AbsSeen

\* Steps of append that DataFile does not tell apart
Same(a, b) ==
    \E G \in {{"seek data", "write data"}, {"tell", "seek header", "read header"},
              {"seek slot", "write slot"}, {"seek flag", "write flag"}} : a \in G /\ b \in G

LEMMA SameStep ==
    ASSUME View, View', NEW p \in StoreCallers, Same(pc[p], pc'[p]),
           UNCHANGED <<file, ptr, rec, seen, acked>>
    PROVE  AbsVars' = AbsVars
<1>1. /\ file' = file /\ ptr' = ptr /\ rec' = rec /\ seen' = seen /\ acked' = acked
  BY Zenon
<1>2. /\ pc[p] # "idle" /\ pc'[p] # "idle"
      /\ pc[p] \in Late <=> pc'[p] \in Late
      /\ pc[p] \in Before <=> pc'[p] \in Before
  BY Zenon DEF Same, Late, Before
<1>3. Caller = p /\ Caller' = p
  BY <1>2, Zenon DEF View
<1>a. /\ pc[p] \in {"seek data", "write data"} => Step(Caller) = "data" /\ AbsNew = Len(acked)
      /\ pc[p] \in {"tell", "seek header", "read header"} => Step(Caller) = "header"
      /\ pc[p] \in {"seek slot", "write slot"} => Step(Caller) = "slot"
      /\ pc[p] \in {"seek flag", "write flag"} => Step(Caller) = "flag"
      /\ pc[p] \notin Before => AbsNew = Len(acked) + 1
      /\ AbsSeen = IF pc[p] \in Late THEN seen[p] ELSE Rested
  BY <1>2, Zenon DEF View
<1>b. /\ pc'[p] \in {"seek data", "write data"} => Step(Caller)' = "data" /\ AbsNew' = Len(acked)
      /\ pc'[p] \in {"tell", "seek header", "read header"} => Step(Caller)' = "header"
      /\ pc'[p] \in {"seek slot", "write slot"} => Step(Caller)' = "slot"
      /\ pc'[p] \in {"seek flag", "write flag"} => Step(Caller)' = "flag"
      /\ pc'[p] \notin Before => AbsNew' = Len(acked) + 1
      /\ AbsSeen' = IF pc'[p] \in Late THEN seen[p] ELSE Rested'
  BY <1>1, <1>2, Zenon DEF View
<1>4. Step(Caller)' = Step(Caller)
  <2>1. CASE pc[p] \in {"seek data", "write data"} /\ pc'[p] \in {"seek data", "write data"}
    BY <1>a, <1>b, <2>1, Zenon
  <2>2. CASE /\ pc[p] \in {"tell", "seek header", "read header"}
             /\ pc'[p] \in {"tell", "seek header", "read header"}
    BY <1>a, <1>b, <2>2, Zenon
  <2>3. CASE pc[p] \in {"seek slot", "write slot"} /\ pc'[p] \in {"seek slot", "write slot"}
    BY <1>a, <1>b, <2>3, Zenon
  <2>4. CASE pc[p] \in {"seek flag", "write flag"} /\ pc'[p] \in {"seek flag", "write flag"}
    BY <1>a, <1>b, <2>4, Zenon
  <2>5. QED
    BY <2>1, <2>2, <2>3, <2>4, Zenon DEF Same
<1>5. AbsNew' = AbsNew
  BY <1>2, <1>a, <1>b, Zenon DEF Same, Before
<1>6. AbsSeen' = AbsSeen
  <2>1. Rested' = Rested
    BY <1>1, Zenon DEF Rested
  <2>2. QED
    BY <1>2, <1>a, <1>b, <2>1, Zenon
<1>7. AbsData' = AbsData /\ AbsSlot' = AbsSlot
  BY <1>1, Zenon DEF AbsData, AbsSlot
<1>8. QED
  BY <1>1, <1>3, <1>4, <1>5, <1>6, <1>7, Zenon DEF AbsVars

\* A step that leaves every caller where it is
LEMMA NoStep ==
    ASSUME ConfigCallers = {}, IInv, View, View', Exclusive,
           UNCHANGED <<file, ptr, appendVars>>,
           off' = off \/ \A p \in Callers : pc[p] = "idle"
    PROVE  AbsVars' = AbsVars
<1>1. /\ file' = file /\ ptr' = ptr /\ pc' = pc /\ rec' = rec /\ newptr' = newptr
      /\ seen' = seen /\ acked' = acked /\ Callers = StoreCallers
  BY Zenon DEF appendVars, Callers
<1>2. Caller' = Caller
  BY <1>1 DEF Caller
<1>3. Step(Caller)' = Step(Caller)
  BY <1>1, <1>2, Zenon DEF Step
<1>4. AbsNew' = AbsNew
  <2>1. CASE off' = off
    BY <1>1, <1>2, <2>1, Zenon DEF AbsNew
  <2>2. CASE \A p \in Callers : pc[p] = "idle"
    BY <1>1, <2>2, Zenon DEF View
  <2>3. QED
    BY <2>1, <2>2
<1>5. AbsSeen' = AbsSeen
  BY <1>1, <1>2, <1>3, Zenon DEF AbsSeen
<1>6. AbsData' = AbsData /\ AbsSlot' = AbsSlot
  BY <1>1, Zenon DEF AbsData, AbsSlot
<1>7. QED
  BY <1>1, <1>2, <1>3, <1>4, <1>5, <1>6, Zenon DEF AbsVars

LEMMA InitMaps == ConfigCallers = {} /\ Init => Abstract!Init
<1> SUFFICES ASSUME ConfigCallers = {}, Init PROVE Abstract!Init
  OBVIOUS
<1>1. View /\ IInv
  <2>1. IInv
    BY SharedInit
  <2>2. Exclusive
    BY Zenon DEF Init, Exclusive
  <2>3. QED
    BY <2>1, <2>2, ViewHolds
<1>2. /\ acked = <<>> /\ Len(acked) = 0 /\ ptr = HeaderSize
      /\ \A p \in StoreCallers : pc[p] = "idle"
  BY DEF Init, Callers
<1>3. /\ Step(Caller) = "idle" /\ rec[Caller] = NoRecord
      /\ AbsData = <<>> /\ AbsNew = 0 /\ AbsSeen = 0 /\ Place(ptr) = 0
  BY <1>1, <1>2, Zenon DEF View, Rested
<1>4. /\ file = <<122, 122, 122, 0, 0, 0, 0, 0, 0, 16, 0, 0, 0, 0, 0, 16>>
  BY DEF Init, EmptyFile
<1>5. /\ file[4] = 0 /\ file[5] = 0 /\ file[6] = 0 /\ file[7] = 0 /\ file[8] = 0 /\ file[9] = 0
      /\ file[10] = 16 /\ file[11] = 0 /\ file[12] = 0 /\ file[13] = 0 /\ file[14] = 0
      /\ file[15] = 0 /\ file[16] = 16
  BY <1>4
<1>6. AbsSlot = [i \in {0, 1} |-> 0]
  <2>1. \A k \in 1..4 : k = 1 \/ k = 2 \/ k = 3 \/ k = 4
    OBVIOUS
  <2>2. (~ \E k \in 1..4 : file[Slot0 + k] # 0) /\ (~ \E k \in 1..4 : file[Slot1 + k] # 0)
    BY <1>5, <2>1 DEF Slot0, Slot1
  <2>3. SlotOf(file, Slot0) = 256 * file[9] + file[10] /\ SlotOf(file, Slot1) = 256 * file[15] + file[16]
    BY <2>2 DEF SlotOf, Slot0, Slot1
  <2>4. SlotOf(file, Slot0) = 16 /\ SlotOf(file, Slot1) = 16
    BY <1>5, <2>3
  <2>5. Place(16) = 0
    BY DEF Place, HeaderSize, RecordSize
  <2>6. QED
    BY <2>4, <2>5, Zenon DEF AbsSlot
<1>7. file[4] = 0
  BY <1>5
<1>8. QED
  BY <1>2, <1>3, <1>6, <1>7, Zenon DEF Abstract!Init, AbsData, AbsSlot, AbsNew, AbsSeen

\* Each step of append by which DataFile moves
LEMMA AppendCallMaps ==
    ASSUME ConfigCallers = {}, IInv, IInv', View, View', NEW p \in Callers, NEW r \in Records,
           AppendCall(p, r)
    PROVE  Abstract!AppendCall(r)
<1>1. Callers = StoreCallers
  BY DEF Callers
<1>2. /\ pc[p] = "idle" /\ LockIsFree(p) /\ Len(acked) < MaxAppends
      /\ rec' = [rec EXCEPT ![p] = r] /\ pc' = [pc EXCEPT ![p] = "seek data"]
      /\ file' = file /\ ptr' = ptr /\ acked' = acked
  BY Zenon DEF AppendCall, Goto
<1>3. \A q \in StoreCallers : pc[q] = "idle"
  BY <1>1, <1>2, Zenon DEF LockIsFree
<1>4. pc'[p] = "seek data" /\ rec'[p] = r
  BY <1>2, Zenon DEF IInv, TypeInv
<1>5. /\ Step(Caller) = "idle" /\ AbsData = acked /\ AbsNew = Len(acked) /\ AbsSeen = Rested
      /\ Place(ptr) = Len(acked)
  BY <1>3, Zenon DEF View
<1>6. /\ Caller' = p /\ Step(Caller)' = "data" /\ AbsData' = acked' /\ AbsNew' = Len(acked')
      /\ AbsSeen' = Rested'
  BY <1>1, <1>4, Zenon DEF View, Late
<1>7. Rested' = Rested /\ AbsSlot' = AbsSlot
  BY <1>2, Zenon DEF Rested, AbsSlot
<1>8. /\ AbsData' = AbsData /\ AbsNew' = AbsNew /\ AbsSeen' = AbsSeen /\ rec[Caller]' = r
      /\ Place(ptr) < MaxAppends /\ Place(ptr)' = Place(ptr)
  BY <1>2, <1>4, <1>5, <1>6, <1>7, Zenon
<1>9. QED
  BY <1>2, <1>5, <1>6, <1>7, <1>8, Zenon
     DEF Abstract!AppendCall, AbsData, AbsSlot, AbsNew, AbsSeen

LEMMA WriteDataMaps ==
    ASSUME ConfigCallers = {}, IInv, IInv', View, View', Exclusive, NEW p \in Callers, WriteData(p)
    PROVE  Abstract!WriteData
<1>1. Callers = StoreCallers
  BY DEF Callers
<1>2. /\ pc[p] = "write data" /\ pc' = [pc EXCEPT ![p] = "tell"]
      /\ ptr' = ptr /\ rec' = rec /\ acked' = acked
  BY Zenon DEF WriteData, Write, Goto
<1>3. pc'[p] = "tell"
  BY <1>2, Zenon DEF IInv, TypeInv
<1>4. /\ file'[4] = file[4] /\ \A s \in {Slot0, Slot1} : SlotOf(file', s) = SlotOf(file, s)
  BY DataWritten, Zenon
<1>5. /\ Caller = p /\ Step(Caller) = "data" /\ AbsData = acked /\ AbsSeen = Rested
      /\ Place(ptr) = Len(acked)
  BY <1>1, <1>2, Zenon DEF View, Late
<1>6. /\ Caller' = p /\ Step(Caller)' = "header" /\ AbsData' = Append(acked', rec'[p])
      /\ AbsNew' = Len(acked') + 1 /\ AbsSeen' = Rested'
  BY <1>1, <1>3, Zenon DEF View, Late, Before
<1>7. Rested' = Rested
  BY <1>2, <1>4, Zenon DEF Rested
<1>8. AbsSlot' = AbsSlot
  BY <1>4, Zenon DEF AbsSlot
<1>9. AbsData' = Append(SubSeq(AbsData, 1, Place(ptr)), rec[Caller])
  <2>1. acked \in Seq(Records)
    BY Zenon DEF IInv, TypeInv
  <2>2. SubSeq(acked, 1, Len(acked)) = acked
    BY <2>1, SubSeqFull
  <2>3. QED
    BY <1>2, <1>5, <1>6, <2>2, Zenon
<1>10. AbsNew' = Place(ptr) + 1 /\ AbsSeen' = AbsSeen /\ rec[Caller]' = rec[Caller]
       /\ Place(ptr)' = Place(ptr)
  BY <1>2, <1>5, <1>6, <1>7, Zenon
<1>11. QED
  BY <1>2, <1>4, <1>5, <1>6, <1>8, <1>9, <1>10, Zenon
     DEF Abstract!WriteData, AbsData, AbsSlot, AbsNew, AbsSeen

LEMMA ReadHeaderMaps ==
    ASSUME ConfigCallers = {}, IInv, IInv', View, View', Exclusive, NEW p \in Callers, ReadHeader(p)
    PROVE  Abstract!ReadHeader
<1>1. Callers = StoreCallers
  BY DEF Callers
<1>2. pc[p] = "read header" /\ file' = file /\ ptr' = ptr /\ rec' = rec /\ acked' = acked
  BY Zenon DEF ReadHeader
<1>3. off = 0 /\ Len(file) = ptr + 2 /\ ptr = HeaderSize + 2 * Len(acked) /\ acked \in Seq(Records)
  BY <1>2, Zenon DEF IInv, CallerInv, FileInv, TypeInv, Before
<1>4. off < Len(file) /\ off + 4 <= Len(file) /\ off + 4 = 4
  BY <1>3 DEF HeaderSize
<1>5. pc' = [pc EXCEPT ![p] = "seek slot"] /\ seen' = [seen EXCEPT ![p] = file[4]]
  BY <1>4, Zenon DEF ReadHeader, Goto
<1>6. pc'[p] = "seek slot" /\ seen'[p] = file[4]
  BY <1>5, Zenon DEF IInv, TypeInv
<1>7. /\ Caller = p /\ Step(Caller) = "header" /\ AbsNew = Len(acked) + 1
  BY <1>1, <1>2, Zenon DEF View, Before
<1>8. /\ Caller' = p /\ Step(Caller)' = "slot" /\ AbsNew' = Len(acked') + 1 /\ AbsSeen' = seen'[p]
  BY <1>1, <1>6, Zenon DEF View, Before, Late
<1>9. AbsData' = AbsData /\ AbsSlot' = AbsSlot
  BY <1>2, Zenon DEF AbsData, AbsSlot
<1>10. AbsNew' = AbsNew /\ AbsSeen' = file[4] /\ rec[Caller]' = rec[Caller] /\ Place(ptr)' = Place(ptr)
  BY <1>2, <1>6, <1>7, <1>8, Zenon
<1>11. QED
  BY <1>2, <1>7, <1>8, <1>9, <1>10, Zenon
     DEF Abstract!ReadHeader, AbsData, AbsSlot, AbsNew, AbsSeen

LEMMA WriteSlotMaps ==
    ASSUME ConfigCallers = {}, IInv, IInv', View, View', Exclusive, NEW p \in Callers, WriteSlot(p)
    PROVE  Abstract!WriteSlot
<1>1. Callers = StoreCallers
  BY DEF Callers
<1>2. /\ pc[p] = "write slot" /\ pc' = [pc EXCEPT ![p] = "seek flag"]
      /\ ptr' = ptr /\ rec' = rec /\ seen' = seen /\ acked' = acked
  BY Zenon DEF WriteSlot, Write, Goto
<1>3. pc'[p] = "seek flag"
  BY <1>2, Zenon DEF IInv, TypeInv
<1>4. /\ Whole(file', Len(acked)) /\ file'[4] = file[4] /\ seen[p] = file[4] /\ newptr[p] = ptr + 2
      /\ SlotOf(file', Spare(file)) = newptr[p]
      /\ \A s \in {Slot0, Slot1} \ {Spare(file)} : SlotOf(file', s) = SlotOf(file, s)
  BY SlotBytesWritten, Zenon
<1>5. /\ Caller = p /\ Step(Caller) = "slot" /\ AbsData = Append(acked, rec[p])
      /\ AbsNew = Len(acked) + 1 /\ AbsSeen = seen[p]
  BY <1>1, <1>2, Zenon DEF View, Late, Before
<1>6. /\ Caller' = p /\ Step(Caller)' = "flag" /\ AbsData' = Append(acked', rec'[p])
      /\ AbsNew' = Len(acked') + 1 /\ AbsSeen' = seen'[p]
  BY <1>1, <1>3, Zenon DEF View, Late, Before
<1>7. file[4] \in {0, 1}
  BY <1>4, Zenon DEF Whole, Shaped
<1>8. Place(newptr[p]) = Len(acked) + 1
  <2>1. ptr = HeaderSize + 2 * Len(acked) /\ acked \in Seq(Records)
    BY Zenon DEF IInv, FileInv, TypeInv
  <2>2. Len(acked) + 1 \in Nat /\ newptr[p] = 16 + 2 * (Len(acked) + 1)
    BY <1>4, <2>1 DEF HeaderSize
  <2>3. QED
    BY <2>2, Places
<1>9. AbsSlot' = [AbsSlot EXCEPT ![1 - AbsSeen] = AbsNew]
  <2>1. ASSUME NEW i \in {0, 1}
        PROVE  AbsSlot'[i] = IF i = 1 - file[4] THEN AbsNew ELSE AbsSlot[i]
    <3>1. PICK s \in {Slot0, Slot1} : s = IF i = 0 THEN Slot0 ELSE Slot1
      OBVIOUS
    <3>2. AbsSlot'[i] = Place(SlotOf(file', s)) /\ AbsSlot[i] = Place(SlotOf(file, s))
      BY <3>1, Zenon DEF AbsSlot
    <3>3. i = 1 - file[4] <=> s = Spare(file)
      BY <1>7, <3>1 DEF Spare, Slot0, Slot1
    <3>4. CASE i = 1 - file[4]
      BY <1>4, <1>5, <1>8, <3>2, <3>3, <3>4, Zenon
    <3>5. CASE i # 1 - file[4]
      BY <1>4, <3>2, <3>3, <3>5, Zenon
    <3>6. QED
      BY <3>4, <3>5
  <2>2. PICK k : k = 1 - file[4]
    OBVIOUS
  <2>3. AbsSlot' = [AbsSlot EXCEPT ![k] = AbsNew]
    <3>1. AbsSlot' = [i \in {0, 1} |-> AbsSlot'[i]] /\ DOMAIN AbsSlot = {0, 1}
      BY DEF AbsSlot
    <3>2. AbsSlot' = [i \in {0, 1} |-> IF i = k THEN AbsNew ELSE AbsSlot[i]]
      BY <2>1, <2>2, <3>1
    <3>3. QED
      BY <3>1, <3>2
  <2>4. QED
    BY <1>4, <1>5, <2>2, <2>3, Zenon
<1>10. /\ AbsData' = AbsData /\ AbsNew' = AbsNew /\ AbsSeen' = AbsSeen
       /\ rec[Caller]' = rec[Caller] /\ Place(ptr)' = Place(ptr)
  BY <1>2, <1>5, <1>6, Zenon
<1>11. QED
  BY <1>2, <1>4, <1>5, <1>6, <1>9, <1>10, Zenon
     DEF Abstract!WriteSlot, AbsData, AbsSlot, AbsNew, AbsSeen

LEMMA WriteFlagMaps ==
    ASSUME ConfigCallers = {}, IInv, IInv', View, View', Exclusive, NEW p \in Callers, WriteFlag(p)
    PROVE  Abstract!WriteFlag
<1>1. Callers = StoreCallers
  BY DEF Callers
<1>2. /\ pc[p] = "write flag" /\ pc' = [pc EXCEPT ![p] = "return"]
      /\ ptr' = ptr /\ rec' = rec /\ seen' = seen /\ acked' = acked
  BY Zenon DEF WriteFlag, Write, Goto
<1>3. pc'[p] = "return"
  BY <1>2, Zenon DEF IInv, TypeInv
<1>4. /\ file'[4] = 1 - file[4] /\ seen[p] = file[4]
      /\ \A s \in {Slot0, Slot1} : SlotOf(file', s) = SlotOf(file, s)
  BY FlagByteWritten, Zenon
<1>5. /\ Caller = p /\ Step(Caller) = "flag" /\ AbsData = Append(acked, rec[p])
      /\ AbsNew = Len(acked) + 1 /\ AbsSeen = seen[p]
  BY <1>1, <1>2, Zenon DEF View, Late, Before
<1>6. /\ Caller' = p /\ Step(Caller)' = "return" /\ AbsData' = Append(acked', rec'[p])
      /\ AbsNew' = Len(acked') + 1 /\ AbsSeen' = seen'[p]
  BY <1>1, <1>3, Zenon DEF View, Late, Before
<1>7. AbsSlot' = AbsSlot
  BY <1>4, Zenon DEF AbsSlot
<1>8. /\ AbsData' = AbsData /\ AbsNew' = AbsNew /\ AbsSeen' = AbsSeen
      /\ rec[Caller]' = rec[Caller] /\ Place(ptr)' = Place(ptr) /\ file'[4] = 1 - AbsSeen
  BY <1>2, <1>4, <1>5, <1>6, Zenon
<1>9. QED
  BY <1>2, <1>5, <1>6, <1>7, <1>8, Zenon
     DEF Abstract!WriteFlag, AbsData, AbsSlot, AbsNew, AbsSeen

LEMMA AppendFunction ==
    ASSUME NEW S, NEW s \in Seq(S), NEW x \in S, NEW n, n = Len(s) + 1
    PROVE  Append(s, x) = [i \in DOMAIN s \cup {n} |-> IF i = n THEN x ELSE s[i]]
<1>1. DOMAIN s = 1..Len(s) /\ Len(s) \in Nat
  OBVIOUS
<1>2. DOMAIN s \cup {n} = 1..n
  BY <1>1
<1>3. PICK t : t = Append(s, x)
  OBVIOUS
<1>4. t \in Seq(S) /\ Len(t) = n /\ t[n] = x /\ \A i \in 1..Len(s) : t[i] = s[i]
  BY <1>3
<1>5. t = [i \in 1..n |-> t[i]]
  BY <1>4
<1>6. \A i \in 1..n : t[i] = IF i = n THEN x ELSE s[i]
  <2>1. \A i \in 1..n : i = n \/ i \in 1..Len(s)
    BY <1>1
  <2>2. n \notin 1..Len(s)
    BY <1>1
  <2>3. QED
    BY <1>4, <2>1, <2>2, Zenon
<1>7. t = [i \in 1..n |-> IF i = n THEN x ELSE s[i]]
  BY <1>5, <1>6
<1>8. QED
  BY <1>2, <1>3, <1>7

LEMMA ReturnNilMaps ==
    ASSUME ConfigCallers = {}, IInv, IInv', View, View', Exclusive, NEW p \in Callers, ReturnNil(p)
    PROVE  Abstract!ReturnNil
<1>1. Callers = StoreCallers
  BY DEF Callers
<1>2. /\ pc[p] = "return" /\ pc' = [pc EXCEPT ![p] = "idle"] /\ ptr' = newptr[p]
      /\ acked' = Append(acked, rec[p]) /\ file' = file
  BY Zenon DEF ReturnNil, Goto
<1>3. \A q \in StoreCallers : pc'[q] = "idle"
  <2>1. \A q \in StoreCallers : q # p => pc[q] = "idle"
    BY <1>1, <1>2, Zenon DEF Exclusive
  <2>2. pc \in [StoreCallers -> Steps]
    BY <1>1, Zenon DEF IInv, TypeInv, Steps
  <2>3. QED
    BY <1>2, <2>1, <2>2, Zenon
<1>4. newptr[p] = ptr + 2 /\ seen[p] = 1 - file[4]
  BY <1>2, Zenon DEF IInv, CallerInv
<1>5. rec[p] \in Records /\ acked \in Seq(Records) /\ ptr = HeaderSize + 2 * Len(acked)
  <2>1. rec[p] # NoRecord /\ rec[p] \in Records \cup {NoRecord}
    BY <1>2, Zenon DEF IInv, CallerInv, TypeInv
  <2>2. acked \in Seq(Records) /\ ptr = HeaderSize + 2 * Len(acked)
    BY Zenon DEF IInv, TypeInv, FileInv
  <2>3. QED
    BY <2>1, <2>2
<1>6. /\ Caller = p /\ Step(Caller) = "return" /\ AbsData = Append(acked, rec[p])
      /\ AbsNew = Len(acked) + 1 /\ AbsSeen = seen[p]
  BY <1>1, <1>2, Zenon DEF View, Late, Before
<1>7. /\ Step(Caller)' = "idle" /\ rec[Caller]' = NoRecord /\ AbsData' = acked'
      /\ AbsNew' = Len(acked') /\ AbsSeen' = Rested' /\ Place(ptr)' = Len(acked')
  BY <1>3, Zenon DEF View
<1>8. Len(acked') = Len(acked) + 1
  <2>1. PICK a, r : a = acked /\ r = rec[p]
    OBVIOUS
  <2>2. a \in Seq(Records) /\ r \in Records
    BY <1>5, <2>1, Zenon
  <2>3. Len(Append(a, r)) = Len(a) + 1
    BY <2>2
  <2>4. QED
    BY <1>2, <2>1, <2>3, Zenon
<1>9. Rested' = seen[p]
  <2>1. ptr + 2 # HeaderSize
    BY <1>5 DEF HeaderSize
  <2>2. QED
    BY <1>2, <1>4, <2>1, Zenon DEF Rested
<1>10. acked' = [i \in DOMAIN acked \cup {AbsNew} |-> IF i = AbsNew THEN rec[Caller] ELSE acked[i]]
  <2>1. PICK n : n = Len(acked) + 1
    OBVIOUS
  <2>2. Append(acked, rec[p]) = [i \in DOMAIN acked \cup {n} |-> IF i = n THEN rec[p] ELSE acked[i]]
    BY <1>5, <2>1, AppendFunction
  <2>3. n = AbsNew /\ Caller = p
    BY <1>6, <2>1, Zenon
  <2>4. acked' = [i \in DOMAIN acked \cup {n} |-> IF i = n THEN rec[Caller] ELSE acked[i]]
    BY <1>2, <2>2, <2>3, Zenon
  <2>5. QED
    BY <2>3, <2>4, Zenon
<1>11. AbsSlot' = AbsSlot
  BY <1>2, Zenon DEF AbsSlot
<1>12. AbsData' = AbsData /\ AbsNew' = AbsNew /\ AbsSeen' = AbsSeen /\ Place(ptr)' = AbsNew
  BY <1>2, <1>6, <1>7, <1>8, <1>9, Zenon
<1>13. QED
  BY <1>2, <1>6, <1>7, <1>10, <1>11, <1>12, Zenon
     DEF Abstract!ReturnNil, AbsData, AbsSlot, AbsNew, AbsSeen

LEMMA AppendMaps ==
    ASSUME ConfigCallers = {}, IInv, IInv', View, View', Exclusive, NEW p \in Callers, AppendStep(p)
    PROVE  Abstract!Next \/ AbsVars' = AbsVars
<1>1. p \in StoreCallers /\ pc \in [Callers -> Steps]
  BY Zenon DEF Callers, IInv, TypeInv, Steps
<1>2. CASE SeekData(p)
  <2>1. Same(pc[p], pc'[p]) /\ UNCHANGED <<file, ptr, rec, seen, acked>>
    BY <1>1, <1>2, Zenon DEF SeekData, Seek, Goto, Same
  <2>2. QED
    BY <1>1, <2>1, SameStep, Zenon
<1>3. CASE Tell(p)
  <2>1. Same(pc[p], pc'[p]) /\ UNCHANGED <<file, ptr, rec, seen, acked>>
    BY <1>1, <1>3, Zenon DEF Tell, Goto, Same
  <2>2. QED
    BY <1>1, <2>1, SameStep, Zenon
<1>4. CASE SeekHeader(p)
  <2>1. Same(pc[p], pc'[p]) /\ UNCHANGED <<file, ptr, rec, seen, acked>>
    BY <1>1, <1>4, Zenon DEF SeekHeader, Seek, Goto, Same
  <2>2. QED
    BY <1>1, <2>1, SameStep, Zenon
<1>5. CASE SeekSlot(p)
  <2>1. Same(pc[p], pc'[p]) /\ UNCHANGED <<file, ptr, rec, seen, acked>>
    BY <1>1, <1>5, Zenon DEF SeekSlot, Seek, Goto, Same
  <2>2. QED
    BY <1>1, <2>1, SameStep, Zenon
<1>6. CASE SeekFlag(p)
  <2>1. Same(pc[p], pc'[p]) /\ UNCHANGED <<file, ptr, rec, seen, acked>>
    BY <1>1, <1>6, Zenon DEF SeekFlag, Seek, Goto, Same
  <2>2. QED
    BY <1>1, <2>1, SameStep, Zenon
<1>7. CASE WriteData(p) \/ ReadHeader(p) \/ WriteSlot(p) \/ WriteFlag(p) \/ ReturnNil(p)
  <2>1. \/ Abstract!WriteData \/ Abstract!ReadHeader \/ Abstract!WriteSlot
        \/ Abstract!WriteFlag \/ Abstract!ReturnNil
    BY <1>7, WriteDataMaps, ReadHeaderMaps, WriteSlotMaps, WriteFlagMaps, ReturnNilMaps, Zenon
  <2>2. QED
    BY <2>1, Zenon DEF Abstract!Next
<1>8. QED
  BY <1>2, <1>3, <1>4, <1>5, <1>6, <1>7, Zenon DEF AppendStep

LEMMA NextMaps ==
    ASSUME ConfigCallers = {}, IInv, IInv', View, View', Exclusive, [Next]_vars
    PROVE  [Abstract!Next]_(Abstract!vars)
<1>1. Abstract!Next \/ AbsVars' = AbsVars
  <2>1. ASSUME NEW p \in Callers, AppendStep(p) PROVE Abstract!Next \/ AbsVars' = AbsVars
    BY <2>1, AppendMaps
  <2>2. ASSUME NEW p \in Callers, NEW r \in Records, AppendCall(p, r) PROVE Abstract!Next
    <3>1. Abstract!AppendCall(r)
      BY <2>2, AppendCallMaps
    <3>2. QED
      BY <3>1, Zenon DEF Abstract!Next
  <2>3. CASE DupCall \/ DupStep \/ UNCHANGED vars
    <3>1. UNCHANGED <<file, ptr, appendVars>> /\ (off' = off \/ dup # "idle")
      BY <2>3, Zenon DEF DupCall, DupStep, DupSeek, DupCopy, DupReturn, vars, appendVars
    <3>2. off' = off \/ \A p \in Callers : pc[p] = "idle"
      BY <3>1, Zenon DEF Exclusive
    <3>3. QED
      BY <3>1, <3>2, NoStep, Zenon
  <2>4. QED
    BY <2>1, <2>2, <2>3, Zenon DEF Next
<1>2. (Abstract!vars = AbsVars)'
  BY AbsVarsIs, PTL
<1>3. QED
  BY <1>1, <1>2, AbsVarsIs, Zenon

\* Under store.Lock the bytes that append writes, seek by seek and beside a
\* Dup that moves the offset, are the records, the slots and the flag of
\* DataFile.
THEOREM SharedFileImplementsDataFile ==
    ASSUME ConfigCallers = {} PROVE Spec => ImplementsDataFile
<1>1. Init => Abstract!Init
  BY InitMaps
<1>2. IInv /\ Exclusive => View
  BY ViewHolds
<1>3. IInv /\ IInv' /\ View /\ View' /\ Exclusive /\ [Next]_vars => [Abstract!Next]_(Abstract!vars)
  BY NextMaps
<1>4. QED
  BY <1>1, <1>2, <1>3, LocksExclude, SharedInvariant, PTL DEF Spec, ImplementsDataFile, Abstract!Spec
=============================================================================
