--------------------------- MODULE DataFileProofs ---------------------------
(***************************************************************************)
(* Proofs about DataFile, for every set of records and every length.       *)
(*                                                                         *)
(* The properties follow from an invariant on where append is: store.ptr   *)
(* is the committed length except between the turn of the flag and the     *)
(* return, and up to that turn the slot in use and the data below ptr are  *)
(* not touched.                                                            *)
(***************************************************************************)
EXTENDS DataFile, SequenceTheorems, TLAPS

\* What append knows at each of its steps.
Progress ==
    /\ pc \in {"idle", "down"} <=> rec = NoRecord
    /\ pc \notin {"down", "return"} => ptr = Committed
    /\ pc \in {"header", "slot", "flag"} =>
         newptr = ptr + 1 /\ Len(data) = newptr /\ data[newptr] = rec
    /\ pc \in {"slot", "flag"} => seen = flag
    /\ pc = "flag" => slot[1 - seen] = newptr
    /\ pc = "return" =>
         newptr = ptr + 1 /\ Committed = newptr /\ data[newptr] = rec

IInv == TypeOK /\ Readable /\ AckedIsKept /\ Progress

\* Writing behind ptr keeps what is below it.
LEMMA WriteBehind ==
    ASSUME NEW S, NEW s \in Seq(S), NEW n \in 0..Len(s), NEW e \in S
    PROVE  /\ Append(SubSeq(s, 1, n), e) \in Seq(S)
           /\ Len(Append(SubSeq(s, 1, n), e)) = n + 1
           /\ Append(SubSeq(s, 1, n), e)[n + 1] = e
           /\ \A i \in 1..n : Append(SubSeq(s, 1, n), e)[i] = s[i]
<1>1. \A i \in 1..n : s[i] \in S
  BY ElementOfSeq
<1>2. /\ SubSeq(s, 1, n) \in Seq(S)
      /\ Len(SubSeq(s, 1, n)) = n
      /\ \A i \in 1..n : SubSeq(s, 1, n)[i] = s[i]
  <2>1. Len(s) \in Nat /\ n \in Int
    OBVIOUS
  <2>2. QED
    BY <1>1, <2>1, SubSeqProperties
<1>3. QED
  BY <1>2, AppendProperties

\* The same bytes are read below n, whatever is written behind it.
LEMMA SamePrefix ==
    ASSUME NEW S, NEW s \in Seq(S), NEW n \in 0..Len(s), NEW e \in S
    PROVE  SubSeq(Append(SubSeq(s, 1, n), e), 1, n) = SubSeq(s, 1, n)
<1> DEFINE w == Append(SubSeq(s, 1, n), e)
<1>1. w \in Seq(S) /\ Len(w) = n + 1 /\ \A i \in 1..n : w[i] = s[i]
  BY WriteBehind
<1> HIDE DEF w
<1>2. Len(s) \in Nat /\ n \in Int
  OBVIOUS
<1>3. /\ \A i \in 1..n : w[i] \in S
      /\ \A i \in 1..n : s[i] \in S
  BY <1>1, <1>2, ElementOfSeq
<1>4. /\ SubSeq(w, 1, n) \in Seq(S) /\ Len(SubSeq(w, 1, n)) = n
      /\ \A i \in 1..n : SubSeq(w, 1, n)[i] = w[i]
  BY <1>2, <1>3, SubSeqProperties
<1>5. /\ SubSeq(s, 1, n) \in Seq(S) /\ Len(SubSeq(s, 1, n)) = n
      /\ \A i \in 1..n : SubSeq(s, 1, n)[i] = s[i]
  BY <1>2, <1>3, SubSeqProperties
<1>6. SubSeq(w, 1, n) = SubSeq(s, 1, n)
  BY <1>1, <1>4, <1>5, SeqEqual
<1>7. QED
  BY <1>6 DEF w

\* One more element is one more record.
LEMMA LongerPrefix ==
    ASSUME NEW S, NEW s \in Seq(S), NEW n \in Nat, n + 1 <= Len(s)
    PROVE  SubSeq(s, 1, n + 1) = Append(SubSeq(s, 1, n), s[n + 1])
<1>1. Len(s) \in Nat /\ n + 1 \in Int /\ n \in Int
  OBVIOUS
<1>2. \A i \in 1..(n + 1) : s[i] \in S
  BY <1>1, ElementOfSeq
<1>3. /\ SubSeq(s, 1, n + 1) \in Seq(S) /\ Len(SubSeq(s, 1, n + 1)) = n + 1
      /\ \A i \in 1..(n + 1) : SubSeq(s, 1, n + 1)[i] = s[i]
  BY <1>1, <1>2, SubSeqProperties
<1>4. /\ SubSeq(s, 1, n) \in Seq(S) /\ Len(SubSeq(s, 1, n)) = n
      /\ \A i \in 1..n : SubSeq(s, 1, n)[i] = s[i]
  BY <1>1, <1>2, SubSeqProperties
<1> DEFINE a == Append(SubSeq(s, 1, n), s[n + 1])
<1>5. /\ a \in Seq(S) /\ Len(a) = n + 1 /\ a[n + 1] = s[n + 1]
      /\ \A i \in 1..n : a[i] = s[i]
  BY <1>2, <1>4, AppendProperties
<1> HIDE DEF a
<1>6. SubSeq(s, 1, n + 1) = a
  BY <1>3, <1>5, SeqEqual
<1>7. QED
  BY <1>6 DEF a

\* The invariant holds in a file that has only its header.
LEMMA InitIInv == Init => IInv
BY DataFileAssumption, EmptySeq
   DEF Init, IInv, TypeOK, Readable, AckedIsKept, Progress, Committed, Steps

\* The invariant is kept by every step, of append, of an error and of a crash.
LEMMA NextIInv == IInv /\ [Next]_vars => IInv'
<1> SUFFICES ASSUME IInv, [Next]_vars PROVE IInv'
  OBVIOUS
<1> USE DataFileAssumption
<1> DEFINE S == Records \cup {Torn}
<1>0. /\ data \in Seq(S) /\ Len(data) \in Nat
  BY DEF IInv, TypeOK
<1>1. ASSUME NEW r \in Records, AppendCall(r) PROVE IInv'
  BY <1>1 DEF IInv, TypeOK, Readable, AckedIsKept, Progress, Committed, Steps, AppendCall
<1>2. CASE WriteData
  <2>1. ptr = Committed /\ ptr \in 0..Len(data) /\ rec \in Records
    BY <1>2 DEF IInv, TypeOK, Readable, Progress, Committed, WriteData
  <2>2. /\ data' \in Seq(S) /\ Len(data') = ptr + 1 /\ data'[ptr + 1] = rec
        /\ \A i \in 1..ptr : data'[i] = data[i]
    BY <1>0, <1>2, <2>1, WriteBehind DEF WriteData
  <2>3. TypeOK'
    BY <1>2, <2>2 DEF IInv, TypeOK, WriteData, Steps
  <2>4. Readable' /\ AckedIsKept'
    BY <1>2, <2>1, <2>2 DEF IInv, TypeOK, Readable, AckedIsKept, Committed, WriteData
  <2>5. Progress'
    BY <1>2, <2>1, <2>2 DEF IInv, TypeOK, Progress, Committed, WriteData
  <2>6. QED
    BY <2>3, <2>4, <2>5 DEF IInv
<1>3. CASE TearData
  <2>1. ptr = Committed /\ ptr \in 0..Len(data)
    BY <1>3 DEF IInv, TypeOK, Readable, Progress, Committed, TearData
  <2>2. /\ data' \in Seq(S) /\ Len(data') = ptr + 1
        /\ \A i \in 1..ptr : data'[i] = data[i]
    BY <1>0, <1>3, <2>1, WriteBehind DEF TearData
  <2>3. TypeOK'
    BY <1>3, <2>2 DEF IInv, TypeOK, TearData, Steps
  <2>4. Readable' /\ AckedIsKept'
    BY <1>3, <2>1, <2>2 DEF IInv, TypeOK, Readable, AckedIsKept, Committed, TearData
  <2>5. Progress'
    BY <1>3, <2>1, <2>2 DEF IInv, TypeOK, Progress, Committed, TearData
  <2>6. QED
    BY <2>3, <2>4, <2>5 DEF IInv
<1>4. CASE ReadHeader
  BY <1>4 DEF IInv, TypeOK, Readable, AckedIsKept, Progress, Committed, Steps, ReadHeader
<1>5. CASE WriteSlot
  <2>1. slot'[flag] = slot[flag] /\ slot'[1 - seen] = newptr /\ slot' \in [{0, 1} -> Nat \cup {Torn}]
    BY <1>5 DEF IInv, TypeOK, Progress, WriteSlot
  <2>2. QED
    BY <1>5, <2>1 DEF IInv, TypeOK, Readable, AckedIsKept, Progress, Committed, Steps, WriteSlot
<1>6. CASE TearSlot
  <2>1. slot'[flag] = slot[flag] /\ slot' \in [{0, 1} -> Nat \cup {Torn}]
    BY <1>6 DEF IInv, TypeOK, Progress, TearSlot
  <2>2. QED
    BY <1>6, <2>1 DEF IInv, TypeOK, Readable, AckedIsKept, Progress, Committed, Steps, TearSlot
<1>7. CASE WriteFlag
  <2>1. Committed' = newptr /\ newptr = Committed + 1 /\ newptr = Len(data) /\ data[newptr] = rec
    BY <1>7 DEF IInv, TypeOK, Readable, Progress, Committed, WriteFlag
  <2>2. rec \in Records /\ Committed \in Nat
    BY <1>7 DEF IInv, TypeOK, Readable, Progress, WriteFlag
  <2>3. TypeOK'
    BY <1>7 DEF IInv, TypeOK, WriteFlag, Steps
  <2>4. Readable' /\ AckedIsKept'
    BY <1>7, <2>1, <2>2 DEF IInv, TypeOK, Readable, AckedIsKept, WriteFlag
  <2>5. Progress'
    BY <1>7, <2>1 DEF IInv, TypeOK, Progress, WriteFlag, Committed
  <2>6. QED
    BY <2>3, <2>4, <2>5 DEF IInv
<1>8. CASE ReturnNil
  <2>1. Committed = newptr /\ data[newptr] = rec /\ rec \in Records /\ newptr \in Nat \ {0}
    BY <1>8 DEF IInv, TypeOK, Progress, ReturnNil
  <2>2. TypeOK'
    BY <1>8, <2>1 DEF IInv, TypeOK, ReturnNil, Steps
  <2>3. Readable' /\ AckedIsKept'
    BY <1>8, <2>1 DEF IInv, TypeOK, Readable, AckedIsKept, Committed, ReturnNil
  <2>4. Progress'
    BY <1>8, <2>1 DEF IInv, TypeOK, Progress, Committed, ReturnNil
  <2>5. QED
    BY <2>2, <2>3, <2>4 DEF IInv
<1>9. CASE ReturnError
  BY <1>9 DEF IInv, TypeOK, Readable, AckedIsKept, Progress, Committed, Steps, ReturnError
<1>10. CASE Crash
  BY <1>10 DEF IInv, TypeOK, Readable, AckedIsKept, Progress, Committed, Steps, Crash
<1>11. CASE LoadDB
  BY <1>11 DEF IInv, TypeOK, Readable, AckedIsKept, Progress, Committed, Steps, LoadDB
<1>12. CASE UNCHANGED vars
  BY <1>12 DEF IInv, TypeOK, Readable, AckedIsKept, Progress, Committed, vars
<1>13. QED
  BY <1>1, <1>2, <1>3, <1>4, <1>5, <1>6, <1>7, <1>8, <1>9, <1>10, <1>11, <1>12 DEF Next

\* Type correctness of the data file's variables.
THEOREM DataFileTypeOK == Spec => []TypeOK
<1>1. IInv => TypeOK
  BY DEF IInv
<1>2. QED
  BY <1>1, InitIInv, NextIInv, PTL DEF Spec

\* At every moment a restart finds whole records at the committed length.
THEOREM DataFileReadable == Spec => []Readable
<1>1. IInv => Readable
  BY DEF IInv
<1>2. QED
  BY <1>1, InitIInv, NextIInv, PTL DEF Spec

\* No failure and no crash takes back a record whose append returned nil.
THEOREM DataFileAckedIsKept == Spec => []AckedIsKept
<1>1. IInv => AckedIsKept
  BY DEF IInv
<1>2. QED
  BY <1>1, InitIInv, NextIInv, PTL DEF Spec

\* A step of the data file is a step of the abstract log or leaves it alone.
LEMMA StepImplements == IInv /\ [Next]_vars => [Log!Next]_(Log!vars)
<1> SUFFICES ASSUME IInv, [Next]_vars PROVE [Log!Next]_(Log!vars)
  OBVIOUS
<1> USE DataFileAssumption
<1> DEFINE S == Records \cup {Torn}
<1>0. /\ data \in Seq(S) /\ Committed \in 0..Len(data)
  BY DEF IInv, TypeOK, Readable
<1>1. ASSUME NEW r \in Records, AppendCall(r) PROVE Log!Call(r)
  BY <1>1 DEF IInv, Progress, AppendCall, Log!Call, Committed
<1>2. CASE WriteData \/ TearData
  <2>1. ptr = Committed /\ Committed' = Committed /\ rec' = rec /\ rec \in S \cup {NoRecord}
    BY <1>2 DEF IInv, TypeOK, Progress, Committed, WriteData, TearData
  <2>2. PICK e \in S : data' = Append(SubSeq(data, 1, ptr), e)
    BY <1>2 DEF IInv, TypeOK, Progress, WriteData, TearData
  <2>3. SubSeq(data', 1, Committed') = SubSeq(data, 1, Committed)
    BY <1>0, <2>1, <2>2, SamePrefix
  <2>4. (pc = "return") = FALSE /\ (pc' = "return") = FALSE
    BY <1>2 DEF WriteData, TearData
  <2>5. UNCHANGED Log!vars
    BY <2>1, <2>3, <2>4 DEF Log!vars
  <2>6. QED
    BY <2>5
<1>3. CASE ReadHeader \/ WriteSlot \/ TearSlot
  <2>1. Committed' = Committed /\ data' = data /\ rec' = rec
    BY <1>3 DEF IInv, TypeOK, Progress, Committed, ReadHeader, WriteSlot, TearSlot
  <2>2. (pc = "return") = FALSE /\ (pc' = "return") = FALSE
    BY <1>3 DEF ReadHeader, WriteSlot, TearSlot
  <2>3. QED
    BY <2>1, <2>2 DEF Log!vars
<1>4. CASE WriteFlag
  <2>1. /\ Committed' = Committed + 1 /\ Committed + 1 = Len(data) /\ data[Committed + 1] = rec
        /\ data' = data /\ rec' = rec /\ rec # NoRecord
    BY <1>4 DEF IInv, TypeOK, Readable, Progress, Committed, WriteFlag
  <2>2. SubSeq(data', 1, Committed') = Append(SubSeq(data, 1, Committed), rec)
    BY <1>0, <2>1, LongerPrefix
  <2>3. pc # "return" /\ pc' = "return"
    BY <1>4 DEF WriteFlag
  <2>4. Log!Add
    BY <2>1, <2>2, <2>3 DEF Log!Add
  <2>5. QED
    BY <2>4 DEF Log!Next
<1>5. CASE ReturnNil
  <2>1. Log!Return
    BY <1>5 DEF ReturnNil, Log!Return, Committed
  <2>2. QED
    BY <2>1 DEF Log!Next
<1>6. CASE ReturnError
  <2>1. Log!Fail
    BY <1>6 DEF ReturnError, Log!Fail, Committed
  <2>2. QED
    BY <2>1 DEF Log!Next
<1>7. CASE Crash
  <2>1. Log!Crash
    BY <1>7 DEF Crash, Log!Crash, Committed
  <2>2. QED
    BY <2>1 DEF Log!Next
<1>8. CASE LoadDB
  BY <1>8 DEF LoadDB, Log!vars, Committed
<1>9. CASE UNCHANGED vars
  BY <1>9 DEF vars, Log!vars, Committed
<1>10. QED
  BY <1>1, <1>2, <1>3, <1>4, <1>5, <1>6, <1>7, <1>8, <1>9 DEF Next, Log!Next

\* The data file implements the abstract log: append is atomic and durable.
THEOREM DataFileImplementsLog == Spec => ImplementsLog
<1>1. Init => Log!Init
  <2> SUFFICES ASSUME Init PROVE Log!Init
    OBVIOUS
  <2>1. Committed = 0 /\ data = <<>> /\ rec = NoRecord /\ pc = "idle"
    BY DEF Init, Committed
  <2>2. SubSeq(data, 1, Committed) = <<>>
    BY <2>1, SubSeqEmpty
  <2>3. QED
    BY <2>1, <2>2 DEF Log!Init
<1>2. QED
  BY <1>1, InitIInv, NextIInv, StepImplements, PTL DEF Spec, ImplementsLog, Log!Spec
=============================================================================
