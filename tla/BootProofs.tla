----------------------------- MODULE BootProofs -----------------------------
(***************************************************************************)
(* Proofs about Boot for all logs, record sizes, crashes and restarts:     *)
(* requests are let in no sooner than the log was read, and what they      *)
(* append lies behind every record that was committed.                     *)
(*                                                                         *)
(* store.ready is written by the goroutine that loads, which the requests  *)
(* do not wait for: the invariant says what it can be at each place of     *)
(* that goroutine.  It rests on the division by which loadDB tells how far *)
(* it is, whose quotient is 1000 at the end of the log only.               *)
(***************************************************************************)
EXTENDS Boot, TLAPS

\* What the loader has read where it is, and what store.ready and store.ptr
\* tell of it.  In the statement between the two, at "ptr", store.ready can be
\* 1000 already.
LoaderInv ==
    /\ loader # "none" => main = "serving"
    /\ loader = "header" => loaded = 0 /\ ready = 0
    /\ loader = "loop" => loaded <= records /\ ready < 1000
    /\ loader = "ptr" => loaded <= records /\ (loaded # records => ready < 1000)
    /\ loader = "record" => loaded < records /\ ready < 1000
    /\ loader \notin {"none", "header", "loop", "ptr", "record"} =>
         loaded = records /\ ptr = records

\* Until main listens, no loader runs and nothing is left of the last start.
MainInv ==
    /\ main \in {"stat", "create", "write header", "go"} =>
         loader = "none" /\ loaded = 0 /\ ready = 0 /\ ~ open
    /\ main = "serving" => loader # "none" /\ (open => loader = "done")

BootInv ==
    /\ records \in Nat /\ loaded \in Nat /\ ptr \in Nat /\ ready \in Nat
    /\ LoaderInv
    /\ MainInv

----------------------------------------------------------------------------
(* r.pos*1000/fsize                                                        *)

\* A quotient is below q where the dividend is below q times the divisor.
LEMMA QuotientBelow ==
    ASSUME NEW a \in Nat, NEW b \in Nat \ {0}, NEW q \in Nat, a < q * b
    PROVE  a \div b \in Nat /\ a \div b < q
<1>1. a \div b \in Nat /\ b * (a \div b) <= a
  OBVIOUS
<1>2. ASSUME a \div b >= q PROVE FALSE
  <2>1. b * (a \div b) >= b * q
    BY <1>1, <1>2
  <2>2. QED
    BY <1>1, <2>1
<1>3. QED
  BY <1>1, <1>2

\* The position of a record is a number, and later records lie behind it.
LEMMA PosGrows ==
    ASSUME NEW n \in Nat, NEW m \in Nat, n < m
    PROVE  Pos(n) \in Nat /\ Pos(m) \in Nat \ {0} /\ Pos(n) < Pos(m)
<1>0. RecordSize \in Nat /\ RecordSize # 0
  BY BootAssumption
<1>1. RecordSize > 0
  BY <1>0
<1>2. n * RecordSize \in Nat /\ m * RecordSize \in Nat /\ n * RecordSize < m * RecordSize
  BY <1>0, <1>1
<1>3. QED
  BY <1>2 DEF Pos, HeaderSize

\* Progress comes to 1000 at the end of the log and no sooner.
LEMMA ProgressBelow ==
    ASSUME NEW n \in Nat, records \in Nat, n < records
    PROVE  Progress(n) \in Nat /\ Progress(n) < 1000
<1>1. Pos(n) \in Nat /\ Pos(records) \in Nat \ {0} /\ Pos(n) < Pos(records)
  BY PosGrows
<1>2. Pos(n) * 1000 \in Nat /\ Pos(n) * 1000 < 1000 * Pos(records)
  BY <1>1
<1>3. QED
  BY <1>1, <1>2, QuotientBelow DEF Progress

LEMMA ProgressAtEnd ==
    ASSUME records \in Nat
    PROVE  Progress(records) \in Nat
<1>1. Pos(records) \in Nat \ {0}
  <2>1. RecordSize \in Nat
    BY BootAssumption
  <2>2. records * RecordSize \in Nat
    BY <2>1
  <2>3. QED
    BY <2>2 DEF Pos, HeaderSize
<1>2. QED
  BY <1>1 DEF Progress

----------------------------------------------------------------------------
(* The invariant.                                                          *)

LEMMA BootInitInv == Init => BootInv
BY DEF Init, BootInv, LoaderInv, MainInv

\* What a step does to the seven variables of the invariant
Same == UNCHANGED <<records, loaded, ptr, ready, main, loader, open>>
Ends == UNCHANGED <<records, loaded, ptr, ready>> /\ main' = "down" /\ loader' = "none"

Numbers == records \in Nat /\ loaded \in Nat /\ ptr \in Nat /\ ready \in Nat

LEMMA SameKeepsInv == ASSUME BootInv, Same PROVE BootInv'
<1>1. Numbers'
  BY DEF BootInv, Same, Numbers
<1>2. LoaderInv'
  BY DEF BootInv, LoaderInv, Same
<1>3. MainInv'
  BY DEF BootInv, MainInv, Same
<1>4. QED
  BY <1>1, <1>2, <1>3 DEF BootInv, Numbers

LEMMA EndKeepsInv == ASSUME BootInv, Ends PROVE BootInv'
<1>1. Numbers'
  BY DEF BootInv, Ends, Numbers
<1>2. LoaderInv'
  BY Zenon DEF LoaderInv, Ends
<1>3. MainInv'
  BY Zenon DEF MainInv, Ends
<1>4. QED
  BY <1>1, <1>2, <1>3 DEF BootInv, Numbers

\* The steps of main before it listens
LEMMA MainKeepsInv ==
    ASSUME BootInv, (\E o \in Options : Start(o)) \/ MainStep
    PROVE  BootInv'
<1>1. ASSUME NEW o \in Options, Start(o) PROVE BootInv'
  <2>1. /\ records' = records /\ loaded' = 0 /\ ptr' = 0 /\ ready' = 0
        /\ main' = "stat" /\ loader' = "none" /\ open' = FALSE
    BY <1>1 DEF Start, disk
  <2>2. Numbers'
    BY <2>1 DEF BootInv, Numbers
  <2>3. LoaderInv'
    BY <2>1, Zenon DEF LoaderInv
  <2>4. MainInv'
    BY <2>1, Zenon DEF MainInv
  <2>5. QED
    BY <2>2, <2>3, <2>4 DEF BootInv, Numbers
<1>2. CASE MainStep
  <2>1. UNCHANGED <<records, loaded, ptr, ready, open>>
    BY <1>2 DEF MainStep, Stat, Create, WriteHeader, Listen, disk, memory
  <2>2. /\ main \in {"stat", "create", "write header", "go"}
        /\ \/ main' \in {"create", "write header", "go"} /\ loader' = loader
           \/ main' = "serving" /\ loader' = "header"
    BY <1>2 DEF MainStep, Stat, Create, WriteHeader, Listen
  <2>3. loader = "none" /\ loaded = 0 /\ ready = 0 /\ ~ open
    BY <2>2 DEF BootInv, MainInv
  <2>4. loaded' = 0 /\ ready' = 0 /\ ~ open'
    BY <2>1, <2>3
  <2>5. Numbers'
    BY <2>1 DEF BootInv, Numbers
  <2>6. LoaderInv' /\ MainInv'
    <3>1. CASE main' \in {"create", "write header", "go"} /\ loader' = loader
      BY <2>3, <2>4, <3>1, Zenon DEF LoaderInv, MainInv
    <3>2. CASE main' = "serving" /\ loader' = "header"
      BY <2>4, <3>2, Zenon DEF LoaderInv, MainInv
    <3>3. QED
      BY <2>2, <3>1, <3>2
  <2>7. QED
    BY <2>5, <2>6 DEF BootInv, Numbers
<1>3. QED
  BY <1>1, <1>2

\* The three statements of a turn of the loop: store.ready ...
LEMMA PublishKeepsInv == ASSUME BootInv, Publish PROVE BootInv'
<1>0. /\ loader = "loop" /\ main = "serving" /\ main' = main /\ loader' = "ptr"
      /\ UNCHANGED <<records, loaded, ptr, open>> /\ ready' = Progress(loaded)
  BY DEF BootInv, LoaderInv, Publish, disk
<1>1. Numbers /\ loaded <= records /\ ~ open
  BY <1>0 DEF BootInv, LoaderInv, MainInv, Numbers
<1>2. ready' \in Nat /\ (loaded # records => ready' < 1000)
  <2>1. CASE loaded = records
    BY <1>0, <1>1, <2>1, ProgressAtEnd DEF Numbers
  <2>2. CASE loaded # records
    <3>1. loaded < records
      BY <1>1, <2>2 DEF Numbers
    <3>2. QED
      BY <1>0, <1>1, <3>1, ProgressBelow DEF Numbers
  <2>3. QED
    BY <2>1, <2>2
<1>3. loaded' <= records' /\ (loaded' # records' => ready' < 1000) /\ ~ open'
  BY <1>0, <1>1, <1>2
<1>4. LoaderInv' /\ MainInv'
  BY <1>0, <1>3, Zenon DEF LoaderInv, MainInv
<1>5. QED
  BY <1>0, <1>1, <1>2, <1>4 DEF BootInv, Numbers

\* ... store.ptr ...
LEMMA SetPtrKeepsInv == ASSUME BootInv, SetPtr PROVE BootInv'
<1>0. /\ loader = "ptr" /\ main = "serving" /\ main' = main
      /\ UNCHANGED <<records, loaded, ready, open>> /\ ptr' = loaded
  BY DEF BootInv, LoaderInv, SetPtr, disk
<1>1. Numbers /\ loaded <= records /\ (loaded # records => ready < 1000) /\ ~ open
  BY <1>0 DEF BootInv, LoaderInv, MainInv, Numbers
<1>2. CASE loaded = records
  <2>1. loader' = "onload" /\ loaded' = records' /\ ptr' = records' /\ ~ open'
    BY <1>0, <1>1, <1>2 DEF SetPtr
  <2>2. LoaderInv' /\ MainInv'
    BY <1>0, <2>1, Zenon DEF LoaderInv, MainInv
  <2>3. QED
    BY <1>0, <1>1, <2>2 DEF BootInv, Numbers
<1>3. CASE loaded # records
  <2>1. loader' = "record" /\ loaded' < records' /\ ready' < 1000 /\ ~ open'
    BY <1>0, <1>1, <1>3 DEF SetPtr, Numbers
  <2>2. LoaderInv' /\ MainInv'
    BY <1>0, <2>1, Zenon DEF LoaderInv, MainInv
  <2>3. QED
    BY <1>0, <1>1, <2>2 DEF BootInv, Numbers
<1>4. QED
  BY <1>2, <1>3

\* ... and the next record
LEMMA LoadRecordKeepsInv == ASSUME BootInv, LoadRecord PROVE BootInv'
<1>1. /\ loader = "record" /\ loader' = "loop" /\ main' = main
      /\ UNCHANGED <<records, ptr, ready, open>> /\ loaded' = loaded + 1
  BY DEF LoadRecord, disk
<1>2. Numbers /\ main = "serving" /\ loaded < records /\ ready < 1000 /\ ~ open
  BY <1>1 DEF BootInv, LoaderInv, MainInv, Numbers
<1>3. Numbers' /\ loaded' <= records' /\ ready' < 1000 /\ ~ open'
  BY <1>1, <1>2 DEF Numbers
<1>4. LoaderInv' /\ MainInv'
  BY <1>1, <1>2, <1>3, Zenon DEF LoaderInv, MainInv
<1>5. QED
  BY <1>3, <1>4 DEF BootInv, Numbers

\* All steps of the loader
LEMMA LoaderKeepsInv == ASSUME BootInv, LoaderStep PROVE BootInv'
<1>0. Numbers
  BY DEF BootInv, Numbers
<1>1. CASE ReadHeader
  <2>1. UNCHANGED <<records, loaded, ptr, ready, open>> /\ loader = "header"
    BY <1>1 DEF ReadHeader, disk, memory
  <2>2. CASE main' = main /\ loader' = "loop"
    <3>1. main = "serving" /\ loaded = 0 /\ ready = 0 /\ ~ open
      BY <2>1 DEF BootInv, LoaderInv, MainInv
    <3>2. loaded' <= records' /\ ready' < 1000 /\ ~ open'
      BY <1>0, <2>1, <3>1 DEF Numbers
    <3>3. LoaderInv' /\ MainInv'
      BY <2>2, <3>1, <3>2, Zenon DEF LoaderInv, MainInv
    <3>4. QED
      BY <1>0, <2>1, <3>3 DEF BootInv, Numbers
  <2>3. CASE Die
    BY <2>1, <2>3, EndKeepsInv DEF Die, Ends
  <2>4. QED
    BY <1>1, <2>2, <2>3 DEF ReadHeader
<1>2. CASE Onload \/ Loaded \/ OpenDataFile
  <2>1. /\ loader \in {"onload", "loaded", "open"} /\ loader' \in {"onload", "loaded", "open", "done"}
        /\ main' = main /\ UNCHANGED <<records, loaded, ptr>> /\ ready' \in Nat
        /\ open' = open \/ loader' = "done"
    BY <1>0, <1>2 DEF Onload, Loaded, OpenDataFile, disk, Numbers
  <2>2. main = "serving" /\ loaded = records /\ ptr = records /\ ~ open
    BY <2>1 DEF BootInv, LoaderInv, MainInv
  <2>3. main' = "serving" /\ loaded' = records' /\ ptr' = records' /\ (open' => loader' = "done")
    BY <2>1, <2>2
  <2>4. LoaderInv' /\ MainInv'
    BY <2>1, <2>3, Zenon DEF LoaderInv, MainInv
  <2>5. QED
    BY <1>0, <2>1, <2>4 DEF BootInv, Numbers
<1>3. QED
  BY <1>1, <1>2, PublishKeepsInv, SetPtrKeepsInv, LoadRecordKeepsInv DEF LoaderStep

\* A post is appended when the data file is there, so that the loader is done:
\* it finds ptr at the end of the log, and leaves it there.
LEMMA PostKeepsInv == ASSUME BootInv, Post PROVE BootInv' /\ records' = records + 1
<1>1. /\ main = "serving" /\ open /\ records' = ptr + 1 /\ ptr' = ptr + 1 /\ loaded' = loaded + 1
      /\ UNCHANGED <<main, loader, ready, open>>
  BY DEF Post, IsReady
<1>2. Numbers
  BY DEF BootInv, Numbers
<1>3. loader = "done"
  BY <1>1 DEF BootInv, MainInv
<1>4. loaded = records /\ ptr = records
  BY <1>3 DEF BootInv, LoaderInv
<1>5. loaded' = records' /\ ptr' = records' /\ Numbers'
  BY <1>1, <1>2, <1>4 DEF Numbers
<1>6. LoaderInv' /\ MainInv'
  BY <1>1, <1>3, <1>5, Zenon DEF LoaderInv, MainInv
<1>7. QED
  BY <1>1, <1>4, <1>5, <1>6 DEF BootInv, Numbers

LEMMA BootStepInv == BootInv /\ [Next]_vars => BootInv'
<1> SUFFICES ASSUME BootInv, [Next]_vars PROVE BootInv'
  OBVIOUS
<1>1. CASE UNCHANGED vars \/ Serve \/ Dup
  <2>1. Same
    BY <1>1 DEF Same, Serve, Dup, vars, disk, memory
  <2>2. QED
    BY <2>1, SameKeepsInv
<1>2. CASE ChangeCsrf \/ Crash
  <2>1. Ends
    BY <1>2 DEF Ends, ChangeCsrf, Crash, Die, disk, memory
  <2>2. QED
    BY <2>1, EndKeepsInv
<1>3. QED
  BY <1>1, <1>2, MainKeepsInv, LoaderKeepsInv, PostKeepsInv DEF Next

\* THEOREM.  All steps, of both goroutines and of requests, crashes and
\* restarts among them, keep the invariant.
THEOREM BootInvariant == Spec => []BootInv
BY BootInitInv, BootStepInv, PTL DEF Spec

\* THEOREM.  Requests are let in only when the whole log is in memory, also
\* in the statements of loadDB between store.ready and store.ptr; and when
\* there is a file to append to, store.ptr is behind the last record
\* (store_log.go:176-192, 296, 327; main.go:86-94).
THEOREM RequestsFindTheLog == Spec => []ReadyMeansLoaded
<1>1. BootInv => ReadyMeansLoaded
  <2> SUFFICES ASSUME BootInv, main = "serving", ready = 1000
               PROVE  loaded = records /\ (open => ptr = records)
    BY DEF ReadyMeansLoaded
  <2>1. loader \notin {"none", "header", "loop", "record"}
    BY DEF BootInv, LoaderInv, MainInv
  <2>2. loaded = records
    BY <2>1 DEF BootInv, LoaderInv
  <2>3. ASSUME open PROVE ptr = records
    <3>1. loader = "done"
      BY <2>3 DEF BootInv, MainInv
    <3>2. QED
      BY <3>1 DEF BootInv, LoaderInv
  <2>4. QED
    BY <2>2, <2>3
<1>2. QED
  BY <1>1, BootInvariant, PTL

\* THEOREM.  No step of any start takes back a committed record: a post is
\* added behind all of them (store_log.go:398-446).
THEOREM RecordsOnlyGrow == Spec => [][records' = records \/ records' = records + 1]_vars
<1>1. BootInv /\ [Next]_vars => [records' = records \/ records' = records + 1]_vars
  <2> SUFFICES ASSUME BootInv, Next PROVE records' = records \/ records' = records + 1
    OBVIOUS
  <2>1. CASE Post
    BY <2>1, PostKeepsInv
  <2>2. CASE ~ Post
    BY <2>2 DEF Next, Start, MainStep, LoaderStep, Stat, Create, WriteHeader, Listen, ReadHeader,
       Publish, SetPtr, LoadRecord, Onload, Loaded, OpenDataFile, Serve, Dup, ChangeCsrf, Crash, disk
  <2>3. QED
    BY <2>1, <2>2
<1>2. QED
  BY <1>1, BootInvariant, PTL DEF Spec
=============================================================================
