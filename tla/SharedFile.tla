----------------------------- MODULE SharedFile -----------------------------
(***************************************************************************)
(* The data file byte by byte, with everything that uses it: Store.append  *)
(* (server/store_log.go) called under store.Lock by most operations and    *)
(* under configLock by UpdateConfig and SetMaxLiveTopics                   *)
(* (server/store_op.go), and Dup (server/store.go), which copies the file  *)
(* under store.RLock.                                                      *)
(*                                                                         *)
(* All of them share one os.File and so one file offset, and one           *)
(* store.ptr.  Each call of the operating system is one step.  Errors and  *)
(* crashes are in DataFile, which follows a single append.                 *)
(***************************************************************************)
EXTENDS Integers, Sequences, SequencesExt

CONSTANTS
    StoreCallers,   \* the requests whose operation takes store.Lock
    ConfigCallers,  \* those whose operation takes configLock
    NoRecord,
    Torn,
    MaxAppends,     \* bound of the model: the appends that return
    MaxDups,        \* bound of the model: the copies that are made
    Chunk           \* the bytes that io.Copy moves at a time (32768)

ASSUME SharedFileAssumption ==
    /\ StoreCallers # {} /\ StoreCallers \cap ConfigCallers = {}
    /\ MaxAppends \in Nat /\ MaxDups \in Nat /\ Chunk \in Nat \ {0}

VARIABLES
    file,       \* the bytes of the data file
    off,        \* its offset
    ptr,        \* store.ptr
    pc,         \* for each caller, where its append is
    rec,        \* its record
    newptr,     \* its local variables newptr ...
    seen,       \* ... and flag
    acked,      \* history: the records whose append returned nil, in order
    dup,        \* where Dup is
    copy,       \* the bytes of the snapshot file
    dups        \* history: the copies begun

appendVars == <<pc, rec, newptr, seen, acked>>
dupVars == <<dup, copy, dups>>
vars == <<file, off, ptr, appendVars, dupVars>>

Callers == StoreCallers \cup ConfigCallers

\* A record is OP_MAXTOPICS ('M') or OP_BLOCK ('B') with one byte of
\* arguments; the number tells the records of a run apart.
Records == {<<77, 1>>, <<66, 2>>}
RecordSize == 2

ASSUME RecordAssumption == NoRecord \notin Records

\* 'z', 'z', 'z', the flag, and two slots of six bytes that say 16
EmptyFile == <<122, 122, 122, 0, 0, 0, 0, 0, 0, 16, 0, 0, 0, 0, 0, 16>>
HeaderSize == 16

\* The model has lengths below 2^16; those of the code are below 2^48.
TooLong == 65536

ASSUME LengthAssumption == HeaderSize + RecordSize * MaxAppends < TooLong

\* Bytes b written at offset o.  The offset is never beyond the end.
WriteAt(o, b) ==
    [k \in 1..Max({Len(file), o + Len(b)}) |->
        IF k \in (o + 1)..(o + Len(b)) THEN b[k - o] ELSE file[k]]

\* A length below 2^16 in the six bytes of a slot
SlotBytes(n) == <<0, 0, 0, 0, n \div 256, n % 256>>

\* The length in the slot that starts at offset o of f, at most TooLong
SlotOf(f, o) ==
    IF \E k \in 1..4 : f[o + k] # 0 THEN TooLong ELSE 256 * f[o + 5] + f[o + 6]

Slot0 == 4
Slot1 == 10

\* The length that loadDB finds in a file
SizeOf(f) == SlotOf(f, IF f[4] = 0 THEN Slot0 ELSE Slot1)

\* What loadDB makes of file f: whether it panics, and the records it reads.
\* It stops where the header says, or silently at the end of the file.
Loads(f) ==
    /\ Len(f) >= HeaderSize
    /\ \A k \in 1..3 : f[k] = 122
    /\ f[4] \in {0, 1}
    /\ LET end == Min({SizeOf(f), Len(f)})
       IN  /\ SizeOf(f) >= HeaderSize
           /\ (end - HeaderSize) % RecordSize = 0
           /\ \A i \in 1..((end - HeaderSize) \div RecordSize) :
                SubSeq(f, HeaderSize + 2 * i - 1, HeaderSize + 2 * i) \in Records

RecordsUpTo(f, end) ==
    [i \in 1..((end - HeaderSize) \div RecordSize) |->
        SubSeq(f, HeaderSize + 2 * i - 1, HeaderSize + 2 * i)]

Loaded(f) == RecordsUpTo(f, Min({SizeOf(f), Len(f)}))

----------------------------------------------------------------------------

Init ==
    /\ file = EmptyFile
    /\ off = 0
    /\ ptr = HeaderSize
    /\ pc = [p \in Callers |-> "idle"]
    /\ rec = [p \in Callers |-> NoRecord]
    /\ newptr = [p \in Callers |-> HeaderSize]
    /\ seen = [p \in Callers |-> 0]
    /\ acked = <<>>
    /\ dup = "idle"
    /\ copy = <<>>
    /\ dups = 0

Goto(p, step) == pc' = [pc EXCEPT ![p] = step]

\* The other callers that hold the same lock as p have returned.
LockIsFree(p) ==
    \/ p \in StoreCallers /\ dup = "idle" /\ \A q \in StoreCallers : pc[q] = "idle"
    \/ p \in ConfigCallers /\ \A q \in ConfigCallers : pc[q] = "idle"

AppendCall(p, r) ==
    /\ pc[p] = "idle"
    /\ LockIsFree(p)
    /\ Len(acked) < MaxAppends
    /\ rec' = [rec EXCEPT ![p] = r]
    /\ Goto(p, "seek data")
    /\ UNCHANGED <<file, off, ptr, newptr, seen, acked, dupVars>>

\* The step of p that is a Seek to offset o
Seek(p, step, o, then) ==
    /\ pc[p] = step
    /\ off' = o
    /\ Goto(p, then)
    /\ UNCHANGED <<file, ptr, rec, newptr, seen, acked, dupVars>>

\* The step of p that is a Write of bytes b, where the offset is
Write(p, step, b, then) ==
    /\ pc[p] = step
    /\ file' = WriteAt(off, b)
    /\ off' = off + Len(b)
    /\ Goto(p, then)
    /\ UNCHANGED <<ptr, rec, newptr, seen, acked, dupVars>>

\* Wrong: append goes on writing where it is.
SeekNothing(p) == Seek(p, "seek data", off, "write data")

\* Seek(store.ptr, 0); Write(buf)
SeekData(p) == Seek(p, "seek data", ptr, "write data")
WriteData(p) == Write(p, "write data", rec[p], "tell")

\* newptr = Seek(0, 1)
Tell(p) ==
    /\ pc[p] = "tell"
    /\ newptr' = [newptr EXCEPT ![p] = off]
    /\ Goto(p, "seek header")
    /\ UNCHANGED <<file, off, ptr, rec, seen, acked, dupVars>>

\* Seek(0, 0)
SeekHeader(p) == Seek(p, "seek header", 0, "read header")

\* Read(tmp): up to eight bytes, of which tmp[3] counts.  At the end of the
\* file it is an error, which append returns.
ReadHeader(p) ==
    /\ pc[p] = "read header"
    /\ seen' = [seen EXCEPT ![p] = IF off + 4 <= Len(file) THEN file[off + 4] ELSE 0]
    /\ off' = Min({off + 8, Len(file)})
    /\ Goto(p, IF off < Len(file) THEN "seek slot" ELSE "idle")
    /\ UNCHANGED <<file, ptr, rec, newptr, acked, dupVars>>

\* Seek(10, 0) or Seek(4, 0); Write(tmp[2:])
SeekSlot(p) == Seek(p, "seek slot", IF seen[p] = 0 THEN Slot1 ELSE Slot0, "write slot")
WriteOldSlot(p) == Write(p, "write slot", SlotBytes(ptr), "seek flag")  \* wrong
WriteSlot(p) == Write(p, "write slot", SlotBytes(newptr[p]), "seek flag")

\* Seek(3, 0); Write(flag)
SeekFlag(p) == Seek(p, "seek flag", 3, "write flag")
WriteFlag(p) == Write(p, "write flag", <<IF seen[p] = 0 THEN 1 ELSE 0>>, "return")

\* store.ptr = newptr; return nil
ReturnNil(p) ==
    /\ pc[p] = "return"
    /\ ptr' = newptr[p]
    /\ acked' = Append(acked, rec[p])
    /\ rec' = [rec EXCEPT ![p] = NoRecord]
    /\ Goto(p, "idle")
    /\ UNCHANGED <<file, off, newptr, seen, dupVars>>

\* Wrong: Dup takes no lock.
DupUnlocked ==
    /\ dup = "idle"
    /\ dups < MaxDups
    /\ dups' = dups + 1
    /\ dup' = "seek"
    /\ copy' = <<>>
    /\ UNCHANGED <<file, off, ptr, appendVars>>

\* Dup under store.RLock: the last snapshot is removed and a new one created.
DupCall ==
    /\ dup = "idle"
    /\ \A p \in StoreCallers : pc[p] = "idle"
    /\ dups < MaxDups
    /\ dups' = dups + 1
    /\ dup' = "seek"
    /\ copy' = <<>>
    /\ UNCHANGED <<file, off, ptr, appendVars>>

\* Seek(0, 0)
DupSeek ==
    /\ dup = "seek"
    /\ off' = 0
    /\ dup' = "copy"
    /\ UNCHANGED <<file, ptr, appendVars, copy, dups>>

\* io.Copy: the next bytes of the file, until there are none
DupCopy ==
    /\ dup = "copy"
    /\ off < Len(file)
    /\ copy' = copy \o SubSeq(file, off + 1, Min({off + Chunk, Len(file)}))
    /\ off' = Min({off + Chunk, Len(file)})
    /\ UNCHANGED <<file, ptr, appendVars, dup, dups>>

DupReturn ==
    /\ dup = "copy"
    /\ off = Len(file)
    /\ dup' = "idle"
    /\ UNCHANGED <<file, off, ptr, appendVars, copy, dups>>

AppendStep(p) ==
    \/ SeekData(p) \/ WriteData(p) \/ Tell(p) \/ SeekHeader(p) \/ ReadHeader(p)
    \/ SeekSlot(p) \/ WriteSlot(p) \/ SeekFlag(p) \/ WriteFlag(p) \/ ReturnNil(p)

DupStep == DupSeek \/ DupCopy \/ DupReturn

Next ==
    \/ \E p \in Callers : AppendStep(p) \/ \E r \in Records : AppendCall(p, r)
    \/ DupCall \/ DupStep

Spec == Init /\ [][Next]_vars

----------------------------------------------------------------------------
(* Properties.                                                             *)

\* Every acknowledged record is in the file, in the order of the answers, and
\* at every moment a restart would load it; a record that is not acknowledged
\* yet may follow.
AckedLoads ==
    /\ Loads(file)
    /\ IsPrefix(acked, Loaded(file))
    /\ Len(Loaded(file)) <= Len(acked) + 1

\* "append writes data onto disk with WAL" (store_log.go:398): when no call is
\* in progress, a restart loads the log and every record whose append
\* returned nil is in it, whichever lock its operation took.
AppendIsWAL ==
    (\A p \in Callers : pc[p] = "idle") =>
        Loads(file) /\ Range(acked) \subseteq Range(Loaded(file))

\* When no Dup runs, the snapshot it left loads, and to a beginning of the
\* log: a later append does not reach into it.
SnapshotLoads ==
    dup = "idle" /\ copy # <<>> => Loads(copy) /\ IsPrefix(Loaded(copy), acked)

\* Where append is, in the steps of DataFile
Step(p) ==
    CASE pc[p] \in {"seek data", "write data"} -> "data"
      [] pc[p] \in {"tell", "seek header", "read header"} -> "header"
      [] pc[p] \in {"seek slot", "write slot"} -> "slot"
      [] pc[p] \in {"seek flag", "write flag"} -> "flag"
      [] OTHER -> pc[p]

\* An offset as a number of records
Place(o) == (o - HeaderSize) \div RecordSize

\* The caller that holds store.Lock for an append, if there is one
Caller ==
    IF \E p \in StoreCallers : pc[p] # "idle"
    THEN CHOOSE p \in StoreCallers : pc[p] # "idle"
    ELSE CHOOSE p \in StoreCallers : TRUE

\* DataFile has one caller, whose local variables stay as the last append
\* left them until it sets them again, and counts records instead of bytes.
Abstract == INSTANCE DataFile WITH
    MaxLength <- MaxAppends,
    data   <- RecordsUpTo(file, Len(file)),
    slot   <- [i \in {0, 1} |-> Place(SlotOf(file, IF i = 0 THEN Slot0 ELSE Slot1))],
    flag   <- file[4],
    ptr    <- Place(ptr),
    pc     <- Step(Caller),
    rec    <- rec[Caller],
    newptr <- Place(CASE pc[Caller] \in {"idle", "seek data", "write data"} -> ptr
                      [] pc[Caller] = "tell" -> off
                      [] OTHER -> newptr[Caller]),
    seen   <- IF Step(Caller) \in {"slot", "flag", "return"} THEN seen[Caller]
              ELSE IF ptr = HeaderSize THEN 0 ELSE 1 - file[4]

\* Under store.Lock, beside a Dup that moves the offset between any two
\* appends, the bytes are written as DataFile has it, whose steps go by
\* records and know of no offset.
ImplementsDataFile == Abstract!Spec
=============================================================================
