----------------------------- MODULE DataFile -----------------------------
(***************************************************************************)
(* The data file (data/main.txt) under Store.append and loadDB             *)
(* (server/store_log.go).  Its header has a flag and two slots; the slot   *)
(* the flag names holds the length of the log.  append writes the records  *)
(* after that length, then the new length into the other slot, and then    *)
(* turns the flag: that single byte is the commit.                         *)
(*                                                                         *)
(* The module follows one call of append at a time, as store.Lock has it,  *)
(* write by write.  A write may fail or stop half way, and the process may *)
(* end between any two steps; what it has written stays written.           *)
(*                                                                         *)
(* Positions count the calls of append, not bytes: data[i] is what call i  *)
(* wrote, Torn when only a part of it.  Bytes of an earlier, failed call   *)
(* that lie beyond the end of the write are not kept: nothing reads them.  *)
(***************************************************************************)
EXTENDS Integers, Sequences

CONSTANTS
    Records,        \* what a call of append can be asked to write
    NoRecord,
    Torn,           \* a record or a slot of which only a part was written
    MaxLength       \* bound of the model: the length the log may reach

ASSUME DataFileAssumption ==
    /\ NoRecord \notin Records
    /\ Torn \notin Records
    /\ Torn \notin Nat
    /\ MaxLength \in Nat

VARIABLES
    data,       \* the file after its header
    slot,       \* the header: two lengths ...
    flag,       \* ... and which of them counts
    ptr,        \* store.ptr
    pc,         \* where append is
    rec,        \* buf, its argument
    newptr,     \* its local variables newptr ...
    seen,       \* ... and flag, as read from the header
    acked       \* history: the records whose append returned nil, by position

vars == <<data, slot, flag, ptr, pc, rec, newptr, seen, acked>>

Steps == {"idle", "data", "header", "slot", "flag", "return", "failed", "down"}

\* The length that loadDB finds in the header, and what it then reads.
Committed == slot[flag]

Init ==
    /\ data = <<>>
    /\ slot = [i \in {0, 1} |-> 0]
    /\ flag = 0
    /\ ptr = 0
    /\ pc = "idle"
    /\ rec = NoRecord
    /\ newptr = 0
    /\ seen = 0
    /\ acked = <<>>

AppendCall(r) ==
    /\ pc = "idle"
    /\ ptr < MaxLength
    /\ pc' = "data"
    /\ rec' = r
    /\ UNCHANGED <<data, slot, flag, ptr, newptr, seen, acked>>

\* Seek(store.ptr); Write(buf); newptr = Seek(0, 1)
WriteData ==
    /\ pc = "data"
    /\ data' = Append(SubSeq(data, 1, ptr), rec)
    /\ newptr' = ptr + 1
    /\ pc' = "header"
    /\ UNCHANGED <<slot, flag, ptr, rec, seen, acked>>

\* Seek(0); Read(tmp); flag := tmp[3]
ReadHeader ==
    /\ pc = "header"
    /\ seen' = flag
    /\ pc' = "slot"
    /\ UNCHANGED <<data, slot, flag, ptr, rec, newptr, acked>>

\* Wrong: the length goes to the slot in use.
WriteUsedSlot ==
    /\ pc = "slot"
    /\ slot' = [slot EXCEPT ![seen] = newptr]
    /\ pc' = "flag"
    /\ UNCHANGED <<data, flag, ptr, rec, newptr, seen, acked>>

\* Seek(10 or 4); Write(tmp[2:])
WriteSlot ==
    /\ pc = "slot"
    /\ slot' = [slot EXCEPT ![1 - seen] = newptr]
    /\ pc' = "flag"
    /\ UNCHANGED <<data, flag, ptr, rec, newptr, seen, acked>>

\* Seek(3); Write(flag)
WriteFlag ==
    /\ pc = "flag"
    /\ flag' = 1 - seen
    /\ pc' = "return"
    /\ UNCHANGED <<data, slot, ptr, rec, newptr, seen, acked>>

\* Wrong: the position is left where it was.
ReturnOldPtr ==
    /\ pc = "return"
    /\ pc' = "idle"
    /\ rec' = NoRecord
    /\ acked' = [i \in DOMAIN acked \cup {newptr} |-> IF i = newptr THEN rec ELSE acked[i]]
    /\ UNCHANGED <<data, slot, flag, ptr, newptr, seen>>

\* store.ptr = newptr; return nil
ReturnNil ==
    /\ pc = "return"
    /\ ptr' = newptr
    /\ pc' = "idle"
    /\ rec' = NoRecord
    /\ acked' = [i \in DOMAIN acked \cup {newptr} |-> IF i = newptr THEN rec ELSE acked[i]]
    /\ UNCHANGED <<data, slot, flag, newptr, seen>>

\* A write that stops half way.  The flag is one byte.
TearData ==
    /\ pc = "data"
    /\ data' = Append(SubSeq(data, 1, ptr), Torn)
    /\ pc' = "failed"
    /\ UNCHANGED <<slot, flag, ptr, rec, newptr, seen, acked>>

\* Wrong: the slot in use is the one half written.
TearUsedSlot ==
    /\ pc = "slot"
    /\ slot' = [slot EXCEPT ![seen] = Torn]
    /\ pc' = "failed"
    /\ UNCHANGED <<data, flag, ptr, rec, newptr, seen, acked>>

TearSlot ==
    /\ pc = "slot"
    /\ slot' = [slot EXCEPT ![1 - seen] = Torn]
    /\ pc' = "failed"
    /\ UNCHANGED <<data, flag, ptr, rec, newptr, seen, acked>>

\* Any of the calls returns an error, and append returns it.
ReturnError ==
    /\ pc \in {"data", "header", "slot", "flag", "failed"}
    /\ pc' = "idle"
    /\ rec' = NoRecord
    /\ UNCHANGED <<data, slot, flag, ptr, newptr, seen, acked>>

\* The process ends.
Crash ==
    /\ pc # "down"
    /\ pc' = "down"
    /\ rec' = NoRecord
    /\ UNCHANGED <<data, slot, flag, ptr, newptr, seen, acked>>

\* loadDB reads the records up to the length in the header.
LoadDB ==
    /\ pc = "down"
    /\ Committed # Torn
    /\ ptr' = Committed
    /\ pc' = "idle"
    /\ UNCHANGED <<data, slot, flag, rec, newptr, seen, acked>>

Next ==
    \/ \E r \in Records : AppendCall(r)
    \/ WriteData \/ ReadHeader \/ WriteSlot \/ WriteFlag \/ ReturnNil
    \/ TearData \/ TearSlot \/ ReturnError
    \/ Crash \/ LoadDB

Spec == Init /\ [][Next]_vars

----------------------------------------------------------------------------
(* Properties.                                                             *)

\* Every variable has its type.
TypeOK ==
    /\ data \in Seq(Records \cup {Torn})
    /\ slot \in [{0, 1} -> Nat \cup {Torn}]
    /\ flag \in {0, 1}
    /\ ptr \in Nat
    /\ pc \in Steps
    /\ rec \in Records \cup {NoRecord}
    /\ newptr \in Nat
    /\ seen \in {0, 1}
    /\ acked \in [DOMAIN acked -> Records]
    /\ DOMAIN acked \subseteq Nat \ {0}

\* At every moment, in the middle of an append too, the header names a length
\* at which a restart finds whole records only.
Readable ==
    /\ Committed \in 0..Len(data)
    /\ \A i \in 1..Committed : data[i] \in Records

\* A record whose append returned nil is read by every later restart, at the
\* position it was written to, whatever failed or crashed since.
AckedIsKept ==
    \A i \in DOMAIN acked : i <= Committed /\ data[i] = acked[i]

\* The detailed file implements the abstract log: what a restart reads.
Log == INSTANCE DurableLog WITH
    log   <- SubSeq(data, 1, Committed),
    call  <- rec,
    added <- pc = "return"

\* Writing slots and turning the flag makes append atomic.
ImplementsLog == Log!Spec
=============================================================================
