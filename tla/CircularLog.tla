----------------------------- MODULE CircularLog ----------------------------
(***************************************************************************)
(* CircularMessagesBuf (server/log.go): the buffers in which the logger    *)
(* keeps the last messages, and which the page of the administrator reads. *)
(*                                                                         *)
(* There is no lock.  Logger.Notice and Logger.Error are called by every   *)
(* request and worker, so the assignments of Add and the turns of          *)
(* GetOrdered's loop are steps that others can come between.               *)
(***************************************************************************)
EXTENDS Integers, Sequences

CONSTANTS
    Cap,            \* cap(b.Msgs), 1024
    Writers,        \* the goroutines that add messages
    MaxMessages     \* bound of the model: the messages added

ASSUME CircularLogAssumption ==
    Cap \in Nat \ {0} /\ MaxMessages \in Nat /\ Writers # {}

VARIABLES
    Msgs,           \* the buffer; 0 is the blank entry it is made with
    pos, full,
    pc,             \* for each writer, where its Add is
    added,          \* the messages so far, which are numbered
    reading,        \* GetOrdered is in progress
    size, res,      \* its local variables
    overlapped      \* history: two calls of Add were in progress at a time

vars == <<Msgs, pos, full, pc, added, reading, size, res, overlapped>>
reader == <<reading, size, res>>

Init ==
    /\ Msgs = [p \in 0..(Cap - 1) |-> 0]
    /\ pos = 0
    /\ full = FALSE
    /\ pc = [w \in Writers |-> "idle"]
    /\ added = 0
    /\ reading = FALSE /\ size = 0 /\ res = <<>>
    /\ overlapped = FALSE

Quiet == \A w \in Writers : pc[w] = "idle"

Goto(w, step) == pc' = [pc EXCEPT ![w] = step]

Add(w) ==
    /\ pc[w] = "idle"
    /\ Goto(w, IF pos = Cap THEN "reset" ELSE "store")
    /\ overlapped' = (overlapped \/ ~ Quiet)
    /\ UNCHANGED <<Msgs, pos, full, added, reader>>

Reset(w) ==
    /\ pc[w] = "reset"
    /\ pos' = 0
    /\ Goto(w, "full")
    /\ UNCHANGED <<Msgs, full, added, reader, overlapped>>

SetFull(w) ==
    /\ pc[w] = "full"
    /\ full' = TRUE
    /\ Goto(w, "store")
    /\ UNCHANGED <<Msgs, pos, added, reader, overlapped>>

\* An index beyond the buffer is a panic, which ends the call.
Store(w) ==
    /\ pc[w] = "store"
    /\ added < MaxMessages
    /\ added' = added + 1
    /\ IF pos \in DOMAIN Msgs
       THEN Msgs' = [Msgs EXCEPT ![pos] = added + 1] /\ Goto(w, "move")
       ELSE Goto(w, "idle") /\ UNCHANGED Msgs
    /\ UNCHANGED <<pos, full, reader, overlapped>>

\* Two writers that add to pos at the same time may count once.
Move(w) ==
    /\ pc[w] = "move"
    /\ pos' = pos + 1
    /\ Goto(w, "idle")
    /\ UNCHANGED <<Msgs, full, added, reader, overlapped>>

\* Wrong: the position before the first entry is not wrapped to the last.
PlaceOfFirst(i) == LET p == pos - 1 - i IN IF p < 0 THEN 0 ELSE p

\* The entry of the message that is i messages old
PlaceOf(i) == LET p == pos - 1 - i IN IF p < 0 THEN Cap + p ELSE p

GetOrdered ==
    /\ ~ reading
    /\ reading' = TRUE
    /\ size' = IF full THEN Cap ELSE pos
    /\ res' = <<>>
    /\ UNCHANGED <<Msgs, pos, full, pc, added, overlapped>>

\* A turn of the loop takes the address of an entry.  An index beyond the
\* buffer is a panic here too.
ReadEntry ==
    /\ reading
    /\ Len(res) < size
    /\ IF PlaceOf(Len(res)) \in DOMAIN Msgs
       THEN res' = Append(res, PlaceOf(Len(res))) /\ UNCHANGED <<reading, size>>
       ELSE reading' = FALSE /\ size' = 0 /\ res' = <<>>
    /\ UNCHANGED <<Msgs, pos, full, pc, added, overlapped>>

ReturnOrdered ==
    /\ reading
    /\ Len(res) >= size
    /\ reading' = FALSE
    /\ size' = 0
    /\ res' = <<>>
    /\ UNCHANGED <<Msgs, pos, full, pc, added, overlapped>>

Next ==
    \/ \E w \in Writers : Add(w) \/ Reset(w) \/ SetFull(w) \/ Store(w) \/ Move(w)
    \/ GetOrdered \/ ReadEntry \/ ReturnOrdered

Spec == Init /\ [][Next]_vars

----------------------------------------------------------------------------
(* Properties.                                                             *)

\* What GetOrdered gives when nobody writes: the last Cap messages, the
\* newest first.
QuietOrder ==
    Quiet =>
        LET n == IF full THEN Cap ELSE pos
        IN  /\ n = IF added < Cap THEN added ELSE Cap
            /\ \A i \in 0..(n - 1) : PlaceOf(i) \in DOMAIN Msgs /\ Msgs[PlaceOf(i)] = added - i

\* While writers go on, a reader that they overtake may see a message twice or
\* miss one, but gets only messages, never more than there are, and
\* never leaves the buffer.
ReadsMessages ==
    reading => /\ size <= Cap /\ size <= added
               /\ \A i \in DOMAIN res : Msgs[res[i]] # 0
               /\ Len(res) < size => PlaceOf(Len(res)) \in DOMAIN Msgs

\* As long as no two calls of Add were in progress at a time, the buffer gives
\* the last messages of all writers, in order when nobody writes, and a reader
\* gets nothing else and stays within it (log.go:40-65).
AddsInTurnAreKept == overlapped \/ (QuietOrder /\ ReadsMessages)

\* "Add adds a message" (log.go:39): the position never leaves the buffer for
\* good.  Add compares it with Cap only, so beyond that every call panics.
StaysUsable == pos <= Cap
=============================================================================
