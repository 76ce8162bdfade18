-------------------------------- MODULE Boot --------------------------------
(***************************************************************************)
(* The start of the forum: main and newForum (main.go), NewStore and the   *)
(* frame of loadDB (server/store_log.go), preHandle (main.go), and what    *)
(* waits for the store to be ready: requests, the copy of the data file    *)
(* (Dup) and the option -csrf.                                             *)
(*                                                                         *)
(* The goroutine that loads the log, the one that serves requests and the  *)
(* two that wait share store.ready, store.ptr, forum.ForumConfig and       *)
(* store.dataFile without a lock.  Their writes are seen in the order of   *)
(* the statements here, as amd64 has it.                                   *)
(***************************************************************************)
EXTENDS Integers

CONSTANTS
    Options,        \* what the process is started for: "serve" or "csrf"
    CrashPoints,    \* where the process may be stopped from outside
    RecordSize,     \* the bytes of a record
    MaxRecords,     \* bound of the model: the records of the log
    MaxStarts       \* bound of the model: how often the process is started

ASSUME BootAssumption ==
    /\ Options \subseteq {"serve", "csrf"}
    /\ CrashPoints \subseteq {"stat", "create", "write header", "serving"}
    /\ RecordSize \in Nat \ {0} /\ MaxRecords \in Nat /\ MaxStarts \in Nat

VARIABLES
    file,       \* data/main.txt: "none", "empty" or "log"
    records,    \* the records that its header commits
    snapshot,   \* data/main.txt.snapshot: "none", "empty" or "log"
    starts,     \* the times the process was started
    option,     \* what it was started for
    main,       \* where main is
    loader,     \* where the goroutine of NewStore is
    loaded,     \* the records in memory: those read by loadDB, and the posts
    ptr,        \* store.ptr, in records
    ready,      \* store.ready
    config,     \* forum.ForumConfig: "nil", "blank", "read" or "corrected"
    open,       \* store.dataFile is there
    seen,       \* history: the configurations that requests were served with
    csrf        \* history: what became of a change that -csrf asked for

disk == <<file, records, snapshot>>
memory == <<loaded, ptr, ready, config, open>>
process == <<starts, option>>
history == <<seen, csrf>>
vars == <<disk, process, main, loader, memory, history>>

HeaderSize == 16

Init ==
    /\ file = "none" /\ records = 0 /\ snapshot = "none"
    /\ starts = 0 /\ option = "serve" /\ main = "down" /\ loader = "none"
    /\ loaded = 0 /\ ptr = 0 /\ ready = 0 /\ config = "nil" /\ open = FALSE
    /\ seen = {} /\ csrf = "none"

Start(o) ==
    /\ main = "down"
    /\ starts < MaxStarts
    /\ starts' = starts + 1
    /\ option' = o
    /\ main' = "stat"
    /\ loader' = "none"
    /\ loaded' = 0 /\ ptr' = 0 /\ ready' = 0 /\ config' = "nil" /\ open' = FALSE
    /\ UNCHANGED <<disk, history>>

\* NewStore, in the goroutine of main, makes a data file if there is none.
Stat ==
    /\ main = "stat"
    /\ main' = IF file = "none" THEN "create" ELSE "go"
    /\ UNCHANGED <<disk, process, loader, memory, history>>

Create ==
    /\ main = "create"
    /\ file' = "empty"
    /\ main' = "write header"
    /\ UNCHANGED <<records, snapshot, process, loader, memory, history>>

WriteHeader ==
    /\ main = "write header"
    /\ file' = "log"
    /\ main' = "go"
    /\ UNCHANGED <<records, snapshot, process, loader, memory, history>>

\* The loader is started, newForum returns, and main goes on to listen.
Listen ==
    /\ main = "go"
    /\ loader' = "header"
    /\ main' = "serving"
    /\ UNCHANGED <<disk, process, memory, history>>

\* The process ends, from outside or by a panic in a goroutine of its own.
Die == main' = "down" /\ loader' = "none"

\* A file without a header is a panic.
ReadHeader ==
    /\ loader = "header"
    /\ IF file = "empty"
       THEN Die
       ELSE loader' = "loop" /\ UNCHANGED main
    /\ UNCHANGED <<disk, process, memory, history>>

Pos(n) == HeaderSize + n * RecordSize

\* Wrong: the record that is being read counts.
ProgressAhead(n) == (Pos(n + 1) * 1000) \div Pos(records)

\* r.pos*1000/fsize
Progress(n) == (Pos(n) * 1000) \div Pos(records)

\* A turn of loadDB's loop publishes how far it is ...
Publish ==
    /\ loader = "loop"
    /\ ready' = Progress(loaded)
    /\ loader' = "ptr"
    /\ UNCHANGED <<disk, process, main, loaded, ptr, config, open, history>>

\* Wrong: the end of the log is not noticed.
SetPtrOnAndOn ==
    /\ loader = "ptr"
    /\ ptr' = loaded
    /\ loader' = IF loaded = records THEN "loop" ELSE "record"
    /\ UNCHANGED <<disk, process, main, loaded, ready, config, open, history>>

\* ... then moves store.ptr there ...
SetPtr ==
    /\ loader = "ptr"
    /\ ptr' = loaded
    /\ loader' = IF loaded = records THEN "onload" ELSE "record"
    /\ UNCHANGED <<disk, process, main, loaded, ready, config, open, history>>

\* ... and reads the next record.
LoadRecord ==
    /\ loader = "record"
    /\ loaded' = loaded + 1
    /\ loader' = "loop"
    /\ UNCHANGED <<disk, process, main, ptr, ready, config, open, history>>

\* onload: a new ForumConfig, GetConfig, CorrectValues
Onload ==
    /\ loader = "onload"
    /\ config' = CASE config = "nil" -> "blank"
                   [] config = "blank" -> "read"
                   [] OTHER -> "corrected"
    /\ loader' = IF config = "read" THEN "loaded" ELSE "onload"
    /\ UNCHANGED <<disk, process, main, loaded, ptr, ready, open, history>>

Loaded ==
    /\ loader = "loaded"
    /\ ready' = 1000
    /\ loader' = "open"
    /\ UNCHANGED <<disk, process, main, loaded, ptr, config, open, history>>

OpenDataFile ==
    /\ loader = "open"
    /\ open' = TRUE
    /\ loader' = "done"
    /\ UNCHANGED <<disk, process, main, loaded, ptr, ready, config, history>>

IsReady == main = "serving" /\ ready = 1000

\* preHandle lets a request pass, which uses ForumConfig.
Serve ==
    /\ IsReady
    /\ seen' = seen \cup {config}
    /\ UNCHANGED <<disk, process, main, loader, memory, csrf>>

\* A post is appended at store.ptr.  Without a data file that is an error.
Post ==
    /\ IsReady
    /\ config # "nil"
    /\ open
    /\ ptr < MaxRecords
    /\ records' = ptr + 1
    /\ ptr' = ptr + 1
    /\ loaded' = loaded + 1
    /\ UNCHANGED <<file, snapshot, process, main, loader, ready, config, open, history>>

\* Dup removes the last copy and creates a new one before it turns to the
\* data file.
Dup ==
    /\ IsReady
    /\ snapshot' = IF open THEN "log" ELSE "empty"
    /\ UNCHANGED <<file, records, process, main, loader, memory, history>>

\* With -csrf the process ends as soon as the new URL was given to the store;
\* UpdateConfig returns an error if it cannot append, which is not looked at.
\* On a nil ForumConfig the goroutine panics.
ChangeCsrf ==
    /\ option = "csrf"
    /\ IsReady
    /\ csrf' = IF config = "nil" THEN csrf ELSE IF open THEN "logged" ELSE "lost"
    /\ Die
    /\ UNCHANGED <<disk, process, memory, seen>>

Crash ==
    /\ main \in CrashPoints
    /\ Die
    /\ UNCHANGED <<disk, process, memory, history>>

MainStep == Stat \/ Create \/ WriteHeader \/ Listen
LoaderStep == ReadHeader \/ Publish \/ SetPtr \/ LoadRecord \/ Onload \/ Loaded \/ OpenDataFile

Next ==
    \/ \E o \in Options : Start(o)
    \/ MainStep \/ LoaderStep
    \/ Serve \/ Post \/ Dup \/ ChangeCsrf
    \/ Crash

Spec == Init /\ [][Next]_vars

\* Both goroutines can run until they are done, and Go lets them.
FairSpec == Spec /\ WF_vars(MainStep) /\ WF_vars(LoaderStep)

----------------------------------------------------------------------------
(* Properties.                                                             *)

\* Requests are let in, between any two statements of loadDB, only when all
\* records are in memory (the division gives 1000 no sooner); and once the
\* data file is there to append to, store.ptr is behind the last record: an
\* append never overwrites one that was committed, in this process or before.
ReadyMeansLoaded ==
    main = "serving" /\ ready = 1000 =>
        /\ loaded = records
        /\ open => ptr = records

\* A process that is started comes up, with its configuration and its data
\* file, unless it ends.
ComesUp == main = "stat" ~> (main = "down" \/ (loader = "done" /\ config = "corrected" /\ open))

\* The assertion of loadDB that its file has a header (store_log.go:159-162):
\* NewStore has made a file with one wherever there was none.
HeaderIsThere == loader = "header" => file = "log"

\* Until the forum is loaded, requests are told that it is "Booting"
\* (main.go:90): whoever passes finds a configuration with usable values.
ServedWithConfig == seen \subseteq {"corrected"}

\* The copy that /data.bin offers has the data in it (template/help.html:177).
SnapshotHasData == snapshot # "empty"

\* -csrf will "Change the URL for CSRF protection" (main.go:28).
CsrfIsKept == csrf # "lost"
=============================================================================
