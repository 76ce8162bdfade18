---------------------------- MODULE DurableLog ----------------------------
(***************************************************************************)
(* What Store.append promises to the operations that call it: a log of     *)
(* records that only grows.  A record is added as a whole or not at all; a *)
(* call that returns nil has added its record; one that returns an error   *)
(* has not; one that a crash cuts short may have.                          *)
(***************************************************************************)
EXTENDS Sequences

CONSTANTS
    Records,
    NoRecord        \* none of them

VARIABLES
    log,        \* the records a restart would read
    call,       \* the record of the append in progress, or NoRecord
    added       \* whether that record is in the log already

vars == <<log, call, added>>

Init ==
    /\ log = <<>>
    /\ call = NoRecord
    /\ added = FALSE

Call(r) ==
    /\ call = NoRecord
    /\ call' = r
    /\ UNCHANGED <<log, added>>

Add ==
    /\ call # NoRecord
    /\ ~ added
    /\ log' = Append(log, call)
    /\ added' = TRUE
    /\ UNCHANGED call

Return ==
    /\ added
    /\ call' = NoRecord
    /\ added' = FALSE
    /\ UNCHANGED log

Fail ==
    /\ ~ added
    /\ call' = NoRecord
    /\ UNCHANGED <<log, added>>

Crash ==
    /\ call' = NoRecord
    /\ added' = FALSE
    /\ UNCHANGED log

Next == (\E r \in Records : Call(r)) \/ Add \/ Return \/ Fail \/ Crash

Spec == Init /\ [][Next]_vars
=============================================================================
