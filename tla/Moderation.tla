------------------------------ MODULE Moderation ----------------------------
(***************************************************************************)
(* The commands in posts (modCode, handler/mod.go) and what they do to the *)
(* configuration: the one ForumConfig in memory, which every request reads *)
(* and writes without a lock, the JSON in the log (Store.UpdateConfig,     *)
(* GetConfig), the limit of live topics, which has a record of its own     *)
(* (SetMaxLiveTopics), and CorrectValues, which a start applies (main.go). *)
(* The commands to delete are composed with the images of Images; the      *)
(* store operations of the other commands are those of Store.              *)
(*                                                                         *)
(* Each line of a command is a step that those of other requests can come  *)
(* between; the lines of a message are those before the first that is no   *)
(* command.  A value of a setting is an integer, texts and flags included. *)
(***************************************************************************)
EXTENDS Images

CONSTANTS
    Requests,
    Users,              \* records: the permissions, and wrote: is the author of the images
    Messages,           \* records: the subject, and the lines, each with op and arg
    Numbers, Flags, Texts,      \* the settings; Numbers are those of CorrectValues
    Default,            \* of each of Numbers
    NotSaved,           \* configStr of a log without OP_CONFIG
    Half,               \* 2^31
    FirstLimit,         \* 1024
    MaxRequests         \* bound of the model

Settings == Numbers \cup Flags \cup Texts

ASSUME ModerationAssumption ==
    /\ Half \in Nat /\ Half > 1
    /\ \A s \in Numbers : Default[s] \in 1..(Half - 1)
    /\ (Numbers \cup Flags) \cap Texts = {} /\ Numbers \cap Flags = {}
    /\ NotSaved \notin [Settings -> Int]
    /\ FirstLimit \in 0..(2 * Half - 1)

Lines == UNION {Range(m.lines) : m \in Messages}

ASSUME MessagesAssumption ==
    /\ \A m \in Messages : m.subject \in {"", "append", "announce"} /\ m.lines \in Seq(Lines)
    /\ \A l \in Lines : l.op \in Numbers \cup Texts \cup {"max-live-topics"} => l.arg \in Int

VARIABLES
    conf,               \* Kforum.ForumConfig
    configStr,          \* the configuration in the log
    limit, limitLog,    \* maxLiveTopics, and its value in the log
    Kprod,              \* a start sets it, except with the test password
    req,                \* the requests
    started,            \* how many there were
    loose               \* history: a request left settings unsaved

settingVars == <<conf, configStr, limit, limitLog, Kprod, loose>>
moderationVars == <<settingVars, req, started, imageVars>>

----------------------------------------------------------------------------
(* Settings.                                                               *)

\* checkInt: the top bit of uint32(i - 1) decides.
CheckInt(i, v) == v * (((i - 1) % (2 * Half)) \div Half) + i

CorrectValues(c) == [s \in Settings |-> IF s \in Numbers THEN CheckInt(c[s], Default[s]) ELSE c[s]]

ZeroConfig == [s \in Settings |-> 0]

\* The configuration that a start makes of the log
LoadConfig(str) == CorrectValues(IF str = NotSaved THEN ZeroConfig ELSE str)

NoRequest == [at |-> "idle", user |-> [perms |-> {}, wrote |-> FALSE], subject |-> "",
              lines |-> <<>>, opcode |-> FALSE]

ModerationInit ==
    /\ ImagesInit
    /\ configStr = NotSaved /\ conf = LoadConfig(NotSaved)
    /\ limit = FirstLimit /\ limitLog = FirstLimit
    /\ Kprod = TRUE
    /\ req = [r \in Requests |-> NoRequest]
    /\ started = 0
    /\ loose = FALSE

Can(r, perm) == perm \in req[r].user.perms

modCode(r) ==
    /\ req[r].at = "idle"
    /\ started < MaxRequests /\ started' = started + 1
    /\ \E u \in Users, message \in Messages :
          req' = [req EXCEPT ![r] = [at |-> "subject", user |-> u, subject |-> message.subject,
                                     lines |-> message.lines, opcode |-> FALSE]]
    /\ UNCHANGED <<settingVars, imageVars>>

\* "!!append=" returns after AppendPost, "!!announce" goes to UPDATE, and
\* those who may not do so have their message read for commands.
Subject(r) ==
    LET command == req[r].subject # "" /\ Can(r, "APPEND_ANNOUNCE")
    IN  /\ req[r].at = "subject"
        /\ req' = [req EXCEPT ![r] = CASE ~ command -> [@ EXCEPT !.at = "lines"]
                                       [] command /\ @.subject = "append" -> NoRequest
                                       [] command /\ @.subject = "announce" ->
                                             [@ EXCEPT !.at = "update", !.opcode = TRUE]]
        /\ conf' = IF command /\ req[r].subject = "announce"
                   THEN [conf EXCEPT !["announcement"] = 1 - @] ELSE conf
        /\ UNCHANGED <<configStr, limit, limitLog, Kprod, loose, started, imageVars>>

----------------------------------------------------------------------------
(* A line.                                                                 *)

\* The permission that modCode itself asks for; "" is none.
Permission(op) ==
    CASE op \in Numbers \cup Texts \cup {"moat", "max-live-topics", "free-reply"} -> "ADMIN"
      [] op \in {"stick", "purge"} -> "STICKY_PURGE"
      [] op = "lock" -> "LOCK_SAGE_DELETE_FLAG"
      [] op = "block" -> "BLOCK"
      [] OTHER -> ""

May(r, op) == Permission(op) = "" \/ Can(r, Permission(op))

StoreCommands == {"free-reply", "stick", "purge", "lock", "block", "nsfw", "sage"}
DeleteCommands == {"delete", "delete-image"}
Commands == Numbers \cup Texts \cup StoreCommands \cup DeleteCommands \cup {"moat", "max-live-topics"}

At(r, op) ==
    req[r].at = "lines" /\ req[r].lines # <<>> /\ Head(req[r].lines).op = op /\ May(r, op)

\* On to the next line.
Performed(r, at) ==
    req' = [req EXCEPT ![r].at = at, ![r].lines = Tail(@), ![r].opcode = TRUE]

\* return true: what the lines before it have set is not saved.
Denied(r) ==
    /\ req[r].at = "lines" /\ req[r].lines # <<>> /\ ~ May(r, Head(req[r].lines).op)
    /\ req' = [req EXCEPT ![r] = NoRequest]
    /\ loose' = (loose \/ req[r].opcode)
    /\ UNCHANGED <<conf, configStr, limit, limitLog, Kprod, started, imageVars>>

\* Commands that may end in a panic: they walk the list of topics, which
\* SetMaxLiveTopics may have broken (TopicList), or decode a term that is too
\* long for its eight bytes (Parse8Bytes).
Panicking == StoreCommands \cup DeleteCommands \cup {"max-live-topics"}

\* net/http recovers, deferred calls unlock, and modCode ends before UPDATE.
Panics(r, op) ==
    /\ At(r, op)
    /\ op \notin {"block", "max-live-topics"} => removing = NotRemoving
    /\ req' = [req EXCEPT ![r] = NoRequest]
    /\ loose' = (loose \/ req[r].opcode)
    /\ UNCHANGED <<conf, configStr, limit, limitLog, Kprod, started, imageVars>>

Set(r, s) ==
    /\ s \in Numbers \cup Texts /\ At(r, s)
    /\ conf' = [conf EXCEPT ![s] = Head(req[r].lines).arg]
    /\ Performed(r, "lines")
    /\ UNCHANGED <<configStr, limit, limitLog, Kprod, loose, started, imageVars>>

Moat(r) ==
    LET v == Head(req[r].lines).arg
    IN  /\ At(r, "moat")
        /\ conf' = IF v \in Flags THEN [conf EXCEPT ![v] = 1 - @] ELSE conf
        /\ Kprod' = (Kprod # (v = "production"))
        /\ Performed(r, "lines")
        /\ UNCHANGED <<configStr, limit, limitLog, loose, started, imageVars>>

\* The limit is logged as a uint32; archiveJob or append may fail.
SetMaxLiveTopics(r) ==
    LET num == Head(req[r].lines).arg
    IN  /\ At(r, "max-live-topics")
        /\ \/ limit' = num /\ limitLog' = num % (2 * Half) /\ UNCHANGED failures
           \/ Fail /\ UNCHANGED <<limit, limitLog>>
        /\ Performed(r, "lines")
        /\ UNCHANGED <<conf, configStr, Kprod, loose, started, fileVars, queue, worker, upload,
                       postVars, removing>>

\* An operation of Store.  Its error ends the line and not the request.
StoreCommand(r, op) ==
    /\ At(r, op)
    /\ removing = NotRemoving
    /\ Performed(r, "lines")
    /\ UNCHANGED <<settingVars, started, imageVars>>

MayDelete(r, n) ==
    n \in posted /\ (Can(r, "LOCK_SAGE_DELETE_FLAG") \/ req[r].user.wrote)

Delete(r, op) ==
    LET n == Head(req[r].lines).arg
    IN  /\ At(r, op)
        /\ removing = NotRemoving
        /\ IF MayDelete(r, n) THEN DeletePost(n, op = "delete-image") ELSE UNCHANGED imageVars
        /\ Performed(r, IF removing' = NotRemoving THEN "lines" ELSE "delete")
        /\ UNCHANGED <<settingVars, started>>

Deleted(r) ==
    /\ req[r].at = "delete" /\ removing = NotRemoving
    /\ req' = [req EXCEPT ![r].at = "lines"]
    /\ UNCHANGED <<settingVars, started, imageVars>>

Unknown(r) ==
    /\ req[r].at = "lines" /\ req[r].lines # <<>>
    /\ Head(req[r].lines).op \notin Commands
    /\ req' = [req EXCEPT ![r].lines = Tail(@)]
    /\ UNCHANGED <<settingVars, started, imageVars>>

\* The end of the message.  Without a command it is a post after all.
LastLine(r) ==
    /\ req[r].at = "lines" /\ req[r].lines = <<>>
    /\ req' = [req EXCEPT ![r] = IF @.opcode THEN [@ EXCEPT !.at = "update"] ELSE NoRequest]
    /\ UNCHANGED <<settingVars, started, imageVars>>

\* Wrong: the configuration is left as it is when it could not be saved.
RestoredNot == conf

\* json.Unmarshal of the last saved one; an empty string changes nothing.
Restored == IF configStr = NotSaved THEN conf ELSE configStr

UpdateConfig(r) ==
    /\ req[r].at = "update"
    /\ req' = [req EXCEPT ![r] = NoRequest]
    /\ \/ /\ configStr' = conf /\ loose' = FALSE
          /\ UNCHANGED <<conf, failures>>
       \/ /\ Fail /\ conf' = Restored /\ loose' = (configStr = NotSaved)
          /\ UNCHANGED configStr
    /\ UNCHANGED <<limit, limitLog, Kprod, started, fileVars, queue, worker, upload, postVars,
                   removing>>

----------------------------------------------------------------------------

Restart ==
    /\ ImagesRestart
    /\ conf' = LoadConfig(configStr)
    /\ limit' = limitLog
    /\ Kprod' = TRUE
    /\ req' = [r \in Requests |-> NoRequest]
    /\ loose' = FALSE
    /\ UNCHANGED <<configStr, limitLog, started>>

Step(r) ==
    \/ modCode(r) \/ Subject(r) \/ Denied(r) \/ Moat(r) \/ SetMaxLiveTopics(r)
    \/ \E s \in Settings : Set(r, s)
    \/ \E op \in StoreCommands : StoreCommand(r, op)
    \/ \E op \in Panicking : Panics(r, op)
    \/ \E op \in DeleteCommands : Delete(r, op)
    \/ Deleted(r) \/ Unknown(r) \/ LastLine(r) \/ UpdateConfig(r)

ModerationNext ==
    \/ \E r \in Requests : Step(r)
    \/ ImagesNext /\ UNCHANGED <<settingVars, req, started>>
    \/ Restart

ModerationSpec == ModerationInit /\ [][ModerationNext]_moderationVars

----------------------------------------------------------------------------
(* Properties.                                                             *)

Quiet == \A r \in Requests : req[r].at = "idle"

\* What CorrectValues leaves as it is
Kept(s) == s \notin Numbers \/ conf[s] \in 1..Half

\* When no command is being performed, a restart gives back every setting
\* that is in effect, however the lines and errors of several requests were
\* mixed, except after a request that ended at a denied line or by a panic,
\* and except values that CorrectValues changes or a uint32 does not hold (mod.go:13-199,
\* store_op.go:142-185, struct.go:209-219, main.go:38-41).
SettingsSurvive ==
    Quiet /\ ~ loose =>
        /\ \A s \in Settings : Kept(s) => LoadConfig(configStr)[s] = conf[s]
        /\ limit \in 0..(2 * Half - 1) => limitLog = limit
=============================================================================
