----------------------------- MODULE TopicList -----------------------------
(***************************************************************************)
(* The list of topics as it is in memory (server/store.go): rootTopic and  *)
(* endTopic, the Prev and Next pointers between them, and the statements   *)
(* that walk and splice them.                                              *)
(*                                                                         *)
(* Two goroutines can be at work on the list at once:                      *)
(*                                                                         *)
(*   "store"    the request or the ArchiveJob that holds store.Lock;       *)
(*   "config"   SetMaxLiveTopics, which holds configLock only and calls    *)
(*              archiveJob when the limit becomes lower.                   *)
(*                                                                         *)
(* A step is one statement that reads or writes what both can reach (the   *)
(* pointers, the posts, the log, an archive file).  The pointers are words *)
(* and the statements unsynchronised, so any order of them is possible.    *)
(* As in Store, "disk" is what loadDB would make of the log, and an append *)
(* is one step that may fail; module SharedFile has appends that overlap.  *)
(*                                                                         *)
(* Definitions marked "Wrong" are not part of the model: each is a mistake *)
(* that the properties at the end of the module are there to catch.        *)
(***************************************************************************)
EXTENDS LoadDB

CONSTANTS
    Requests,       \* the operations asked for
    Limits,         \* the values SetMaxLiveTopics is called with
    MaxAsked        \* bound of the model: the requests beside NewTopic

ASSUME TopicListAssumption ==
    /\ Requests \subseteq {"NewTopic", "NewPost", "SagePost", "OP_STICKY", "OP_PURGE", "ArchiveJob"}
    /\ Limits \subseteq Nat
    /\ MaxAsked \in Nat

\* A topic is known by its ID.  Both ends of the list have the ID 0 in the
\* code; endTopic has one of its own here.
Root == 0
End == MaxTopicID + 1
Nil == -1
Cell == 0..End

VARIABLES
    next, prev,     \* the pointers of each topic, in the list or not
    mem,            \* the topics in memory by ID, in the list or not
    count,          \* topicsCount
    maxLive,        \* maxLiveTopics
    disk,           \* the store loadDB would compute from the log
    files,          \* the archive directory: the posts saved for a topic
    thread,         \* where the two goroutines are
    purged,         \* history: the topics removed by OP_PURGE
    order,          \* history: the list that the operations done ask for
    overlap,        \* history: both were at the list at once since the start
    asked           \* history: the requests beside NewTopic so far

content == <<mem, count, maxLive, disk, files, purged>>
history == <<order, overlap, asked>>
vars == <<next, prev, content, thread, history>>

Goroutines == {"store", "config"}

\* A goroutine: its operation, the place it is at, the variables "topic" (or
\* "t"), "root" (the one that walks) and "i" of the code, and its limit.
Idle == [op |-> "none", at |-> "idle", topic |-> Nil, root |-> Nil, i |-> 0, limit |-> 0]

\* The process has ended: nothing runs any more.
Ended == [Idle EXCEPT !.at = "ended"]

At(g, place) == thread[g].at = place
Op(g) == thread[g].op
T(g) == thread[g].topic
R(g) == thread[g].root

\* At the list, or between two of the statements that use it
Busy(g) == ~ At(g, "idle") /\ ~ At(g, "setLimit")

Become(g, local) == thread' = [thread EXCEPT ![g] = local]
GoTo(g, place) == Become(g, [thread[g] EXCEPT !.at = place])
Walk(g, cell) == Become(g, [thread[g] EXCEPT !.root = cell])
Return(g) == Become(g, Idle)

Begin(g, local) ==
    /\ At(g, "idle")
    /\ Become(g, local)
    /\ overlap' = (overlap \/ (local.at # "setLimit" /\ \E h \in Goroutines \ {g} : Busy(h)))

CountRequest == asked < MaxAsked /\ asked' = asked + 1

\* A list with its ends, and the pointers that lead along it
Ends(s) == <<Root>> \o s \o <<End>>

Along(q) ==
    [c \in Cell |-> IF \E i \in 1..Len(q) - 1 : q[i] = c
                    THEN q[(CHOOSE i \in 1..Len(q) - 1 : q[i] = c) + 1]
                    ELSE Nil]

Init ==
    /\ next = Along(Ends(<<>>))
    /\ prev = Along(Reverse(Ends(<<>>)))
    /\ mem = <<>>
    /\ count = 0
    /\ maxLive = DefaultMaxLive
    /\ disk = EmptyStore
    /\ files = <<>>
    /\ thread = [g \in Goroutines |-> Idle]
    /\ purged = {}
    /\ order = <<>>
    /\ overlap = FALSE
    /\ asked = 0

----------------------------------------------------------------------------
(* The requests that hold store.Lock.  Each finds its topic, appends a     *)
(* record, changes the topic, and moves it or takes it out of the list.    *)

\* Who posts, and what, does not matter here.
PostOf(op) == NewPostOf(CHOOSE u \in Users : TRUE, op = "SagePost", FALSE)

NewTopic ==
    /\ "NewTopic" \in Requests
    /\ count < MaxTopicID
    /\ Begin("store", [Idle EXCEPT !.op = "NewTopic", !.at = "append", !.topic = count + 1])
    /\ UNCHANGED <<next, prev, content, order, asked>>

\* A request for a topic by its ID, which may be out of the list
Ask(op, t) ==
    /\ op \in Requests
    /\ CountRequest
    /\ Begin("store", [Idle EXCEPT !.op = op, !.at = "find", !.topic = t, !.root = next[Root]])
    /\ UNCHANGED <<next, prev, content, order>>

\* topicByIDUnlocked
Find ==
    /\ At("store", "find")
    /\ \/ R("store") = End /\ Return("store")
       \/ R("store") = T("store") /\ GoTo("store", "append")
       \/ R("store") \notin {End, T("store"), Nil} /\ Walk("store", next[R("store")])
    /\ UNCHANGED <<next, prev, content, history>>

\* The store that loadDB makes of the request's record
Logged(op, t) ==
    CASE op = "NewTopic"  -> LogPost(LogTopic(disk, t, PostOf(op)), t, 1, PostOf(op))
      [] op = "OP_STICKY" -> OP_STICKY(disk, t)
      [] op = "OP_PURGE"  -> OP_REMOVE(disk, t)
      [] OTHER            -> LogPost(disk, t, Len(mem[t].posts) + 1, PostOf(op))

AppendRecord ==
    LET op == Op("store")
        t  == T("store")
    IN  /\ At("store", "append")
        /\ op \in {"NewPost", "SagePost"} => Len(mem[t].posts) < MaxPosts
        /\ disk' = Logged(op, t)
        /\ purged' = IF op = "OP_PURGE" THEN purged \cup {t} ELSE purged
        /\ GoTo("store", IF op = "OP_PURGE" THEN "unlinkNext" ELSE "change")
        /\ UNCHANGED <<next, prev, mem, count, maxLive, files, history>>

\* An error of the file system, or errTooManyPosts, ends the operation.
Fail(g) ==
    /\ thread[g].at \in {"append", "archive", "appendArchive", "setLimit"}
    /\ Return(g)
    /\ UNCHANGED <<next, prev, content, history>>

\* The topic in memory takes the change; a reply with "sage" does not move it.
Change ==
    LET op == Op("store")
        t  == T("store")
    IN  /\ At("store", "change")
        /\ mem' = CASE op = "NewTopic"  -> Put(mem, t, [BlankTopic EXCEPT !.posts = <<PostOf(op)>>])
                    [] op = "OP_STICKY" -> [mem EXCEPT ![t].sticky = ~ @]
                    [] OTHER            -> [mem EXCEPT ![t].posts = Append(@, PostOf(op))]
        /\ IF op = "SagePost" THEN Return("store") ELSE GoTo("store", "move")
        /\ UNCHANGED <<next, prev, count, maxLive, disk, files, purged, history>>

----------------------------------------------------------------------------
(* moveTopicToFront, by the holder of store.Lock.  It ends the operation.  *)

Stuck(c) == c \in DOMAIN mem /\ mem[c].sticky

Moved ==
    /\ Return("store")
    /\ count' = IF Op("store") = "NewTopic" THEN count + 1 ELSE count
    /\ order' = MoveTopicToFront([topics |-> mem, order |-> order], T("store")).order

\* root := store.rootTopic.Next
MoveFrom ==
    /\ At("store", "move")
    /\ Become("store", [thread["store"] EXCEPT !.at = "front", !.root = next[Root]])
    /\ UNCHANGED <<next, prev, content, history>>

\* A topic that is not sticky stays behind those that are.
MoveWalk ==
    LET t == T("store")
        root == R("store")
        behind == ~ Stuck(t) /\ Stuck(root)
    IN  /\ At("store", "front")
        /\ \/ behind /\ Walk("store", next[root]) /\ UNCHANGED <<count, order>>
           \/ ~ behind /\ t = root /\ Moved
           \/ ~ behind /\ t # root /\ GoTo("store", "closeNext") /\ UNCHANGED <<count, order>>
        /\ (root = Nil => Stuck(t))
        /\ UNCHANGED <<next, prev, mem, maxLive, disk, files, purged, overlap, asked>>

\* Wrong: a topic in the middle of the list keeps its neighbour's pointer.
CloseNothing ==
    /\ At("store", "closeNext")
    /\ GoTo("store", "closePrev")
    /\ UNCHANGED <<next, prev, content, history>>

\* if topic.Prev != nil { topic.Prev.Next = topic.Next }
CloseNext ==
    LET t == T("store")
    IN  /\ At("store", "closeNext")
        /\ next' = IF prev[t] = Nil THEN next ELSE [next EXCEPT ![prev[t]] = next[t]]
        /\ GoTo("store", "closePrev")
        /\ UNCHANGED <<prev, content, history>>

\* if topic.Next != nil { topic.Next.Prev = topic.Prev }
ClosePrev ==
    LET t == T("store")
    IN  /\ At("store", "closePrev")
        /\ prev' = IF next[t] = Nil THEN prev ELSE [prev EXCEPT ![next[t]] = prev[t]]
        /\ GoTo("store", "ownNext")
        /\ UNCHANGED <<next, content, history>>

\* topic.Next = root
OwnNext ==
    /\ At("store", "ownNext")
    /\ next' = [next EXCEPT ![T("store")] = R("store")]
    /\ GoTo("store", "ownPrev")
    /\ UNCHANGED <<prev, content, history>>

\* topic.Prev = root.Prev
OwnPrev ==
    /\ At("store", "ownPrev")
    /\ R("store") # Nil
    /\ prev' = [prev EXCEPT ![T("store")] = prev[R("store")]]
    /\ GoTo("store", "openNext")
    /\ UNCHANGED <<next, content, history>>

\* if root.Prev != nil { root.Prev.Next = topic }
OpenNext ==
    LET p == prev[R("store")]
    IN  /\ At("store", "openNext")
        /\ next' = IF p = Nil THEN next ELSE [next EXCEPT ![p] = T("store")]
        /\ GoTo("store", "openPrev")
        /\ UNCHANGED <<prev, content, history>>

\* root.Prev = topic
OpenPrev ==
    /\ At("store", "openPrev")
    /\ prev' = [prev EXCEPT ![R("store")] = T("store")]
    /\ Moved
    /\ UNCHANGED <<next, mem, maxLive, disk, files, purged, overlap, asked>>

----------------------------------------------------------------------------
(* archiveJob, by ArchiveJob or by SetMaxLiveTopics.                       *)

Job(g) == IF g = "store" THEN "ArchiveJob" ELSE "SetMaxLiveTopics"

BeginJob(g, n) ==
    Begin(g, [op |-> Job(g), at |-> "walk", topic |-> Nil, root |-> next[Root], i |-> 0, limit |-> n])

ArchiveJob ==
    /\ "ArchiveJob" \in Requests
    /\ CountRequest
    /\ BeginJob("store", maxLive)
    /\ UNCHANGED <<next, prev, content, order>>

SetMaxLiveTopics(n) ==
    /\ CountRequest
    /\ IF n < maxLive THEN BeginJob("config", n)
       ELSE Begin("config", [Idle EXCEPT !.op = Job("config"), !.at = "setLimit", !.limit = n])
    /\ UNCHANGED <<next, prev, content, order>>

\* The walk to the last topic that may stay, at place "limit".  A limit of 0
\* is never met, so that i need not be counted.
WalkList(g) ==
    LET i == IF thread[g].limit = 0 THEN 0 ELSE thread[g].i + 1
        here == R(g) = End \/ (thread[g].limit # 0 /\ i = thread[g].limit)
    IN  /\ At(g, "walk")
        /\ IF here THEN GoTo(g, "test")
           ELSE R(g) # Nil /\ Become(g, [thread[g] EXCEPT !.i = i, !.root = next[R(g)]])
        /\ UNCHANGED <<next, prev, content, history>>

\* for topic != store.endTopic.Prev && topic != store.endTopic
Test(g) ==
    /\ At(g, "test")
    /\ IF R(g) \notin {prev[End], End} THEN GoTo(g, "last")
       ELSE IF g = "config" THEN GoTo(g, "setLimit")
       ELSE Return(g)
    /\ UNCHANGED <<next, prev, content, history>>

\* t := store.endTopic.Prev
TakeLast(g) ==
    /\ At(g, "last")
    /\ Become(g, [thread[g] EXCEPT !.at = "archive", !.topic = prev[End]])
    /\ UNCHANGED <<next, prev, content, history>>

\* The ID of rootTopic and endTopic is 0, and they have no posts.
ID(c) == IF c = End THEN 0 ELSE c
Posts(c) == IF c \in DOMAIN mem THEN mem[c].posts ELSE <<>>

\* Wrong: the error of archive() is ignored.
ArchiveUnchecked(g) ==
    /\ At(g, "archive")
    /\ T(g) # Nil
    /\ files' \in {files, Put(files, ID(T(g)), Posts(T(g)))}
    /\ GoTo(g, "appendArchive")
    /\ UNCHANGED <<next, prev, mem, count, maxLive, disk, purged, history>>

Archive(g) ==
    /\ At(g, "archive")
    /\ T(g) # Nil
    /\ files' = Put(files, ID(T(g)), Posts(T(g)))
    /\ GoTo(g, "appendArchive")
    /\ UNCHANGED <<next, prev, mem, count, maxLive, disk, purged, history>>

AppendArchive(g) ==
    /\ At(g, "appendArchive")
    /\ disk' = OP_REMOVE(disk, ID(T(g)))
    /\ GoTo(g, "unlinkNext")
    /\ UNCHANGED <<next, prev, mem, count, maxLive, files, purged, history>>

\* Wrong: the topic before the last one still leads to it.
UnlinkOneWay(g) ==
    /\ At(g, "unlinkNext")
    /\ GoTo(g, "unlinkPrev")
    /\ UNCHANGED <<next, prev, content, history>>

\* t.Prev.Next = t.Next, of archiveJob and of OP_PURGE
UnlinkNext(g) ==
    /\ At(g, "unlinkNext")
    /\ prev[T(g)] # Nil
    /\ next' = [next EXCEPT ![prev[T(g)]] = next[T(g)]]
    /\ GoTo(g, "unlinkPrev")
    /\ UNCHANGED <<prev, content, history>>

\* t.Next.Prev = t.Prev, which ends the purge or this turn of the job
UnlinkPrev(g) ==
    /\ At(g, "unlinkPrev")
    /\ next[T(g)] # Nil
    /\ prev' = [prev EXCEPT ![next[T(g)]] = prev[T(g)]]
    /\ order' = Unlink(order, T(g))
    /\ IF Op(g) = "OP_PURGE" THEN Return(g) ELSE GoTo(g, "test")
    /\ UNCHANGED <<next, content, overlap, asked>>

SetLimit ==
    /\ At("config", "setLimit")
    /\ disk' = OP_MAXTOPICS(disk, thread["config"].limit)
    /\ maxLive' = thread["config"].limit
    /\ Return("config")
    /\ UNCHANGED <<next, prev, mem, count, files, purged, history>>

----------------------------------------------------------------------------

\* The statement at hand goes through a pointer that is nil.
ThroughNil(g) ==
    \/ thread[g].at \in {"find", "walk", "ownPrev"} /\ R(g) = Nil
    \/ At(g, "front") /\ R(g) = Nil /\ ~ Stuck(T(g))
    \/ At(g, "archive") /\ T(g) = Nil
    \/ At(g, "unlinkNext") /\ prev[T(g)] = Nil
    \/ At(g, "unlinkPrev") /\ next[T(g)] = Nil

\* The server ends the request that panics, and its deferred calls release
\* the locks.  ArchiveJob is a goroutine of its own: its panic ends the process.
NilPanic(g) ==
    /\ ThroughNil(g)
    /\ thread' = IF Op(g) = "ArchiveJob" THEN [h \in Goroutines |-> Ended]
                 ELSE [thread EXCEPT ![g] = Idle]
    /\ UNCHANGED <<next, prev, content, history>>

\* The process ends at any point, and a new one loads the log.
Restart ==
    /\ ~ disk.panic
    /\ next' = Along(Ends(disk.order))
    /\ prev' = Along(Reverse(Ends(disk.order)))
    /\ mem' = disk.topics
    /\ count' = disk.count
    /\ maxLive' = disk.maxLive
    /\ thread' = [g \in Goroutines |-> Idle]
    /\ order' = disk.order
    /\ overlap' = FALSE
    /\ UNCHANGED <<disk, files, purged, asked>>

MoveStep ==
    \/ MoveFrom \/ MoveWalk \/ CloseNext \/ ClosePrev \/ OwnNext \/ OwnPrev
    \/ OpenNext \/ OpenPrev

JobStep(g) ==
    \/ WalkList(g) \/ Test(g) \/ TakeLast(g) \/ Archive(g) \/ AppendArchive(g)
    \/ UnlinkNext(g) \/ UnlinkPrev(g)

Next ==
    \/ NewTopic
    \/ \E op \in {"NewPost", "SagePost", "OP_STICKY", "OP_PURGE"}, t \in TopicID : Ask(op, t)
    \/ Find \/ AppendRecord \/ Change \/ MoveStep
    \/ ArchiveJob
    \/ \E n \in Limits : SetMaxLiveTopics(n)
    \/ SetLimit
    \/ \E g \in Goroutines : JobStep(g) \/ Fail(g) \/ NilPanic(g)
    \/ Restart

Spec == Init /\ [][Next]_vars

----------------------------------------------------------------------------
(* Properties.                                                             *)

\* Nothing is lost, even by goroutines that splice the list at once: a topic
\* that the log has given a number is in the store that loadDB makes of it,
\* was purged, or is in an archive file.
NothingLost ==
    \A t \in 1..disk.count : t \in DOMAIN disk.topics \cup purged \cup DOMAIN files

\* Both goroutines are outside of the statements that change pointers.
Between == \A g \in Goroutines :
    thread[g].at \notin {"closePrev", "ownNext", "ownPrev", "openNext", "openPrev", "unlinkPrev"}

\* The statements that splice the list do what the log's reader does to it:
\* as long as SetMaxLiveTopics archives while no other goroutine is at the
\* list, the pointers lead through exactly the topics that the operations
\* leave, in their order, forwards and backwards.
SplicesKeepList ==
    ~ overlap /\ Between =>
        LET q == Ends(order)
        IN  \A i \in 1..Len(order) + 1 : next[q[i]] = q[i + 1] /\ prev[q[i + 1]] = q[i]

\* The log is refused at the next start only after both goroutines were at
\* the list at once: "panicif(t == nil, ...)" (store_log.go:250) is met when
\* a topic is removed twice, or has a post after its removal.
OnlyOverlapBreaks == disk.panic => overlap
=============================================================================
