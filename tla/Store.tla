------------------------------- MODULE Store -------------------------------
(***************************************************************************)
(* The forum's store (server/store.go, server/store_log.go and             *)
(* server/store_op.go): the topics kept in memory, the log they are        *)
(* written to, and the memory that a restart rebuilds from that log.       *)
(*                                                                         *)
(* An operation of the store appends records to the log and then, in code  *)
(* of its own, changes the memory.  A restart runs loadDB, a third piece   *)
(* of code, over the log.  The module keeps both results side by side:     *)
(*                                                                         *)
(*   db     what the running process holds in its Store;                   *)
(*   disk   what loadDB would hold after reading the log written so far.   *)
(*                                                                         *)
(* "disk" stands for the log: appending a record to it applies the         *)
(* record's operator of module LoadDB to disk.  One call of Store.append   *)
(* is one atomic extension of the log here; module DataFile is about the   *)
(* writes it is made of.                                                   *)
(*                                                                         *)
(* The requests here take turns under store.Lock.  The one that changes    *)
(* the list without it, SetMaxLiveTopics with a lower limit, is the        *)
(* subject of module TopicList, statement by statement.                    *)
(*                                                                         *)
(* Definitions marked "Wrong" are not part of the model: each is a mistake *)
(* that the properties at the end of the module are there to catch.        *)
(***************************************************************************)
EXTENDS LoadDB

CONSTANTS
    MaxPieces,      \* bound of the model: the texts a message is made of
    Mods,           \* those with PERM_LOCK_SAGE_DELETE_FLAG
    Terms,          \* the IDs and addresses that can be blocked
    Configs,        \* the values UpdateConfig is called with
    Limits,         \* the values SetMaxLiveTopics is called with
    Requests,       \* the operations that clients ask for
    Flags           \* which of the options of a post are used

Operations ==
    { "NewTopic", "NewPost", "OP_STICKY", "OP_LOCK", "OP_FREEREPLY", "OP_SAGE",
      "OP_PURGE", "SageTopic", "AppendPost", "DeletePost", "FlagPost", "Block",
      "UpdateConfig", "ArchiveJob", "SetMaxLiveTopics" }

ASSUME StoreAssumption ==
    /\ MaxPieces \in Nat \ {0}
    /\ Mods \subseteq Users
    /\ NoConfig \notin Configs
    /\ Limits \subseteq Nat
    /\ Requests \subseteq Operations
    /\ Flags \subseteq {"sage", "image", "nsfw"}

VARIABLES
    db,         \* the fields of the Store in memory
    disk,       \* those loadDB would compute from the log
    files,      \* the archive directory: the posts saved for a topic
    purged,     \* history: the topics removed by OP_PURGE
    flagging,   \* topics whose author asked for "nsfw" and is not served yet
    job         \* the run of ArchiveJob in progress

vars == <<db, disk, files, purged, flagging, job>>

\* The topic ID 0 of rootTopic and endTopic stands for "no topic".
JobState == [running : BOOLEAN, limit : Nat, pivot : TopicID \cup {0},
             saved : TopicID \cup {0}]

Idle == [running |-> FALSE, limit |-> 0, pivot |-> 0, saved |-> 0]

\* An option of a post is set or not; one that is not in Flags never is.
Option(name) == IF name \in Flags THEN BOOLEAN ELSE {FALSE}

----------------------------------------------------------------------------
(* The operations, on the memory.  A call whose append fails changes       *)
(* nothing and is a stuttering step.                                       *)

\* topicByIDUnlocked walks the list
Linked(t) == t \in Range(db.order)

\* getPostPtrUnlocked
FindPost(t, n) == Linked(t) /\ n \in DOMAIN db.topics[t].posts

\* Wrong: one topic more than there are IDs.
IDsWrap == db.count <= MaxTopicID

\* topicsCount has not reached its last value
IDsLeft == db.count < MaxTopicID

\* Wrong: one post more than a topic can hold.
FullTooLate(t) == Len(db.topics[t].posts) > MaxPosts

\* The next post of the topic is one too many
Full(t) == Len(db.topics[t].posts) >= MaxPosts

\* The operations of a post are open to moderators and to its author.
Can(u, p) == u \in Mods \/ u = p.user

\* ArchiveJob holds store.Lock while it runs.
StoreUnlocked == ~ job.running

Init ==
    /\ db = EmptyStore
    /\ disk = EmptyStore
    /\ files = <<>>
    /\ purged = {}
    /\ flagging = {}
    /\ job = Idle

\* NewTopic with addNewPost: topic.Saged is left alone even when the log is
\* told OP_SAGE.  PostAPI flags the new post later, with the lock released.
NewTopic(u, sage, image, nsfw) ==
    LET t == db.count + 1
        p == NewPostOf(u, sage, image)
        d == [db EXCEPT !.topics = Put(db.topics, t, [BlankTopic EXCEPT !.posts = <<p>>])]
    IN  /\ "NewTopic" \in Requests
        /\ StoreUnlocked
        /\ IDsLeft
        /\ db' = [MoveTopicToFront(d, t) EXCEPT !.count = db.count + 1, !.live = db.live + 1]
        /\ disk' = LogPost(LogTopic(disk, t, p), t, 1, p)
        /\ flagging' = IF nsfw THEN flagging \cup {t} ELSE flagging
        /\ UNCHANGED <<files, purged, job>>

\* NewPost with addNewPost
NewPost(u, t, sage, image) ==
    LET p == NewPostOf(u, sage, image)
        d == [db EXCEPT !.topics[t].posts = Append(@, p)]
    IN  /\ "NewPost" \in Requests
        /\ StoreUnlocked
        /\ Linked(t)
        /\ ~ Full(t)
        /\ db' = IF sage THEN d ELSE MoveTopicToFront(d, t)
        /\ disk' = LogPost(disk, t, Len(db.topics[t].posts) + 1, p)
        /\ UNCHANGED <<files, purged, flagging, job>>

\* NewPost to a topic that is full: errTooManyPosts locks the topic
LockFullTopic(t) ==
    /\ "NewPost" \in Requests
    /\ StoreUnlocked
    /\ Linked(t)
    /\ Full(t)
    /\ db' = [db EXCEPT !.topics[t].locked = TRUE]
    /\ disk' = OP_LOCK(disk, t)
    /\ UNCHANGED <<files, purged, flagging, job>>

\* OperateTopic(OP_STICKY): the topic moves whether it is stuck or unstuck
Sticky(t) ==
    /\ "OP_STICKY" \in Requests
    /\ StoreUnlocked
    /\ Linked(t)
    /\ db' = MoveTopicToFront([db EXCEPT !.topics[t].sticky = ~ @], t)
    /\ disk' = OP_STICKY(disk, t)
    /\ UNCHANGED <<files, purged, flagging, job>>

Lock(t) ==
    /\ "OP_LOCK" \in Requests
    /\ StoreUnlocked
    /\ Linked(t)
    /\ db' = [db EXCEPT !.topics[t].locked = ~ @]
    /\ disk' = OP_LOCK(disk, t)
    /\ UNCHANGED <<files, purged, flagging, job>>

FreeReply(t) ==
    /\ "OP_FREEREPLY" \in Requests
    /\ StoreUnlocked
    /\ Linked(t)
    /\ db' = [db EXCEPT !.topics[t].freeReply = ~ @]
    /\ disk' = OP_FREEREPLY(disk, t)
    /\ UNCHANGED <<files, purged, flagging, job>>

Sage(t) ==
    /\ StoreUnlocked
    /\ Linked(t)
    /\ db' = [db EXCEPT !.topics[t].saged = ~ @]
    /\ disk' = OP_SAGE(disk, t)
    /\ UNCHANGED <<files, purged, flagging, job>>

OperateSage(t) == "OP_SAGE" \in Requests /\ Sage(t)

\* A moderator, or the user who started the topic
SageTopic(u, t) ==
    /\ "SageTopic" \in Requests
    /\ Linked(t)
    /\ Can(u, db.topics[t].posts[1])
    /\ Sage(t)

Purge(t) ==
    /\ "OP_PURGE" \in Requests
    /\ StoreUnlocked
    /\ Linked(t)
    /\ db' = TakeOut(db, t)
    /\ disk' = OP_REMOVE(disk, t)
    /\ purged' = purged \cup {t}
    /\ UNCHANGED <<files, flagging, job>>

AppendPost(t, n) ==
    /\ "AppendPost" \in Requests
    /\ StoreUnlocked
    /\ FindPost(t, n)
    /\ db.topics[t].posts[n].pieces < MaxPieces
    /\ db' = [db EXCEPT !.topics[t].posts[n].pieces = @ + 1]
    /\ disk' = OP_APPEND(disk, t, n)
    /\ UNCHANGED <<files, purged, flagging, job>>

DeletePost(u, t, n) ==
    /\ "DeletePost" \in Requests
    /\ StoreUnlocked
    /\ FindPost(t, n)
    /\ Can(u, db.topics[t].posts[n])
    /\ db' = [db EXCEPT !.topics[t].posts[n].deleted = ~ @]
    /\ disk' = OP_DELETE(disk, t, n)
    /\ UNCHANGED <<files, purged, flagging, job>>

\* FlagPost as modCode calls it: the callback inverts the flag
FlagPost(u, t, n) ==
    /\ "FlagPost" \in Requests
    /\ StoreUnlocked
    /\ FindPost(t, n)
    /\ Can(u, db.topics[t].posts[n])
    /\ db' = [db EXCEPT !.topics[t].posts[n].nsfw = ~ @]
    /\ disk' = OP_NSFW(disk, t, n)
    /\ UNCHANGED <<files, purged, flagging, job>>

\* FlagPost as PostAPI calls it for a new topic: the callback sets the flag
FlagNewTopic(t) ==
    /\ t \in flagging
    /\ StoreUnlocked
    /\ flagging' = flagging \ {t}
    /\ IF Linked(t)
       THEN /\ db' = [db EXCEPT !.topics[t].posts[1].nsfw = TRUE]
            /\ disk' = OP_NSFW(disk, t, 1)
       ELSE UNCHANGED <<db, disk>>
    /\ UNCHANGED <<files, purged, job>>

Block(term) ==
    /\ "Block" \in Requests
    /\ StoreUnlocked
    /\ db' = [db EXCEPT !.blocked = Toggle(@, term)]
    /\ disk' = OP_BLOCK(disk, term)
    /\ UNCHANGED <<files, purged, flagging, job>>

\* configLock only: this runs whether or not store.Lock is held
UpdateConfig(c) ==
    /\ "UpdateConfig" \in Requests
    /\ db' = [db EXCEPT !.config = c]
    /\ disk' = OP_CONFIG(disk, c)
    /\ UNCHANGED <<files, purged, flagging, job>>

\* configLock only, too.  With a limit that is not below the current one no
\* topic leaves; a lower one makes archiveJob run (module TopicList).
SetMaxLiveTopics(n) ==
    /\ "SetMaxLiveTopics" \in Requests
    /\ n >= db.maxLive
    /\ db' = [db EXCEPT !.maxLive = n]
    /\ disk' = OP_MAXTOPICS(disk, n)
    /\ UNCHANGED <<files, purged, flagging, job>>

----------------------------------------------------------------------------
(* archiveJob, called by ArchiveJob under store.Lock.  Each turn of its    *)
(* loop saves the last topic in a file and then writes OP_ARCHIVE and      *)
(* unlinks it.                                                             *)

\* Wrong: one place too early.
PivotTooEarly(limit) == IF limit - 1 \in DOMAIN db.order THEN db.order[limit - 1] ELSE 0

\* The topic at place "limit" of the list, the last one that may stay; 0
\* (endTopic) when the list is shorter, or for a limit of 0.
Pivot(limit) == IF limit \in DOMAIN db.order THEN db.order[limit] ELSE 0

\* endTopic.Prev
LastTopic == Last(db.order)

More == job.pivot # 0 /\ job.pivot # LastTopic

\* Wrong: the last post is left out.
MarshalButLast(t) == Front(db.topics[t].posts)

\* The posts of topic.marshal as loadDB reads them back
Marshal(t) == db.topics[t].posts

ArchiveJob ==
    /\ "ArchiveJob" \in Requests
    /\ StoreUnlocked
    /\ job' = [Idle EXCEPT !.running = TRUE, !.limit = db.maxLive, !.pivot = Pivot(db.maxLive)]
    /\ UNCHANGED <<db, disk, files, purged, flagging>>

\* Wrong: the error of archive() is ignored.
SaveUnchecked ==
    /\ job.running
    /\ job.saved = 0
    /\ More
    /\ files' \in {files, Put(files, LastTopic, Marshal(LastTopic))}
    /\ job' = [job EXCEPT !.saved = LastTopic]
    /\ UNCHANGED <<db, disk, purged, flagging>>

ArchiveSave ==
    /\ job.running
    /\ job.saved = 0
    /\ More
    /\ files' = Put(files, LastTopic, Marshal(LastTopic))
    /\ job' = [job EXCEPT !.saved = LastTopic]
    /\ UNCHANGED <<db, disk, purged, flagging>>

\* Wrong: the topic stays in the list.
UnlinkForgotten ==
    /\ job.running
    /\ job.saved # 0
    /\ disk' = OP_REMOVE(disk, job.saved)
    /\ job' = [job EXCEPT !.saved = 0]
    /\ UNCHANGED <<db, files, purged, flagging>>

ArchiveUnlink ==
    /\ job.running
    /\ job.saved # 0
    /\ disk' = OP_REMOVE(disk, job.saved)
    /\ db' = TakeOut(db, job.saved)
    /\ job' = [job EXCEPT !.saved = 0]
    /\ UNCHANGED <<files, purged, flagging>>

ArchiveDone ==
    /\ job.running
    /\ job.saved = 0
    /\ ~ More
    /\ job' = Idle
    /\ UNCHANGED <<db, disk, files, purged, flagging>>

\* An error of the file system ends the job where it is.
ArchiveFail ==
    /\ job.running
    /\ job' = Idle
    /\ UNCHANGED <<db, disk, files, purged, flagging>>

\* The process ends, for whatever reason and at whatever point, and a new one
\* loads the log; it has no requests and no job in progress.
Restart ==
    /\ ~ disk.panic
    /\ db' = disk
    /\ flagging' = {}
    /\ job' = Idle
    /\ UNCHANGED <<disk, files, purged>>

ArchiveStep == ArchiveSave \/ ArchiveUnlink \/ ArchiveDone

Next ==
    \/ \E u \in Users, sage \in Option("sage"), image \in Option("image") :
         \/ \E nsfw \in Option("nsfw") : NewTopic(u, sage, image, nsfw)
         \/ \E t \in TopicID : NewPost(u, t, sage, image)
    \/ \E t \in TopicID :
         \/ LockFullTopic(t) \/ Sticky(t) \/ Lock(t) \/ FreeReply(t)
         \/ OperateSage(t) \/ Purge(t) \/ FlagNewTopic(t)
         \/ \E u \in Users : SageTopic(u, t)
         \/ \E n \in 1..MaxPosts :
              \/ AppendPost(t, n)
              \/ \E u \in Users : DeletePost(u, t, n) \/ FlagPost(u, t, n)
    \/ \E term \in Terms : Block(term)
    \/ \E c \in Configs : UpdateConfig(c)
    \/ ArchiveJob
    \/ \E n \in Limits : SetMaxLiveTopics(n)
    \/ ArchiveStep \/ ArchiveFail
    \/ Restart

Spec == Init /\ [][Next]_vars

\* Go's scheduler runs a goroutine that can run: a job in progress goes on.
Fairness == WF_vars(ArchiveStep)

FairSpec == Spec /\ Fairness

----------------------------------------------------------------------------
(* Properties.                                                             *)

StoreType(d) ==
    /\ DOMAIN d.topics \subseteq TopicID
    /\ d \in [topics : [DOMAIN d.topics -> Topic], order : Seq(TopicID),
              count : 0..MaxTopicID, live : Int, blocked : SUBSET Terms,
              maxLive : Nat, config : Configs \cup {NoConfig}, panic : BOOLEAN]

\* Every variable has its type: the fields of a Store, in memory and as the
\* log gives them, the archived posts and the state of the archive job.
TypeOK ==
    /\ StoreType(db)
    /\ StoreType(disk)
    /\ DOMAIN files \subseteq TopicID /\ files \in [DOMAIN files -> Seq(Post)]
    /\ purged \subseteq TopicID
    /\ flagging \subseteq TopicID
    /\ job \in JobState

\* The log can always be loaded: no sequence of operations writes a record
\* that loadDB answers with a panic (a missing topic, a post out of turn, a
\* second image), after which the forum would never start again.
LogLoads == ~ disk.panic

\* A list is whole: it has each topic of the map once, LiveTopicsNum counts
\* it, no topic is above topicsCount, and none is without posts, which
\* NewStore would answer with a panic.
ListOK(d) ==
    /\ IsInjective(d.order)
    /\ Range(d.order) = DOMAIN d.topics
    /\ d.live = Len(d.order)
    /\ \A t \in DOMAIN d.topics : t <= d.count /\ d.topics[t].posts # <<>>

\* The list of topics is whole, both the one that the operations splice and
\* the one that loadDB builds.
ListInv == ListOK(db) /\ ListOK(disk)

\* A post without its NSFW flag.
Kept(p) == [p EXCEPT !.nsfw = FALSE]

SameTopic(a, b) ==
    /\ a.sticky = b.sticky
    /\ a.freeReply = b.freeReply
    /\ Len(a.posts) = Len(b.posts)
    /\ \A n \in DOMAIN a.posts : Kept(a.posts[n]) = Kept(b.posts[n])

SameContent(a, b) ==
    /\ DOMAIN a.topics = DOMAIN b.topics
    /\ \A t \in DOMAIN a.topics : SameTopic(a.topics[t], b.topics[t])
    /\ a.count = b.count
    /\ a.live = b.live
    /\ a.blocked = b.blocked
    /\ a.maxLive = b.maxLive
    /\ a.config = b.config

\* A restart keeps the content: what loadDB reads from the log has the topics,
\* posts, images, deletions, blocked terms, limit and configuration of the
\* memory that wrote it.  (The order of the list and the flags "locked",
\* "saged" and "nsfw" may differ: see DivergesOnlyBy.)
RestartKeepsContent == SameContent(db, disk)

\* The steps whose memory change is not the one loadDB makes of their record:
\* a topic started with "sage", a topic unstuck, a full topic locked when it
\* is locked already, and a new post flagged when it is flagged already.
Diverges ==
    \/ \E u \in Users, image \in BOOLEAN, nsfw \in BOOLEAN : NewTopic(u, TRUE, image, nsfw)
    \/ \E t \in DOMAIN db.topics :
         \/ Sticky(t) /\ db.topics[t].sticky
         \/ LockFullTopic(t) /\ db.topics[t].locked
         \/ FlagNewTopic(t) /\ db.topics[t].posts[1].nsfw

\* Every other step takes memory and log from agreeing in everything, order
\* and flags included, to agreeing in everything.
DivergesOnlyBy == [][db = disk => db' = disk' \/ Diverges]_vars

\* Nothing is lost: a topic that was ever created is in the list, has been
\* purged by a moderator, or can be read from its archive file, whatever
\* fails and whenever the process is restarted.
NothingLost ==
    \A t \in 1..db.count : t \in Range(db.order) \cup purged \cup DOMAIN files

LeavesArchived ==
    \A t \in Range(db.order) \ Range(db'.order) :
        t \in purged' \/ (t \in DOMAIN files /\ files[t] = db.topics[t].posts)

\* A topic that leaves the list without being purged is archived with the
\* posts it had at that moment.
ArchiveKeepsPosts == [][LeavesArchived]_vars

\* Archiving never goes below the limit it was given, and takes the topics
\* from the end of the list: those above the pivot stay, in their places.
KeepsLimit ==
    [][ArchiveUnlink =>
         /\ Len(db'.order) >= job.limit
         /\ IsPrefix(db'.order, db.order)]_vars

\* One operation moves one topic: the others keep their order, however many
\* of them are sticky or saged.
OthersKeepOrder ==
    [][\/ Restart
       \/ \E t \in TopicID : Unlink(db'.order, t) = Unlink(db.order, t)]_vars

\* An archive job that runs comes to its end, with an error or without.
ArchiveEnds == job.running ~> ~ job.running

\* "as a new topic, even it is saged, it still has the opportunity to stay at
\* the top for once" (store.go:332): a reply does not lift a topic that was
\* started with "sage" past another one.
SagedRisesOnce ==
    [][\A t \in Range(db.order) : db.topics[t].posts[1].sage =>
         \A i, j \in DOMAIN db.order :
            i < j /\ db.order[j] = t =>
               \E m, n \in DOMAIN db'.order :
                  m < n /\ db'.order[m] = db.order[i] /\ db'.order[n] = t]_vars

\* "since NSFW is controlled by OP_NSFW and can be altered anytime, it is a
\* transient status" (struct.go:30): the OP_NSFW records give the flag back.
RestartKeepsNSFW ==
    \A t \in DOMAIN db.topics \cap DOMAIN disk.topics :
        \A n \in DOMAIN db.topics[t].posts \cap DOMAIN disk.topics[t].posts :
            db.topics[t].posts[n].nsfw = disk.topics[t].posts[n].nsfw
=============================================================================
