------------------------------ MODULE Snapshot ------------------------------
(***************************************************************************)
(* Snapshots of the store and archived topics read back                    *)
(* (SnapshotStore in server/store_op.go, Topic.marshal in server/store.go, *)
(* LoadArchivedTopic in server/store_log.go).                              *)
(*                                                                         *)
(* Both write the records of Store again, from the memory and in an order  *)
(* of their own.  A snapshot replaces the log (readme.md, "Snapshot"), so  *)
(* the module adds that step to those of Store: whatever is done after it  *)
(* is done to a forum that was loaded from a snapshot.                     *)
(***************************************************************************)
EXTENDS Store

\* The records of one post: OP_POST, OP_IMAGE for an image, OP_NSFW for the
\* flag.  Its status and its whole message are in OP_POST.
MarshalPost(d, t, n, p) ==
    LET e == LogPost(d, t, n, [p EXCEPT !.nsfw = FALSE])
    IN  IF p.nsfw THEN OP_NSFW(e, t, n) ELSE e

\* topic.marshal, up to post n: OP_TOPIC and then the posts
MarshalPosts(d, t, posts, n) ==
    LET read[i \in 0..n] ==
            IF i = 0 THEN OP_TOPIC(d, t) ELSE MarshalPost(read[i - 1], t, i, posts[i])
    IN  read[n]

\* Wrong: the last post is left out.
MarshalTopicButLast(d, t, posts) == MarshalPosts(d, t, posts, Len(Front(posts)))

MarshalTopic(d, t, posts) == MarshalPosts(d, t, posts, Len(posts))

\* Wrong: the lock is left out.
SnapshotTopicUnlocked(s, d, t) ==
    LET a == MarshalTopic(d, t, s.topics[t].posts)
        c == IF s.topics[t].freeReply THEN OP_FREEREPLY(a, t) ELSE a
        e == IF s.topics[t].saged THEN OP_SAGE(c, t) ELSE c
    IN  IF s.topics[t].sticky THEN OP_STICKY(e, t) ELSE e

\* What SnapshotStore writes for topic t of store s, as loadDB adds it to d.
SnapshotTopic(s, d, t) ==
    LET a == MarshalTopic(d, t, s.topics[t].posts)
        b == IF s.topics[t].locked THEN OP_LOCK(a, t) ELSE a
        c == IF s.topics[t].freeReply THEN OP_FREEREPLY(b, t) ELSE b
        e == IF s.topics[t].saged THEN OP_SAGE(c, t) ELSE c
    IN  IF s.topics[t].sticky THEN OP_STICKY(e, t) ELSE e

OP_TOPICNUM(d, n) == [d EXCEPT !.count = n]

\* What loadDB makes of the topics of s, written in this order.
TopicsInOrder(s, order) ==
    LET read[n \in 0..Len(order)] ==
            IF n = 0 THEN EmptyStore ELSE SnapshotTopic(s, read[n - 1], order[n])
    IN  read[Len(order)]

\* Wrong: from the first topic to the last.
SnapshotTopicsForward(s) == TopicsInOrder(s, s.order)

\* The topics of a snapshot: from endTopic.Prev back to rootTopic, so that
\* each OP_TOPIC is moved before those already read.
SnapshotTopics(s) == TopicsInOrder(s, Reverse(s.order))

\* The store that loadDB makes of SnapshotStore's output.
SnapshotStore(s) ==
    LET counted == OP_TOPICNUM(SnapshotTopics(s), s.count)
        blocked == FoldSet(LAMBDA term, d : OP_BLOCK(d, term), counted, s.blocked)
    IN  OP_MAXTOPICS(OP_CONFIG(blocked, s.config), s.maxLive)

\* LoadArchivedTopic: loadDB on the archive file, into a store of its own
LoadArchivedTopic(t) == MarshalTopic(EmptyStore, t, files[t])

\* A process started with -ss loads the log, writes a snapshot of it and
\* ends.  The snapshot takes the place of the log, and the forum starts again.
ReplaceBySnapshot ==
    /\ ~ disk.panic
    /\ disk' = SnapshotStore(disk)
    /\ db' = SnapshotStore(disk)
    /\ flagging' = {}
    /\ job' = Idle
    /\ UNCHANGED <<files, purged>>

SnapshotNext == Next \/ ReplaceBySnapshot

SnapshotSpec == Init /\ [][SnapshotNext]_vars

SnapshotFairSpec == SnapshotSpec /\ Fairness

----------------------------------------------------------------------------
(* Properties.                                                             *)

\* A snapshot of any log loads, and gives back everything but the order of
\* the topics: posts with all their flags, images, topic flags, the counter
\* of topics (which archived and purged topics have raised above the number
\* of live ones), the blocked terms, the configuration and the limit.
SnapshotKeepsAll == [SnapshotStore(disk) EXCEPT !.order = disk.order] = disk

\* The stickies lead the list, and none of them but the last is saged.
StickiesLead ==
    \A i, j \in DOMAIN disk.order : i < j =>
        LET a == disk.topics[disk.order[i]]
            b == disk.topics[disk.order[j]]
        IN  b.sticky => a.sticky /\ ~ a.saged

\* The order is kept too wherever the stickies are in front and moving them
\* there again ("TODO: should be written in ID asc order", store_op.go:118)
\* can have put them where they are.
SnapshotKeepsStickyOrder == StickiesLead => SnapshotStore(disk).order = disk.order

\* An archived topic reads back with the posts it was archived with, images,
\* deletions and NSFW flags included.
ArchiveReadsBack ==
    \A t \in DOMAIN files :
        /\ ~ LoadArchivedTopic(t).panic
        /\ LoadArchivedTopic(t).topics[t].posts = files[t]

\* "to snapshot the data to main.txt.ss, and use which to replace
\* data/main.txt for faster replaying" (readme.md:32): the forum that comes
\* back lists its topics as before.
SnapshotKeepsOrder == SnapshotStore(disk).order = disk.order
=============================================================================
