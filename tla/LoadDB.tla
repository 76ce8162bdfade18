------------------------------ MODULE LoadDB -------------------------------
(***************************************************************************)
(* The log as loadDB reads it (server/store_log.go): one operator for each *)
(* record, from the store built so far to the store with that record in.   *)
(*                                                                         *)
(* loadDB runs alone, before the first request, so its list of topics is a *)
(* sequence here: rootTopic is before its first place, endTopic behind its *)
(* last.  The same operators on the list serve module Store for the        *)
(* requests that hold store.Lock; module TopicList has the Prev and Next   *)
(* pointers themselves and shows that they give these sequences.           *)
(*                                                                         *)
(* Definitions marked "Wrong" are not part of the model: each is a mistake *)
(* that the properties of the modules that use it are there to catch.      *)
(***************************************************************************)
EXTENDS Integers, Sequences, FiniteSets, SequencesExt

CONSTANTS
    MaxTopicID,     \* math.MaxUint32, the last topic ID (store.go:449)
    MaxPosts,       \* 4000, the posts a topic can hold (store.go:269)
    DefaultMaxLive, \* 1024, maxLiveTopics of a new store (store_log.go:306)
    Users,          \* the users who post
    NoConfig        \* configStr of a new store

ASSUME LogAssumption ==
    /\ MaxTopicID \in Nat \ {0} /\ MaxPosts \in Nat \ {0}
    /\ DefaultMaxLive \in Nat

TopicID == 1..MaxTopicID

Post == [user : Users, sage : BOOLEAN, image : BOOLEAN, deleted : BOOLEAN,
         nsfw : BOOLEAN, pieces : Nat \ {0}]

Topic == [sticky : BOOLEAN, locked : BOOLEAN, freeReply : BOOLEAN,
          saged : BOOLEAN, posts : Seq(Post)]

----------------------------------------------------------------------------
(* Partial functions: the maps and the heap of topics.                     *)

Put(f, x, v) == [y \in DOMAIN f \cup {x} |-> IF y = x THEN v ELSE f[y]]
Drop(f, x) == [y \in DOMAIN f \ {x} |-> f[y]]

BlankTopic == [sticky |-> FALSE, locked |-> FALSE, freeReply |-> FALSE,
               saged |-> FALSE, posts |-> <<>>]

EmptyStore ==
    [topics  |-> <<>>,          \* the topics reachable, by ID
     order   |-> <<>>,          \* the list from rootTopic to endTopic
     count   |-> 0,             \* topicsCount
     live    |-> 0,             \* LiveTopicsNum
     blocked |-> {},
     maxLive |-> DefaultMaxLive,
     config  |-> NoConfig,
     panic   |-> FALSE]         \* loadDB has panicked

NewPostOf(u, sage, image) ==
    [user |-> u, sage |-> sage, image |-> image, deleted |-> FALSE,
     nsfw |-> FALSE, pieces |-> 1]

----------------------------------------------------------------------------
(* The list of topics, as both the operations and loadDB change it.        *)

\* t.Prev.Next = t.Next; t.Next.Prev = t.Prev.  loadDB and the holder of
\* store.Lock do this to a topic that is in the list, or that is new and has
\* no neighbours yet (moveTopicToFront): there is nothing to change then.
Unlink(s, t) ==
    IF \E i \in DOMAIN s : s[i] = t
    THEN RemoveAt(s, CHOOSE i \in DOMAIN s : s[i] = t)
    ELSE s

\* The place a topic is moved to: the first one when it is sticky, or else
\* that of the first topic which is not sticky (the end if there is none).
FrontOf(d, t) ==
    LET plain == {i \in DOMAIN d.order : ~ d.topics[d.order[i]].sticky}
    IN  IF d.topics[t].sticky THEN 1
        ELSE IF plain = {} THEN Len(d.order) + 1
        ELSE Min(plain)

\* Wrong: the topic changes places with the one that is in front.
MoveBySwap(d, t) ==
    IF d.topics[t].saged THEN d
    ELSE IF t \notin Range(d.order) THEN [d EXCEPT !.order = <<t>> \o d.order]
    ELSE LET i == CHOOSE i \in DOMAIN d.order : d.order[i] = t
         IN  [d EXCEPT !.order[i] = d.order[FrontOf(d, t)], !.order[FrontOf(d, t)] = t]

\* moveTopicToFront.  Nothing before FrontOf changes when the topic is
\* unlinked, so inserting it there is also right when it is there already.
MoveTopicToFront(d, t) ==
    IF d.topics[t].saged THEN d
    ELSE [d EXCEPT !.order = InsertAt(Unlink(d.order, t), FrontOf(d, t), t)]

TakeOut(d, t) ==
    [d EXCEPT !.topics = Drop(d.topics, t),
              !.order = Unlink(d.order, t),
              !.live = d.live - 1]

----------------------------------------------------------------------------
(* loadDB: one operator for each record of the log.  A panicif that fails  *)
(* ends the process, so nothing after it matters.                          *)

Panic(d) == [d EXCEPT !.panic = TRUE]

OP_TOPIC(d, t) ==
    IF t \in DOMAIN d.topics THEN Panic(d)
    ELSE [MoveTopicToFront([d EXCEPT !.topics = Put(d.topics, t, BlankTopic)], t)
             EXCEPT !.count = d.count + 1, !.live = d.live + 1]

OP_POST(d, t, n, p) ==
    IF t \notin DOMAIN d.topics THEN Panic(d)
    ELSE IF n # Len(d.topics[t].posts) + 1 \/ n > MaxPosts THEN Panic(d)
    ELSE LET e == [d EXCEPT !.topics[t].posts = Append(@, p)]
         IN  IF p.sage THEN e ELSE MoveTopicToFront(e, t)

OP_IMAGE(d, t, n) ==
    IF t \notin DOMAIN d.topics THEN Panic(d)
    ELSE IF n \notin DOMAIN d.topics[t].posts THEN Panic(d)
    ELSE IF d.topics[t].posts[n].image THEN Panic(d)
    ELSE [d EXCEPT !.topics[t].posts[n].image = TRUE]

\* What the log says of a post is read with findPost or a check like it.
HasPost(d, t, n) == t \in DOMAIN d.topics /\ n \in DOMAIN d.topics[t].posts

OP_APPEND(d, t, n) ==
    IF ~ HasPost(d, t, n) THEN Panic(d)
    ELSE [d EXCEPT !.topics[t].posts[n].pieces = @ + 1]

\* Wrong: the flag is set, not inverted.
NSFWSets(d, t, n) ==
    IF ~ HasPost(d, t, n) THEN Panic(d)
    ELSE [d EXCEPT !.topics[t].posts[n].nsfw = TRUE]

OP_NSFW(d, t, n) ==
    IF ~ HasPost(d, t, n) THEN Panic(d)
    ELSE [d EXCEPT !.topics[t].posts[n].nsfw = ~ @]

\* Wrong: a second deletion does not restore the post.
DeleteSets(d, t, n) ==
    IF ~ HasPost(d, t, n) THEN Panic(d)
    ELSE [d EXCEPT !.topics[t].posts[n].deleted = TRUE]

OP_DELETE(d, t, n) ==
    IF ~ HasPost(d, t, n) THEN Panic(d)
    ELSE [d EXCEPT !.topics[t].posts[n].deleted = ~ @]

\* markBlockedOrUnblocked
Toggle(set, x) == IF x \in set THEN set \ {x} ELSE set \cup {x}

OP_BLOCK(d, term) == [d EXCEPT !.blocked = Toggle(@, term)]

\* Wrong: loading the log does not move the topic that is stuck.
StickyStays(d, t) ==
    IF t \notin DOMAIN d.topics THEN Panic(d)
    ELSE [d EXCEPT !.topics[t].sticky = ~ @]

OP_STICKY(d, t) ==
    IF t \notin DOMAIN d.topics THEN Panic(d)
    ELSE LET e == [d EXCEPT !.topics[t].sticky = ~ @]
         IN  IF e.topics[t].sticky THEN MoveTopicToFront(e, t) ELSE e

OP_LOCK(d, t) ==
    IF t \notin DOMAIN d.topics THEN Panic(d)
    ELSE [d EXCEPT !.topics[t].locked = ~ @]

OP_FREEREPLY(d, t) ==
    IF t \notin DOMAIN d.topics THEN Panic(d)
    ELSE [d EXCEPT !.topics[t].freeReply = ~ @]

OP_SAGE(d, t) ==
    IF t \notin DOMAIN d.topics THEN Panic(d)
    ELSE [d EXCEPT !.topics[t].saged = ~ @]

\* OP_ARCHIVE and OP_PURGE
OP_REMOVE(d, t) ==
    IF t \notin DOMAIN d.topics THEN Panic(d) ELSE TakeOut(d, t)

OP_CONFIG(d, c) == [d EXCEPT !.config = c]

OP_MAXTOPICS(d, n) == [d EXCEPT !.maxLive = n]

\* The records of one addNewPost, written by a single append: for the first
\* post of a topic OP_TOPIC, and OP_SAGE if it is saged; then OP_POST, and
\* OP_IMAGE for an image.
LogTopic(d, t, p) ==
    IF p.sage THEN OP_SAGE(OP_TOPIC(d, t), t) ELSE OP_TOPIC(d, t)

LogPost(d, t, n, p) ==
    LET e == OP_POST(d, t, n, [p EXCEPT !.image = FALSE])
    IN  IF p.image THEN OP_IMAGE(e, t, n) ELSE e
=============================================================================
