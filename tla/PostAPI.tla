------------------------------- MODULE PostAPI ------------------------------
(***************************************************************************)
(* Posting: PostAPI (handler/handle_newpost.go) and throtNewPost           *)
(* (handler/util.go), from the lookup of the topic to the answer.          *)
(*                                                                         *)
(* Every request is a goroutine.  It works on a copy of the topic and on   *)
(* three caches that other requests use too (common/common.go), and each   *)
(* call that it makes to one of them, to the store or to the file system   *)
(* is a step of its own: other requests, moderators and the clock move in  *)
(* between.  The store is here what PostAPI sees of it; how it keeps its   *)
(* word is the subject of Store.                                           *)
(***************************************************************************)
EXTENDS Integers, Sequences, FiniteSets, SequencesExt

CONSTANTS
    Requests,       \* the requests that are made
    Users,          \* the users with a valid cookie
    NoUser,         \* the ID of a request without one
    Admins, Mods,   \* those with PERM_ADMIN, and those who CanModerate
    NoRoll,         \* those with PERM_NO_ROLL
    Addresses,
    Forms,          \* what a request can ask for
    Settings,       \* the switches of ForumConfig, and its Cooldown
    OldTopics,      \* the topics there are in the beginning
    MaxPosts,       \* 4000
    MaxRolls,       \* 10, the challenges a user may fail (line 89)
    CacheSize,      \* 1024, of Kuuids and KbadUsers (main.go:54)
    ThrotSize,      \* 256, of KthrotIPID (main.go:57)
    ToLock, ToPurge,    \* bounds of the model: the topics that moderators touch,
    ToBlock,            \* and the IDs and addresses
    MaxTime         \* bound of the model: the seconds that pass

\* A request without a cookie gets a random ID: the request stands for it.
IDs == Users \cup Requests

Form == [topic : Nat, special : BOOLEAN, user : Users \cup {NoUser}, ip : Addresses,
         uuid : Nat, image : {"none", "good", "bad"}, short : BOOLEAN,
         nsfw : BOOLEAN, command : BOOLEAN, token : {"none", "wrong", "right"}]

\* A random ID is nobody else's, and it is no address: of the eight bytes of
\* both an IPv4 address sets 4 to 6 only, and an ID has six random ones.
ASSUME PostAPIAssumption ==
    /\ Admins \subseteq Mods /\ Mods \subseteq Users /\ NoRoll \subseteq Users
    /\ NoUser \notin IDs /\ Users \cap Requests = {} /\ IDs \cap Addresses = {}
    /\ MaxPosts \in Nat /\ MaxRolls \in Nat /\ CacheSize \in Nat /\ ThrotSize \in Nat
    /\ Forms \subseteq Form
    /\ Settings \in [noMoreNewUsers : BOOLEAN, noRecaptcha : BOOLEAN,
                     noImageUpload : BOOLEAN, cooldown : Nat]

OldPosts == UNION {Range(OldTopics[t].posts) : t \in DOMAIN OldTopics}

ASSUME OldTopicsAssumption ==
    /\ OldTopics \in Seq([locked : BOOLEAN, freeReply : BOOLEAN, gone : BOOLEAN,
                          posts : Seq(OldPosts)])
    /\ OldPosts \cap Requests = {}

VARIABLES
    topics,     \* the store: its topics, by ID
    blocked,    \* the store: the blocked IDs and addresses
    Kuuids, KthrotIPID, KbadUsers,  \* caches: pairs of a key and a value
    now,        \* the clock, in seconds
    meddled,    \* history: the terms that moderators changed, or an append did not take
    req         \* the local variables of each request

terms == <<blocked, meddled>>
vars == <<topics, terms, Kuuids, KthrotIPID, KbadUsers, now, req>>
caches == <<Kuuids, KthrotIPID, KbadUsers>>

----------------------------------------------------------------------------
(* The cache lru.Cache: the last key used is the last of the sequence.     *)

Holds(cache, key) == \E i \in DOMAIN cache : cache[i][1] = key

PlaceOf(cache, key) == CHOOSE i \in DOMAIN cache : cache[i][1] = key
ValueOf(cache, key) == cache[PlaceOf(cache, key)][2]

Without(cache, key) == IF Holds(cache, key) THEN RemoveAt(cache, PlaceOf(cache, key)) ELSE cache

\* A full cache drops what was used least recently.
Within(cache, size) ==
    IF Len(cache) > size THEN SubSeq(cache, Len(cache) - size + 1, Len(cache)) ELSE cache

With(cache, key, value, size) == Within(Append(Without(cache, key), <<key, value>>), size)

\* Get moves what it finds to the end.
Touch(cache, key) ==
    IF Holds(cache, key) THEN Append(Without(cache, key), <<key, ValueOf(cache, key)>>) ELSE cache

----------------------------------------------------------------------------
(* Requests.                                                               *)

NoTopic == [locked |-> FALSE, freeReply |-> FALSE, gone |-> TRUE, posts |-> <<>>]

Fresh == [pc |-> "new", form |-> "none", user |-> NoUser, id |-> 0, topic |-> NoTopic,
          at |-> 0, count |-> 0, after |-> {}, answer |-> "none"]

Init ==
    /\ topics = OldTopics
    /\ blocked = {} /\ meddled = {}
    /\ Kuuids = <<>> /\ KthrotIPID = <<>> /\ KbadUsers = <<>>
    /\ now = 0
    /\ req = [r \in Requests |-> Fresh]

Asked(r) == req[r].form
Answered == {r \in Requests : req[r].pc = "answered"}

At(r, step) == req[r].pc = step
Goto(r, step) == req' = [req EXCEPT ![r].pc = step]
Answer(r, a) == req' = [req EXCEPT ![r].pc = "answered", ![r].answer = a]

Live(t) == t \in DOMAIN topics /\ ~ topics[t].gone

\* GetTopic copies the topic as it is now; the rest of the handler uses that.
Arrive(r, f) ==
    /\ At(r, "new")
    /\ req' = [req EXCEPT ![r] =
         [Fresh EXCEPT !.form = f, !.user = f.user, !.id = f.topic, !.after = Answered,
                       !.topic = IF Live(f.topic) THEN topics[f.topic] ELSE NoTopic,
                       !.pc = IF f.topic # 0 /\ ~ Live(f.topic) THEN "answered"
                              ELSE IF f.user \in Admins THEN "referer" ELSE "address",
                       !.answer = IF f.topic # 0 /\ ~ Live(f.topic) THEN "bad-request" ELSE "none"]]
    /\ UNCHANGED <<topics, terms, caches, now>>

CheckAddress(r) ==
    /\ At(r, "address")
    /\ IF Asked(r).ip \in blocked THEN Answer(r, "bad-request") ELSE Goto(r, "user")
    /\ UNCHANGED <<topics, terms, caches, now>>

CheckUser(r) ==
    /\ At(r, "user")
    /\ IF req[r].user \in blocked THEN Answer(r, "bad-request")
       ELSE IF req[r].user \in Mods THEN Goto(r, "referer")
       ELSE req' = [req EXCEPT ![r].pc = "throttle", ![r].at = now]
    /\ UNCHANGED <<topics, terms, caches, now>>

\* throtNewPost goes by the ID where there is one, and else by the address.
ThrottleKey(r) == IF Asked(r).user = NoUser THEN Asked(r).ip ELSE Asked(r).user

\* Wrong: a post at the end of the cooldown passes.
CooledEarly(r) ==
    \/ ~ Holds(KthrotIPID, ThrottleKey(r))
    \/ req[r].at - ValueOf(KthrotIPID, ThrottleKey(r)) >= Settings.cooldown

Cooled(r) ==
    \/ ~ Holds(KthrotIPID, ThrottleKey(r))
    \/ req[r].at - ValueOf(KthrotIPID, ThrottleKey(r)) > Settings.cooldown

ThrottleGet(r) ==
    /\ At(r, "throttle")
    /\ KthrotIPID' = Touch(KthrotIPID, ThrottleKey(r))
    /\ IF Cooled(r) THEN Goto(r, "throttled") ELSE Answer(r, "bad-request")
    /\ UNCHANGED <<topics, terms, Kuuids, KbadUsers, now>>

ThrottleAdd(r) ==
    /\ At(r, "throttled")
    /\ KthrotIPID' = With(KthrotIPID, ThrottleKey(r), req[r].at, ThrotSize)
    /\ Goto(r, "referer")
    /\ UNCHANGED <<topics, terms, Kuuids, KbadUsers, now>>

\* A request from another site is refused; a user without a cookie gets an ID.
CheckReferer(r) ==
    /\ At(r, "referer")
    /\ \/ Answer(r, "bad-referer")
       \/ /\ req[r].user # NoUser
          /\ Goto(r, "roll")
       \/ /\ req[r].user = NoUser
          /\ IF Settings.noMoreNewUsers /\ ~ req[r].topic.freeReply
             THEN Answer(r, "no-more-new-users")
             ELSE req' = [req EXCEPT ![r].pc = "roll", ![r].user = r]
    /\ UNCHANGED <<topics, terms, caches, now>>

\* PassRoll is random.  A user who does not pass is challenged, and the
\* challenges failed before are read.
Roll(r) ==
    /\ At(r, "roll")
    /\ \/ Goto(r, "passed") /\ UNCHANGED KbadUsers
       \/ /\ ~ Settings.noRecaptcha
          /\ req[r].user \notin NoRoll
          /\ KbadUsers' = Touch(KbadUsers, req[r].user)
          /\ req' = [req EXCEPT ![r].pc = "challenge",
               ![r].count = 1 + IF Holds(KbadUsers, req[r].user)
                                THEN ValueOf(KbadUsers, req[r].user) ELSE 0]
    /\ UNCHANGED <<topics, terms, Kuuids, KthrotIPID, now>>

\* Wrong: one challenge more.
OneTryMore(r) == req[r].count > MaxRolls + 1

TooManyTries(r) == req[r].count > MaxRolls

Unanswered == {"recaptcha-needed", "recaptcha-failed"}

\* The answer to the challenge; the site that judges it may not answer.
Challenge(r) ==
    /\ At(r, "challenge")
    /\ IF TooManyTries(r)
       THEN /\ KbadUsers' = Without(KbadUsers, req[r].user)
            /\ Goto(r, "block user")
       ELSE \/ /\ Asked(r).token = "none"
               /\ Answer(r, "recaptcha-needed")
               /\ KbadUsers' = With(KbadUsers, req[r].user, req[r].count, CacheSize)
            \/ /\ Asked(r).token = "wrong"
               /\ Answer(r, "recaptcha-failed")
               /\ KbadUsers' = With(KbadUsers, req[r].user, req[r].count, CacheSize)
            \/ /\ Asked(r).token # "none"
               /\ Answer(r, "internal-error")
               /\ UNCHANGED KbadUsers
            \/ /\ Asked(r).token = "right"
               /\ Goto(r, "passed")
               /\ UNCHANGED KbadUsers
    /\ UNCHANGED <<topics, terms, Kuuids, KthrotIPID, now>>

\* markBlockedOrUnblocked
Toggle(term) == IF term \in blocked THEN blocked \ {term} ELSE blocked \cup {term}

\* Store.Block, whose append may fail: the error is not looked at.
Block(term) ==
    \/ blocked' = Toggle(term) /\ UNCHANGED meddled
    \/ meddled' = meddled \cup {term} /\ UNCHANGED blocked

BlockUser(r) ==
    /\ At(r, "block user")
    /\ Block(req[r].user)
    /\ Goto(r, "block address")
    /\ UNCHANGED <<topics, caches, now>>

BlockAddress(r) ==
    /\ At(r, "block address")
    /\ Block(Asked(r).ip)
    /\ Answer(r, "bad-request")
    /\ UNCHANGED <<topics, caches, now>>

\* A message that is a command for modCode posts nothing, whether the user is
\* allowed it or not; it may also end in a panic, and without an answer.  A
\* subject that begins with "!!" is a topic of its own.
Interpret(r) ==
    IF Asked(r).command
    THEN \E a \in {"mod-operation", "panic"} : Answer(r, a)
    ELSE req' = [req EXCEPT ![r].pc = "uuid", ![r].id = IF Asked(r).special THEN 0 ELSE @]

\* Wrong: the challenges failed are kept.
PassedKeepsCount(r) ==
    /\ At(r, "passed")
    /\ Interpret(r)
    /\ UNCHANGED <<topics, terms, caches, now>>

Passed(r) ==
    /\ At(r, "passed")
    /\ KbadUsers' = Without(KbadUsers, req[r].user)
    /\ Interpret(r)
    /\ UNCHANGED <<topics, terms, Kuuids, KthrotIPID, now>>

UuidGet(r) ==
    /\ At(r, "uuid")
    /\ Kuuids' = Touch(Kuuids, Asked(r).uuid)
    /\ IF Holds(Kuuids, Asked(r).uuid) THEN Answer(r, "bad-request") ELSE Goto(r, "add uuid")
    /\ UNCHANGED <<topics, terms, KthrotIPID, KbadUsers, now>>

\* Wrong: the request of a new topic is not remembered.
UuidAddReplies(r) ==
    /\ At(r, "add uuid")
    /\ Kuuids' = IF req[r].id = 0 THEN Kuuids ELSE With(Kuuids, Asked(r).uuid, TRUE, CacheSize)
    /\ Goto(r, "validate")
    /\ UNCHANGED <<topics, terms, KthrotIPID, KbadUsers, now>>

UuidAdd(r) ==
    /\ At(r, "add uuid")
    /\ Kuuids' = With(Kuuids, Asked(r).uuid, TRUE, CacheSize)
    /\ Goto(r, "validate")
    /\ UNCHANGED <<topics, terms, KthrotIPID, KbadUsers, now>>

\* Wrong: a locked topic keeps out images only.
ValidateImage(r) ==
    /\ At(r, "validate")
    /\ \/ Asked(r).image # "none" /\ Answer(r, "image-upload-failed")
       \/ IF Asked(r).image # "none" /\ Settings.noImageUpload
          THEN Answer(r, "image-upload-disabled")
          ELSE IF Asked(r).short /\ Asked(r).image = "none"
          THEN Answer(r, "message-too-short")
          ELSE IF req[r].id > 0 /\ req[r].topic.locked /\ Asked(r).image # "none"
          THEN Answer(r, "topic-locked")
          ELSE Goto(r, IF Asked(r).image = "none" THEN "post" ELSE "image")
    /\ UNCHANGED <<topics, terms, caches, now>>

\* The form's image may not arrive.  The lock is the one of the copy.
Validate(r) ==
    /\ At(r, "validate")
    /\ \/ Asked(r).image # "none" /\ Answer(r, "image-upload-failed")
       \/ IF Asked(r).image # "none" /\ Settings.noImageUpload
          THEN Answer(r, "image-upload-disabled")
          ELSE IF Asked(r).short /\ Asked(r).image = "none"
          THEN Answer(r, "message-too-short")
          ELSE IF req[r].id > 0 /\ req[r].topic.locked
          THEN Answer(r, "topic-locked")
          ELSE Goto(r, IF Asked(r).image = "none" THEN "post" ELSE "image")
    /\ UNCHANGED <<topics, terms, caches, now>>

SaveImage(r) ==
    /\ At(r, "image")
    /\ \/ Answer(r, IF Asked(r).image = "bad" THEN "image-invalid-format" ELSE "image-disk-error")
       \/ Asked(r).image = "good" /\ Goto(r, "post")
    /\ UNCHANGED <<topics, terms, caches, now>>

\* Store.NewTopic; an error of append leaves the store as it is.
PostTopic(r) ==
    /\ At(r, "post")
    /\ req[r].id = 0
    /\ \/ /\ topics' = Append(topics, [NoTopic EXCEPT !.gone = FALSE, !.posts = <<r>>])
          /\ req' = [req EXCEPT ![r].pc = IF Asked(r).nsfw THEN "flag" ELSE "answered",
                                ![r].answer = IF Asked(r).nsfw THEN "none" ELSE "success"]
       \/ Answer(r, "internal-error") /\ UNCHANGED topics
    /\ UNCHANGED <<terms, caches, now>>

\* Wrong: a post that could not be flagged is answered with an error.
FlagOrFail(r) ==
    /\ At(r, "flag")
    /\ \E t \in DOMAIN topics :
         /\ topics[t].posts[1] = r
         /\ Answer(r, IF topics[t].gone THEN "internal-error" ELSE "success")
    /\ UNCHANGED <<topics, terms, caches, now>>

\* FlagPost for the option "nsfw".  What it returns is not looked at.
FlagTopic(r) ==
    /\ At(r, "flag")
    /\ Answer(r, "success")
    /\ UNCHANGED <<topics, terms, caches, now>>

\* Store.NewPost looks the topic up again, but not at its lock.  A full topic
\* is locked, and what append says of that is all the caller learns.
PostReply(r) ==
    /\ At(r, "post")
    /\ req[r].id # 0
    /\ \/ /\ Live(req[r].id)
          /\ IF Len(topics[req[r].id].posts) < MaxPosts
             THEN topics' = [topics EXCEPT ![req[r].id].posts = Append(@, r)]
             ELSE topics' = [topics EXCEPT ![req[r].id].locked = TRUE]
          /\ Answer(r, "success")
       \/ Answer(r, "internal-error") /\ UNCHANGED topics
    /\ UNCHANGED <<terms, caches, now>>

Step(r) ==
    \/ CheckAddress(r) \/ CheckUser(r) \/ ThrottleGet(r) \/ ThrottleAdd(r)
    \/ CheckReferer(r) \/ Roll(r) \/ Challenge(r) \/ BlockUser(r) \/ BlockAddress(r)
    \/ Passed(r) \/ UuidGet(r) \/ UuidAdd(r) \/ Validate(r) \/ SaveImage(r)
    \/ PostTopic(r) \/ FlagTopic(r) \/ PostReply(r)

\* What moderators do meanwhile, with commands of their own: OP_LOCK, OP_PURGE
\* or OP_ARCHIVE, and OP_BLOCK.
Lock(t) ==
    /\ Live(t)
    /\ topics' = [topics EXCEPT ![t].locked = ~ @]
    /\ UNCHANGED <<terms, caches, now, req>>

Purge(t) ==
    /\ Live(t)
    /\ topics' = [topics EXCEPT ![t].gone = TRUE]
    /\ UNCHANGED <<terms, caches, now, req>>

Moderate(term) ==
    /\ blocked' = Toggle(term)
    /\ meddled' = meddled \cup {term}
    /\ UNCHANGED <<topics, caches, now, req>>

Tick ==
    /\ now < MaxTime
    /\ now' = now + 1
    /\ UNCHANGED <<topics, terms, caches, req>>

Next ==
    \/ \E r \in Requests : Step(r) \/ \E f \in Forms : Arrive(r, f)
    \/ \E t \in DOMAIN topics \cap ToLock : Lock(t)
    \/ \E t \in DOMAIN topics \cap ToPurge : Purge(t)
    \/ \E term \in ToBlock : Moderate(term)
    \/ Tick

Spec == Init /\ [][Next]_vars

----------------------------------------------------------------------------
(* Properties.                                                             *)

Posted(r) == \E t \in DOMAIN topics : r \in Range(topics[t].posts)
Full(t) == t \in DOMAIN topics /\ Len(topics[t].posts) >= MaxPosts

\* A request that is answered with an error, or as a command of a moderator,
\* has posted nothing, and one that is answered with success has, unless its
\* topic was full.
AnswerIsTrue ==
    \A r \in Answered :
        IF req[r].answer = "success" THEN Posted(r) \/ Full(req[r].id) ELSE ~ Posted(r)

Arrived == {r \in Requests : ~ At(r, "new")}

\* Request q was made after r was answered.
Follows(q, r) == r \in req[q].after

\* A request that is repeated after its answer, with the same UUID, is not
\* posted again, unless the cache has forgotten the UUID: then more UUIDs
\* have come than it holds.
RepeatNotPosted ==
    \A r, q \in Requests :
        /\ Follows(q, r)
        /\ Asked(q).uuid = Asked(r).uuid
        /\ Posted(q) /\ Posted(r)
        => Cardinality({Asked(p).uuid : p \in Arrived}) > CacheSize

\* A reply enters a locked topic only if the topic was open when the request
\* came: what is asked after the lock is not posted.
LockedTakesOnlyEarly ==
    [][\A t \in DOMAIN topics :
         topics[t].locked => \A r \in Range(topics'[t].posts) \ Range(topics[t].posts) :
                                ~ req[r].topic.locked]_vars

\* Requests of one kind come one after the other, each after the answer to
\* the last.
InTurn(kind) == \A p, s \in kind : p = s \/ Follows(p, s) \/ Follows(s, p)

\* When the requests of a user (or of an address, without a cookie) come in
\* turn, their posts are more than a cooldown apart, unless the cache has
\* forgotten the first: then so many others have posted.
CooldownKept ==
    \A r, q \in Requests :
        /\ Follows(q, r) /\ Posted(q) /\ Posted(r)
        /\ ThrottleKey(q) = ThrottleKey(r)
        /\ Asked(q).user \notin Mods
        /\ InTurn({p \in Arrived : ThrottleKey(p) = ThrottleKey(r)})
        => \/ req[q].at - req[r].at > Settings.cooldown
           \/ Cardinality({ThrottleKey(p) : p \in Arrived}) > ThrotSize

\* A user who fails the challenges in turn fails no more than MaxRolls of
\* them, and is blocked by the next one, unless the log took no record of it
\* or a moderator changed the block, or the cache has forgotten the count:
\* then more users have come than it holds.
TriesAreCounted ==
    \A u \in Users :
        LET mine == {r \in Requests : req[r].user = u}
            failed == {r \in mine : req[r].answer \in Unanswered}
        IN  /\ InTurn(mine)
            /\ \A r \in mine : req[r].answer \in Unanswered \cup {"none"}
            => \/ Cardinality({req[r].user : r \in Requests} \ {NoUser}) > CacheSize
               \/ /\ Cardinality(failed) <= MaxRolls
                  /\ (\E r \in mine : At(r, "block address")) =>
                        Cardinality(failed) = MaxRolls /\ u \in blocked \cup meddled

\* A user who passes is forgiven what was failed before: among requests that
\* come in turn, MaxRolls more must fail before one blocks the user.
PassedIsForgiven ==
    \A r, q \in Requests :
        /\ Follows(q, r) /\ req[q].user = req[r].user
        /\ Posted(r)
        /\ At(q, "block user")
        /\ InTurn({p \in Requests : req[p].user = req[r].user})
        => Cardinality({p \in Requests : Follows(p, r) /\ Follows(q, p)}) >= MaxRolls

\* "simple mechanism to prevent double post only" (handle_newpost.go:153):
\* no two requests with one UUID are posted.
NotPostedTwice ==
    \A r, q \in Requests :
        Posted(r) /\ Posted(q) /\ Asked(r).uuid = Asked(q).uuid => r = q

\* The cooldown as the users are told ("{{.Forum.Cooldown}}" seconds between
\* posts, template/help.html:171).
CooldownAlways ==
    \A r, q \in Requests :
        /\ r # q /\ Posted(r) /\ Posted(q)
        /\ ThrottleKey(q) = ThrottleKey(r) /\ Asked(q).user \notin Mods
        => req[q].at - req[r].at > Settings.cooldown \/ req[r].at - req[q].at > Settings.cooldown

\* A locked topic takes no posts: "topic-locked" (handle_newpost.go:194).
LockedTakesNone ==
    [][\A t \in DOMAIN topics : topics[t].locked => topics'[t].posts = topics[t].posts]_vars

\* "testCount > 10" blocks the user (handle_newpost.go:89-92): whoever was
\* answered so is blocked, where the log took all records and no moderator
\* changed them.
TriedTooOftenIsBlocked ==
    \A r \in Requests :
        At(r, "block address") /\ req[r].user \notin meddled => req[r].user \in blocked

\* What is answered with success is there to be shown (static/common.js:98
\* goes to the post it names).
SuccessNamesPost == \A r \in Answered : req[r].answer = "success" => Posted(r)
=============================================================================
