---------------------------- MODULE PostAPIProofs ---------------------------
(***************************************************************************)
(* Proofs about PostAPI for all requests, forms, caches and bounds: the    *)
(* answer of a request tells what became of it, and what is asked after a  *)
(* topic was locked is not posted there; and, from "The caches" on, what   *)
(* its caches are for: that a repeated request is not posted again         *)
(* (Kuuids), that posts are a cooldown apart (KthrotIPID), and that failed *)
(* challenges are counted and forgiven (KbadUsers).  Each of these is      *)
(* promised only while the cache forgets nothing.                          *)
(***************************************************************************)
EXTENDS PostAPI, FiniteSetTheorems, TLAPS

Topic == [locked : BOOLEAN, freeReply : BOOLEAN, gone : BOOLEAN, posts : Seq(OldPosts \cup Requests)]

Fields == {"pc", "form", "user", "id", "topic", "at", "count", "after", "answer"}

ReqType ==
    /\ DOMAIN req = Requests
    /\ \A r \in Requests :
          /\ Fields \subseteq DOMAIN req[r]
          /\ req[r].id \in Nat
          /\ req[r].pc # "new" => req[r].form \in Forms

InTopics(ts, r) == \E t \in DOMAIN ts : r \in Range(ts[t].posts)

\* What is told a request, by where it is, and what it was told: it has
\* posted when it is at the flag or was answered so, and only then; and
\* where it goes to post a reply its topic was not locked when it came.
Honest(v, r, ts) ==
    /\ InTopics(ts, r) => v.pc = "flag" \/ (v.pc = "answered" /\ v.answer = "success")
    /\ v.pc = "flag" => InTopics(ts, r)
    /\ v.pc = "answered" /\ v.answer = "success" =>
          \/ InTopics(ts, r)
          \/ v.id \in DOMAIN ts /\ Len(ts[v.id].posts) >= MaxPosts
    /\ v.pc \in {"image", "post"} /\ v.id # 0 => ~ v.topic.locked

PostInv ==
    /\ topics \in Seq(Topic)
    /\ ReqType
    /\ \A r \in Requests : Honest(req[r], r, topics)

----------------------------------------------------------------------------
(* The local variables of a request.                                       *)

\* The other requests are not touched.
Others(r) ==
    /\ DOMAIN req' = Requests
    /\ \A s \in Requests \ {r} : req'[s] = req[s]
    /\ Fields \subseteq DOMAIN req'[r]

LEMMA GotoFacts ==
    ASSUME ReqType, NEW r \in Requests, NEW step, Goto(r, step)
    PROVE  /\ Others(r) /\ req'[r].pc = step /\ req'[r].answer = req[r].answer
           /\ req'[r].id = req[r].id /\ req'[r].topic = req[r].topic /\ req'[r].form = req[r].form
BY DEF ReqType, Goto, Others, Fields

LEMMA AnswerFacts ==
    ASSUME ReqType, NEW r \in Requests, NEW a, Answer(r, a)
    PROVE  /\ Others(r) /\ req'[r].pc = "answered" /\ req'[r].answer = a
           /\ req'[r].id = req[r].id /\ req'[r].topic = req[r].topic /\ req'[r].form = req[r].form
BY DEF ReqType, Answer, Others, Fields

\* A step by which nothing is posted and no success is told
LEMMA Quietly ==
    ASSUME PostInv, NEW r \in Requests, req[r].pc \notin {"flag", "answered"}, Others(r),
           topics' = topics, req'[r].id \in Nat, req'[r].form \in Forms,
           req'[r].pc \in {"image", "post"} /\ req'[r].id # 0 => ~ req'[r].topic.locked,
           req'[r].pc # "flag", req'[r].pc = "answered" => req'[r].answer # "success"
    PROVE  PostInv'
<1>1. ReqType'
  BY DEF PostInv, ReqType, Others
<1>2. \A s \in Requests : Honest(req'[s], s, topics)
  BY DEF PostInv, Others, Honest
<1>3. QED
  BY <1>1, <1>2 DEF PostInv

LEMMA GoesOn ==
    ASSUME PostInv, NEW r \in Requests, req[r].pc \notin {"new", "flag", "answered"},
           NEW step, Goto(r, step), step \notin {"flag", "answered", "image", "post"},
           topics' = topics
    PROVE  PostInv'
BY GotoFacts, Quietly DEF PostInv, ReqType

LEMMA Refused ==
    ASSUME PostInv, NEW r \in Requests, req[r].pc \notin {"new", "flag", "answered"},
           NEW a, Answer(r, a), a # "success", topics' = topics
    PROVE  PostInv'
BY AnswerFacts, Quietly DEF PostInv, ReqType

LEMMA PostInitInv == Init => PostInv
<1> SUFFICES ASSUME Init PROVE PostInv
  OBVIOUS
<1>1. topics \in Seq(Topic)
  <2> DEFINE OldTopic == [locked : BOOLEAN, freeReply : BOOLEAN, gone : BOOLEAN, posts : Seq(OldPosts)]
  <2>1. ASSUME NEW t \in OldTopic PROVE t \in Topic
    BY DEF Topic
  <2>2. OldTopics \in Seq(OldTopic)
    BY OldTopicsAssumption
  <2> HIDE DEF OldTopic
  <2>3. QED
    BY <2>1, <2>2 DEF Init
<1>2. ReqType
  BY DEF Init, ReqType, Fresh, Fields
<1>3. ASSUME NEW r \in Requests PROVE ~ InTopics(topics, r)
  BY OldTopicsAssumption DEF Init, InTopics, OldPosts
<1>4. QED
  BY <1>1, <1>2, <1>3 DEF PostInv, Honest, Init, Fresh

----------------------------------------------------------------------------
(* The steps before a post is made.                                        *)

LEMMA EarlyKeepsInv ==
    ASSUME PostInv, NEW r \in Requests,
           \/ CheckAddress(r) \/ CheckUser(r) \/ ThrottleGet(r) \/ ThrottleAdd(r) \/ CheckReferer(r)
           \/ Roll(r) \/ Challenge(r) \/ BlockUser(r) \/ BlockAddress(r)
    PROVE  PostInv'
<1>0. ReqType
  BY DEF PostInv
<1>1. CASE CheckAddress(r)
  BY <1>1, GoesOn, Refused DEF CheckAddress, At
<1>2. CASE CheckUser(r)
  <2>1. req[r].pc = "user" /\ topics' = topics
    BY <1>2 DEF CheckUser, At
  <2>2. CASE Answer(r, "bad-request") \/ Goto(r, "referer")
    BY <2>1, <2>2, GoesOn, Refused
  <2>3. CASE req' = [req EXCEPT ![r].pc = "throttle", ![r].at = now]
    <3>1. /\ Others(r) /\ req'[r].pc = "throttle" /\ req'[r].id = req[r].id
          /\ req'[r].form = req[r].form
      BY <1>0, <2>3 DEF ReqType, Others, Fields
    <3>2. QED
      BY <1>0, <2>1, <3>1, Quietly DEF ReqType
  <2>4. QED
    BY <1>2, <2>2, <2>3 DEF CheckUser
<1>3. CASE ThrottleGet(r)
  BY <1>3, GoesOn, Refused DEF ThrottleGet, At
<1>4. CASE ThrottleAdd(r)
  BY <1>4, GoesOn DEF ThrottleAdd, At
<1>5. CASE CheckReferer(r)
  <2>1. req[r].pc = "referer" /\ topics' = topics
    BY <1>5 DEF CheckReferer, At
  <2>2. CASE Answer(r, "bad-referer") \/ Answer(r, "no-more-new-users") \/ Goto(r, "roll")
    BY <2>1, <2>2, GoesOn, Refused
  <2>3. CASE req' = [req EXCEPT ![r].pc = "roll", ![r].user = r]
    <3>1. /\ Others(r) /\ req'[r].pc = "roll" /\ req'[r].id = req[r].id
          /\ req'[r].form = req[r].form
      BY <1>0, <2>3 DEF ReqType, Others, Fields
    <3>2. QED
      BY <1>0, <2>1, <3>1, Quietly DEF ReqType
  <2>4. QED
    BY <1>5, <2>2, <2>3 DEF CheckReferer
<1>6. CASE Roll(r)
  <2>1. req[r].pc = "roll" /\ topics' = topics
    BY <1>6 DEF Roll, At
  <2>2. CASE Goto(r, "passed")
    BY <2>1, <2>2, GoesOn
  <2>3. ASSUME NEW count, req' = [req EXCEPT ![r].pc = "challenge", ![r].count = count]
        PROVE  PostInv'
    <3>1. /\ Others(r) /\ req'[r].pc = "challenge" /\ req'[r].id = req[r].id
          /\ req'[r].form = req[r].form
      BY <1>0, <2>3 DEF ReqType, Others, Fields
    <3>2. QED
      BY <1>0, <2>1, <3>1, Quietly DEF ReqType
  <2>4. QED
    BY <1>6, <2>2, <2>3 DEF Roll
<1>7. CASE Challenge(r)
  <2>1. req[r].pc = "challenge" /\ topics' = topics
    BY <1>7 DEF Challenge, At
  <2>2. \/ Goto(r, "block user") \/ Goto(r, "passed") \/ Answer(r, "recaptcha-needed")
        \/ Answer(r, "recaptcha-failed") \/ Answer(r, "internal-error")
    BY <1>7 DEF Challenge
  <2>3. QED
    BY <2>1, <2>2, GoesOn, Refused
<1>8. CASE BlockUser(r)
  BY <1>8, GoesOn DEF BlockUser, At
<1>9. CASE BlockAddress(r)
  BY <1>9, Refused DEF BlockAddress, At
<1>10. QED
  BY <1>1, <1>2, <1>3, <1>4, <1>5, <1>6, <1>7, <1>8, <1>9

LEMMA LateKeepsInv ==
    ASSUME PostInv, NEW r \in Requests,
           Passed(r) \/ UuidGet(r) \/ UuidAdd(r) \/ Validate(r) \/ SaveImage(r)
    PROVE  PostInv'
<1>0. ReqType
  BY DEF PostInv
<1>1. CASE Passed(r)
  <2>1. req[r].pc = "passed" /\ topics' = topics
    BY <1>1 DEF Passed, At
  <2>2. CASE \E a \in {"mod-operation", "panic"} : Answer(r, a)
    BY <2>1, <2>2, Refused
  <2>3. ASSUME NEW id \in {0, req[r].id}, req' = [req EXCEPT ![r].pc = "uuid", ![r].id = id]
        PROVE  PostInv'
    <3>1. Others(r) /\ req'[r].pc = "uuid" /\ req'[r].id = id /\ req'[r].form = req[r].form
      BY <1>0, <2>3 DEF ReqType, Others, Fields
    <3>2. QED
      BY <1>0, <2>1, <3>1, Quietly DEF ReqType
  <2>4. QED
    BY <1>1, <2>2, <2>3 DEF Passed, Interpret
<1>2. CASE UuidGet(r)
  BY <1>2, GoesOn, Refused DEF UuidGet, At
<1>3. CASE UuidAdd(r)
  BY <1>3, GoesOn DEF UuidAdd, At
<1>4. CASE Validate(r)
  <2>1. req[r].pc = "validate" /\ topics' = topics
    BY <1>4 DEF Validate, At
  <2>2. \/ \E a \in {"image-upload-failed", "image-upload-disabled", "message-too-short",
                    "topic-locked"} : Answer(r, a)
        \/ /\ ~ (req[r].id > 0 /\ req[r].topic.locked)
           /\ Goto(r, "post") \/ Goto(r, "image")
    BY <1>4 DEF Validate
  <2>3. CASE \E a \in {"image-upload-failed", "image-upload-disabled", "message-too-short",
                       "topic-locked"} : Answer(r, a)
    BY <2>1, <2>3, Refused
  <2>4. ASSUME NEW step \in {"post", "image"}, Goto(r, step),
               ~ (req[r].id > 0 /\ req[r].topic.locked)
        PROVE  PostInv'
    BY <1>0, <2>1, <2>4, GotoFacts, Quietly DEF ReqType
  <2>5. QED
    BY <2>2, <2>3, <2>4
<1>5. CASE SaveImage(r)
  <2>1. req[r].pc = "image" /\ topics' = topics
    BY <1>5 DEF SaveImage, At
  <2>2. CASE Answer(r, IF Asked(r).image = "bad" THEN "image-invalid-format" ELSE "image-disk-error")
    BY <2>1, <2>2, Refused
  <2>3. CASE Goto(r, "post")
    <3>1. req[r].id # 0 => ~ req[r].topic.locked
      BY <2>1 DEF PostInv, Honest
    <3>2. QED
      BY <1>0, <2>1, <2>3, <3>1, GotoFacts, Quietly DEF ReqType
  <2>4. QED
    BY <1>5, <2>2, <2>3 DEF SaveImage
<1>6. QED
  BY <1>1, <1>2, <1>3, <1>4, <1>5

LEMMA ArriveKeepsInv ==
    ASSUME PostInv, NEW r \in Requests, NEW f \in Forms, Arrive(r, f)
    PROVE  PostInv'
<1>1. f.topic \in Nat
  BY PostAPIAssumption DEF Form
<1>2. req[r].pc = "new" /\ topics' = topics
  BY DEF Arrive, At
<1> DEFINE refused == f.topic # 0 /\ ~ Live(f.topic)
           topic == IF Live(f.topic) THEN topics[f.topic] ELSE NoTopic
           at == IF refused THEN "answered" ELSE IF f.user \in Admins THEN "referer" ELSE "address"
           answer == IF refused THEN "bad-request" ELSE "none"
           v == [Fresh EXCEPT !.form = f, !.user = f.user, !.id = f.topic, !.after = Answered,
                              !.topic = topic, !.pc = at, !.answer = answer]
<1>3. req' = [req EXCEPT ![r] = v]
  BY DEF Arrive
<1> HIDE DEF topic
<1>4. Fields \subseteq DOMAIN v /\ v.id = f.topic /\ v.form = f /\ v.pc = at /\ v.answer = answer
  BY DEF Fields, Fresh
<1> HIDE DEF v
<1>5. /\ Others(r) /\ req'[r].pc = at /\ req'[r].answer = answer /\ req'[r].id = f.topic
      /\ req'[r].form = f
  BY <1>3, <1>4 DEF PostInv, ReqType, Others
<1>6. QED
  BY <1>1, <1>2, <1>5, Quietly

----------------------------------------------------------------------------
(* The steps that change topics.                                           *)

\* Topics only grow, and only request r may have come to be in one.
Grown(r) ==
    /\ topics' \in Seq(Topic)
    /\ \A t \in DOMAIN topics :
          /\ t \in DOMAIN topics'
          /\ Len(topics[t].posts) <= Len(topics'[t].posts)
    /\ \A s \in Requests \ {r} : InTopics(topics', s) <=> InTopics(topics, s)

LEMMA GrownKeepsInv ==
    ASSUME PostInv, NEW r \in Requests, Grown(r), Others(r), req'[r].id \in Nat,
           req'[r].pc # "new" => req'[r].form \in Forms, Honest(req'[r], r, topics'), MaxPosts \in Nat
    PROVE  PostInv'
<1>1. ReqType'
  BY DEF PostInv, ReqType, Others
<1>2. ASSUME NEW s \in Requests \ {r} PROVE Honest(req'[s], s, topics')
  <2>1. Honest(req[s], s, topics) /\ req'[s] = req[s]
    BY DEF PostInv, Others
  <2>2. InTopics(topics', s) <=> InTopics(topics, s)
    BY DEF Grown
  <2>3. ASSUME NEW t \in DOMAIN topics, Len(topics[t].posts) >= MaxPosts
        PROVE  t \in DOMAIN topics' /\ Len(topics'[t].posts) >= MaxPosts
    <3>1. topics[t] \in Topic /\ topics'[t] \in Topic
      BY DEF PostInv, Grown
    <3>2. Len(topics[t].posts) \in Nat /\ Len(topics'[t].posts) \in Nat
      BY <3>1 DEF Topic
    <3>3. QED
      BY <2>3, <3>2 DEF Grown
  <2>4. QED
    BY <2>1, <2>2, <2>3 DEF Honest
<1>3. QED
  BY <1>1, <1>2 DEF PostInv, Grown

LEMMA AppendRange ==
    ASSUME NEW S, NEW s \in Seq(S), NEW e
    PROVE  Len(Append(s, e)) >= Len(s) /\ Range(Append(s, e)) = Range(s) \cup {e}
<1> DEFINE a == Append(s, e)
<1>1. Len(s) \in Nat /\ DOMAIN s = 1..Len(s)
  OBVIOUS
<1>2. /\ Len(a) = Len(s) + 1 /\ DOMAIN a = 1..(Len(s) + 1)
      /\ a[Len(s) + 1] = e /\ \A i \in 1..Len(s) : a[i] = s[i]
  <2>1. s \in Seq(S \cup {e}) /\ e \in S \cup {e}
    OBVIOUS
  <2>2. QED
    BY <2>1
<1> HIDE DEF a
<1>3. \A x : x \in Range(a) <=> x \in Range(s) \cup {e}
  <2>1. ASSUME NEW x \in Range(a) PROVE x \in Range(s) \cup {e}
    BY <1>1, <1>2 DEF Range
  <2>2. ASSUME NEW x \in Range(s) \cup {e} PROVE x \in Range(a)
    BY <1>1, <1>2 DEF Range
  <2>3. QED
    BY <2>1, <2>2
<1>4. Range(a) = Range(s) \cup {e}
  BY <1>3
<1>5. QED
  BY <1>1, <1>2, <1>4 DEF a

\* A topic that is changed, with the same posts or one more
LEMMA TopicChanges ==
    ASSUME topics \in Seq(Topic), NEW r \in Requests, NEW t \in DOMAIN topics, NEW v \in Topic,
           topics' = [topics EXCEPT ![t] = v],
           v.posts = topics[t].posts \/ v.posts = Append(topics[t].posts, r)
    PROVE  /\ Grown(r)
           /\ v.posts = topics[t].posts => (InTopics(topics', r) <=> InTopics(topics, r))
           /\ v.posts = Append(topics[t].posts, r) => InTopics(topics', r)
<1> DEFINE old == topics[t].posts
<1>0. topics[t] \in Topic
  OBVIOUS
<1>1. old \in Seq(OldPosts \cup Requests) /\ Len(old) \in Nat
  BY <1>0 DEF Topic
<1>2. topics' \in Seq(Topic) /\ DOMAIN topics' = DOMAIN topics
      /\ \A u \in DOMAIN topics : topics'[u] = IF u = t THEN v ELSE topics[u]
  OBVIOUS
<1>3. ASSUME v.posts = Append(old, r)
      PROVE  Len(v.posts) >= Len(old) /\ Range(v.posts) = Range(old) \cup {r}
  BY ONLY <1>1, <1>3, AppendRange
<1>4. ASSUME NEW u \in DOMAIN topics PROVE Len(topics[u].posts) \in Nat
  BY DEF Topic
<1>5. \A u \in DOMAIN topics : Len(topics[u].posts) <= Len(topics'[u].posts)
  BY <1>1, <1>2, <1>3, <1>4
<1>6. \A s : InTopics(topics', s) <=>
           \/ InTopics(topics, s)
           \/ v.posts = Append(old, r) /\ s = r
  <2>1. CASE v.posts = old
    <3>1. \A u \in DOMAIN topics : topics'[u].posts = topics[u].posts
      BY <1>2, <2>1
    <3>2. \A s : InTopics(topics', s) <=> InTopics(topics, s)
      BY <1>2, <3>1 DEF InTopics
    <3>3. v.posts # Append(old, r)
      BY <1>1, <2>1
    <3>4. QED
      BY <3>2, <3>3
  <2>2. CASE v.posts = Append(old, r)
    <3>1. \A u \in DOMAIN topics :
             Range(topics'[u].posts) = IF u = t THEN Range(topics[u].posts) \cup {r}
                                       ELSE Range(topics[u].posts)
      BY <1>2, <1>3, <2>2
    <3>2. QED
      BY <1>2, <2>2, <3>1 DEF InTopics
  <2>3. QED
    BY <2>1, <2>2
<1>7. old # Append(old, r)
  BY <1>1
<1>8. Grown(r)
  BY <1>2, <1>5, <1>6 DEF Grown
<1>9. QED
  BY <1>6, <1>7, <1>8

LEMMA TopicAdded ==
    ASSUME topics \in Seq(Topic), NEW r \in Requests, NEW v \in Topic, v.posts = <<r>>,
           topics' = Append(topics, v)
    PROVE  Grown(r) /\ InTopics(topics', r)
<1>1. /\ topics' \in Seq(Topic) /\ DOMAIN topics' = DOMAIN topics \cup {Len(topics) + 1}
      /\ topics'[Len(topics) + 1] = v /\ \A u \in DOMAIN topics : topics'[u] = topics[u]
  OBVIOUS
<1>2. Range(v.posts) = {r}
  BY DEF Range
<1>3. \A u \in DOMAIN topics : Len(topics[u].posts) \in Nat
  BY DEF Topic
<1>4. \A s : InTopics(topics', s) <=> InTopics(topics, s) \/ s = r
  BY <1>1, <1>2 DEF InTopics
<1>5. QED
  BY <1>1, <1>3, <1>4 DEF Grown

LEMMA TopicsChangeKeepsInv ==
    ASSUME PostInv, MaxPosts \in Nat,
           (\E t \in DOMAIN topics \cap ToLock : Lock(t))
              \/ (\E t \in DOMAIN topics \cap ToPurge : Purge(t))
    PROVE  PostInv'
<1>1. PICK t \in DOMAIN topics, v \in Topic :
         topics' = [topics EXCEPT ![t] = v] /\ v.posts = topics[t].posts
  <2>0. \A t \in DOMAIN topics : topics[t] \in Topic
    BY DEF PostInv
  <2>1. ASSUME NEW t \in DOMAIN topics, Lock(t)
        PROVE  \E v \in Topic : topics' = [topics EXCEPT ![t] = v] /\ v.posts = topics[t].posts
    <3> DEFINE v == [topics[t] EXCEPT !.locked = ~ @]
    <3>1. topics' = [topics EXCEPT ![t] = v]
      BY <2>1 DEF Lock
    <3>2. v \in Topic /\ v.posts = topics[t].posts
      BY <2>0 DEF Topic
    <3>3. QED
      BY <3>1, <3>2
  <2>2. ASSUME NEW t \in DOMAIN topics, Purge(t)
        PROVE  \E v \in Topic : topics' = [topics EXCEPT ![t] = v] /\ v.posts = topics[t].posts
    <3> DEFINE v == [topics[t] EXCEPT !.gone = TRUE]
    <3>1. topics' = [topics EXCEPT ![t] = v]
      BY <2>2 DEF Purge
    <3>2. v \in Topic /\ v.posts = topics[t].posts
      BY <2>0 DEF Topic
    <3>3. QED
      BY <3>1, <3>2
  <2>3. QED
    BY <2>1, <2>2
<1>2. req' = req
  BY DEF Lock, Purge
<1>3. CASE Requests = {}
  <2>1. topics' \in Seq(Topic)
    BY <1>1 DEF PostInv
  <2>2. QED
    BY <1>2, <1>3, <2>1 DEF PostInv, ReqType
<1>4. ASSUME NEW r \in Requests PROVE PostInv'
  <2>1. Grown(r) /\ (InTopics(topics', r) <=> InTopics(topics, r))
    BY <1>1, TopicChanges DEF PostInv
  <2>2. \A u \in DOMAIN topics : u \in DOMAIN topics' /\ topics'[u].posts = topics[u].posts
    BY <1>1 DEF PostInv
  <2>a. Honest(req[r], r, topics) /\ req'[r] = req[r]
    BY <1>2 DEF PostInv
  <2>3. Honest(req'[r], r, topics')
    BY <2>a, <2>1, <2>2 DEF Honest
  <2>4. Others(r) /\ req[r].id \in Nat /\ (req[r].pc # "new" => req[r].form \in Forms)
    BY <1>2 DEF PostInv, ReqType, Others
  <2>5. QED
    BY <2>1, <2>3, <2>4, <2>a, GrownKeepsInv
<1>5. QED
  BY <1>3, <1>4

\* A post is made, and flagged.
LEMMA PostKeepsInv ==
    ASSUME PostInv, MaxPosts \in Nat, NEW r \in Requests,
           PostTopic(r) \/ FlagTopic(r) \/ PostReply(r)
    PROVE  PostInv'
<1>0. ReqType /\ topics \in Seq(Topic)
  BY DEF PostInv
<1>1. CASE PostTopic(r)
  <2>0. req[r].pc = "post" /\ req[r].id = 0
    BY <1>1 DEF PostTopic, At
  <2>1. CASE Answer(r, "internal-error") /\ UNCHANGED topics
    BY <2>0, <2>1, Refused
  <2> DEFINE v == [NoTopic EXCEPT !.gone = FALSE, !.posts = <<r>>]
             at == IF Asked(r).nsfw THEN "flag" ELSE "answered"
             a == IF Asked(r).nsfw THEN "none" ELSE "success"
  <2>2. CASE topics' = Append(topics, v) /\ req' = [req EXCEPT ![r].pc = at, ![r].answer = a]
    <3>0. <<r>> \in Seq(OldPosts \cup Requests)
      OBVIOUS
    <3>1. v \in Topic /\ v.posts = <<r>>
      BY <3>0 DEF NoTopic, Topic
    <3> HIDE DEF v
    <3>2. Grown(r) /\ InTopics(topics', r)
      BY <1>0, <2>2, <3>1, TopicAdded
    <3>3. at = "flag" \/ (at = "answered" /\ a = "success")
      OBVIOUS
    <3> HIDE DEF at, a
    <3>4. /\ Others(r) /\ req'[r].pc = at /\ req'[r].answer = a
          /\ req'[r].id = req[r].id /\ req'[r].form = req[r].form
      BY <1>0, <2>2 DEF ReqType, Others, Fields
    <3>5. Honest(req'[r], r, topics')
      BY <3>2, <3>3, <3>4 DEF Honest
    <3>6. QED
      BY <1>0, <2>0, <3>2, <3>4, <3>5, GrownKeepsInv DEF ReqType
  <2>3. QED
    BY <1>1, <2>1, <2>2 DEF PostTopic
<1>2. CASE FlagTopic(r)
  <2>1. req[r].pc = "flag" /\ topics' = topics /\ Answer(r, "success")
    BY <1>2 DEF FlagTopic, At
  <2>2. InTopics(topics, r)
    BY <2>1 DEF PostInv, Honest
  <2>3. Others(r) /\ req'[r].pc = "answered" /\ req'[r].answer = "success"
        /\ req'[r].id = req[r].id /\ req'[r].form = req[r].form
    BY <1>0, <2>1, AnswerFacts
  <2>4. Honest(req'[r], r, topics')
    BY <2>1, <2>2, <2>3 DEF Honest
  <2>5. ReqType'
    BY <1>0, <2>1, <2>3 DEF ReqType, Others
  <2>6. QED
    BY <1>0, <2>1, <2>3, <2>4, <2>5 DEF PostInv, Others
<1>3. CASE PostReply(r)
  <2>0. req[r].pc = "post" /\ req[r].id # 0
    BY <1>3 DEF PostReply, At
  <2>1. CASE Answer(r, "internal-error") /\ UNCHANGED topics
    BY <2>0, <2>1, Refused
  <2> DEFINE t == req[r].id
             v == IF Len(topics[t].posts) < MaxPosts
                  THEN [topics[t] EXCEPT !.posts = Append(@, r)]
                  ELSE [topics[t] EXCEPT !.locked = TRUE]
  <2>2. CASE Live(t) /\ topics' = [topics EXCEPT ![t] = v] /\ Answer(r, "success")
    <3>0. t \in DOMAIN topics /\ topics[t] \in Topic
      BY <1>0, <2>2 DEF Live
    <3>1. topics[t].posts \in Seq(OldPosts \cup Requests)
      BY <3>0 DEF Topic
    <3>2. /\ v \in Topic
          /\ \/ v.posts = Append(topics[t].posts, r)
             \/ v.posts = topics[t].posts /\ Len(topics[t].posts) >= MaxPosts
      <4>0. Len(topics[t].posts) \in Nat /\ Append(topics[t].posts, r) \in Seq(OldPosts \cup Requests)
        BY <3>1
      <4>1. CASE Len(topics[t].posts) < MaxPosts
        BY <3>0, <4>0, <4>1 DEF Topic
      <4>2. CASE ~ (Len(topics[t].posts) < MaxPosts)
        <5>1. v = [topics[t] EXCEPT !.locked = TRUE]
          BY <4>2
        <5>2. v \in Topic /\ v.posts = topics[t].posts
          BY <3>0, <5>1 DEF Topic
        <5>3. QED
          BY <4>0, <4>2, <5>2
      <4>3. QED
        BY <4>1, <4>2
    <3> HIDE DEF v
    <3>3. /\ Grown(r)
          /\ v.posts = Append(topics[t].posts, r) => InTopics(topics', r)
      BY <1>0, <2>2, <3>0, <3>2, TopicChanges
    <3>4. t \in DOMAIN topics' /\ topics'[t] = v
      BY <1>0, <2>2, <3>0
    <3>5. /\ Others(r) /\ req'[r].pc = "answered" /\ req'[r].answer = "success"
          /\ req'[r].id = req[r].id /\ req'[r].form = req[r].form
      BY <1>0, <2>2, AnswerFacts
    <3>6. Honest(req'[r], r, topics')
      BY <3>2, <3>3, <3>4, <3>5 DEF Honest
    <3>7. QED
      BY <1>0, <2>0, <3>3, <3>5, <3>6, GrownKeepsInv DEF ReqType
  <2>3. QED
    BY <1>3, <2>1, <2>2 DEF PostReply
<1>4. QED
  BY <1>1, <1>2, <1>3

----------------------------------------------------------------------------
(* The theorems.                                                           *)

LEMMA PostStepInv ==
    ASSUME PostInv, MaxPosts \in Nat, [Next]_vars
    PROVE  PostInv'
<1>1. ASSUME topics' = topics, req' = req PROVE PostInv'
  BY <1>1 DEF PostInv, ReqType
<1>2. CASE Tick \/ (\E term \in ToBlock : Moderate(term)) \/ UNCHANGED vars
  BY <1>1, <1>2 DEF Tick, Moderate, vars
<1>3. QED
  BY <1>2, EarlyKeepsInv, LateKeepsInv, PostKeepsInv, ArriveKeepsInv, TopicsChangeKeepsInv
     DEF Next, Step

\* THEOREM.  All steps keep the invariant.
THEOREM PostInvariant == Spec => []PostInv
<1>1. PostInv /\ [Next]_vars => PostInv'
  BY PostStepInv, PostAPIAssumption
<1>2. QED
  BY <1>1, PostInitInv, PTL DEF Spec

\* THEOREM.  Among all interleavings of requests and moderators, a request
\* that is answered with an error, or whose message was a command for modCode,
\* has posted nothing, and one that is answered with success has, unless its
\* topic was full (handle_newpost.go:145-151, 230-260, store.go:445-486).
THEOREM AnswersAreTrue == Spec => []AnswerIsTrue
<1>1. PostInv => AnswerIsTrue
  BY DEF PostInv, Honest, AnswerIsTrue, Answered, Posted, Full, InTopics
<1>2. QED
  BY <1>1, PostInvariant, PTL

\* THEOREM.  A reply enters a locked topic only if the topic was open when the
\* request looked it up (handle_newpost.go:25-45, 193-196, store.go:469-486).
THEOREM LockedTopicsTakeOnlyEarly == Spec => LockedTakesOnlyEarly
<1> DEFINE A == \A t \in DOMAIN topics :
                   topics[t].locked => \A r \in Range(topics'[t].posts) \ Range(topics[t].posts) :
                                          ~ req[r].topic.locked
<1>1. ASSUME PostInv, [Next]_vars PROVE [A]_vars
  <2> USE <1>1
  <2>1. ASSUME \A t \in DOMAIN topics : topics'[t].posts = topics[t].posts PROVE A
    BY <2>1
  <2>2. ASSUME UNCHANGED topics PROVE A
    BY <2>1, <2>2
  <2>3. ASSUME \E t \in DOMAIN topics : Lock(t) \/ Purge(t) PROVE A
    <3>1. \A t \in DOMAIN topics : topics'[t].posts = topics[t].posts
      <4>1. ASSUME NEW t \in DOMAIN topics, Lock(t) \/ Purge(t), NEW u \in DOMAIN topics
            PROVE  topics'[u].posts = topics[u].posts
        <5>1. topics[t] \in Topic
          BY DEF PostInv
        <5>2. QED
          BY <4>1, <5>1 DEF Lock, Purge, Topic
      <4>2. QED
        BY <2>3, <4>1
    <3>2. QED
      BY <2>1, <3>1
  <2>4. ASSUME NEW r \in Requests, PostTopic(r) PROVE A
    <3>1. PICK v : topics' = Append(topics, v) \/ topics' = topics
      BY <2>4 DEF PostTopic
    <3>2. \A t \in DOMAIN topics : topics'[t] = topics[t]
      BY <3>1 DEF PostInv
    <3>3. QED
      BY <2>1, <3>2
  <2>5. ASSUME NEW r \in Requests, PostReply(r) PROVE A
    <3> DEFINE t == req[r].id
    <3>1. ~ req[r].topic.locked
      BY <2>5 DEF PostReply, At, PostInv, Honest
    <3>2. CASE UNCHANGED topics
      BY <2>1, <3>2
    <3>3. CASE /\ Live(t)
               /\ IF Len(topics[t].posts) < MaxPosts
                  THEN topics' = [topics EXCEPT ![t].posts = Append(@, r)]
                  ELSE topics' = [topics EXCEPT ![t].locked = TRUE]
      <4>1. topics[t] \in Topic /\ t \in DOMAIN topics
        BY <3>3 DEF PostInv, Live
      <4>2. topics[t].posts \in Seq(OldPosts \cup Requests)
        BY <4>1 DEF Topic
      <4>3. \A u \in DOMAIN topics :
               \/ topics'[u].posts = topics[u].posts
               \/ topics'[u].posts = Append(topics[u].posts, r) /\ u = t
        BY <3>3, <4>1 DEF Topic
      <4>4. Range(Append(topics[t].posts, r)) = Range(topics[t].posts) \cup {r}
        BY <4>2, AppendRange
      <4>5. \A u \in DOMAIN topics : Range(topics'[u].posts) \subseteq Range(topics[u].posts) \cup {r}
        BY <4>3, <4>4
      <4>6. QED
        BY <3>1, <4>5
    <3>4. QED
      BY <2>5, <3>2, <3>3 DEF PostReply
  <2> HIDE DEF A
  <2>6. CASE Next
    <3>1. ASSUME NEW r \in Requests, Step(r) PROVE A
      <4>1. UNCHANGED topics \/ PostTopic(r) \/ PostReply(r)
        BY <3>1 DEF Step, CheckAddress, CheckUser, ThrottleGet, ThrottleAdd, CheckReferer, Roll,
              Challenge, BlockUser, BlockAddress, Passed, UuidGet, UuidAdd, Validate, SaveImage,
              FlagTopic
      <4>2. QED
        BY <2>2, <2>4, <2>5, <4>1
    <3>2. ASSUME NEW r \in Requests, NEW f \in Forms, Arrive(r, f) PROVE A
      BY <2>2, <3>2 DEF Arrive
    <3>3. CASE Tick \/ \E term \in ToBlock : Moderate(term)
      BY <2>2, <3>3 DEF Tick, Moderate
    <3>4. QED
      BY <2>3, <2>6, <3>1, <3>2, <3>3 DEF Next
  <2>7. QED
    BY <2>6
<1>2. QED
  BY <1>1, PostInvariant, PTL DEF Spec, LockedTakesOnlyEarly

----------------------------------------------------------------------------
(* The caches.                                                             *)

\* A cache holds a key once.
Proper(c, S) == c \in Seq(S) /\ \A i, j \in DOMAIN c : c[i][1] = c[j][1] => i = j

LEMMA SeqFacts ==
    ASSUME NEW S, NEW c \in Seq(S)
    PROVE  Len(c) \in Nat /\ DOMAIN c = 1..Len(c) /\ \A i \in 1..Len(c) : c[i] \in S
OBVIOUS

LEMMA RemoveAtFacts ==
    ASSUME NEW S, NEW c \in Seq(S), NEW i \in 1..Len(c)
    PROVE  /\ RemoveAt(c, i) \in Seq(S)
           /\ Len(RemoveAt(c, i)) = Len(c) - 1
           /\ \A j \in 1..(Len(c) - 1) : RemoveAt(c, i)[j] = IF j < i THEN c[j] ELSE c[j + 1]
<1> DEFINE a == SubSeq(c, 1, i - 1)
           b == SubSeq(c, i + 1, Len(c))
<1>0. Len(c) \in Nat /\ i \in Nat /\ i >= 1 /\ i <= Len(c)
  OBVIOUS
<1>1. a \in Seq(S) /\ Len(a) = i - 1 /\ \A j \in 1..(i - 1) : a[j] = c[j]
  BY <1>0
<1>2. b \in Seq(S) /\ Len(b) = Len(c) - i /\ \A j \in 1..(Len(c) - i) : b[j] = c[j + i]
  BY <1>0
<1> HIDE DEF a, b
<1>3. a \o b \in Seq(S) /\ Len(a \o b) = Len(c) - 1
  BY <1>0, <1>1, <1>2
<1>4. ASSUME NEW j \in 1..(Len(c) - 1)
      PROVE  (a \o b)[j] = IF j < i THEN c[j] ELSE c[j + 1]
  <2>1. (a \o b)[j] = IF j <= Len(a) THEN a[j] ELSE b[j - Len(a)]
    BY <1>0, <1>1, <1>2
  <2>2. CASE j < i
    BY <1>0, <1>1, <2>1, <2>2
  <2>3. CASE ~ (j < i)
    <3>1. j - Len(a) = j - (i - 1) /\ j - (i - 1) \in 1..(Len(c) - i) /\ ~ (j <= Len(a))
      BY <1>0, <1>1, <2>3
    <3>2. b[j - (i - 1)] = c[j - (i - 1) + i]
      BY <1>2, <3>1
    <3>3. j - (i - 1) + i = j + 1
      BY <1>0
    <3>4. QED
      BY <2>1, <2>3, <3>1, <3>2, <3>3
  <2>4. QED
    BY <2>2, <2>3
<1>5. QED
  BY <1>3, <1>4 DEF RemoveAt, a, b

LEMMA WithoutFacts ==
    ASSUME NEW S, NEW c, Proper(c, S), NEW k
    PROVE  /\ Proper(Without(c, k), S)
           /\ \A e : e \in Range(Without(c, k)) <=> e \in Range(c) /\ e[1] # k
<1>0. c \in Seq(S) /\ \A i, j \in DOMAIN c : c[i][1] = c[j][1] => i = j
  BY DEF Proper
<1>1. CASE ~ Holds(c, k)
  BY <1>1 DEF Without, Holds, Range
<1>2. CASE Holds(c, k)
  <2> DEFINE i == PlaceOf(c, k)
             w == RemoveAt(c, i)
  <2>1. i \in 1..Len(c) /\ c[i][1] = k
    BY <1>0, <1>2 DEF Holds, PlaceOf
  <2>2. Without(c, k) = w
    BY <1>2 DEF Without
  <2> HIDE DEF i
  <2>3. /\ w \in Seq(S) /\ Len(w) = Len(c) - 1 /\ Len(c) \in Nat
        /\ \A j \in 1..(Len(c) - 1) : w[j] = IF j < i THEN c[j] ELSE c[j + 1]
    BY <1>0, <2>1, RemoveAtFacts
  <2> HIDE DEF w
  <2> DEFINE from(j) == IF j < i THEN j ELSE j + 1
  <2>4. DOMAIN w = 1..(Len(c) - 1) /\ DOMAIN c = 1..Len(c)
    BY <1>0, <2>3
  <2>5. \A j \in DOMAIN w : from(j) \in DOMAIN c /\ from(j) # i /\ w[j] = c[from(j)]
    BY <2>1, <2>3, <2>4
  <2>6. \A m \in DOMAIN c : m # i => \E j \in DOMAIN w : from(j) = m
    <3>1. ASSUME NEW m \in DOMAIN c, m # i PROVE \E j \in DOMAIN w : from(j) = m
      <4>1. CASE m < i
        BY <2>1, <2>3, <2>4, <3>1, <4>1
      <4>2. CASE m > i
        <5>1. m - 1 \in DOMAIN w /\ from(m - 1) = m
          BY <2>1, <2>3, <2>4, <3>1, <4>2
        <5>2. QED
          BY <5>1
      <4>3. QED
        BY <2>1, <2>3, <2>4, <3>1, <4>1, <4>2
    <3>2. QED
      BY <3>1
  <2>7. \A j, m \in DOMAIN w : from(j) = from(m) => j = m
    BY <2>1, <2>3, <2>4
  <2> HIDE DEF from
  <2>8. Proper(w, S)
    <3>1. ASSUME NEW j \in DOMAIN w, NEW m \in DOMAIN w, w[j][1] = w[m][1] PROVE j = m
      <4>1. c[from(j)][1] = c[from(m)][1]
        BY <2>5, <3>1
      <4>2. from(j) = from(m)
        BY <1>0, <2>5, <4>1
      <4>3. QED
        BY <2>7, <4>2
    <3>2. QED
      BY <2>3, <3>1 DEF Proper
  <2>9. ASSUME NEW e PROVE e \in Range(w) <=> e \in Range(c) /\ e[1] # k
    <3>1. ASSUME e \in Range(w) PROVE e \in Range(c) /\ e[1] # k
      <4>1. PICK j \in DOMAIN w : e = w[j]
        BY <3>1 DEF Range
      <4>2. from(j) \in DOMAIN c /\ from(j) # i /\ e = c[from(j)]
        BY <2>5, <4>1
      <4>3. c[from(j)][1] # c[i][1]
        BY <1>0, <2>1, <2>4, <4>2
      <4>4. QED
        BY <2>1, <4>2, <4>3 DEF Range
    <3>2. ASSUME e \in Range(c), e[1] # k PROVE e \in Range(w)
      <4>1. PICK m \in DOMAIN c : e = c[m]
        BY <3>2 DEF Range
      <4>2. m # i
        BY <2>1, <3>2, <4>1
      <4>3. PICK j \in DOMAIN w : from(j) = m
        BY <2>6, <4>2
      <4>4. w[j] = e
        BY <2>5, <4>1, <4>3
      <4>5. QED
        BY <4>4 DEF Range
    <3>3. QED
      BY <3>1, <3>2
  <2>10. QED
    BY <2>2, <2>8, <2>9
<1>3. QED
  BY <1>1, <1>2

\* A key that is not held is added at the end.
LEMMA AddFacts ==
    ASSUME NEW S, NEW c, Proper(c, S), NEW e \in S, \A d \in Range(c) : d[1] # e[1]
    PROVE  /\ Proper(Append(c, e), S)
           /\ Range(Append(c, e)) = Range(c) \cup {e}
<1>0. c \in Seq(S) /\ \A i, j \in DOMAIN c : c[i][1] = c[j][1] => i = j
  BY DEF Proper
<1> DEFINE a == Append(c, e)
<1>1. Range(a) = Range(c) \cup {e}
  BY <1>0, AppendRange
<1>2. /\ a \in Seq(S) /\ Len(c) \in Nat /\ DOMAIN c = 1..Len(c) /\ DOMAIN a = 1..(Len(c) + 1)
      /\ a[Len(c) + 1] = e /\ \A i \in 1..Len(c) : a[i] = c[i]
  BY <1>0
<1> HIDE DEF a
<1>3. \A i \in DOMAIN c : c[i][1] # e[1]
  BY DEF Range
<1>4. ASSUME NEW i \in DOMAIN a, NEW j \in DOMAIN a, a[i][1] = a[j][1] PROVE i = j
  <2>1. CASE i \in DOMAIN c /\ j \in DOMAIN c
    BY <1>0, <1>2, <1>4, <2>1
  <2>2. CASE i = Len(c) + 1 \/ j = Len(c) + 1
    BY <1>2, <1>3, <1>4, <2>2
  <2>3. QED
    BY <1>2, <2>1, <2>2
<1>5. Proper(a, S)
  BY <1>2, <1>4 DEF Proper
<1>6. QED
  BY <1>1, <1>5 DEF a

\* A proper cache has no more entries than a set that all its keys are in.
LEMMA KeysBound ==
    ASSUME NEW S, NEW c, Proper(c, S), NEW K, IsFiniteSet(K), \A e \in Range(c) : e[1] \in K
    PROVE  Len(c) <= Cardinality(K) /\ Cardinality(K) \in Nat
<1>0. c \in Seq(S) /\ \A i, j \in DOMAIN c : c[i][1] = c[j][1] => i = j
  BY DEF Proper
<1>1. Len(c) \in Nat /\ DOMAIN c = 1..Len(c)
  BY <1>0
<1> DEFINE f == [i \in 1..Len(c) |-> c[i][1]]
<1>2. f \in Injection(1..Len(c), K)
  <2>1. \A i \in 1..Len(c) : c[i][1] \in K
    BY <1>1 DEF Range
  <2>2. f \in [1..Len(c) -> K]
    BY <2>1
  <2>3. \A i, j \in 1..Len(c) : f[i] = f[j] => i = j
    BY <1>0, <1>1
  <2> HIDE DEF f
  <2>4. QED
    BY <2>2, <2>3 DEF Injection, IsInjective
<1> HIDE DEF f
<1>3. Cardinality(1..Len(c)) <= Cardinality(K)
  BY <1>2, FS_Injection
<1>4. Cardinality(1..Len(c)) = Len(c)
  BY <1>1, FS_Interval, SMTT(30)
<1>5. QED
  BY <1>3, <1>4, FS_CardinalityType

\* What a cache holds stays, or it was too long.
LEMMA WithinFacts ==
    ASSUME NEW S, NEW c, Proper(c, S), NEW size \in Nat
    PROVE  /\ Proper(Within(c, size), S)
           /\ Range(Within(c, size)) \subseteq Range(c)
           /\ Range(Within(c, size)) = Range(c) \/ Len(c) > size
<1>0. c \in Seq(S) /\ \A i, j \in DOMAIN c : c[i][1] = c[j][1] => i = j
  BY DEF Proper
<1>1. Len(c) \in Nat /\ DOMAIN c = 1..Len(c)
  BY <1>0
<1>2. CASE ~ (Len(c) > size)
  BY <1>2 DEF Within
<1>3. CASE Len(c) > size
  <2> DEFINE k == Len(c) - size
             w == SubSeq(c, k + 1, Len(c))
  <2>0. Within(c, size) = w
    BY <1>3 DEF Within
  <2>1. k \in Nat /\ k <= Len(c)
    BY <1>1, <1>3
  <2> HIDE DEF k
  <2>2. /\ w \in Seq(S) /\ DOMAIN w = 1..(Len(c) - k)
        /\ \A i \in 1..(Len(c) - k) : w[i] = c[i + k] /\ i + k \in DOMAIN c
    BY <1>0, <1>1, <2>1
  <2> HIDE DEF w
  <2>3. ASSUME NEW i \in DOMAIN w, NEW j \in DOMAIN w, w[i][1] = w[j][1] PROVE i = j
    <3>1. i + k = j + k
      BY <1>0, <2>2, <2>3
    <3>2. QED
      BY <1>1, <2>1, <2>2, <3>1
  <2>4. Range(w) \subseteq Range(c)
    BY <2>2 DEF Range
  <2>5. Proper(w, S)
    BY <2>2, <2>3 DEF Proper
  <2>6. QED
    BY <1>3, <2>0, <2>4, <2>5
<1>4. QED
  BY <1>2, <1>3

\* Add takes the place of the key, and drops nothing as long as the keys that
\* were ever added fit in.
LEMMA WithFacts ==
    ASSUME NEW S, NEW c, Proper(c, S), NEW k, NEW v, <<k, v>> \in S, NEW size \in Nat,
           NEW K, IsFiniteSet(K), k \in K, \A e \in Range(c) : e[1] \in K
    PROVE  /\ Proper(With(c, k, v, size), S)
           /\ \A e \in Range(With(c, k, v, size)) : e = <<k, v>> \/ (e \in Range(c) /\ e[1] # k)
           /\ \/ /\ <<k, v>> \in Range(With(c, k, v, size))
                 /\ \A e \in Range(c) : e[1] # k => e \in Range(With(c, k, v, size))
              \/ Cardinality(K) > size
<1> DEFINE w == Without(c, k)
           a == Append(w, <<k, v>>)
<1>1. Proper(w, S) /\ \A e : e \in Range(w) <=> e \in Range(c) /\ e[1] # k
  BY WithoutFacts
<1> HIDE DEF w
<1>2. Proper(a, S) /\ Range(a) = Range(w) \cup {<<k, v>>}
  BY <1>1, AddFacts
<1> HIDE DEF a
<1>3. \A e \in Range(a) : e[1] \in K
  BY <1>1, <1>2
<1>4. Len(a) <= Cardinality(K) /\ Cardinality(K) \in Nat
  BY <1>2, <1>3, KeysBound
<1>5. /\ Proper(Within(a, size), S) /\ Range(Within(a, size)) \subseteq Range(a)
      /\ Range(Within(a, size)) = Range(a) \/ Len(a) > size
  BY <1>2, WithinFacts
<1>6. Len(a) \in Nat
  BY <1>2 DEF Proper
<1>7. With(c, k, v, size) = Within(a, size)
  BY DEF With, a, w
<1>8. Range(Within(a, size)) = Range(a) \/ Cardinality(K) > size
  BY <1>4, <1>5, <1>6
<1>9. QED
  BY <1>1, <1>2, <1>5, <1>7, <1>8

\* Get changes nothing that is held.
LEMMA TouchFacts ==
    ASSUME NEW S, NEW c, Proper(c, S), NEW k, S \subseteq {<<e[1], e[2]>> : e \in S}
    PROVE  Proper(Touch(c, k), S) /\ Range(Touch(c, k)) = Range(c)
<1>0. c \in Seq(S) /\ \A i, j \in DOMAIN c : c[i][1] = c[j][1] => i = j
  BY DEF Proper
<1>1. CASE ~ Holds(c, k)
  BY <1>1 DEF Touch
<1>2. CASE Holds(c, k)
  <2> DEFINE i == PlaceOf(c, k)
             e == <<k, ValueOf(c, k)>>
             w == Without(c, k)
  <2>1. i \in DOMAIN c /\ c[i][1] = k
    BY <1>2 DEF Holds, PlaceOf
  <2>2. c[i] \in S /\ e = <<c[i][1], c[i][2]>>
    BY <1>0, <2>1 DEF ValueOf
  <2>3. c[i] = e /\ e \in S /\ e[1] = k
    BY <2>2
  <2>4. Proper(w, S) /\ \A d : d \in Range(w) <=> d \in Range(c) /\ d[1] # k
    BY WithoutFacts
  <2> HIDE DEF w, e, i
  <2>5. Proper(Append(w, e), S) /\ Range(Append(w, e)) = Range(w) \cup {e}
    BY <2>3, <2>4, AddFacts
  <2>6. \A d \in Range(c) : d[1] = k => d = e
    BY <1>0, <2>1, <2>3 DEF Range
  <2>7. e \in Range(c)
    BY <2>1, <2>3 DEF Range
  <2>8. Range(Append(w, e)) = Range(c)
    BY <2>4, <2>5, <2>6, <2>7
  <2>9. Touch(c, k) = Append(w, e)
    BY <1>2 DEF Touch, w, e
  <2>10. QED
    BY <2>5, <2>8, <2>9
<1>3. QED
  BY <1>1, <1>2

\* What is found under a key
LEMMA ValueFacts ==
    ASSUME NEW S, NEW c, Proper(c, S), NEW k
    PROVE  /\ Holds(c, k) <=> \E e \in Range(c) : e[1] = k
           /\ \A e \in Range(c) : e[1] = k => ValueOf(c, k) = e[2]
           /\ Holds(c, k) => \E e \in Range(c) : e[1] = k /\ e[2] = ValueOf(c, k)
<1>0. c \in Seq(S) /\ \A i, j \in DOMAIN c : c[i][1] = c[j][1] => i = j
  BY DEF Proper
<1>1. Holds(c, k) => PlaceOf(c, k) \in DOMAIN c /\ c[PlaceOf(c, k)][1] = k
  BY DEF Holds, PlaceOf
<1>2. Holds(c, k) <=> \E e \in Range(c) : e[1] = k
  BY DEF Holds, Range
<1>3. \A e \in Range(c) : e[1] = k => e = c[PlaceOf(c, k)]
  BY <1>0, <1>1, <1>2 DEF Range
<1>4. QED
  BY <1>1, <1>2, <1>3 DEF ValueOf, Range

----------------------------------------------------------------------------
(* The steps of a request.                                                 *)

\* What every step of request r leaves alone
Moved(r) ==
    /\ Others(r)
    /\ req[r].pc \notin {"new", "answered"} /\ req'[r].pc # "new"
    /\ req'[r].form = req[r].form /\ req'[r].after = req[r].after
    /\ req[r].pc # "user" => req'[r].at = req[r].at
    /\ req[r].pc # "referer" => req'[r].user = req[r].user
    /\ req[r].pc # "roll" => req'[r].count = req[r].count
    /\ \A s \in Requests \ {r} : InTopics(topics', s) <=> InTopics(topics, s)
    /\ InTopics(topics', r) => InTopics(topics, r) \/ req[r].pc = "post"
    /\ now' = now
    /\ req[r].pc \notin {"uuid", "add uuid"} => Kuuids' = Kuuids
    /\ req[r].pc \notin {"throttle", "throttled"} => KthrotIPID' = KthrotIPID
    /\ req[r].pc \notin {"roll", "challenge", "passed"} => KbadUsers' = KbadUsers
    /\ req[r].pc \notin {"block user", "block address"} => terms' = terms

Moves(r, from, to) == req[r].pc = from /\ req'[r].pc \in to

\* Where it goes
Ways(r) ==
    \/ Moves(r, "address", {"user", "answered"})
    \/ Moves(r, "user", {"referer", "throttle", "answered"}) /\ CheckUser(r)
    \/ Moves(r, "throttle", {"throttled", "answered"}) /\ ThrottleGet(r)
    \/ Moves(r, "throttled", {"referer"}) /\ ThrottleAdd(r)
    \/ Moves(r, "referer", {"roll", "answered"}) /\ CheckReferer(r)
    \/ Moves(r, "roll", {"passed", "challenge"}) /\ Roll(r)
    \/ Moves(r, "challenge", {"block user", "passed", "answered"}) /\ Challenge(r)
    \/ Moves(r, "block user", {"block address"}) /\ BlockUser(r)
    \/ Moves(r, "block address", {"answered"}) /\ BlockAddress(r)
    \/ Moves(r, "passed", {"uuid", "answered"}) /\ Passed(r)
    \/ Moves(r, "uuid", {"add uuid", "answered"}) /\ UuidGet(r)
    \/ Moves(r, "add uuid", {"validate"}) /\ UuidAdd(r)
    \/ Moves(r, "validate", {"image", "post", "answered"})
    \/ Moves(r, "image", {"post", "answered"})
    \/ Moves(r, "post", {"flag", "answered"})
    \/ Moves(r, "flag", {"answered"})

\* An assignment to the local variables of r
Sets(r, fields) ==
    /\ Others(r)
    /\ \A x \in Fields \ fields : req'[r][x] = req[r][x]

LEMMA GotoSets ==
    ASSUME ReqType, NEW r \in Requests, NEW step, Goto(r, step)
    PROVE  Sets(r, {"pc", "answer"}) /\ req'[r].pc = step /\ req'[r].answer = req[r].answer
BY DEF ReqType, Goto, Others, Sets, Fields

LEMMA AnswerSets ==
    ASSUME ReqType, NEW r \in Requests, NEW a, Answer(r, a)
    PROVE  Sets(r, {"pc", "answer"}) /\ req'[r].pc = "answered" /\ req'[r].answer = a
BY DEF ReqType, Answer, Others, Sets, Fields

LEMMA FieldSets ==
    ASSUME ReqType, NEW r \in Requests, NEW x \in Fields \ {"pc"}, NEW step, NEW v,
           req' = [req EXCEPT ![r].pc = step, ![r][x] = v]
    PROVE  Sets(r, {"pc", x}) /\ req'[r].pc = step /\ req'[r][x] = v
BY DEF ReqType, Others, Sets, Fields

\* A step that posts nothing
LEMMA QuietMoves ==
    ASSUME NEW r \in Requests, NEW fields, fields \subseteq Fields \ {"form", "after"},
           Sets(r, fields), topics' = topics, now' = now,
           req[r].pc \notin {"new", "answered"}, req'[r].pc # "new",
           "at" \in fields => req[r].pc = "user",
           "user" \in fields => req[r].pc = "referer",
           "count" \in fields => req[r].pc = "roll",
           req[r].pc \notin {"uuid", "add uuid"} => Kuuids' = Kuuids,
           req[r].pc \notin {"throttle", "throttled"} => KthrotIPID' = KthrotIPID,
           req[r].pc \notin {"roll", "challenge", "passed"} => KbadUsers' = KbadUsers,
           req[r].pc \notin {"block user", "block address"} => terms' = terms
    PROVE  Moved(r)
BY Zenon DEF Moved, Sets, Fields

LEMMA EarlyMoves ==
    ASSUME ReqType, NEW r \in Requests,
           \/ CheckAddress(r) \/ CheckUser(r) \/ ThrottleGet(r) \/ ThrottleAdd(r) \/ CheckReferer(r)
           \/ Roll(r) \/ Challenge(r) \/ BlockUser(r) \/ BlockAddress(r)
    PROVE  Moved(r) /\ Ways(r)
<1>f. "at" \in Fields \ {"pc"} /\ "user" \in Fields \ {"pc"} /\ "count" \in Fields \ {"pc"}
  BY DEF Fields
<1>g. /\ {"pc", "answer"} \subseteq Fields \ {"form", "after"}
      /\ \A x \in {"at", "user", "count", "id"} : {"pc", x} \subseteq Fields \ {"form", "after"}
  BY DEF Fields
<1>1. CASE CheckAddress(r)
  <2>1. /\ req[r].pc = "address" /\ UNCHANGED <<topics, terms, caches, now>>
        /\ Answer(r, "bad-request") \/ Goto(r, "user")
    BY <1>1 DEF CheckAddress, At
  <2>2. Sets(r, {"pc", "answer"}) /\ req'[r].pc \in {"user", "answered"}
    BY <2>1, GotoSets, AnswerSets
  <2>3. QED
    BY <1>g, <2>1, <2>2, QuietMoves, Zenon DEF Ways, Moves, caches
<1>2. CASE CheckUser(r)
  <2>1. /\ req[r].pc = "user" /\ UNCHANGED <<topics, terms, caches, now>>
        /\ \/ Answer(r, "bad-request") \/ Goto(r, "referer")
           \/ req' = [req EXCEPT ![r].pc = "throttle", ![r].at = now]
    BY <1>2 DEF CheckUser, At
  <2>2. /\ Sets(r, {"pc", "answer"}) \/ Sets(r, {"pc", "at"})
        /\ req'[r].pc \in {"referer", "throttle", "answered"}
    <3>1. ASSUME req' = [req EXCEPT ![r].pc = "throttle", ![r].at = now]
          PROVE  Sets(r, {"pc", "at"}) /\ req'[r].pc = "throttle"
      BY <1>f, <3>1, FieldSets
    <3>2. QED
      BY <2>1, <3>1, GotoSets, AnswerSets
  <2>3. QED
    BY <1>2, <1>g, <2>1, <2>2, QuietMoves, Zenon DEF Ways, Moves, caches
<1>3. CASE ThrottleGet(r)
  <2>1. /\ req[r].pc = "throttle" /\ UNCHANGED <<topics, terms, Kuuids, KbadUsers, now>>
        /\ Answer(r, "bad-request") \/ Goto(r, "throttled")
    BY <1>3 DEF ThrottleGet, At
  <2>2. Sets(r, {"pc", "answer"}) /\ req'[r].pc \in {"throttled", "answered"}
    BY <2>1, GotoSets, AnswerSets
  <2>3. QED
    BY <1>3, <1>g, <2>1, <2>2, QuietMoves, Zenon DEF Ways, Moves
<1>4. CASE ThrottleAdd(r)
  <2>1. /\ req[r].pc = "throttled" /\ UNCHANGED <<topics, terms, Kuuids, KbadUsers, now>>
        /\ Goto(r, "referer")
    BY <1>4 DEF ThrottleAdd, At
  <2>2. Sets(r, {"pc", "answer"}) /\ req'[r].pc = "referer"
    BY <2>1, GotoSets
  <2>3. QED
    BY <1>4, <1>g, <2>1, <2>2, QuietMoves, Zenon DEF Ways, Moves
<1>5. CASE CheckReferer(r)
  <2>1. /\ req[r].pc = "referer" /\ UNCHANGED <<topics, terms, caches, now>>
        /\ \/ Answer(r, "bad-referer") \/ Answer(r, "no-more-new-users") \/ Goto(r, "roll")
           \/ req' = [req EXCEPT ![r].pc = "roll", ![r].user = r]
    BY <1>5 DEF CheckReferer, At
  <2>2. /\ Sets(r, {"pc", "answer"}) \/ Sets(r, {"pc", "user"})
        /\ req'[r].pc \in {"roll", "answered"}
    BY <1>f, <2>1, GotoSets, AnswerSets, FieldSets, SMTT(30)
  <2>3. QED
    BY <1>5, <1>g, <2>1, <2>2, QuietMoves, Zenon DEF Ways, Moves, caches
<1>6. CASE Roll(r)
  <2>1. PICK c :
           /\ req[r].pc = "roll" /\ UNCHANGED <<topics, terms, Kuuids, KthrotIPID, now>>
           /\ Goto(r, "passed") \/ req' = [req EXCEPT ![r].pc = "challenge", ![r].count = c]
    BY <1>6 DEF Roll, At
  <2>2. /\ Sets(r, {"pc", "answer"}) \/ Sets(r, {"pc", "count"})
        /\ req'[r].pc \in {"passed", "challenge"}
    <3>1. ASSUME req' = [req EXCEPT ![r].pc = "challenge", ![r].count = c]
          PROVE  Sets(r, {"pc", "count"}) /\ req'[r].pc = "challenge"
      BY <1>f, <3>1, FieldSets
    <3>2. QED
      BY <2>1, <3>1, GotoSets
  <2>3. QED
    BY <1>6, <1>g, <2>1, <2>2, QuietMoves, Zenon DEF Ways, Moves
<1>7. CASE Challenge(r)
  <2>1. /\ req[r].pc = "challenge" /\ UNCHANGED <<topics, terms, Kuuids, KthrotIPID, now>>
        /\ \/ Goto(r, "block user") \/ Goto(r, "passed") \/ Answer(r, "recaptcha-needed")
           \/ Answer(r, "recaptcha-failed") \/ Answer(r, "internal-error")
    BY <1>7 DEF Challenge, At
  <2>2. Sets(r, {"pc", "answer"}) /\ req'[r].pc \in {"block user", "passed", "answered"}
    BY <2>1, GotoSets, AnswerSets
  <2>3. QED
    BY <1>7, <1>g, <2>1, <2>2, QuietMoves, Zenon DEF Ways, Moves
<1>8. CASE BlockUser(r)
  <2>1. /\ req[r].pc = "block user" /\ UNCHANGED <<topics, caches, now>> /\ Goto(r, "block address")
    BY <1>8 DEF BlockUser, At
  <2>2. Sets(r, {"pc", "answer"}) /\ req'[r].pc = "block address"
    BY <2>1, GotoSets
  <2>3. QED
    BY <1>8, <1>g, <2>1, <2>2, QuietMoves, Zenon DEF Ways, Moves, caches
<1>9. CASE BlockAddress(r)
  <2>1. /\ req[r].pc = "block address" /\ UNCHANGED <<topics, caches, now>> /\ Answer(r, "bad-request")
    BY <1>9 DEF BlockAddress, At
  <2>2. Sets(r, {"pc", "answer"}) /\ req'[r].pc = "answered"
    BY <2>1, AnswerSets
  <2>3. QED
    BY <1>9, <1>g, <2>1, <2>2, QuietMoves, Zenon DEF Ways, Moves, caches
<1>10. QED
  BY <1>1, <1>2, <1>3, <1>4, <1>5, <1>6, <1>7, <1>8, <1>9

LEMMA LateMoves ==
    ASSUME ReqType, NEW r \in Requests,
           Passed(r) \/ UuidGet(r) \/ UuidAdd(r) \/ Validate(r) \/ SaveImage(r) \/ FlagTopic(r)
    PROVE  Moved(r) /\ Ways(r)
<1>g. /\ {"pc", "answer"} \subseteq Fields \ {"form", "after"}
      /\ {"pc", "id"} \subseteq Fields \ {"form", "after"} /\ "id" \in Fields \ {"pc"}
  BY DEF Fields
<1>1. CASE Passed(r)
  <2>1. PICK id, a :
           /\ req[r].pc = "passed" /\ UNCHANGED <<topics, terms, Kuuids, KthrotIPID, now>>
           /\ Answer(r, a) \/ req' = [req EXCEPT ![r].pc = "uuid", ![r].id = id]
    BY <1>1 DEF Passed, Interpret, At
  <2>2. /\ Sets(r, {"pc", "answer"}) \/ Sets(r, {"pc", "id"})
        /\ req'[r].pc \in {"uuid", "answered"}
    <3>1. ASSUME req' = [req EXCEPT ![r].pc = "uuid", ![r].id = id]
          PROVE  Sets(r, {"pc", "id"}) /\ req'[r].pc = "uuid"
      BY <1>g, <3>1, FieldSets
    <3>2. QED
      BY <2>1, <3>1, AnswerSets
  <2>3. QED
    BY <1>1, <1>g, <2>1, <2>2, QuietMoves, Zenon DEF Ways, Moves
<1>2. CASE UuidGet(r)
  <2>1. /\ req[r].pc = "uuid" /\ UNCHANGED <<topics, terms, KthrotIPID, KbadUsers, now>>
        /\ Answer(r, "bad-request") \/ Goto(r, "add uuid")
    BY <1>2 DEF UuidGet, At
  <2>2. Sets(r, {"pc", "answer"}) /\ req'[r].pc \in {"add uuid", "answered"}
    BY <2>1, GotoSets, AnswerSets
  <2>3. QED
    BY <1>2, <1>g, <2>1, <2>2, QuietMoves, Zenon DEF Ways, Moves
<1>3. CASE UuidAdd(r)
  <2>1. /\ req[r].pc = "add uuid" /\ UNCHANGED <<topics, terms, KthrotIPID, KbadUsers, now>>
        /\ Goto(r, "validate")
    BY <1>3 DEF UuidAdd, At
  <2>2. Sets(r, {"pc", "answer"}) /\ req'[r].pc = "validate"
    BY <2>1, GotoSets
  <2>3. QED
    BY <1>3, <1>g, <2>1, <2>2, QuietMoves, Zenon DEF Ways, Moves
<1>4. CASE Validate(r)
  <2>1. /\ req[r].pc = "validate" /\ UNCHANGED <<topics, terms, caches, now>>
        /\ \/ Answer(r, "image-upload-failed") \/ Answer(r, "image-upload-disabled")
           \/ Answer(r, "message-too-short") \/ Answer(r, "topic-locked")
           \/ Goto(r, "post") \/ Goto(r, "image")
    BY <1>4 DEF Validate, At
  <2>2. Sets(r, {"pc", "answer"}) /\ req'[r].pc \in {"image", "post", "answered"}
    BY <2>1, GotoSets, AnswerSets
  <2>3. QED
    BY <1>g, <2>1, <2>2, QuietMoves, Zenon DEF Ways, Moves, caches
<1>5. CASE SaveImage(r)
  <2>1. PICK a : /\ req[r].pc = "image" /\ UNCHANGED <<topics, terms, caches, now>>
                 /\ Answer(r, a) \/ Goto(r, "post")
    BY <1>5 DEF SaveImage, At
  <2>2. Sets(r, {"pc", "answer"}) /\ req'[r].pc \in {"post", "answered"}
    BY <2>1, GotoSets, AnswerSets
  <2>3. QED
    BY <1>g, <2>1, <2>2, QuietMoves, Zenon DEF Ways, Moves, caches
<1>6. CASE FlagTopic(r)
  <2>1. req[r].pc = "flag" /\ UNCHANGED <<topics, terms, caches, now>> /\ Answer(r, "success")
    BY <1>6 DEF FlagTopic, At
  <2>2. Sets(r, {"pc", "answer"}) /\ req'[r].pc = "answered"
    BY <2>1, AnswerSets
  <2>3. QED
    BY <1>g, <2>1, <2>2, QuietMoves, Zenon DEF Ways, Moves, caches
<1>7. QED
  BY <1>1, <1>2, <1>3, <1>4, <1>5, <1>6

LEMMA PostMoves ==
    ASSUME PostInv, NEW r \in Requests, PostTopic(r) \/ PostReply(r)
    PROVE  Moved(r) /\ Ways(r)
<1>0. ReqType /\ topics \in Seq(Topic)
  BY DEF PostInv
<1>1. req[r].pc = "post" /\ UNCHANGED <<terms, caches, now>>
  BY DEF PostTopic, PostReply, At
<1>g. {"pc", "answer"} \subseteq Fields \ {"form", "after"}
  BY DEF Fields
<1>2. /\ Sets(r, {"pc", "answer"}) /\ req'[r].pc \in {"flag", "answered"}
  <2>1. PICK at, a :
           /\ at \in {"flag", "answered"}
           /\ Answer(r, a) \/ req' = [req EXCEPT ![r].pc = at, ![r].answer = a]
    <3> DEFINE at == IF Asked(r).nsfw THEN "flag" ELSE "answered"
               a == IF Asked(r).nsfw THEN "none" ELSE "success"
    <3>1. at \in {"flag", "answered"}
      OBVIOUS
    <3>2. \/ Answer(r, "internal-error") \/ Answer(r, "success")
          \/ req' = [req EXCEPT ![r].pc = at, ![r].answer = a]
      BY DEF PostTopic, PostReply
    <3> HIDE DEF at, a
    <3>3. QED
      BY <3>1, <3>2
  <2>2. ASSUME req' = [req EXCEPT ![r].pc = at, ![r].answer = a]
        PROVE  Sets(r, {"pc", "answer"}) /\ req'[r].pc = at
    BY <1>0, <2>2, FieldSets DEF Fields
  <2>3. QED
    BY <1>0, <2>1, <2>2, AnswerSets
<1>3. (\A s \in Requests : InTopics(topics', s) <=> InTopics(topics, s)) \/ Grown(r)
  <2>1. CASE topics' = topics
    BY <2>1
  <2>2. CASE PostTopic(r) /\ topics' # topics
    <3> DEFINE v == [NoTopic EXCEPT !.gone = FALSE, !.posts = <<r>>]
    <3>1. topics' = Append(topics, v)
      BY <2>2 DEF PostTopic
    <3>2. <<r>> \in Seq(OldPosts \cup Requests)
      OBVIOUS
    <3>3. v \in Topic /\ v.posts = <<r>>
      BY <3>2 DEF NoTopic, Topic
    <3> HIDE DEF v
    <3>4. QED
      BY <1>0, <3>1, <3>3, TopicAdded
  <2>3. CASE PostReply(r) /\ topics' # topics
    <3> DEFINE t == req[r].id
               v == IF Len(topics[t].posts) < MaxPosts
                    THEN [topics[t] EXCEPT !.posts = Append(@, r)]
                    ELSE [topics[t] EXCEPT !.locked = TRUE]
    <3>1. t \in DOMAIN topics /\ topics' = [topics EXCEPT ![t] = v]
      BY <2>3 DEF PostReply, Live
    <3>2. topics[t] \in Topic
      BY <1>0, <3>1
    <3>3. topics[t].posts \in Seq(OldPosts \cup Requests)
      BY <3>2 DEF Topic
    <3>4. Append(topics[t].posts, r) \in Seq(OldPosts \cup Requests)
      BY <3>3
    <3>5. v \in Topic /\ (v.posts = topics[t].posts \/ v.posts = Append(topics[t].posts, r))
      BY <3>2, <3>4 DEF Topic
    <3> HIDE DEF v
    <3>6. QED
      BY <1>0, <3>1, <3>5, TopicChanges
  <2>4. QED
    BY <2>1, <2>2, <2>3
<1>4. \A s \in Requests \ {r} : InTopics(topics', s) <=> InTopics(topics, s)
  BY <1>3 DEF Grown
<1>5. Moved(r)
  BY <1>g, <1>1, <1>2, <1>4, Zenon DEF Moved, Sets, Fields, caches
<1>6. QED
  BY <1>1, <1>2, <1>5 DEF Ways, Moves

LEMMA StepMoves ==
    ASSUME PostInv, NEW r \in Requests, Step(r)
    PROVE  Moved(r) /\ Ways(r)
<1>1. ReqType
  BY DEF PostInv
<1>2. QED
  BY <1>1, EarlyMoves, LateMoves, PostMoves DEF Step

\* The steps of moderators and of the clock touch no request.
Aside ==
    /\ UNCHANGED <<caches, req>>
    /\ \/ terms' = terms
       \/ \E term : meddled' = meddled \cup {term} /\ blocked' = Toggle(term)
    /\ now' = now \/ (now' = now + 1)
    /\ \A s \in Requests : InTopics(topics', s) <=> InTopics(topics, s)

LEMMA AsideFacts ==
    ASSUME PostInv,
           \/ \E t \in DOMAIN topics \cap ToLock : Lock(t)
           \/ \E t \in DOMAIN topics \cap ToPurge : Purge(t)
           \/ \E term \in ToBlock : Moderate(term)
           \/ Tick \/ UNCHANGED vars
    PROVE  Aside
<1>1. CASE Tick \/ UNCHANGED vars
  BY <1>1 DEF Tick, vars, Aside, caches
<1>m. CASE \E term \in ToBlock : Moderate(term)
  BY <1>m DEF Moderate, Aside
<1>2. ASSUME NEW t \in DOMAIN topics, Lock(t) \/ Purge(t) PROVE Aside
  <2>1. topics[t] \in Topic
    BY DEF PostInv
  <2>2. DOMAIN topics' = DOMAIN topics /\ \A u \in DOMAIN topics : topics'[u].posts = topics[u].posts
    BY <1>2, <2>1 DEF Lock, Purge, Topic
  <2>3. QED
    BY <1>2, <2>2 DEF Aside, InTopics, Lock, Purge
<1>3. QED
  BY <1>1, <1>2, <1>m

\* What a request is when it has come
Comes(r, f) ==
    /\ Others(r)
    /\ req[r].pc = "new" /\ req'[r].pc \in {"answered", "referer", "address"}
    /\ req'[r].pc = "referer" => f.user \in Admins
    /\ req'[r].answer \in {"none", "bad-request"}
    /\ req'[r].pc # "answered" => req'[r].answer = "none"
    /\ req'[r].form = f /\ req'[r].user = f.user /\ req'[r].at = 0 /\ req'[r].count = 0
    /\ req'[r].after = Answered
    /\ UNCHANGED <<topics, terms, caches, now>>
    /\ ~ InTopics(topics, r)

LEMMA ArriveFacts ==
    ASSUME PostInv, NEW r \in Requests, NEW f \in Forms, Arrive(r, f)
    PROVE  Comes(r, f)
<1>1. req[r].pc = "new" /\ UNCHANGED <<topics, terms, caches, now>>
  BY DEF Arrive, At
<1> DEFINE refused == f.topic # 0 /\ ~ Live(f.topic)
           topic == IF Live(f.topic) THEN topics[f.topic] ELSE NoTopic
           at == IF refused THEN "answered" ELSE IF f.user \in Admins THEN "referer" ELSE "address"
           answer == IF refused THEN "bad-request" ELSE "none"
           v == [Fresh EXCEPT !.form = f, !.user = f.user, !.id = f.topic, !.after = Answered,
                              !.topic = topic, !.pc = at, !.answer = answer]
<1>2. req' = [req EXCEPT ![r] = v]
  BY DEF Arrive
<1>3. /\ at \in {"answered", "referer", "address"} /\ (at = "referer" => f.user \in Admins)
      /\ answer \in {"none", "bad-request"} /\ (at # "answered" => answer = "none")
  OBVIOUS
<1> HIDE DEF topic, at, answer
<1>4. /\ Fields \subseteq DOMAIN v /\ v.form = f /\ v.user = f.user /\ v.pc = at /\ v.answer = answer
      /\ v.at = 0 /\ v.count = 0 /\ v.after = Answered
  BY DEF Fields, Fresh
<1> HIDE DEF v
<1>5. Others(r) /\ req'[r] = v
  BY <1>2, <1>4 DEF PostInv, ReqType, Others
<1>6. ~ InTopics(topics, r)
  BY <1>1 DEF PostInv, Honest
<1>7. QED
  BY <1>1, <1>3, <1>4, <1>5, <1>6, Zenon DEF Comes

LEMMA MovedFacts ==
    ASSUME NEW r \in Requests, Moved(r)
    PROVE  /\ Arrived' = Arrived /\ r \in Arrived
           /\ \A p \in Requests : Asked(p)' = Asked(p) /\ req'[p].after = req[p].after
           /\ Answered' \subseteq Answered \cup {r} /\ Answered \subseteq Answered' /\ r \notin Answered
<1>1. ASSUME NEW p \in Requests, p # r PROVE req'[p] = req[p]
  BY <1>1 DEF Moved, Others
<1>2. req[r].pc \notin {"new", "answered"} /\ req'[r].pc # "new" /\ req'[r].form = req[r].form
      /\ req'[r].after = req[r].after
  BY DEF Moved
<1>3. \A p \in Requests : /\ req'[p].form = req[p].form /\ req'[p].after = req[p].after
                          /\ req'[p].pc = "new" <=> req[p].pc = "new"
                          /\ req[p].pc = "answered" => req'[p].pc = "answered"
                          /\ req'[p].pc = "answered" => req[p].pc = "answered" \/ p = r
  BY <1>1, <1>2
<1>4. Arrived' = Arrived /\ r \in Arrived
  BY <1>2, <1>3 DEF Arrived, At
<1>5. Answered' \subseteq Answered \cup {r} /\ Answered \subseteq Answered' /\ r \notin Answered
  BY <1>2, <1>3 DEF Answered
<1>6. QED
  BY <1>3, <1>4, <1>5 DEF Asked

LEMMA ComesFacts ==
    ASSUME NEW r \in Requests, NEW f, Comes(r, f)
    PROVE  /\ Arrived' = Arrived \cup {r} /\ r \notin Arrived /\ r \notin Answered
           /\ \A p \in Requests \ {r} : Asked(p)' = Asked(p) /\ req'[p] = req[p]
           /\ Asked(r)' = f /\ req'[r].after = Answered
           /\ Answered' \subseteq Answered \cup {r} /\ Answered \subseteq Answered'
<1>1. ASSUME NEW p \in Requests, p # r PROVE req'[p] = req[p]
  BY <1>1 DEF Comes, Others
<1>2. /\ req[r].pc = "new" /\ req[r].pc # "answered" /\ req'[r].pc # "new"
      /\ req'[r].form = f /\ req'[r].after = Answered
  BY DEF Comes
<1>3. \A p \in Requests : /\ req'[p].pc = "new" <=> (req[p].pc = "new" /\ p # r)
                          /\ req[p].pc = "answered" => req'[p].pc = "answered"
                          /\ req'[p].pc = "answered" => req[p].pc = "answered" \/ p = r
  BY <1>1, <1>2
<1>4. Arrived' = Arrived \cup {r} /\ r \notin Arrived
  BY <1>2, <1>3 DEF Arrived, At
<1>5. /\ Answered' \subseteq Answered \cup {r} /\ Answered \subseteq Answered'
      /\ r \notin Answered
  BY <1>2, <1>3 DEF Answered
<1>6. QED
  BY <1>1, <1>2, <1>4, <1>5 DEF Asked

LEMMA NextCases ==
    ASSUME PostInv, [Next]_vars
    PROVE  \/ \E r \in Requests : Step(r) /\ Moved(r) /\ Ways(r)
           \/ \E r \in Requests, f \in Forms : Comes(r, f)
           \/ Aside
BY StepMoves, ArriveFacts, AsideFacts DEF Next

----------------------------------------------------------------------------
(* A request that is repeated is not posted again.                         *)

\* All that is kept under a UUID is that it came.
UuidEntry == Nat \X {TRUE}

Uuids == {Asked(p).uuid : p \in Arrived}
UuidHeld(k) == \E e \in Range(Kuuids) : e[1] = k
UuidsForgotten == Cardinality(Uuids) > CacheSize

\* A request has added its UUID, if it is here or has posted.
Added(r) == req[r].pc \in {"validate", "image", "post", "flag"} \/ InTopics(topics, r)

FollowsInv ==
    \A q, r \in Requests : Follows(q, r) => q # r /\ r \in Answered /\ q \in Arrived

UuidCache ==
    /\ Proper(Kuuids, UuidEntry)
    /\ \A e \in Range(Kuuids) : e[1] \in Uuids

\* What was added is held, and who comes after does not get as far as to add
\* it again.
UuidOnce ==
    /\ \A r \in Requests : Added(r) => UuidHeld(Asked(r).uuid) \/ UuidsForgotten
    /\ \A q, r \in Requests :
          /\ Follows(q, r) /\ InTopics(topics, r) /\ Asked(q).uuid = Asked(r).uuid
          /\ req[q].pc = "add uuid" \/ Added(q)
          => UuidsForgotten

UuidInv == FollowsInv /\ IsFiniteSet(Uuids) /\ UuidCache /\ UuidOnce

LEMMA FollowsInit == Init => FollowsInv
BY DEF Init, FollowsInv, Follows, Fresh

LEMMA FollowsStep ==
    ASSUME PostInv, FollowsInv, [Next]_vars
    PROVE  FollowsInv'
<1>1. ASSUME NEW r \in Requests, Moved(r) PROVE FollowsInv'
  BY <1>1, MovedFacts DEF FollowsInv, Follows
<1>2. ASSUME NEW r \in Requests, NEW f \in Forms, Comes(r, f) PROVE FollowsInv'
  <2>1. ASSUME NEW q \in Requests, NEW s \in Requests, Follows(q, s)'
        PROVE  q # s /\ s \in Answered' /\ q \in Arrived'
    BY <1>2, <2>1, ComesFacts DEF FollowsInv, Follows
  <2>2. QED
    BY <2>1 DEF FollowsInv, Follows
<1>3. ASSUME Aside PROVE FollowsInv'
  BY <1>3 DEF Aside, FollowsInv, Follows, Answered, Arrived, At
<1>4. QED
  BY <1>1, <1>2, <1>3, NextCases

\* A finite set that grows by an element
LEMMA GrowsBy ==
    ASSUME NEW S, IsFiniteSet(S), NEW T, NEW x, S \subseteq T, T \subseteq S \cup {x}
    PROVE  IsFiniteSet(T) /\ Cardinality(S) <= Cardinality(T)
           /\ Cardinality(S) \in Nat /\ Cardinality(T) \in Nat
<1>1. IsFiniteSet(S \cup {x})
  BY FS_AddElement
<1>2. IsFiniteSet(T)
  BY <1>1, FS_Subset
<1>3. QED
  BY <1>2, FS_Subset, FS_CardinalityType

LEMMA UuidInit == Init => IsFiniteSet(Uuids) /\ UuidCache /\ UuidOnce
<1> SUFFICES ASSUME Init PROVE IsFiniteSet(Uuids) /\ UuidCache /\ UuidOnce
  OBVIOUS
<1>1. Uuids = {}
  BY DEF Init, Uuids, Arrived, At, Fresh
<1>2. Kuuids = <<>> /\ Range(Kuuids) = {}
  BY DEF Init, Range
<1>3. \A r \in Requests : ~ InTopics(topics, r) /\ req[r].pc = "new"
  BY OldTopicsAssumption DEF Init, InTopics, OldPosts, Fresh
<1>4. Proper(Kuuids, UuidEntry)
  BY <1>2 DEF Proper
<1>5. QED
  BY <1>1, <1>2, <1>3, <1>4, FS_EmptySet DEF UuidCache, UuidOnce, Added

\* The UUIDs that have come
LEMMA UuidsGrow ==
    ASSUME PostInv, IsFiniteSet(Uuids), [Next]_vars
    PROVE  /\ IsFiniteSet(Uuids') /\ Uuids \subseteq Uuids'
           /\ UuidsForgotten => UuidsForgotten'
<1>1. PICK x : Uuids' \subseteq Uuids \cup {x} /\ Uuids \subseteq Uuids'
  <2>1. ASSUME NEW r \in Requests, Moved(r) PROVE Uuids' = Uuids
    BY <2>1, MovedFacts DEF Uuids, Arrived
  <2>2. ASSUME NEW r \in Requests, NEW f \in Forms, Comes(r, f)
        PROVE Uuids' \subseteq Uuids \cup {f.uuid} /\ Uuids \subseteq Uuids'
    BY <2>2, ComesFacts DEF Uuids, Arrived
  <2>3. ASSUME Aside PROVE Uuids' = Uuids
    BY <2>3 DEF Aside, Uuids, Arrived, At, Asked
  <2>4. QED
    BY <2>1, <2>2, <2>3, NextCases
<1>2. /\ IsFiniteSet(Uuids') /\ Cardinality(Uuids) <= Cardinality(Uuids')
      /\ Cardinality(Uuids) \in Nat /\ Cardinality(Uuids') \in Nat
  BY <1>1, GrowsBy
<1>3. QED
  BY <1>1, <1>2, PostAPIAssumption DEF UuidsForgotten

\* Nothing is forgotten but by an overflow.
UuidsKept == \A k : UuidHeld(k) => UuidHeld(k)' \/ UuidsForgotten'

\* UuidAdd makes the UUID held.
LEMMA UuidAddFacts ==
    ASSUME PostInv, UuidCache, IsFiniteSet(Uuids'), Uuids \subseteq Uuids',
           NEW r \in Requests, UuidAdd(r)
    PROVE  /\ UuidCache' /\ UuidsKept
           /\ (\E e \in Range(Kuuids') : e[1] = Asked(r).uuid) \/ UuidsForgotten'
<1> DEFINE k == Asked(r).uuid
<1>1. Kuuids' = With(Kuuids, k, TRUE, CacheSize) /\ req[r].pc = "add uuid"
  BY DEF UuidAdd, At
<1>2. k \in Nat /\ k \in Uuids
  <2>1. Asked(r) \in Forms
    BY <1>1 DEF PostInv, ReqType, Asked
  <2>2. Asked(r) \in Form
    BY <2>1, PostAPIAssumption
  <2>3. r \in Arrived
    BY <1>1 DEF Arrived, At
  <2>4. QED
    BY <2>2, <2>3 DEF Form, Uuids
<1>3. <<k, TRUE>> \in UuidEntry /\ CacheSize \in Nat
  BY <1>2, PostAPIAssumption DEF UuidEntry
<1>4. \A e \in Range(Kuuids) : e[1] \in Uuids'
  BY DEF UuidCache
<1> HIDE DEF k
<1>5. /\ Proper(Kuuids', UuidEntry)
      /\ \A e \in Range(Kuuids') : e = <<k, TRUE>> \/ (e \in Range(Kuuids) /\ e[1] # k)
      /\ \/ /\ <<k, TRUE>> \in Range(Kuuids')
            /\ \A e \in Range(Kuuids) : e[1] # k => e \in Range(Kuuids')
         \/ Cardinality(Uuids') > CacheSize
  BY <1>1, <1>2, <1>3, <1>4, WithFacts DEF UuidCache
<1>6. <<k, TRUE>>[1] = k
  OBVIOUS
<1>7. UuidCache'
  BY <1>2, <1>4, <1>5, <1>6, Zenon DEF UuidCache
<1>8. UuidsKept
  BY <1>5, <1>6 DEF UuidsKept, UuidHeld, UuidsForgotten
<1>9. QED
  BY <1>5, <1>6, <1>7, <1>8 DEF k, UuidsForgotten

LEMMA UuidCacheStep ==
    ASSUME PostInv, IsFiniteSet(Uuids), UuidCache, [Next]_vars
    PROVE  UuidCache' /\ UuidsKept
<1>0. IsFiniteSet(Uuids') /\ Uuids \subseteq Uuids' /\ (UuidsForgotten => UuidsForgotten')
  BY UuidsGrow
<1>1. ASSUME Kuuids' = Kuuids PROVE UuidCache' /\ UuidsKept
  BY <1>0, <1>1 DEF UuidCache, UuidsKept, UuidHeld
<1>2. ASSUME NEW r \in Requests, UuidGet(r) PROVE UuidCache' /\ UuidsKept
  <2>1. Kuuids' = Touch(Kuuids, Asked(r).uuid)
    BY <1>2 DEF UuidGet
  <2>2. UuidEntry \subseteq {<<e[1], e[2]>> : e \in UuidEntry}
    <3>1. ASSUME NEW e \in UuidEntry PROVE e = <<e[1], e[2]>>
      BY DEF UuidEntry
    <3>2. QED
      BY <3>1
  <2>3. Proper(Kuuids', UuidEntry) /\ Range(Kuuids') = Range(Kuuids)
    BY <2>1, <2>2, TouchFacts DEF UuidCache
  <2>4. QED
    BY <1>0, <2>3 DEF UuidCache, UuidsKept, UuidHeld
<1>3. ASSUME NEW r \in Requests, UuidAdd(r) PROVE UuidCache' /\ UuidsKept
  BY <1>0, <1>3, UuidAddFacts
<1>4. QED
  <2>1. ASSUME NEW r \in Requests, Moved(r), Ways(r)
        PROVE  Kuuids' = Kuuids \/ UuidGet(r) \/ UuidAdd(r)
    BY <2>1, Zenon DEF Moved, Ways, Moves
  <2>2. QED
    BY <1>1, <1>2, <1>3, <2>1, NextCases DEF Comes, Aside, caches

\* UuidGet lets none go on whose UUID is held.
LEMMA UuidGetFacts ==
    ASSUME PostInv, UuidCache, NEW r \in Requests, UuidGet(r), req'[r].pc = "add uuid"
    PROVE  ~ UuidHeld(Asked(r).uuid)
<1>1. ReqType
  BY DEF PostInv
<1>2. ~ Holds(Kuuids, Asked(r).uuid)
  BY <1>1, AnswerFacts DEF UuidGet
<1>3. QED
  BY <1>2, ValueFacts DEF UuidCache, UuidHeld

LEMMA UuidOnceMoved ==
    ASSUME PostInv, FollowsInv, UuidCache, UuidOnce, UuidsKept, UuidsForgotten => UuidsForgotten',
           NEW r \in Requests, Moved(r), Ways(r),
           UuidAdd(r) => (\E e \in Range(Kuuids') : e[1] = Asked(r).uuid) \/ UuidsForgotten'
    PROVE  UuidOnce'
<1>a. /\ \A p \in Requests : Asked(p)' = Asked(p) /\ req'[p].after = req[p].after
      /\ \A p \in Requests \ {r} : req'[p] = req[p] /\ (InTopics(topics', p) <=> InTopics(topics, p))
      /\ InTopics(topics', r) => InTopics(topics, r) \/ req[r].pc = "post"
      /\ req[r].pc # "answered"
  BY MovedFacts DEF Moved, Others
\* Only UuidAdd adds, and only UuidGet goes there.
<1>b. /\ Added(r)' => Added(r) \/ (UuidAdd(r) /\ req[r].pc = "add uuid")
      /\ req'[r].pc = "add uuid" => UuidGet(r)
  <2>1. /\ req'[r].pc \in {"validate", "image", "post", "flag"} =>
              \/ req[r].pc \in {"validate", "image", "post", "flag"}
              \/ UuidAdd(r) /\ req[r].pc = "add uuid"
        /\ req'[r].pc = "add uuid" => UuidGet(r)
    BY DEF Ways, Moves
  <2>2. QED
    BY <1>a, <2>1 DEF Added
<1>c. \A p \in Requests \ {r} : Added(p)' <=> Added(p)
  BY <1>a DEF Added
<1>d. \A q, p \in Requests : Follows(q, p)' => Follows(q, p) /\ p # r
  BY <1>a DEF Follows, FollowsInv, Answered
<1>1. ASSUME NEW p \in Requests, Added(p)'
      PROVE  UuidHeld(Asked(p).uuid)' \/ UuidsForgotten'
  <2>1. CASE Added(p)
    <3>1. UuidHeld(Asked(p).uuid) \/ UuidsForgotten
      BY <2>1 DEF UuidOnce
    <3>2. QED
      BY <1>a, <3>1 DEF UuidsKept, UuidHeld
  <2>2. CASE p = r /\ UuidAdd(r)
    BY <1>a, <2>2 DEF UuidHeld
  <2>3. QED
    BY <1>1, <1>b, <1>c, <2>1, <2>2
<1>2. ASSUME NEW q \in Requests, NEW p \in Requests,
             Follows(q, p)', InTopics(topics, p)', (Asked(q).uuid = Asked(p).uuid)',
             req'[q].pc = "add uuid" \/ Added(q)'
      PROVE  UuidsForgotten'
  <2>1. /\ Follows(q, p) /\ p # r /\ InTopics(topics, p) /\ Asked(q).uuid = Asked(p).uuid
    BY <1>2, <1>a, <1>d
  <2>2. CASE req[q].pc = "add uuid" \/ Added(q)
    BY <2>1, <2>2 DEF UuidOnce
  <2>3. CASE q = r /\ UuidGet(r) /\ req'[r].pc = "add uuid"
    <3>1. UuidHeld(Asked(p).uuid) \/ UuidsForgotten
      BY <2>1 DEF UuidOnce, Added
    <3>2. ~ UuidHeld(Asked(r).uuid)
      BY <2>3, UuidGetFacts
    <3>3. QED
      BY <2>1, <2>3, <3>1, <3>2 DEF UuidHeld
  <2>4. QED
    BY <1>2, <1>a, <1>b, <1>c, <2>2, <2>3
<1>3. QED
  BY <1>1, <1>2 DEF UuidOnce

LEMMA UuidOnceComes ==
    ASSUME PostInv, FollowsInv, UuidOnce, UuidsKept, UuidsForgotten => UuidsForgotten',
           NEW r \in Requests, NEW f \in Forms, Comes(r, f)
    PROVE  UuidOnce'
<1>1. /\ req'[r].pc \in {"answered", "referer", "address"} /\ topics' = topics
      /\ ~ InTopics(topics, r)
  BY DEF Comes
<1>2. ~ Added(r)' /\ req'[r].pc # "add uuid" /\ ~ InTopics(topics, r)'
  BY <1>1 DEF Added, InTopics
<1>3. \A p \in Requests \ {r} :
         /\ req'[p] = req[p] /\ Asked(p)' = Asked(p)
         /\ Added(p)' <=> Added(p)
         /\ InTopics(topics, p)' <=> InTopics(topics, p)
  BY <1>1, ComesFacts DEF Added, InTopics
<1>4. ASSUME NEW p \in Requests, Added(p)'
      PROVE  UuidHeld(Asked(p).uuid)' \/ UuidsForgotten'
  <2>1. p # r /\ Added(p)
    BY <1>2, <1>3, <1>4
  <2>2. UuidHeld(Asked(p).uuid) \/ UuidsForgotten
    BY <2>1 DEF UuidOnce
  <2>3. QED
    BY <1>3, <2>1, <2>2 DEF UuidsKept, UuidHeld
<1>5. ASSUME NEW q \in Requests, NEW p \in Requests,
             Follows(q, p)', InTopics(topics, p)', (Asked(q).uuid = Asked(p).uuid)',
             req'[q].pc = "add uuid" \/ Added(q)'
      PROVE  UuidsForgotten'
  <2>1. p # r /\ q # r
    BY <1>2, <1>5
  <2>2. Follows(q, p) /\ InTopics(topics, p) /\ Asked(q).uuid = Asked(p).uuid
        /\ (req[q].pc = "add uuid" \/ Added(q))
    BY <1>3, <1>5, <2>1 DEF Follows
  <2>3. QED
    BY <2>2 DEF UuidOnce
<1>6. QED
  BY <1>4, <1>5 DEF UuidOnce

LEMMA UuidOnceAside ==
    ASSUME UuidOnce, UuidsKept, UuidsForgotten => UuidsForgotten', Aside
    PROVE  UuidOnce'
<1>1. /\ req' = req /\ \A s \in Requests : InTopics(topics', s) <=> InTopics(topics, s)
  BY DEF Aside
<1>2. \A s \in Requests : Added(s)' <=> Added(s)
  BY <1>1 DEF Added
<1>3. ASSUME NEW p \in Requests, Added(p)
      PROVE  UuidHeld(Asked(p).uuid)' \/ UuidsForgotten'
  <2>1. UuidHeld(Asked(p).uuid) \/ UuidsForgotten
    BY <1>3 DEF UuidOnce
  <2>2. QED
    BY <1>1, <2>1 DEF UuidsKept, UuidHeld, Asked
<1>4. QED
  BY <1>1, <1>2, <1>3 DEF UuidOnce, Follows, Asked

LEMMA UuidStep ==
    ASSUME PostInv, UuidInv, [Next]_vars
    PROVE  UuidInv'
<1>1. FollowsInv'
  BY FollowsStep DEF UuidInv
<1>2. /\ IsFiniteSet(Uuids') /\ Uuids \subseteq Uuids' /\ (UuidsForgotten => UuidsForgotten')
      /\ UuidCache' /\ UuidsKept
  BY UuidsGrow, UuidCacheStep DEF UuidInv
<1>3. UuidOnce'
  BY <1>2, UuidAddFacts, UuidOnceMoved, UuidOnceComes, UuidOnceAside, NextCases DEF UuidInv
<1>4. QED
  BY <1>1, <1>2, <1>3 DEF UuidInv

\* THEOREM.  Every step keeps the invariant of the UUIDs.
THEOREM UuidInvariant == Spec => []UuidInv
<1>1. Init => UuidInv
  BY FollowsInit, UuidInit DEF UuidInv
<1>2. PostInv /\ UuidInv /\ [Next]_vars => UuidInv'
  BY UuidStep
<1>3. QED
  BY <1>1, <1>2, PostInvariant, PTL DEF Spec

\* THEOREM.  A request that is repeated after its answer, with the same UUID,
\* is not posted again, however requests interleave and whatever the size of
\* the cache, unless more UUIDs have come than it holds
\* (handle_newpost.go:153-159).
THEOREM RepeatsAreNotPosted == Spec => []RepeatNotPosted
<1>1. UuidInv => RepeatNotPosted
  BY DEF UuidInv, UuidOnce, Added, RepeatNotPosted, Posted, InTopics, UuidsForgotten, Uuids
<1>2. QED
  BY <1>1, UuidInvariant, PTL

----------------------------------------------------------------------------
(* The posts of one user are a cooldown apart.                             *)

ThrottleKeys == Users \cup Addresses
ThrottleEntry == ThrottleKeys \X Nat

Throttled == {ThrottleKey(p) : p \in Arrived}
KeysForgotten == Cardinality(Throttled) > ThrotSize

\* The requests that one key stands for come in turn.
KeyInTurn(k) == InTurn({p \in Arrived : ThrottleKey(p) = k})

\* A request has been through throtNewPost, if it is here or has posted.
Through(r) ==
    \/ req[r].pc \in {"referer", "roll", "challenge", "block user", "block address", "passed",
                      "uuid", "add uuid", "validate", "image", "post", "flag"}
    \/ InTopics(topics, r)

Clock ==
    /\ now \in Nat
    /\ \A r \in Requests : req[r].at \in Nat /\ req[r].at <= now

ThrottleCache ==
    /\ Proper(KthrotIPID, ThrottleEntry)
    /\ \A e \in Range(KthrotIPID) : e[1] \in Throttled

\* Before the referer is checked, a request goes by the ID of its cookie.
OwnUser ==
    \A r \in Requests :
        req[r].pc \in {"address", "user", "throttle", "throttled"} => req[r].user = Asked(r).user

LaterAt ==
    \A q, r \in Requests :
        Follows(q, r) /\ req[q].pc \in {"throttle", "throttled"} => req[q].at >= req[r].at

\* The time at which a request came through is held, or a later one.
TimeHeld ==
    \A r \in Requests :
        /\ Through(r) /\ Asked(r).user \notin Mods /\ KeyInTurn(ThrottleKey(r))
        => \/ \E e \in Range(KthrotIPID) : e[1] = ThrottleKey(r) /\ e[2] >= req[r].at
           \/ KeysForgotten

Apart ==
    \A q, r \in Requests :
        /\ Follows(q, r) /\ InTopics(topics, r)
        /\ req[q].pc = "throttled" \/ Through(q)
        /\ ThrottleKey(q) = ThrottleKey(r) /\ Asked(q).user \notin Mods
        /\ KeyInTurn(ThrottleKey(r))
        => req[q].at - req[r].at > Settings.cooldown \/ KeysForgotten

CooldownInv ==
    /\ FollowsInv /\ Clock /\ IsFiniteSet(Throttled) /\ ThrottleCache /\ OwnUser
    /\ LaterAt /\ TimeHeld /\ Apart

LEMMA KeyFacts ==
    ASSUME PostInv
    PROVE  /\ \A r \in Arrived : ThrottleKey(r) \in ThrottleKeys
           /\ \A q, r \in Arrived : ThrottleKey(q) = ThrottleKey(r) =>
                                       Asked(q).user = Asked(r).user \/ Asked(r).user = NoUser
           /\ NoUser \notin Mods
<1>1. ASSUME NEW r \in Arrived
      PROVE  Asked(r).user \in Users \cup {NoUser} /\ Asked(r).ip \in Addresses
  <2>1. Asked(r) \in Forms
    BY DEF PostInv, ReqType, Asked, Arrived, At
  <2>2. Asked(r) \in Form
    BY <2>1, PostAPIAssumption
  <2>3. QED
    BY <2>2 DEF Form
<1>2. NoUser \notin Users /\ Users \cap Addresses = {} /\ Mods \subseteq Users
  BY PostAPIAssumption DEF IDs
<1>3. QED
  BY <1>1, <1>2 DEF ThrottleKey, ThrottleKeys

LEMMA ThrottledGrow ==
    ASSUME PostInv, IsFiniteSet(Throttled), [Next]_vars
    PROVE  /\ IsFiniteSet(Throttled') /\ Throttled \subseteq Throttled'
           /\ KeysForgotten => KeysForgotten'
<1>1. PICK x : Throttled' \subseteq Throttled \cup {x} /\ Throttled \subseteq Throttled'
  <2>1. ASSUME NEW r \in Requests, Moved(r) PROVE Throttled' = Throttled
    BY <2>1, MovedFacts DEF Throttled, Arrived, ThrottleKey
  <2>2. ASSUME NEW r \in Requests, NEW f \in Forms, Comes(r, f)
        PROVE  /\ Throttled' \subseteq Throttled \cup {ThrottleKey(r)'}
               /\ Throttled \subseteq Throttled'
    <3>1. \A p \in Arrived : p # r /\ ThrottleKey(p)' = ThrottleKey(p)
      BY <2>2, ComesFacts DEF ThrottleKey, Arrived
    <3>2. Arrived' = Arrived \cup {r}
      BY <2>2, ComesFacts
    <3> DEFINE k == ThrottleKey(r)'
    <3>3. \A p \in Arrived' : ThrottleKey(p)' = k \/ p \in Arrived
      BY <3>2
    <3> HIDE DEF k
    <3>4. QED
      BY <3>1, <3>2, <3>3 DEF Throttled, k
  <2>3. ASSUME Aside PROVE Throttled' = Throttled
    BY <2>3 DEF Aside, Throttled, Arrived, At, ThrottleKey, Asked
  <2>4. QED
    BY <2>1, <2>2, <2>3, NextCases
<1>2. /\ IsFiniteSet(Throttled') /\ Cardinality(Throttled) <= Cardinality(Throttled')
      /\ Cardinality(Throttled) \in Nat /\ Cardinality(Throttled') \in Nat
  BY <1>1, GrowsBy
<1>3. QED
  BY <1>1, <1>2, PostAPIAssumption DEF KeysForgotten

\* Requests that come in turn did so before.
LEMMA KeyInTurnBack ==
    ASSUME PostInv, FollowsInv, [Next]_vars, NEW k, KeyInTurn(k)'
    PROVE  KeyInTurn(k)
<1> SUFFICES ASSUME NEW p \in Arrived, NEW s \in Arrived,
                    ThrottleKey(p) = k, ThrottleKey(s) = k, p # s
             PROVE  Follows(p, s) \/ Follows(s, p)
  BY DEF KeyInTurn, InTurn
<1>0. p \in Requests /\ s \in Requests
  BY DEF Arrived
<1>1. /\ p \in Arrived' /\ s \in Arrived' /\ ThrottleKey(p)' = k /\ ThrottleKey(s)' = k
      /\ req'[p].after = req[p].after /\ req'[s].after = req[s].after
  <2>1. ASSUME NEW r \in Requests, Moved(r)
        PROVE  /\ Arrived' = Arrived /\ Asked(p)' = Asked(p) /\ Asked(s)' = Asked(s)
               /\ req'[p].after = req[p].after /\ req'[s].after = req[s].after
    BY <1>0, <2>1, MovedFacts
  <2>2. ASSUME NEW r \in Requests, NEW f \in Forms, Comes(r, f)
        PROVE  /\ Arrived \subseteq Arrived' /\ Asked(p)' = Asked(p) /\ Asked(s)' = Asked(s)
               /\ req'[p].after = req[p].after /\ req'[s].after = req[s].after
    BY <1>0, <2>2, ComesFacts
  <2>3. ASSUME Aside
        PROVE  /\ Arrived' = Arrived /\ Asked(p)' = Asked(p) /\ Asked(s)' = Asked(s)
               /\ req'[p].after = req[p].after /\ req'[s].after = req[s].after
    BY <2>3 DEF Aside, Arrived, At, Asked
  <2>4. QED
    BY <2>1, <2>2, <2>3, NextCases DEF ThrottleKey
<1>2. Follows(p, s)' \/ Follows(s, p)'
  BY <1>1 DEF KeyInTurn, InTurn
<1>3. QED
  BY <1>1, <1>2 DEF Follows

\* What CheckUser does
LEMMA CheckUserFacts ==
    ASSUME PostInv, NEW r \in Requests, CheckUser(r)
    PROVE  /\ req'[r].at \in {req[r].at, now}
           /\ req'[r].pc = "throttle" => req'[r].at = now
           /\ req'[r].pc = "referer" => req[r].user \in Mods
           /\ req[r].pc = "user"
<1>1. ReqType /\ req[r].pc = "user"
  BY DEF PostInv, CheckUser, At
<1>2. CASE Answer(r, "bad-request")
  BY <1>1, <1>2, AnswerSets DEF Sets, Fields
<1>3. CASE req[r].user \in Mods /\ Goto(r, "referer")
  BY <1>1, <1>3, GotoSets DEF Sets, Fields
<1>4. CASE req' = [req EXCEPT ![r].pc = "throttle", ![r].at = now]
  <2>2. req'[r].at = now /\ req'[r].pc = "throttle"
    BY <1>1, <1>4 DEF ReqType, Fields
  <2>3. QED
    BY <1>1, <2>2
<1>5. QED
  BY <1>2, <1>3, <1>4 DEF CheckUser

LEMMA ClockStep ==
    ASSUME PostInv, Clock, [Next]_vars
    PROVE  Clock'
<1>1. ASSUME NEW r \in Requests, Moved(r), Ways(r) PROVE Clock'
  <2>1. req[r].pc = "user" => CheckUser(r)
    BY <1>1 DEF Ways, Moves
  <2>2. req'[r].at \in {req[r].at, now}
    BY <1>1, <2>1, CheckUserFacts DEF Moved
  <2>3. now' = now /\ \A p \in Requests \ {r} : req'[p] = req[p]
    BY <1>1 DEF Moved, Others
  <2>4. ASSUME NEW p \in Requests PROVE req'[p].at \in Nat /\ req'[p].at <= now
    <3>1. req'[p].at \in {req[p].at, now}
      BY <2>2, <2>3
    <3>2. QED
      BY <3>1 DEF Clock
  <2>5. QED
    BY <2>3, <2>4 DEF Clock
<1>2. ASSUME NEW r \in Requests, NEW f \in Forms, Comes(r, f) PROVE Clock'
  <2>1. now' = now /\ req'[r].at = 0 /\ \A p \in Requests \ {r} : req'[p] = req[p]
    BY <1>2 DEF Comes, Others
  <2>2. ASSUME NEW p \in Requests PROVE req'[p].at \in Nat /\ req'[p].at <= now
    BY <2>1 DEF Clock
  <2>3. QED
    BY <2>1, <2>2 DEF Clock
<1>3. ASSUME Aside PROVE Clock'
  BY <1>3 DEF Aside, Clock
<1>4. QED
  BY <1>1, <1>2, <1>3, NextCases

\* Nothing is forgotten but by an overflow, or by ThrottleAdd for its key.
KeptBut(k) == \A e \in Range(KthrotIPID) : e[1] # k => e \in Range(KthrotIPID') \/ KeysForgotten'

LEMMA ThrottleAddFacts ==
    ASSUME PostInv, Clock, ThrottleCache, IsFiniteSet(Throttled'), Throttled \subseteq Throttled',
           NEW r \in Requests, ThrottleAdd(r)
    PROVE  /\ ThrottleCache' /\ KeptBut(ThrottleKey(r))
           /\ <<ThrottleKey(r), req[r].at>> \in Range(KthrotIPID') \/ KeysForgotten'
<1> DEFINE k == ThrottleKey(r)
           at == req[r].at
<1>1. KthrotIPID' = With(KthrotIPID, k, at, ThrotSize) /\ req[r].pc = "throttled"
  BY DEF ThrottleAdd, At
<1>2. k \in ThrottleKeys /\ k \in Throttled
  <2>1. r \in Arrived
    BY <1>1 DEF Arrived, At
  <2>2. QED
    BY <2>1, KeyFacts DEF Throttled
<1>3. <<k, at>> \in ThrottleEntry /\ ThrotSize \in Nat
  BY <1>2, PostAPIAssumption DEF ThrottleEntry, Clock
<1>4. \A e \in Range(KthrotIPID) : e[1] \in Throttled'
  BY DEF ThrottleCache
<1> HIDE DEF k, at
<1>5. /\ Proper(KthrotIPID', ThrottleEntry)
      /\ \A e \in Range(KthrotIPID') : e = <<k, at>> \/ (e \in Range(KthrotIPID) /\ e[1] # k)
      /\ \/ /\ <<k, at>> \in Range(KthrotIPID')
            /\ \A e \in Range(KthrotIPID) : e[1] # k => e \in Range(KthrotIPID')
         \/ Cardinality(Throttled') > ThrotSize
  BY <1>1, <1>2, <1>3, <1>4, WithFacts DEF ThrottleCache
<1>6. <<k, at>>[1] = k
  OBVIOUS
<1>7. ThrottleCache'
  BY <1>2, <1>4, <1>5, <1>6, Zenon DEF ThrottleCache
<1>8. QED
  BY <1>5, <1>7 DEF KeptBut, KeysForgotten, k, at

\* The steps that leave what is held
Kept == ThrottleCache' /\ Range(KthrotIPID') = Range(KthrotIPID)

LEMMA ThrottleCacheStep ==
    ASSUME PostInv, Clock, ThrottleCache, IsFiniteSet(Throttled'), Throttled \subseteq Throttled'
    PROVE  /\ Aside => Kept
           /\ \A r \in Requests, f \in Forms : Comes(r, f) => Kept
           /\ \A r \in Requests : Moved(r) /\ Ways(r) => ThrottleAdd(r) \/ Kept
<1>1. ASSUME KthrotIPID' = KthrotIPID PROVE Kept
  BY <1>1 DEF ThrottleCache, Kept
<1>2. ASSUME NEW r \in Requests, ThrottleGet(r) PROVE Kept
  <2>1. KthrotIPID' = Touch(KthrotIPID, ThrottleKey(r))
    BY <1>2 DEF ThrottleGet
  <2>2. ThrottleEntry \subseteq {<<e[1], e[2]>> : e \in ThrottleEntry}
    <3>1. ASSUME NEW e \in ThrottleEntry PROVE e = <<e[1], e[2]>>
      BY DEF ThrottleEntry
    <3>2. QED
      BY <3>1
  <2>3. Proper(KthrotIPID', ThrottleEntry) /\ Range(KthrotIPID') = Range(KthrotIPID)
    BY <2>1, <2>2, TouchFacts DEF ThrottleCache
  <2>4. QED
    BY <2>3 DEF ThrottleCache, Kept
<1>3. ASSUME NEW r \in Requests, Moved(r), Ways(r)
      PROVE  KthrotIPID' = KthrotIPID \/ ThrottleGet(r) \/ ThrottleAdd(r)
  BY <1>3, Zenon DEF Moved, Ways, Moves
<1>4. QED
  BY <1>1, <1>2, <1>3 DEF Comes, Aside, caches

LEMMA OwnUserStep ==
    ASSUME PostInv, OwnUser, [Next]_vars
    PROVE  OwnUser'
<1>1. ASSUME NEW r \in Requests, Moved(r), Ways(r) PROVE OwnUser'
  <2>1. /\ req'[r].form = req[r].form
        /\ req'[r].pc \in {"address", "user", "throttle", "throttled"} =>
              /\ req[r].pc \in {"address", "user", "throttle", "throttled"}
              /\ req'[r].user = req[r].user
    BY <1>1, Zenon DEF Ways, Moves, Moved
  <2>2. \A p \in Requests \ {r} : req'[p] = req[p]
    BY <1>1 DEF Moved, Others
  <2>3. QED
    BY <2>1, <2>2 DEF OwnUser, Asked
<1>2. ASSUME NEW r \in Requests, NEW f \in Forms, Comes(r, f) PROVE OwnUser'
  BY <1>2 DEF Comes, Others, OwnUser, Asked
<1>3. ASSUME Aside PROVE OwnUser'
  BY <1>3 DEF Aside, OwnUser, Asked
<1>4. QED
  BY <1>1, <1>2, <1>3, NextCases

LEMMA LaterAtStep ==
    ASSUME PostInv, FollowsInv, Clock, LaterAt, [Next]_vars
    PROVE  LaterAt'
<1>1. ASSUME NEW r \in Requests, Moved(r), Ways(r) PROVE LaterAt'
  <2>1. /\ \A p \in Requests \ {r} : req'[p] = req[p]
        /\ req'[r].after = req[r].after /\ r \notin Answered
    BY <1>1, MovedFacts DEF Moved, Others
  <2>2. req'[r].pc \in {"throttle", "throttled"} =>
           \/ req[r].pc = "throttle" /\ req'[r].at = req[r].at
           \/ CheckUser(r) /\ req'[r].pc = "throttle"
    BY <1>1, Zenon DEF Ways, Moves, Moved
  <2>3. ASSUME NEW q \in Requests, NEW p \in Requests,
               Follows(q, p)', req'[q].pc \in {"throttle", "throttled"}
        PROVE  req'[q].at >= req'[p].at
    <3>1. Follows(q, p) /\ p # r /\ req'[p] = req[p]
      BY <2>1, <2>3 DEF Follows, FollowsInv
    <3>2. CASE q = r /\ CheckUser(r) /\ req'[r].pc = "throttle"
      <4>1. req'[r].at = now
        BY <3>2, CheckUserFacts
      <4>2. req[p].at \in Nat /\ now \in Nat /\ req[p].at <= now
        BY DEF Clock
      <4>3. QED
        BY <3>1, <3>2, <4>1, <4>2
    <3>3. CASE req[q].pc \in {"throttle", "throttled"} /\ req'[q].at = req[q].at
      BY <3>1, <3>3 DEF LaterAt
    <3>4. QED
      BY <2>1, <2>2, <2>3, <3>2, <3>3
  <2>4. QED
    BY <2>3 DEF LaterAt
<1>2. ASSUME NEW r \in Requests, NEW f \in Forms, Comes(r, f) PROVE LaterAt'
  <2>1. /\ \A p \in Requests \ {r} : req'[p] = req[p]
        /\ req'[r].pc \notin {"throttle", "throttled"} /\ r \notin Answered
    BY <1>2, ComesFacts DEF Comes
  <2>2. ASSUME NEW q \in Requests, NEW p \in Requests,
               Follows(q, p)', req'[q].pc \in {"throttle", "throttled"}
        PROVE  req'[q].at >= req'[p].at
    <3>1. q # r /\ Follows(q, p)
      BY <2>1, <2>2 DEF Follows
    <3>2. p # r
      BY <2>1, <3>1 DEF FollowsInv
    <3>3. QED
      BY <2>1, <2>2, <3>1, <3>2 DEF LaterAt
  <2>3. QED
    BY <2>2 DEF LaterAt
<1>3. ASSUME Aside PROVE LaterAt'
  BY <1>3 DEF Aside, LaterAt, Follows
<1>4. QED
  BY <1>1, <1>2, <1>3, NextCases

\* How a request comes through
LEMMA ThroughFacts ==
    ASSUME PostInv, OwnUser, NEW r \in Requests, Moved(r), Ways(r), Asked(r).user \notin Mods
    PROVE  /\ Through(r)' =>
                 Through(r) \/ (ThrottleAdd(r) /\ req[r].pc = "throttled")
           /\ req'[r].pc = "throttled" => ThrottleGet(r) /\ req[r].pc = "throttle"
           /\ Through(r) => req'[r].at = req[r].at
           /\ req[r].pc # "user" => req'[r].at = req[r].at
<1> DEFINE There == {"referer", "roll", "challenge", "block user", "block address", "passed",
                     "uuid", "add uuid", "validate", "image", "post", "flag"}
<1>1. req[r].pc = "user" => req'[r].pc # "referer"
  <2>1. req[r].pc = "user" => CheckUser(r) /\ req[r].user = Asked(r).user
    BY DEF Ways, Moves, OwnUser
  <2>2. QED
    BY <2>1, CheckUserFacts
<1>2. /\ req'[r].pc \in There =>
            req[r].pc \in There \/ (ThrottleAdd(r) /\ req[r].pc = "throttled")
      /\ req'[r].pc = "throttled" => ThrottleGet(r) /\ req[r].pc = "throttle"
  BY <1>1, Zenon DEF Ways, Moves
<1>3. /\ InTopics(topics', r) => InTopics(topics, r) \/ req[r].pc = "post"
      /\ req[r].pc # "user" => req'[r].at = req[r].at
  BY DEF Moved
<1>4. Through(r) => req[r].pc # "user"
  BY DEF Through, PostInv, Honest
<1>5. Through(r)' => Through(r) \/ (ThrottleAdd(r) /\ req[r].pc = "throttled")
  BY <1>2, <1>3 DEF Through, InTopics
<1>6. QED
  BY <1>2, <1>3, <1>4, <1>5

LEMMA TimeHeldMoved ==
    ASSUME PostInv, FollowsInv, Clock, ThrottleCache, OwnUser, LaterAt, TimeHeld,
           KeysForgotten => KeysForgotten', \A k : KeyInTurn(k)' => KeyInTurn(k),
           NEW r \in Requests, Moved(r), Ways(r),
           \/ ~ ThrottleAdd(r) /\ Range(KthrotIPID') = Range(KthrotIPID)
           \/ /\ ThrottleAdd(r) /\ KeptBut(ThrottleKey(r))
              /\ <<ThrottleKey(r), req[r].at>> \in Range(KthrotIPID') \/ KeysForgotten'
    PROVE  TimeHeld'
<1>a. /\ \A p \in Requests : Asked(p)' = Asked(p) /\ ThrottleKey(p)' = ThrottleKey(p)
      /\ \A p \in Requests \ {r} : req'[p] = req[p] /\ (Through(p)' <=> Through(p))
  <2>1. \A p \in Requests : Asked(p)' = Asked(p)
    BY MovedFacts
  <2>2. \A p \in Requests \ {r} : req'[p] = req[p] /\ (InTopics(topics', p) <=> InTopics(topics, p))
    BY DEF Moved, Others
  <2>3. QED
    BY <2>1, <2>2 DEF ThrottleKey, Through
<1> SUFFICES ASSUME NEW p \in Requests, Through(p)', Asked(p).user \notin Mods,
                    KeyInTurn(ThrottleKey(p))
             PROVE  \/ \E e \in Range(KthrotIPID') : e[1] = ThrottleKey(p) /\ e[2] >= req'[p].at
                    \/ KeysForgotten'
  BY <1>a DEF TimeHeld
<1>1. CASE Through(p)
  <2>1. \/ \E e \in Range(KthrotIPID) : e[1] = ThrottleKey(p) /\ e[2] >= req[p].at
        \/ KeysForgotten'
    BY <1>1 DEF TimeHeld
  <2>2. req'[p].at = req[p].at
    BY <1>1, <1>a, ThroughFacts
  <2>3. CASE \/ Range(KthrotIPID') = Range(KthrotIPID)
             \/ KeptBut(ThrottleKey(r)) /\ ThrottleKey(p) # ThrottleKey(r)
    BY <2>1, <2>2, <2>3 DEF KeptBut
  <2>4. CASE /\ <<ThrottleKey(r), req[r].at>> \in Range(KthrotIPID') \/ KeysForgotten'
             /\ ThrottleKey(p) = ThrottleKey(r) /\ ThrottleAdd(r)
    <3>1. req[r].pc = "throttled" /\ r \notin Answered /\ r \in Arrived /\ p \in Arrived
      BY <1>1, <2>4 DEF ThrottleAdd, At, Answered, Arrived, Through, PostInv, Honest
    <3>2. p # r
      BY <1>1, <3>1 DEF Through, PostInv, Honest
    <3>3. Follows(r, p)
      BY <2>4, <3>1, <3>2 DEF KeyInTurn, InTurn, FollowsInv
    <3>4. req[r].at >= req[p].at
      BY <3>1, <3>3 DEF LaterAt
    <3>5. QED
      BY <2>2, <2>4, <3>4
  <2>5. QED
    BY <2>3, <2>4
<1>2. CASE p = r /\ ThrottleAdd(r) /\ req[r].pc = "throttled"
  <2>1. <<ThrottleKey(r), req[r].at>> \in Range(KthrotIPID') \/ KeysForgotten'
    BY <1>2
  <2>2. req'[r].at = req[r].at /\ req[r].at \in Nat
    BY <1>2, ThroughFacts DEF Clock
  <2>3. QED
    BY <1>2, <2>1, <2>2
<1>3. QED
  BY <1>1, <1>2, <1>a, ThroughFacts

\* throtNewPost lets none through whose key is held with a time that is not a
\* cooldown ago.
LEMMA ThrottleGetFacts ==
    ASSUME PostInv, ThrottleCache, NEW r \in Requests, ThrottleGet(r), req'[r].pc = "throttled",
           NEW e \in Range(KthrotIPID), e[1] = ThrottleKey(r)
    PROVE  req[r].at - e[2] > Settings.cooldown
<1>1. ReqType
  BY DEF PostInv
<1>2. Cooled(r)
  BY <1>1, AnswerFacts DEF ThrottleGet
<1>3. Holds(KthrotIPID, ThrottleKey(r)) /\ ValueOf(KthrotIPID, ThrottleKey(r)) = e[2]
  BY ValueFacts DEF ThrottleCache
<1>4. QED
  BY <1>2, <1>3 DEF Cooled

LEMMA ApartMoved ==
    ASSUME PostInv, FollowsInv, Clock, ThrottleCache, OwnUser, TimeHeld, Apart,
           KeysForgotten => KeysForgotten', \A k : KeyInTurn(k)' => KeyInTurn(k),
           NEW r \in Requests, Moved(r), Ways(r)
    PROVE  Apart'
<1>a. /\ \A p \in Requests : /\ Asked(p)' = Asked(p) /\ ThrottleKey(p)' = ThrottleKey(p)
                             /\ Follows(r, p)' <=> Follows(r, p)
      /\ \A p \in Requests \ {r} : /\ req'[p] = req[p] /\ (Through(p)' <=> Through(p))
                                   /\ InTopics(topics, p)' <=> InTopics(topics, p)
  <2>1. \A p \in Requests : Asked(p)' = Asked(p)
    BY MovedFacts
  <2>2. \A p \in Requests \ {r} : req'[p] = req[p] /\ (InTopics(topics', p) <=> InTopics(topics, p))
    BY DEF Moved, Others
  <2>3. req'[r].after = req[r].after
    BY DEF Moved
  <2>4. QED
    BY <2>1, <2>2, <2>3 DEF ThrottleKey, Through, Follows
<1> SUFFICES ASSUME NEW q \in Requests, NEW p \in Requests, Follows(q, p)', InTopics(topics, p)',
                    req'[q].pc = "throttled" \/ Through(q)',
                    ThrottleKey(q) = ThrottleKey(p), Asked(q).user \notin Mods,
                    KeyInTurn(ThrottleKey(p))
             PROVE  req'[q].at - req'[p].at > Settings.cooldown \/ KeysForgotten'
  BY <1>a DEF Apart
<1>1. Follows(q, p) /\ p \in Answered /\ q \in Arrived
  BY <1>a DEF Follows, FollowsInv
<1>2. p # r /\ InTopics(topics, p) /\ req'[p] = req[p]
  <2>1. r \notin Answered
    BY MovedFacts
  <2>2. QED
    BY <1>1, <1>a, <2>1
<1>3. CASE /\ req[q].pc = "throttled" \/ Through(q)
           /\ req'[q].at = req[q].at
  BY <1>1, <1>2, <1>3 DEF Apart
<1>4. CASE q = r /\ ThrottleGet(r) /\ req'[r].pc = "throttled" /\ req'[r].at = req[r].at
  <2>1. Asked(p).user \notin Mods /\ Through(p)
    <3>1. p \in Arrived
      BY <1>1 DEF Arrived, Answered, At
    <3>2. QED
      BY <1>1, <1>2, <3>1, KeyFacts DEF Through
  <2>2. \/ \E e \in Range(KthrotIPID) : e[1] = ThrottleKey(p) /\ e[2] >= req[p].at
        \/ KeysForgotten
    BY <2>1 DEF TimeHeld
  <2>3. ASSUME NEW e \in Range(KthrotIPID), e[1] = ThrottleKey(p), e[2] >= req[p].at
        PROVE  req[r].at - req[p].at > Settings.cooldown
    <3>1. req[r].at - e[2] > Settings.cooldown
      BY <1>4, <2>3, ThrottleGetFacts
    <3>2. e[2] \in Nat
      BY DEF ThrottleCache, Proper, ThrottleEntry, Range
    <3>3. req[r].at \in Nat /\ req[p].at \in Nat /\ Settings.cooldown \in Nat
      BY PostAPIAssumption DEF Clock
    <3>4. QED
      BY <2>3, <3>1, <3>2, <3>3
  <2>4. QED
    BY <1>2, <1>4, <2>2, <2>3
<1>5. CASE q = r
  <2>1. /\ Through(r)' => Through(r) \/ (ThrottleAdd(r) /\ req[r].pc = "throttled")
        /\ req'[r].pc = "throttled" => ThrottleGet(r) /\ req[r].pc = "throttle"
        /\ Through(r) => req'[r].at = req[r].at
        /\ req[r].pc # "user" => req'[r].at = req[r].at
    BY <1>5, ThroughFacts
  <2>2. QED
    BY <1>3, <1>4, <1>5, <2>1
<1>6. CASE q # r
  BY <1>3, <1>6, <1>a
<1>7. QED
  BY <1>5, <1>6

\* A request that comes, and one that stays, is not through more than before.
LEMMA CooldownComes ==
    ASSUME PostInv, FollowsInv, TimeHeld, Apart, Kept,
           KeysForgotten => KeysForgotten', \A k : KeyInTurn(k)' => KeyInTurn(k),
           NEW r \in Requests, NEW f \in Forms, Comes(r, f)
    PROVE  TimeHeld' /\ Apart'
<1>1. f.user \in Admins => f.user \in Mods
  BY PostAPIAssumption
<1>2. /\ req'[r].pc \in {"answered", "referer", "address"} /\ topics' = topics
      /\ req'[r].pc = "referer" => f.user \in Admins
      /\ ~ InTopics(topics, r)
  BY DEF Comes
<1>3. /\ Asked(r)' = f /\ r \notin Answered
      /\ \A p \in Requests \ {r} : req'[p] = req[p] /\ Asked(p)' = Asked(p)
  BY ComesFacts
<1>4. /\ Through(r)' => (Asked(r).user \in Mods)'
      /\ req'[r].pc # "throttled" /\ ~ InTopics(topics, r)'
  BY <1>1, <1>2, <1>3 DEF Through, InTopics
<1>5. \A p \in Requests \ {r} :
         /\ ThrottleKey(p)' = ThrottleKey(p)
         /\ Through(p)' <=> Through(p)
         /\ InTopics(topics, p)' <=> InTopics(topics, p)
  BY <1>2, <1>3 DEF Through, InTopics, ThrottleKey
<1>6. ASSUME NEW p \in Requests, Through(p)', (Asked(p).user \notin Mods)',
             KeyInTurn(ThrottleKey(p))'
      PROVE  \/ \E e \in Range(KthrotIPID') : e[1] = ThrottleKey(p)' /\ e[2] >= req'[p].at
             \/ KeysForgotten'
  <2>1. p # r
    BY <1>4, <1>6
  <2>2. Through(p) /\ Asked(p).user \notin Mods /\ KeyInTurn(ThrottleKey(p))
    BY <1>3, <1>5, <1>6, <2>1
  <2>3. QED
    BY <1>3, <1>5, <2>1, <2>2 DEF TimeHeld, Kept
<1>7. ASSUME NEW q \in Requests, NEW p \in Requests, Follows(q, p)', InTopics(topics, p)',
             req'[q].pc = "throttled" \/ Through(q)',
             ThrottleKey(q)' = ThrottleKey(p)', (Asked(q).user \notin Mods)',
             KeyInTurn(ThrottleKey(p))'
      PROVE  req'[q].at - req'[p].at > Settings.cooldown \/ KeysForgotten'
  <2>1. p # r /\ q # r
    BY <1>4, <1>7
  <2>2. /\ Follows(q, p) /\ InTopics(topics, p) /\ (req[q].pc = "throttled" \/ Through(q))
        /\ ThrottleKey(q) = ThrottleKey(p) /\ Asked(q).user \notin Mods
        /\ KeyInTurn(ThrottleKey(p))
    BY <1>3, <1>5, <1>7, <2>1 DEF Follows
  <2>3. req[q].at - req[p].at > Settings.cooldown \/ KeysForgotten
    BY <2>2 DEF Apart
  <2>4. QED
    BY <1>3, <2>1, <2>3
<1>8. TimeHeld'
  BY <1>6 DEF TimeHeld
<1>9. Apart'
  BY <1>7 DEF Apart
<1>10. QED
  BY <1>8, <1>9

LEMMA CooldownAside ==
    ASSUME TimeHeld, Apart, Kept, Aside,
           KeysForgotten => KeysForgotten', \A k : KeyInTurn(k)' => KeyInTurn(k)
    PROVE  TimeHeld' /\ Apart'
<1>1. /\ req' = req /\ \A s \in Requests : InTopics(topics', s) <=> InTopics(topics, s)
      /\ Range(KthrotIPID') = Range(KthrotIPID)
  BY DEF Aside, Kept
<1>2. \A s \in Requests : /\ Through(s)' <=> Through(s)
                          /\ ThrottleKey(s)' = ThrottleKey(s) /\ Asked(s)' = Asked(s)
                          /\ KeyInTurn(ThrottleKey(s))' => KeyInTurn(ThrottleKey(s))
  BY <1>1 DEF Through, ThrottleKey, Asked
<1>3. TimeHeld'
  BY <1>1, <1>2 DEF TimeHeld
<1>4. Apart'
  BY <1>1, <1>2 DEF Apart, Follows
<1>5. QED
  BY <1>3, <1>4

LEMMA CooldownStep ==
    ASSUME PostInv, CooldownInv, [Next]_vars
    PROVE  CooldownInv'
<1> USE DEF CooldownInv
<1>1. FollowsInv' /\ Clock' /\ OwnUser' /\ LaterAt'
  BY FollowsStep, ClockStep, OwnUserStep, LaterAtStep
<1>2. /\ IsFiniteSet(Throttled') /\ Throttled \subseteq Throttled'
      /\ KeysForgotten => KeysForgotten'
  BY ThrottledGrow
<1>3. \A k : KeyInTurn(k)' => KeyInTurn(k)
  BY KeyInTurnBack
<1>4. ASSUME NEW r \in Requests, Moved(r), Ways(r) PROVE ThrottleCache' /\ TimeHeld' /\ Apart'
  <2>1. Apart'
    BY <1>2, <1>3, <1>4, ApartMoved
  <2>2. CASE ThrottleAdd(r)
    <3>1. /\ ThrottleCache' /\ KeptBut(ThrottleKey(r))
          /\ <<ThrottleKey(r), req[r].at>> \in Range(KthrotIPID') \/ KeysForgotten'
      BY <1>2, <2>2, ThrottleAddFacts
    <3>2. TimeHeld'
      BY <1>2, <1>3, <1>4, <2>2, <3>1, TimeHeldMoved
    <3>3. QED
      BY <2>1, <3>1, <3>2
  <2>3. CASE ~ ThrottleAdd(r)
    <3>1. Kept
      BY <1>2, <1>4, <2>3, ThrottleCacheStep
    <3>2. Range(KthrotIPID') = Range(KthrotIPID) /\ ThrottleCache'
      BY <3>1 DEF Kept
    <3>3. TimeHeld'
      BY <1>2, <1>3, <1>4, <2>3, <3>2, TimeHeldMoved
    <3>4. QED
      BY <2>1, <3>2, <3>3
  <2>4. QED
    BY <2>2, <2>3
<1>5. ASSUME NEW r \in Requests, NEW f \in Forms, Comes(r, f)
      PROVE  ThrottleCache' /\ TimeHeld' /\ Apart'
  <2>1. Kept
    BY <1>2, <1>5, ThrottleCacheStep
  <2>2. QED
    BY <1>2, <1>3, <1>5, <2>1, CooldownComes DEF Kept
<1>6. ASSUME Aside PROVE ThrottleCache' /\ TimeHeld' /\ Apart'
  <2>1. Kept
    BY <1>2, <1>6, ThrottleCacheStep
  <2>2. QED
    BY <1>2, <1>3, <1>6, <2>1, CooldownAside DEF Kept
<1>7. QED
  BY <1>1, <1>2, <1>4, <1>5, <1>6, NextCases

LEMMA CooldownInit == Init => CooldownInv
<1> SUFFICES ASSUME Init PROVE CooldownInv
  OBVIOUS
<1>1. KthrotIPID = <<>> /\ Range(KthrotIPID) = {} /\ now = 0
  BY DEF Init, Range
<1>2. \A r \in Requests : /\ ~ InTopics(topics, r) /\ req[r].pc = "new"
                          /\ req[r].at = 0 /\ req[r].after = {}
  BY OldTopicsAssumption DEF Init, InTopics, OldPosts, Fresh
<1>3. Throttled = {}
  BY <1>2 DEF Throttled, Arrived, At
<1>4. Proper(KthrotIPID, ThrottleEntry) /\ ThrottleCache
  BY <1>1 DEF Proper, ThrottleCache
<1>5. FollowsInv /\ Clock /\ LaterAt
  BY <1>1, <1>2 DEF FollowsInv, Clock, LaterAt, Follows
<1>6. OwnUser
  BY <1>2 DEF OwnUser
<1>7. \A r \in Requests : ~ Through(r)
  BY <1>2 DEF Through
<1>8. TimeHeld /\ Apart
  BY <1>2, <1>7 DEF TimeHeld, Apart
<1>9. QED
  BY <1>3, <1>4, <1>5, <1>6, <1>8, FS_EmptySet DEF CooldownInv

\* THEOREM.  Every step keeps the invariant of the cooldown.
THEOREM CooldownInvariant == Spec => []CooldownInv
<1>1. PostInv /\ CooldownInv /\ [Next]_vars => CooldownInv'
  BY CooldownStep
<1>2. QED
  BY <1>1, CooldownInit, PostInvariant, PTL DEF Spec

\* THEOREM.  When the requests of a user (or of an address, without a cookie)
\* come in turn, their posts are more than a cooldown apart, whatever others
\* do, unless more of them have come than the cache holds
\* (handler/util.go:68-86).
THEOREM PostsKeepCooldown == Spec => []CooldownKept
<1>1. CooldownInv => CooldownKept
  BY DEF CooldownInv, Apart, CooldownKept, Posted, InTopics, Through, KeysForgotten,
         KeyInTurn, Throttled
<1>2. QED
  BY <1>1, CooldownInvariant, PTL

----------------------------------------------------------------------------
(* The challenges that a user fails are counted.                           *)

Known == {req[r].user : r \in Requests} \ {NoUser}
CountsForgotten == Cardinality(Known) > CacheSize

\* A request may be a challenge away from its post, or be past it.
Early == {"address", "user", "throttle", "throttled", "referer", "roll", "challenge", "answered"}
Inside == {"roll", "challenge", "block user", "block address", "passed",
           "uuid", "add uuid", "validate", "image", "post", "flag"}
Forgiven(r) ==
    \/ req[r].pc \in {"uuid", "add uuid", "validate", "image", "post", "flag"}
    \/ InTopics(topics, r)

UserInv ==
    \A r \in Requests :
        /\ req[r].pc = "new" => req[r].user = NoUser
        /\ req[r].pc # "new" => \/ req[r].user = Asked(r).user
                                \/ req[r].user = r /\ Asked(r).user = NoUser
        /\ req[r].pc \in Inside \/ InTopics(topics, r) => req[r].user # NoUser

AnswerInv == \A r \in Requests : req[r].answer = "none" <=> req[r].pc # "answered"

CountEntry == IDs \X Nat

CountCache ==
    /\ Proper(KbadUsers, CountEntry)
    /\ \A e \in Range(KbadUsers) : e[1] \in Known

Mine(u) == {r \in Requests : req[r].user = u}
Failed(u) == {r \in Mine(u) : req[r].answer \in Unanswered}

\* The requests of u come in turn, and none was answered but by a challenge
\* that it failed.
OnlyFails(u) == InTurn(Mine(u)) /\ \A r \in Mine(u) : req[r].answer \in Unanswered \cup {"none"}

CountIs(u, n) ==
    \/ \E e \in Range(KbadUsers) : e[1] = u /\ e[2] = n
    \/ n = 0 /\ \A e \in Range(KbadUsers) : e[1] # u

Counted(u) ==
    /\ Cardinality(Failed(u)) <= MaxRolls
    /\ (\A r \in Mine(u) : req[r].pc \in Early) => CountIs(u, Cardinality(Failed(u)))
    /\ \A r \in Mine(u) :
          /\ req[r].pc = "challenge" => req[r].count = Cardinality(Failed(u)) + 1
          /\ req[r].pc \in {"block user", "block address"} => Cardinality(Failed(u)) = MaxRolls

BlockedNow(u) ==
    u \in meddled \/ (u \in blocked <=> \E r \in Mine(u) : req[r].pc = "block address")

CountsInv ==
    \A u \in Users : OnlyFails(u) => BlockedNow(u) /\ (Counted(u) \/ CountsForgotten)

TriesBase ==
    /\ FollowsInv /\ UserInv /\ AnswerInv /\ CountCache
    /\ IsFiniteSet(Arrived) /\ IsFiniteSet(Known)
    /\ \A r \in Requests : req[r].count \in Nat

TriesInv == TriesBase /\ CountsInv

\* The requests of its user that came after r and are answered
Since(r) == {p \in Answered : Follows(p, r) /\ req[p].user = req[r].user}

ForgivenInv ==
    \A r \in Requests :
        Forgiven(r) /\ req[r].user \in Users /\ InTurn(Mine(req[r].user)) =>
          /\ \A e \in Range(KbadUsers) : e[1] = req[r].user => e[2] <= Cardinality(Since(r))
          /\ \A p \in Mine(req[r].user) :
                /\ p # r /\ req[p].pc = "challenge" => req[p].count <= Cardinality(Since(r)) + 1
                /\ p # r /\ req[p].pc = "block user" => MaxRolls <= Cardinality(Since(r))

LEMMA AnswerStep ==
    ASSUME PostInv, AnswerInv, NEW r \in Requests, Step(r), Moved(r)
    PROVE  /\ req'[r].answer = "none" <=> req'[r].pc # "answered"
           /\ req'[r].answer \in Unanswered => Challenge(r) /\ req[r].pc = "challenge"
<1>0. ReqType /\ req[r].answer = "none"
  BY DEF PostInv, AnswerInv, Moved
<1>1. ASSUME NEW step, Goto(r, step), step # "answered"
      PROVE  req'[r].answer = "none" /\ req'[r].pc # "answered"
  BY <1>0, <1>1, GotoSets
<1>2. ASSUME NEW a, Answer(r, a), a \notin {"none"} \cup Unanswered
      PROVE  /\ req'[r].answer # "none" /\ req'[r].pc = "answered"
             /\ req'[r].answer \notin Unanswered
  BY <1>0, <1>2, AnswerSets
<1>3. ASSUME NEW x \in Fields \ {"pc", "answer"}, NEW step, NEW v,
             req' = [req EXCEPT ![r].pc = step, ![r][x] = v], step # "answered"
      PROVE  req'[r].answer = "none" /\ req'[r].pc # "answered"
  <2>1. x \in Fields \ {"pc"} /\ "answer" \in Fields \ {"pc", x}
    BY <1>3 DEF Fields
  <2>2. Sets(r, {"pc", x}) /\ req'[r].pc = step
    BY <1>0, <1>3, <2>1, FieldSets
  <2>3. QED
    BY <1>0, <1>3, <2>1, <2>2 DEF Sets
<1>4. "none" \notin Unanswered
  BY DEF Unanswered
<1>5. CASE CheckUser(r)
  <2>1. "at" \in Fields \ {"pc", "answer"}
    BY DEF Fields
  <2>2. CASE req' = [req EXCEPT ![r].pc = "throttle", ![r].at = now]
    BY <1>3, <1>4, <2>1, <2>2
  <2>3. CASE Answer(r, "bad-request") \/ Goto(r, "referer")
    BY <1>1, <1>2, <1>4, <2>3 DEF Unanswered
  <2>4. QED
    BY <1>5, <2>2, <2>3 DEF CheckUser
<1>6. CASE CheckReferer(r)
  <2>1. "user" \in Fields \ {"pc", "answer"}
    BY DEF Fields
  <2>2. CASE req' = [req EXCEPT ![r].pc = "roll", ![r].user = r]
    BY <1>3, <1>4, <2>1, <2>2
  <2>3. CASE Answer(r, "bad-referer") \/ Answer(r, "no-more-new-users") \/ Goto(r, "roll")
    BY <1>1, <1>2, <1>4, <2>3 DEF Unanswered
  <2>4. QED
    BY <1>6, <2>2, <2>3 DEF CheckReferer
<1>7. CASE Roll(r)
  <2>1. "count" \in Fields \ {"pc", "answer"}
    BY DEF Fields
  <2>2. ASSUME NEW c, req' = [req EXCEPT ![r].pc = "challenge", ![r].count = c]
        PROVE  req'[r].answer = "none" /\ req'[r].pc # "answered"
    BY <1>3, <2>1, <2>2
  <2>3. CASE Goto(r, "passed")
    BY <1>1, <1>4, <2>3
  <2>4. QED
    BY <1>4, <1>7, <2>2, <2>3 DEF Roll
<1>8. CASE Challenge(r)
  <2>1. req[r].pc = "challenge"
    BY <1>8 DEF Challenge, At
  <2>2. CASE Goto(r, "block user") \/ Goto(r, "passed")
    BY <1>1, <1>8, <2>1, <2>2
  <2>3. CASE \E a \in {"recaptcha-needed", "recaptcha-failed", "internal-error"} : Answer(r, a)
    BY <1>0, <1>8, <2>1, <2>3, AnswerSets
  <2>4. QED
    BY <1>8, <2>2, <2>3 DEF Challenge
<1>9. CASE Passed(r)
  <2>1. "id" \in Fields \ {"pc", "answer"}
    BY DEF Fields
  <2>2. ASSUME NEW id, req' = [req EXCEPT ![r].pc = "uuid", ![r].id = id]
        PROVE  req'[r].answer = "none" /\ req'[r].pc # "answered"
    BY <1>3, <2>1, <2>2
  <2>3. CASE \E a \in {"mod-operation", "panic"} : Answer(r, a)
    BY <1>2, <1>4, <2>3 DEF Unanswered
  <2>4. QED
    BY <1>4, <1>9, <2>2, <2>3 DEF Passed, Interpret
<1>10. CASE PostTopic(r)
  <2>1. CASE Answer(r, "internal-error")
    BY <1>2, <1>4, <2>1 DEF Unanswered
  <2> DEFINE at == IF Asked(r).nsfw THEN "flag" ELSE "answered"
             a == IF Asked(r).nsfw THEN "none" ELSE "success"
  <2>2. CASE req' = [req EXCEPT ![r].pc = at, ![r].answer = a]
    <3>1. (a = "none" <=> at # "answered") /\ a \notin Unanswered
      BY DEF Unanswered
    <3> HIDE DEF at, a
    <3>2. req'[r].pc = at /\ req'[r].answer = a
      BY <1>0, <2>2 DEF ReqType, Fields
    <3>3. QED
      BY <3>1, <3>2
  <2>3. QED
    BY <1>10, <2>1, <2>2 DEF PostTopic
<1>11. CASE CheckAddress(r) \/ ThrottleGet(r) \/ ThrottleAdd(r) \/ BlockUser(r) \/ BlockAddress(r)
            \/ UuidGet(r) \/ UuidAdd(r)
  <2>1. \/ Answer(r, "bad-request")
        \/ \E s \in {"user", "throttled", "referer", "block address", "add uuid", "validate"} : Goto(r, s)
    BY <1>11 DEF CheckAddress, ThrottleGet, ThrottleAdd, BlockUser, BlockAddress, UuidGet, UuidAdd
  <2>2. QED
    BY <1>1, <1>2, <1>4, <2>1 DEF Unanswered
<1>12. CASE Validate(r) \/ SaveImage(r) \/ FlagTopic(r) \/ PostReply(r)
  <2>1. \/ \E a \in {"image-upload-failed", "image-upload-disabled", "message-too-short",
                     "topic-locked", "image-invalid-format", "image-disk-error", "success",
                     "internal-error"} : Answer(r, a)
        \/ \E s \in {"image", "post"} : Goto(r, s)
    BY <1>12, Zenon DEF Validate, SaveImage, FlagTopic, PostReply
  <2>2. QED
    BY <1>1, <1>2, <1>4, <2>1 DEF Unanswered
<1>13. QED
  BY <1>5, <1>6, <1>7, <1>8, <1>9, <1>10, <1>11, <1>12 DEF Step

LEMMA AnswerInvStep ==
    ASSUME PostInv, AnswerInv, [Next]_vars
    PROVE  AnswerInv'
<1>1. ASSUME NEW r \in Requests, Step(r), Moved(r) PROVE AnswerInv'
  <2>1. req'[r].answer = "none" <=> req'[r].pc # "answered"
    BY <1>1, AnswerStep
  <2>2. \A p \in Requests \ {r} : req'[p] = req[p]
    BY <1>1 DEF Moved, Others
  <2>3. QED
    BY <2>1, <2>2 DEF AnswerInv
<1>2. ASSUME NEW r \in Requests, NEW f \in Forms, Arrive(r, f) PROVE AnswerInv'
  <2> DEFINE refused == f.topic # 0 /\ ~ Live(f.topic)
             at == IF refused THEN "answered" ELSE IF f.user \in Admins THEN "referer" ELSE "address"
             answer == IF refused THEN "bad-request" ELSE "none"
  <2>1. /\ \A p \in Requests \ {r} : req'[p] = req[p]
        /\ req'[r].pc = at /\ req'[r].answer = answer
    BY <1>2 DEF PostInv, ReqType, Arrive, Fresh
  <2>2. answer = "none" <=> at # "answered"
    OBVIOUS
  <2> HIDE DEF at, answer
  <2>3. QED
    BY <2>1, <2>2 DEF AnswerInv
<1>3. ASSUME Aside PROVE AnswerInv'
  BY <1>3 DEF Aside, AnswerInv
<1>4. QED
  BY <1>1, <1>2, <1>3, StepMoves, AsideFacts DEF Next

\* Who a request is for
LEMMA RefererFacts ==
    ASSUME PostInv, NEW r \in Requests, CheckReferer(r)
    PROVE  /\ req'[r].user = req[r].user \/ (req[r].user = NoUser /\ req'[r].user = r)
           /\ req'[r].pc = "roll" => req'[r].user # NoUser
<1>0. ReqType /\ r # NoUser
  BY PostAPIAssumption DEF PostInv, IDs
<1>1. CASE Answer(r, "bad-referer") \/ Answer(r, "no-more-new-users")
  <2>1. Sets(r, {"pc", "answer"}) /\ req'[r].pc = "answered"
    BY <1>0, <1>1, AnswerSets
  <2>2. QED
    BY <2>1 DEF Sets, Fields
<1>2. CASE req[r].user # NoUser /\ Goto(r, "roll")
  <2>1. Sets(r, {"pc", "answer"})
    BY <1>0, <1>2, GotoSets
  <2>2. QED
    BY <1>2, <2>1 DEF Sets, Fields
<1>3. CASE req[r].user = NoUser /\ req' = [req EXCEPT ![r].pc = "roll", ![r].user = r]
  <2>1. req'[r].user = r
    BY <1>0, <1>3 DEF ReqType, Fields
  <2>2. QED
    BY <1>0, <1>3, <2>1
<1>4. QED
  BY <1>1, <1>2, <1>3 DEF CheckReferer

LEMMA UserOfMoved ==
    ASSUME PostInv, NEW r \in Requests, Moved(r), Ways(r)
    PROVE  /\ req'[r].user = req[r].user \/ (req[r].user = NoUser /\ req'[r].user = r)
           /\ req'[r].pc \in Inside => req[r].pc \in Inside \/ req'[r].user # NoUser
           /\ InTopics(topics', r) => req[r].pc \in Inside
           /\ req[r].pc \in Inside => req'[r].user = req[r].user
<1>1. /\ req[r].pc = "referer" => CheckReferer(r)
      /\ req'[r].pc \in Inside => req[r].pc \in Inside \/ (req[r].pc = "referer" /\ req'[r].pc = "roll")
  BY DEF Ways, Moves, Inside
<1>2. /\ req[r].pc # "referer" => req'[r].user = req[r].user
      /\ InTopics(topics', r) => InTopics(topics, r) \/ req[r].pc = "post"
      /\ req[r].pc # "answered"
  BY DEF Moved
<1>3. InTopics(topics, r) => req[r].pc = "flag"
  BY <1>2 DEF PostInv, Honest
<1>4. QED
  BY <1>1, <1>2, <1>3, RefererFacts DEF Inside

LEMMA UserInvStep ==
    ASSUME PostInv, UserInv, [Next]_vars
    PROVE  UserInv'
<1>1. ASSUME NEW r \in Requests, Moved(r), Ways(r) PROVE UserInv'
  <2>1. \A p \in Requests \ {r} : req'[p] = req[p] /\ (InTopics(topics', p) <=> InTopics(topics, p))
    BY <1>1 DEF Moved, Others
  <2>2. req'[r].form = req[r].form /\ req[r].pc # "new" /\ req'[r].pc # "new"
    BY <1>1 DEF Moved
  <2>3. /\ req'[r].user = req[r].user \/ (req[r].user = NoUser /\ req'[r].user = r)
        /\ req'[r].pc \in Inside => req[r].pc \in Inside \/ req'[r].user # NoUser
        /\ InTopics(topics', r) => req[r].pc \in Inside
        /\ req[r].pc \in Inside => req'[r].user = req[r].user
    BY <1>1, UserOfMoved
  <2>4. r # NoUser /\ r \notin {NoUser}
    BY PostAPIAssumption DEF IDs
  <2>5. /\ req'[r].user = req'[r].form.user \/ (req'[r].user = r /\ req'[r].form.user = NoUser)
        /\ req'[r].pc \in Inside \/ InTopics(topics', r) => req'[r].user # NoUser
    BY <2>2, <2>3, <2>4 DEF UserInv, Asked
  <2>6. QED
    BY <2>1, <2>2, <2>5 DEF UserInv, Asked, InTopics
<1>2. ASSUME NEW r \in Requests, NEW f \in Forms, Comes(r, f) PROVE UserInv'
  <2>1. /\ req'[r].pc \in {"answered", "referer", "address"} /\ req'[r].form = f
        /\ req'[r].user = f.user /\ topics' = topics /\ ~ InTopics(topics, r)
        /\ \A p \in Requests \ {r} : req'[p] = req[p]
    BY <1>2 DEF Comes, Others
  <2>2. req'[r].pc \notin Inside /\ req'[r].pc # "new"
    BY <2>1 DEF Inside
  <2>3. QED
    BY <2>1, <2>2 DEF UserInv, Asked, InTopics
<1>3. ASSUME Aside PROVE UserInv'
  BY <1>3 DEF Aside, UserInv, Asked, InTopics
<1>4. QED
  BY <1>1, <1>2, <1>3, NextCases

LEMMA KnownGrow ==
    ASSUME PostInv, UserInv, IsFiniteSet(Known), [Next]_vars
    PROVE  /\ IsFiniteSet(Known') /\ Known \subseteq Known'
           /\ CountsForgotten => CountsForgotten'
<1>1. PICK x : Known' \subseteq Known \cup {x} /\ Known \subseteq Known'
  <2>1. ASSUME NEW r \in Requests, Moved(r), Ways(r)
        PROVE  Known' \subseteq Known \cup {r} /\ Known \subseteq Known'
    <3>1. /\ req'[r].user = req[r].user \/ (req[r].user = NoUser /\ req'[r].user = r)
          /\ \A p \in Requests \ {r} : req'[p] = req[p]
      BY <2>1, UserOfMoved DEF Moved, Others
    <3>2. QED
      BY <3>1 DEF Known
  <2>2. ASSUME NEW r \in Requests, NEW f \in Forms, Comes(r, f)
        PROVE  Known' \subseteq Known \cup {f.user} /\ Known \subseteq Known'
    <3>1. /\ req'[r].user = f.user /\ req[r].user = NoUser
          /\ \A p \in Requests \ {r} : req'[p] = req[p]
      BY <2>2 DEF Comes, Others, UserInv
    <3>2. QED
      BY <3>1 DEF Known
  <2>3. ASSUME Aside PROVE Known' = Known
    BY <2>3 DEF Aside, Known
  <2>4. QED
    BY <2>1, <2>2, <2>3, NextCases
<1>2. /\ IsFiniteSet(Known') /\ Cardinality(Known) <= Cardinality(Known')
      /\ Cardinality(Known) \in Nat /\ Cardinality(Known') \in Nat
  BY <1>1, GrowsBy
<1>3. QED
  BY <1>1, <1>2, PostAPIAssumption DEF CountsForgotten

LEMMA ArrivedGrow ==
    ASSUME PostInv, IsFiniteSet(Arrived), [Next]_vars
    PROVE  IsFiniteSet(Arrived')
<1>1. PICK x : Arrived' \subseteq Arrived \cup {x} /\ Arrived \subseteq Arrived'
  <2>1. ASSUME Aside PROVE Arrived' = Arrived
    BY <2>1 DEF Aside, Arrived, At
  <2>2. QED
    BY <2>1, MovedFacts, ComesFacts, NextCases
<1>2. QED
  BY <1>1, GrowsBy

\* Nothing is forgotten but by an overflow, or for user w.
CountsBut(w) ==
    /\ \A e \in Range(KbadUsers') : e[1] # w => e \in Range(KbadUsers)
    /\ \A e \in Range(KbadUsers) : e[1] # w => e \in Range(KbadUsers') \/ CountsForgotten'

CountKept == CountCache' /\ Range(KbadUsers') = Range(KbadUsers)

\* A count becomes what the request has read, and one more.
LEMMA CountSet ==
    ASSUME PostInv, UserInv, CountCache, IsFiniteSet(Known'), Known \subseteq Known',
           NEW r \in Requests, req[r].pc = "challenge", req[r].count \in Nat,
           KbadUsers' = With(KbadUsers, req[r].user, req[r].count, CacheSize)
    PROVE  /\ CountCache' /\ CountsBut(req[r].user)
           /\ \A e \in Range(KbadUsers') : e[1] = req[r].user => e[2] = req[r].count
           /\ <<req[r].user, req[r].count>> \in Range(KbadUsers') \/ CountsForgotten'
<1> DEFINE k == req[r].user
           n == req[r].count
<1>1. k \in Known /\ k \in IDs
  <2>1. k # NoUser /\ (k = Asked(r).user \/ k = r)
    BY DEF UserInv, Inside
  <2>2. Asked(r) \in Forms
    BY DEF PostInv, ReqType, Asked
  <2>3. Asked(r) \in Form
    BY <2>2, PostAPIAssumption
  <2>4. QED
    BY <2>1, <2>3 DEF Form, Known, IDs
<1>2. <<k, n>> \in CountEntry /\ CacheSize \in Nat
  BY <1>1, PostAPIAssumption DEF CountEntry
<1>3. \A e \in Range(KbadUsers) : e[1] \in Known'
  BY DEF CountCache
<1>4. KbadUsers' = With(KbadUsers, k, n, CacheSize) /\ n \in Nat
  OBVIOUS
<1> HIDE DEF k, n
<1>5. /\ Proper(KbadUsers', CountEntry)
      /\ \A e \in Range(KbadUsers') : e = <<k, n>> \/ (e \in Range(KbadUsers) /\ e[1] # k)
      /\ \/ /\ <<k, n>> \in Range(KbadUsers')
            /\ \A e \in Range(KbadUsers) : e[1] # k => e \in Range(KbadUsers')
         \/ Cardinality(Known') > CacheSize
  BY <1>1, <1>2, <1>3, <1>4, WithFacts DEF CountCache
<1>6. <<k, n>>[1] = k /\ <<k, n>>[2] = n
  OBVIOUS
<1>7. CountCache'
  BY <1>1, <1>3, <1>5, <1>6, Zenon DEF CountCache
<1>8. CountsBut(k)
  BY <1>5, <1>6 DEF CountsBut, CountsForgotten
<1>9. \A e \in Range(KbadUsers') : e[1] = k => e[2] = n
  BY <1>5, <1>6
<1>10. <<k, n>> \in Range(KbadUsers') \/ CountsForgotten'
  BY <1>5 DEF CountsForgotten
<1>11. QED
  BY <1>7, <1>8, <1>9, <1>10 DEF k, n

LEMMA CountCleared ==
    ASSUME CountCache, Known \subseteq Known', NEW w, KbadUsers' = Without(KbadUsers, w)
    PROVE  CountCache' /\ CountsBut(w) /\ \A e \in Range(KbadUsers') : e[1] # w
<1>1. /\ Proper(KbadUsers', CountEntry)
      /\ \A e : e \in Range(KbadUsers') <=> e \in Range(KbadUsers) /\ e[1] # w
  BY WithoutFacts DEF CountCache
<1>2. QED
  BY <1>1 DEF CountCache, CountsBut

LEMMA CountTouched ==
    ASSUME CountCache, Known \subseteq Known', NEW w, KbadUsers' = Touch(KbadUsers, w)
    PROVE  CountKept
<1>1. CountEntry \subseteq {<<e[1], e[2]>> : e \in CountEntry}
  <2>1. ASSUME NEW e \in CountEntry PROVE e = <<e[1], e[2]>>
    BY DEF CountEntry
  <2>2. QED
    BY <2>1
<1>2. Proper(KbadUsers', CountEntry) /\ Range(KbadUsers') = Range(KbadUsers)
  BY <1>1, TouchFacts DEF CountCache
<1>3. QED
  BY <1>2 DEF CountCache, CountKept

\* The challenges failed before are read with the one to come.
LEMMA RollFacts ==
    ASSUME PostInv, CountCache, Known \subseteq Known', NEW r \in Requests, Roll(r)
    PROVE  /\ CountKept
           /\ req'[r].pc = "challenge" =>
                 \/ \E e \in Range(KbadUsers) : e[1] = req[r].user /\ req'[r].count = 1 + e[2]
                 \/ /\ \A e \in Range(KbadUsers) : e[1] # req[r].user
                    /\ req'[r].count = 1
<1>0. ReqType
  BY DEF PostInv
<1>1. CASE Goto(r, "passed") /\ UNCHANGED KbadUsers
  <2>1. req'[r].pc = "passed"
    BY <1>0, <1>1, GotoFacts
  <2>2. CountKept
    BY <1>1 DEF CountCache, CountKept
  <2>3. QED
    BY <2>1, <2>2
<1> DEFINE u == req[r].user
           n == IF Holds(KbadUsers, u) THEN ValueOf(KbadUsers, u) ELSE 0
<1>2. CASE /\ KbadUsers' = Touch(KbadUsers, u)
           /\ req' = [req EXCEPT ![r].pc = "challenge", ![r].count = 1 + n]
  <2>1. CountKept
    BY <1>2, CountTouched
  <2>2. \/ \E e \in Range(KbadUsers) : e[1] = u /\ n = e[2]
        \/ (\A e \in Range(KbadUsers) : e[1] # u) /\ n = 0
    BY ValueFacts DEF CountCache
  <2> HIDE DEF n
  <2>3. req'[r].count = 1 + n
    BY <1>0, <1>2 DEF ReqType, Fields
  <2>4. QED
    BY <2>1, <2>2, <2>3
<1>3. QED
  BY <1>1, <1>2 DEF Roll

LEMMA ChallengeFacts ==
    ASSUME PostInv, NEW r \in Requests, Challenge(r)
    PROVE  \/ /\ req'[r].pc = "block user" /\ req[r].count > MaxRolls
              /\ KbadUsers' = Without(KbadUsers, req[r].user)
           \/ /\ req'[r].pc = "answered" /\ req'[r].answer \in Unanswered
              /\ ~ (req[r].count > MaxRolls)
              /\ KbadUsers' = With(KbadUsers, req[r].user, req[r].count, CacheSize)
           \/ /\ req'[r].pc = "answered" /\ req'[r].answer = "internal-error"
              /\ UNCHANGED KbadUsers
           \/ /\ req'[r].pc = "passed" /\ UNCHANGED KbadUsers
<1>0. ReqType
  BY DEF PostInv
<1>1. CASE /\ TooManyTries(r) /\ Goto(r, "block user")
           /\ KbadUsers' = Without(KbadUsers, req[r].user)
  BY <1>0, <1>1, GotoFacts DEF TooManyTries
<1>2. CASE /\ ~ TooManyTries(r)
           /\ Answer(r, "recaptcha-needed") \/ Answer(r, "recaptcha-failed")
           /\ KbadUsers' = With(KbadUsers, req[r].user, req[r].count, CacheSize)
  BY <1>0, <1>2, AnswerFacts DEF TooManyTries, Unanswered
<1>3. CASE Answer(r, "internal-error") /\ UNCHANGED KbadUsers
  BY <1>0, <1>3, AnswerFacts
<1>4. CASE Goto(r, "passed") /\ UNCHANGED KbadUsers
  BY <1>0, <1>4, GotoFacts
<1>5. QED
  BY <1>1, <1>2, <1>3, <1>4, Zenon DEF Challenge

\* What a step does to the counts
CountMoves(r) ==
    \/ CountKept
    \/ /\ CountCache' /\ CountsBut(req[r].user)
       /\ Passed(r) \/ (Challenge(r) /\ req'[r].pc # "answered")
       /\ \A e \in Range(KbadUsers') : e[1] # req[r].user
    \/ /\ CountCache' /\ CountsBut(req[r].user) /\ Challenge(r)
       /\ req'[r].pc = "answered" /\ req'[r].answer \in Unanswered /\ ~ (req[r].count > MaxRolls)
       /\ \A e \in Range(KbadUsers') : e[1] = req[r].user => e[2] = req[r].count
       /\ <<req[r].user, req[r].count>> \in Range(KbadUsers') \/ CountsForgotten'

LEMMA CountCacheStep ==
    ASSUME PostInv, UserInv, CountCache, IsFiniteSet(Known'), Known \subseteq Known',
           \A r \in Requests : req[r].count \in Nat
    PROVE  /\ Aside => CountKept
           /\ \A r \in Requests, f \in Forms : Comes(r, f) => CountKept
           /\ \A r \in Requests : Moved(r) /\ Ways(r) => CountMoves(r)
<1>1. ASSUME KbadUsers' = KbadUsers PROVE CountKept
  BY <1>1 DEF CountCache, CountKept
<1>2. ASSUME NEW r \in Requests, Challenge(r) PROVE CountMoves(r)
  <2>0. req[r].pc = "challenge"
    BY <1>2 DEF Challenge, At
  <2>1. CASE req'[r].pc = "block user" /\ KbadUsers' = Without(KbadUsers, req[r].user)
    <3>1. CountCache' /\ CountsBut(req[r].user) /\ \A e \in Range(KbadUsers') : e[1] # req[r].user
      BY <2>1, CountCleared
    <3>2. req'[r].pc # "answered"
      BY <2>1
    <3>3. QED
      BY <1>2, <3>1, <3>2, Zenon DEF CountMoves
  <2>2. CASE /\ req'[r].pc = "answered" /\ req'[r].answer \in Unanswered
             /\ ~ (req[r].count > MaxRolls)
             /\ KbadUsers' = With(KbadUsers, req[r].user, req[r].count, CacheSize)
    <3>1. /\ CountCache' /\ CountsBut(req[r].user)
          /\ \A e \in Range(KbadUsers') : e[1] = req[r].user => e[2] = req[r].count
          /\ <<req[r].user, req[r].count>> \in Range(KbadUsers') \/ CountsForgotten'
      BY <2>0, <2>2, CountSet
    <3>2. QED
      BY <1>2, <2>2, <3>1, Zenon DEF CountMoves
  <2>3. CASE UNCHANGED KbadUsers
    BY <1>1, <2>3 DEF CountMoves
  <2>4. QED
    BY <1>2, <2>1, <2>2, <2>3, ChallengeFacts
<1>3. ASSUME NEW r \in Requests, Passed(r) PROVE CountMoves(r)
  <2>1. CountCache' /\ CountsBut(req[r].user) /\ \A e \in Range(KbadUsers') : e[1] # req[r].user
    BY <1>3, CountCleared DEF Passed
  <2>2. QED
    BY <1>3, <2>1, Zenon DEF CountMoves
<1>4. ASSUME NEW r \in Requests, Roll(r) PROVE CountMoves(r)
  BY <1>4, RollFacts DEF CountMoves
<1>5. ASSUME NEW r \in Requests, Moved(r), Ways(r)
      PROVE  KbadUsers' = KbadUsers \/ Roll(r) \/ Challenge(r) \/ Passed(r)
  <2>1. \/ req[r].pc \notin {"roll", "challenge", "passed"}
        \/ Roll(r) \/ Challenge(r) \/ Passed(r)
    BY <1>5 DEF Ways, Moves
  <2>2. QED
    BY <1>5, <2>1 DEF Moved
<1>6. ASSUME NEW r \in Requests, Moved(r), Ways(r) PROVE CountMoves(r)
  <2>1. CASE KbadUsers' = KbadUsers
    BY <1>1, <2>1 DEF CountMoves
  <2>2. QED
    BY <1>2, <1>3, <1>4, <1>5, <1>6, <2>1
<1>7. QED
  BY <1>1, <1>6 DEF Comes, Aside, caches

LEMMA CountNatStep ==
    ASSUME PostInv, CountCache, Known \subseteq Known', \A r \in Requests : req[r].count \in Nat, [Next]_vars
    PROVE  \A r \in Requests : req'[r].count \in Nat
<1>1. ASSUME NEW r \in Requests, Roll(r), req'[r].pc = "challenge" PROVE req'[r].count \in Nat
  <2>1. \A e \in Range(KbadUsers) : e[2] \in Nat
    BY DEF CountCache, Proper, CountEntry, Range
  <2>2. QED
    BY <1>1, <2>1, RollFacts
<1>2. ASSUME NEW r \in Requests, Moved(r), Ways(r) PROVE req'[r].count \in Nat
  <2>1. req'[r].count = req[r].count \/ Roll(r)
    BY <1>2 DEF Moved, Ways, Moves
  <2>2. CASE Roll(r) /\ req'[r].pc # "challenge"
    <3>1. Goto(r, "passed")
      BY <2>2 DEF PostInv, ReqType, Roll, Fields
    <3>2. req'[r].count = req[r].count
      BY <3>1, GotoSets DEF PostInv, Sets, Fields
    <3>3. QED
      BY <3>2
  <2>3. QED
    BY <1>1, <2>1, <2>2
<1>3. ASSUME NEW r \in Requests, Moved(r), Ways(r) PROVE \A p \in Requests : req'[p].count \in Nat
  <2>1. \A p \in Requests \ {r} : req'[p] = req[p]
    BY <1>3 DEF Moved, Others
  <2>2. QED
    BY <1>2, <1>3, <2>1
<1>4. ASSUME NEW r \in Requests, NEW f \in Forms, Comes(r, f) PROVE \A p \in Requests : req'[p].count \in Nat
  BY <1>4 DEF Comes, Others
<1>5. ASSUME Aside PROVE \A p \in Requests : req'[p].count \in Nat
  BY <1>5 DEF Aside
<1>6. QED
  BY <1>3, <1>4, <1>5, NextCases

\* The requests of a user with a cookie, and what has come of them
LEMMA MineFacts ==
    ASSUME PostInv, UserInv, AnswerInv, NEW u \in Users
    PROVE  /\ Mine(u) \subseteq Arrived
           /\ \A r \in Requests : Step(r) /\ Moved(r) /\ Ways(r) => Mine(u)' = Mine(u)
           /\ \A r \in Requests, f \in Forms : Comes(r, f) =>
                 /\ Mine(u)' = IF f.user = u THEN Mine(u) \cup {r} ELSE Mine(u)
                 /\ r \notin Mine(u)
           /\ Aside => Mine(u)' = Mine(u)
<1>0. u # NoUser /\ u \notin Requests
  BY PostAPIAssumption DEF IDs
<1>1. Mine(u) \subseteq Arrived
  BY <1>0 DEF Mine, Arrived, At, UserInv
<1>2. ASSUME NEW r \in Requests, Moved(r), Ways(r) PROVE Mine(u)' = Mine(u)
  <2>1. /\ req'[r].user = req[r].user \/ (req[r].user = NoUser /\ req'[r].user = r)
        /\ \A p \in Requests \ {r} : req'[p] = req[p]
    BY <1>2, UserOfMoved DEF Moved, Others
  <2>2. QED
    BY <1>0, <2>1 DEF Mine
<1>3. ASSUME NEW r \in Requests, NEW f \in Forms, Comes(r, f)
      PROVE  /\ Mine(u)' = IF f.user = u THEN Mine(u) \cup {r} ELSE Mine(u)
             /\ r \notin Mine(u)
  <2>1. /\ req[r].user = NoUser /\ req'[r].user = f.user
        /\ \A p \in Requests \ {r} : req'[p] = req[p]
    BY <1>3 DEF Comes, Others, UserInv
  <2>2. QED
    BY <1>0, <2>1 DEF Mine
<1>4. ASSUME Aside PROVE Mine(u)' = Mine(u)
  BY <1>4 DEF Aside, Mine
<1>5. QED
  BY <1>1, <1>2, <1>3, <1>4

\* Requests that come in turn did so before.
LEMMA InTurnBack ==
    ASSUME PostInv, UserInv, AnswerInv, FollowsInv, [Next]_vars, NEW u \in Users, InTurn(Mine(u))'
    PROVE  InTurn(Mine(u)) /\ Mine(u) \subseteq Mine(u)'
<1>1. /\ Mine(u) \subseteq Mine(u)'
      /\ \A p \in Mine(u) : req'[p].after = req[p].after
  <2>1. Mine(u) \subseteq Requests
    BY DEF Mine
  <2>2. ASSUME NEW r \in Requests, Step(r), Moved(r), Ways(r)
        PROVE  /\ Mine(u)' = Mine(u)
               /\ \A p \in Requests : req'[p].after = req[p].after
    BY <2>2, MineFacts, MovedFacts
  <2>3. ASSUME NEW r \in Requests, NEW f \in Forms, Comes(r, f)
        PROVE  /\ Mine(u) \subseteq Mine(u)' /\ r \notin Mine(u)
               /\ \A p \in Requests \ {r} : req'[p] = req[p]
    BY <2>3, MineFacts, ComesFacts
  <2>4. ASSUME Aside PROVE Mine(u)' = Mine(u) /\ req' = req
    BY <2>4, MineFacts DEF Aside
  <2>5. QED
    BY <2>1, <2>2, <2>3, <2>4, NextCases
<1>2. ASSUME NEW p \in Mine(u), NEW s \in Mine(u), p # s PROVE Follows(p, s) \/ Follows(s, p)
  <2>1. Follows(p, s)' \/ Follows(s, p)'
    BY <1>1, <1>2 DEF InTurn
  <2>2. QED
    BY <1>1, <2>1 DEF Follows
<1>3. QED
  BY <1>1, <1>2 DEF InTurn

\* Those that come in turn are answered, while one is not.
LEMMA OthersAnswered ==
    ASSUME FollowsInv, NEW u, InTurn(Mine(u)), NEW r \in Mine(u), r \notin Answered,
           NEW p \in Mine(u), p # r
    PROVE  p \in Answered /\ Follows(r, p)
BY DEF InTurn, FollowsInv, Mine

LEMMA OnlyFailsBack ==
    ASSUME PostInv, UserInv, AnswerInv, FollowsInv, [Next]_vars, NEW u \in Users, OnlyFails(u)'
    PROVE  OnlyFails(u)
<1>1. InTurn(Mine(u)) /\ Mine(u) \subseteq Mine(u)'
  BY InTurnBack DEF OnlyFails
<1>2. ASSUME NEW p \in Mine(u) PROVE req[p].answer = "none" \/ req'[p].answer = req[p].answer
  <2>1. p \in Requests
    BY DEF Mine
  <2>2. ASSUME NEW r \in Requests, Moved(r) PROVE req[p].answer = "none" \/ req'[p] = req[p]
    BY <2>1, <2>2 DEF Moved, Others, AnswerInv
  <2>3. ASSUME NEW r \in Requests, NEW f \in Forms, Comes(r, f)
        PROVE req[p].answer = "none" \/ req'[p] = req[p]
    BY <2>1, <2>3 DEF Comes, Others, AnswerInv
  <2>4. ASSUME Aside PROVE req'[p] = req[p]
    BY <2>4 DEF Aside
  <2>5. QED
    BY <2>2, <2>3, <2>4, NextCases
<1>3. QED
  BY <1>1, <1>2 DEF OnlyFails

LEMMA FailedFacts ==
    ASSUME AnswerInv, IsFiniteSet(Arrived), NEW u
    PROVE  /\ Failed(u) \subseteq Answered /\ IsFiniteSet(Failed(u))
           /\ Cardinality(Failed(u)) \in Nat
<1>1. "none" \notin Unanswered
  BY DEF Unanswered
<1>2. Failed(u) \subseteq Answered
  BY <1>1 DEF Failed, Mine, Answered, AnswerInv
<1>3. Answered \subseteq Arrived
  BY DEF Answered, Arrived, At
<1>4. QED
  BY <1>2, <1>3, FS_Subset, FS_CardinalityType

\* A term that is blocked, and no other, may change its place; if the log does
\* not take it, that is noted.
LEMMA BlockFacts ==
    ASSUME NEW term, Block(term), NEW u
    PROVE  /\ u \in meddled => u \in meddled'
           /\ u # term => (u \in blocked' <=> u \in blocked)
           /\ u \in meddled' \/ u # term \/ (u \in blocked' <=> u \notin blocked)
BY DEF Block, Toggle

\* A request of another user changes nothing for u.
LEMMA CountsOther ==
    ASSUME PostInv, TriesBase, NEW u \in Users, BlockedNow(u), Counted(u) \/ CountsForgotten,
           CountsForgotten => CountsForgotten',
           NEW r \in Requests, Step(r), Moved(r), Ways(r), r \notin Mine(u), CountMoves(r)
    PROVE  BlockedNow(u)' /\ (Counted(u)' \/ CountsForgotten')
<1>1. /\ Mine(u)' = Mine(u) /\ \A p \in Mine(u) : req'[p] = req[p]
  BY MineFacts DEF TriesBase, Moved, Others, Mine
<1>2. Failed(u)' = Failed(u)
  BY <1>1 DEF Failed
<1>3. (u \in meddled => u \in meddled') /\ (u \in blocked' <=> u \in blocked)
  <2>1. CASE req[r].pc = "block user" /\ BlockUser(r)
    <3>1. req[r].user # u
      BY DEF Mine
    <3>2. QED
      BY <2>1, <3>1, BlockFacts DEF BlockUser
  <2>2. CASE req[r].pc = "block address" /\ BlockAddress(r)
    <3>1. Asked(r) \in Forms
      BY <2>2 DEF PostInv, ReqType, Asked
    <3>2. Asked(r) \in Form
      BY <3>1, PostAPIAssumption
    <3>3. Asked(r).ip \in Addresses
      BY <3>2 DEF Form
    <3>4. Asked(r).ip # u
      BY <3>3, PostAPIAssumption DEF IDs
    <3>5. QED
      BY <2>2, <3>4, BlockFacts DEF BlockAddress
  <2>3. CASE req[r].pc \notin {"block user", "block address"}
    BY <2>3 DEF Moved, terms
  <2>4. QED
    BY <2>1, <2>2, <2>3 DEF Ways, Moves
<1>4. BlockedNow(u)'
  BY <1>1, <1>3 DEF BlockedNow
<1>5. req[r].user # u
  BY DEF Mine
<1>6. CountKept \/ CountsBut(req[r].user)
  BY DEF CountMoves
<1>7. \A n : CountIs(u, n) => CountIs(u, n)' \/ CountsForgotten'
  <2>1. CASE CountKept
    BY <2>1 DEF CountKept, CountIs
  <2>2. CASE CountsBut(req[r].user)
    BY <1>5, <2>2 DEF CountsBut, CountIs
  <2>3. QED
    BY <1>6, <2>1, <2>2
<1>8. ASSUME Counted(u) PROVE Counted(u)' \/ CountsForgotten'
  <2>1. PICK n : n = Cardinality(Failed(u)) /\ n = Cardinality(Failed(u))'
    BY <1>2
  <2>2. (\A p \in Mine(u)' : req'[p].pc \in Early) => CountIs(u, n)' \/ CountsForgotten'
    BY <1>1, <1>7, <1>8, <2>1 DEF Counted
  <2>3. (\A p \in Mine(u)' : req'[p].pc \in Early) => CountIs(u, Cardinality(Failed(u)))' \/ CountsForgotten'
    BY <2>1, <2>2 DEF CountIs
  <2>4. QED
    BY <1>1, <1>8, <2>1, <2>3 DEF Counted
<1>9. QED
  BY <1>4, <1>8

\* While the requests of u only fail, nobody but the one that has failed too
\* many blocks u, and then it is answered.
LEMMA BlockedOwn ==
    ASSUME PostInv, TriesBase, AnswerInv', NEW u \in Users, OnlyFails(u), OnlyFails(u)', BlockedNow(u),
           NEW r \in Requests, Step(r), Moved(r), Ways(r), r \in Mine(u)
    PROVE  /\ BlockedNow(u)'
           /\ Mine(u)' = Mine(u) /\ u = req[r].user /\ r \notin Answered
           /\ \A p \in Mine(u) : p # r => req'[p] = req[p] /\ req[p].pc = "answered"
           /\ req'[r].pc = "answered" =>
                 Challenge(r) /\ req[r].pc = "challenge" /\ req'[r].answer \in Unanswered
<1>1. /\ Mine(u)' = Mine(u) /\ u = req[r].user /\ r \notin Answered
      /\ \A p \in Mine(u) : p # r => req'[p] = req[p] /\ req[p].pc = "answered"
  <2>1. r \notin Answered
    BY DEF Answered, Moved
  <2>2. \A p \in Mine(u) : p # r => p \in Answered
    BY <2>1, OthersAnswered DEF TriesBase, OnlyFails
  <2>3. QED
    BY <2>1, <2>2, MineFacts DEF TriesBase, Moved, Others, Mine, Answered
\* It is answered only when it has failed.
<1>2. req'[r].pc = "answered" => Challenge(r) /\ req[r].pc = "challenge" /\ req'[r].answer \in Unanswered
  <2>1. req'[r].answer \in Unanswered \cup {"none"}
    BY <1>1 DEF OnlyFails
  <2>2. QED
    BY <2>1, AnswerStep DEF TriesBase
<1>3. u \in meddled \/ (u \in blocked <=> req[r].pc = "block address")
  BY <1>1 DEF BlockedNow
<1>4. u \in meddled' \/ (u \in blocked' <=> req'[r].pc = "block address")
  <2>1. CASE req[r].pc = "block user"
    <3>1. BlockUser(r) /\ req'[r].pc = "block address"
      BY <2>1 DEF Ways, Moves
    <3>2. Block(u)
      BY <1>1, <3>1 DEF BlockUser
    <3>3. QED
      BY <1>3, <2>1, <3>1, <3>2, BlockFacts
  <2>2. CASE req[r].pc # "block user"
    <3>1. req[r].pc # "block address" /\ req'[r].pc # "block address"
      BY <1>2, <2>2 DEF Ways, Moves
    <3>2. QED
      BY <1>3, <2>2, <3>1 DEF Moved, terms
  <2>3. QED
    BY <2>1, <2>2
<1>5. BlockedNow(u)'
  BY <1>1, <1>4 DEF BlockedNow
<1>6. QED
  BY <1>1, <1>2, <1>5

\* A request of u goes on.
LEMMA CountsOwn ==
    ASSUME PostInv, TriesBase, AnswerInv', NEW u \in Users, OnlyFails(u), OnlyFails(u)',
           BlockedNow(u), Counted(u), IsFiniteSet(Known'), Known \subseteq Known',
           NEW r \in Requests, Step(r), Moved(r), Ways(r), r \in Mine(u), CountMoves(r)
    PROVE  BlockedNow(u)' /\ (Counted(u)' \/ CountsForgotten')
<1>0. PICK n : n = Cardinality(Failed(u))
  OBVIOUS
<1>1. /\ Mine(u)' = Mine(u) /\ u = req[r].user /\ r \notin Answered /\ BlockedNow(u)'
      /\ \A p \in Mine(u) : p # r => req'[p] = req[p] /\ req[p].pc = "answered"
      /\ req'[r].pc = "answered" =>
            Challenge(r) /\ req[r].pc = "challenge" /\ req'[r].answer \in Unanswered
  BY BlockedOwn
<1>2. n \in Nat /\ Failed(u) \subseteq Answered /\ IsFiniteSet(Failed(u)) /\ MaxRolls \in Nat
  BY <1>0, FailedFacts, PostAPIAssumption DEF TriesBase
<1>4. req'[r].pc # "answered" => Failed(u)' = Failed(u)
  <2>1. ASSUME req'[r].pc # "answered"
        PROVE  req'[r].answer \notin Unanswered /\ req[r].answer \notin Unanswered
    BY <1>1, <2>1 DEF AnswerInv, TriesBase, Unanswered, Answered
  <2>2. QED
    BY <1>1, <2>1 DEF Failed
<1>6. (\A p \in Mine(u) : req[p].pc \in Early) <=> req[r].pc \in Early
  BY <1>1 DEF Early
<1>7. (\A p \in Mine(u)' : req'[p].pc \in Early) <=> req'[r].pc \in Early
  BY <1>1 DEF Early
<1>9. n <= MaxRolls /\ (req[r].pc \in Early => CountIs(u, n))
  BY <1>0, <1>6 DEF Counted
<1>10. CASE req'[r].pc = "answered"
  <2>1. Challenge(r) /\ req[r].pc = "challenge" /\ req'[r].answer \in Unanswered
    BY <1>1, <1>10
  <2>2. /\ CountCache' /\ ~ (req[r].count > MaxRolls)
        /\ \A e \in Range(KbadUsers') : e[1] = u => e[2] = req[r].count
        /\ <<u, req[r].count>> \in Range(KbadUsers') \/ CountsForgotten'
    <3>1. /\ ~ (req[r].count > MaxRolls)
          /\ KbadUsers' = With(KbadUsers, req[r].user, req[r].count, CacheSize)
      BY <1>10, <2>1, ChallengeFacts DEF Unanswered
    <3>2. QED
      BY <1>1, <2>1, <3>1, CountSet DEF TriesBase
  <2>3. req[r].count = n + 1
    BY <1>0, <2>1 DEF Counted
  <2>4. Failed(u)' = Failed(u) \cup {r} /\ r \notin Failed(u)
    BY <1>1, <1>2, <2>1 DEF Failed
  <2>5. Cardinality(Failed(u)') = n + 1
    BY <1>2, <2>4, <1>0, FS_AddElement
  <2>7. CountIs(u, Cardinality(Failed(u)))' \/ CountsForgotten'
    BY <2>2, <2>3, <2>5 DEF CountIs
  <2>8. n + 1 <= MaxRolls
    BY <1>2, <2>2, <2>3
  <2>9. \A p \in Mine(u)' : req'[p].pc = "answered"
    BY <1>1, <1>10
  <2>10. Counted(u)' \/ CountsForgotten'
    BY <2>5, <2>7, <2>8, <2>9 DEF Counted
  <2>11. QED
    BY <1>1, <2>10
<1>11. CASE req'[r].pc # "answered"
  <2>1. Cardinality(Failed(u)') = n
    BY <1>0, <1>4, <1>11
  <2>2. req'[r].pc \in Early => CountKept /\ req[r].pc \in Early
    <3>1. req'[r].pc \in Early => req[r].pc \in Early /\ ~ Passed(r)
      BY <1>11 DEF Ways, Moves, Early, Passed, At
    <3>2. Challenge(r) /\ req'[r].pc # "answered" => req'[r].pc \notin Early
      BY ChallengeFacts DEF Early
    <3>3. QED
      BY <1>11, <3>1, <3>2 DEF CountMoves
  <2>3. req'[r].pc \in Early => CountIs(u, n)'
    BY <1>9, <2>2 DEF CountKept, CountIs
  <2>4. req'[r].pc = "challenge" => req'[r].count = n + 1
    <3>1. req'[r].pc = "challenge" => Roll(r) /\ req[r].pc \in Early
      BY DEF Ways, Moves, Early
    <3>2. ASSUME req'[r].pc = "challenge"
          PROVE  \/ \E e \in Range(KbadUsers) : e[1] = u /\ req'[r].count = 1 + e[2]
                 \/ (\A e \in Range(KbadUsers) : e[1] # u) /\ req'[r].count = 1
      BY <1>1, <3>1, <3>2, RollFacts DEF TriesBase
    <3>3. ASSUME NEW d \in Range(KbadUsers), NEW e \in Range(KbadUsers), d[1] = e[1] PROVE d[2] = e[2]
      BY <3>3 DEF TriesBase, CountCache, Proper, Range
    <3>4. QED
      BY <1>2, <1>9, <3>1, <3>2, <3>3 DEF CountIs
  <2>5. req'[r].pc \in {"block user", "block address"} => n = MaxRolls
    <3>1. CASE req'[r].pc = "block user"
      <4>1. Challenge(r) /\ req[r].pc = "challenge"
        BY <3>1 DEF Ways, Moves
      <4>2. req[r].count > MaxRolls
        BY <3>1, <4>1, ChallengeFacts
      <4>3. req[r].count = n + 1
        BY <1>0, <4>1 DEF Counted
      <4>4. n = MaxRolls
        BY <1>2, <1>9, <4>2, <4>3
      <4>5. QED
        BY <4>4
    <3>2. CASE req'[r].pc = "block address"
      <4>1. req[r].pc = "block user"
        BY <3>2 DEF Ways, Moves
      <4>2. QED
        BY <1>0, <4>1 DEF Counted
    <3>3. QED
      BY <3>1, <3>2
  <2>7. Counted(u)'
    <3>1. \A p \in Mine(u)' : p # r => req'[p].pc = "answered"
      BY <1>1
    <3>2. (Cardinality(Failed(u)) <= MaxRolls)'
      BY <1>9, <2>1
    <3>3. (\A p \in Mine(u)' : req'[p].pc \in Early) => CountIs(u, Cardinality(Failed(u)))'
      BY <1>7, <2>1, <2>3 DEF CountIs
    <3>4. ASSUME NEW p \in Mine(u)'
          PROVE  /\ req'[p].pc = "challenge" => req'[p].count = Cardinality(Failed(u))' + 1
                 /\ req'[p].pc \in {"block user", "block address"} => Cardinality(Failed(u))' = MaxRolls
      BY <2>1, <2>4, <2>5, <3>1
    <3>5. QED
      BY <3>2, <3>3, <3>4 DEF Counted
  <2>8. QED
    BY <1>1, <2>7
<1>12. QED
  BY <1>10, <1>11

\* A request comes, which has failed nothing yet.
LEMMA CountsComes ==
    ASSUME PostInv, TriesBase, NEW u \in Users, OnlyFails(u)', BlockedNow(u),
           Counted(u) \/ CountsForgotten, CountsForgotten => CountsForgotten', CountKept,
           NEW r \in Requests, NEW f \in Forms, Comes(r, f)
    PROVE  BlockedNow(u)' /\ (Counted(u)' \/ CountsForgotten')
<1>1. /\ Mine(u)' = IF f.user = u THEN Mine(u) \cup {r} ELSE Mine(u)
      /\ r \notin Mine(u) /\ blocked' = blocked /\ meddled' = meddled
      /\ \A p \in Mine(u) : req'[p] = req[p]
  BY MineFacts DEF TriesBase, Comes, Others, caches, terms, Mine
<1>2. /\ req'[r].pc \in {"answered", "referer", "address"}
      /\ req'[r].answer \in {"none", "bad-request"}
  BY DEF Comes
<1>3. req'[r].answer \notin Unanswered
  BY <1>2 DEF Unanswered
<1>4. Failed(u)' = Failed(u)
  BY <1>1, <1>3 DEF Failed
<1>5. /\ req'[r].pc \in Early /\ req'[r].pc # "challenge"
      /\ req'[r].pc \notin {"block user", "block address"} /\ req'[r].pc # "block address"
  BY <1>2 DEF Early
<1>6. BlockedNow(u)'
  BY <1>1, <1>5 DEF BlockedNow
<1>7. \A n : CountIs(u, n) => CountIs(u, n)'
  BY DEF CountKept, CountIs
<1>8. ASSUME Counted(u) PROVE Counted(u)'
  <2>1. PICK n : n = Cardinality(Failed(u)) /\ n = Cardinality(Failed(u))'
    BY <1>4
  <2>2. (\A p \in Mine(u)' : req'[p].pc \in Early) => CountIs(u, n)'
    BY <1>1, <1>7, <1>8, <2>1 DEF Counted
  <2>3. (\A p \in Mine(u)' : req'[p].pc \in Early) => CountIs(u, Cardinality(Failed(u)))'
    BY <2>1, <2>2 DEF CountIs
  <2>4. QED
    BY <1>1, <1>5, <1>8, <2>1, <2>3 DEF Counted
<1>9. QED
  BY <1>6, <1>8

LEMMA CountsAside ==
    ASSUME PostInv, TriesBase, NEW u \in Users, BlockedNow(u),
           Counted(u) \/ CountsForgotten, CountsForgotten => CountsForgotten', Aside
    PROVE  BlockedNow(u)' /\ (Counted(u)' \/ CountsForgotten')
<1>1. Mine(u)' = Mine(u) /\ req' = req /\ KbadUsers' = KbadUsers
  BY MineFacts DEF TriesBase, Aside, caches
<1>2. Failed(u)' = Failed(u)
  BY <1>1 DEF Failed
<1>3. (u \in meddled => u \in meddled') /\ (u \in meddled' \/ (u \in blocked' <=> u \in blocked))
  BY DEF Aside, terms, Toggle
<1>4. BlockedNow(u)'
  BY <1>1, <1>3 DEF BlockedNow
<1>5. QED
  BY <1>1, <1>2, <1>4 DEF Counted, CountIs

LEMMA TriesBaseStep ==
    ASSUME PostInv, TriesBase, [Next]_vars
    PROVE  /\ TriesBase' /\ Known \subseteq Known' /\ (CountsForgotten => CountsForgotten')
           /\ Aside => CountKept
           /\ \A r \in Requests, f \in Forms : Comes(r, f) => CountKept
           /\ \A r \in Requests : Moved(r) /\ Ways(r) => CountMoves(r)
<1> USE DEF TriesBase
<1>1. FollowsInv' /\ UserInv' /\ AnswerInv' /\ IsFiniteSet(Arrived')
  BY FollowsStep, UserInvStep, AnswerInvStep, ArrivedGrow
<1>2. IsFiniteSet(Known') /\ Known \subseteq Known' /\ (CountsForgotten => CountsForgotten')
  BY KnownGrow
<1>3. /\ Aside => CountKept
      /\ \A r \in Requests, f \in Forms : Comes(r, f) => CountKept
      /\ \A r \in Requests : Moved(r) /\ Ways(r) => CountMoves(r)
  BY <1>2, CountCacheStep
<1>4. CountCache'
  BY <1>3, NextCases DEF CountKept, CountMoves
<1>5. \A r \in Requests : req'[r].count \in Nat
  BY <1>2, CountNatStep
<1>6. QED
  BY <1>1, <1>2, <1>3, <1>4, <1>5

LEMMA TriesStep ==
    ASSUME PostInv, TriesInv, [Next]_vars
    PROVE  TriesInv'
<1>1. /\ TriesBase' /\ Known \subseteq Known' /\ (CountsForgotten => CountsForgotten')
      /\ \A r \in Requests, f \in Forms : Comes(r, f) => CountKept
      /\ \A r \in Requests : Moved(r) /\ Ways(r) => CountMoves(r)
      /\ TriesBase
  BY TriesBaseStep DEF TriesInv
<1>2. IsFiniteSet(Known') /\ AnswerInv'
  BY <1>1 DEF TriesBase
<1>3. ASSUME NEW u \in Users, OnlyFails(u)'
      PROVE  BlockedNow(u)' /\ (Counted(u)' \/ CountsForgotten')
  <2>1. OnlyFails(u)
    BY <1>1, <1>3, OnlyFailsBack DEF TriesBase
  <2>2. BlockedNow(u) /\ (Counted(u) \/ CountsForgotten)
    BY <2>1 DEF TriesInv, CountsInv
  <2>3. ASSUME NEW r \in Requests, Step(r), Moved(r), Ways(r)
        PROVE  BlockedNow(u)' /\ (Counted(u)' \/ CountsForgotten')
    <3>1. CountMoves(r)
      BY <1>1, <2>3
    <3>2. CASE r \notin Mine(u)
      BY <1>1, <2>2, <2>3, <3>1, <3>2, CountsOther
    <3>3. CASE r \in Mine(u) /\ Counted(u)
      BY <1>1, <1>2, <1>3, <2>1, <2>2, <2>3, <3>1, <3>3, CountsOwn
    <3>4. CASE r \in Mine(u) /\ CountsForgotten
      <4>1. BlockedNow(u)'
        BY <1>1, <1>2, <1>3, <2>1, <2>2, <2>3, <3>4, BlockedOwn
      <4>2. QED
        BY <1>1, <3>4, <4>1
    <3>5. QED
      BY <2>2, <3>2, <3>3, <3>4
  <2>4. ASSUME NEW r \in Requests, NEW f \in Forms, Comes(r, f)
        PROVE  BlockedNow(u)' /\ (Counted(u)' \/ CountsForgotten')
    BY <1>1, <1>3, <2>2, <2>4, CountsComes
  <2>5. ASSUME Aside PROVE BlockedNow(u)' /\ (Counted(u)' \/ CountsForgotten')
    BY <1>1, <2>2, <2>5, CountsAside
  <2>6. QED
    BY <2>3, <2>4, <2>5, NextCases
<1>4. QED
  BY <1>1, <1>3 DEF TriesInv, CountsInv

LEMMA TriesInit == Init => TriesInv
<1> SUFFICES ASSUME Init PROVE TriesInv
  OBVIOUS
<1>1. KbadUsers = <<>> /\ Range(KbadUsers) = {} /\ blocked = {}
  BY DEF Init, Range
<1>2. \A r \in Requests : /\ ~ InTopics(topics, r) /\ req[r].pc = "new" /\ req[r].user = NoUser
                          /\ req[r].count = 0 /\ req[r].after = {} /\ req[r].answer = "none"
  BY OldTopicsAssumption DEF Init, InTopics, OldPosts, Fresh
<1>3. Arrived = {} /\ Known = {}
  BY <1>2 DEF Arrived, At, Known
<1>4. Proper(KbadUsers, CountEntry) /\ CountCache
  BY <1>1 DEF Proper, CountCache
<1>5. FollowsInv /\ UserInv /\ AnswerInv
  BY <1>2 DEF FollowsInv, Follows, UserInv, AnswerInv, Inside
<1>6. TriesBase
  BY <1>2, <1>3, <1>4, <1>5, FS_EmptySet DEF TriesBase
<1>7. ASSUME NEW u \in Users PROVE BlockedNow(u) /\ Counted(u)
  <2>1. u # NoUser
    BY PostAPIAssumption DEF IDs
  <2>2. Mine(u) = {} /\ Failed(u) = {}
    BY <1>2, <2>1 DEF Mine, Failed
  <2>3. Cardinality(Failed(u)) = 0
    BY <2>2, FS_EmptySet
  <2>4. QED
    BY <1>1, <2>2, <2>3, PostAPIAssumption DEF BlockedNow, Counted, CountIs
<1>8. QED
  BY <1>6, <1>7 DEF TriesInv, CountsInv

\* THEOREM.  Every step keeps the invariant of the challenges.
THEOREM TriesInvariant == Spec => []TriesInv
<1>1. PostInv /\ TriesInv /\ [Next]_vars => TriesInv'
  BY TriesStep
<1>2. QED
  BY <1>1, TriesInit, PostInvariant, PTL DEF Spec

\* THEOREM.  A user whose requests come in turn and fail the challenge fails
\* at most MaxRolls of them before the next one blocks the ID, unless the log
\* took no record of the block or a moderator changed it, or more users have
\* come than the cache holds (handle_newpost.go:86-124, store_op.go:16-24).
THEOREM FailedTriesAreCounted == Spec => []TriesAreCounted
<1>1. ASSUME TriesInv, NEW u \in Users, OnlyFails(u)
      PROVE  \/ Cardinality({req[r].user : r \in Requests} \ {NoUser}) > CacheSize
             \/ /\ Cardinality(Failed(u)) <= MaxRolls
                /\ (\E r \in Mine(u) : At(r, "block address")) =>
                      Cardinality(Failed(u)) = MaxRolls /\ u \in blocked \cup meddled
  BY <1>1 DEF TriesInv, CountsInv, BlockedNow, Counted, CountsForgotten, Known, At
<1>2. TriesInv => TriesAreCounted
  BY <1>1 DEF TriesAreCounted, OnlyFails, Failed, Mine
<1>3. QED
  BY <1>2, TriesInvariant, PTL

----------------------------------------------------------------------------
(* A user who passes is forgiven.                                          *)

LEMMA SinceFacts ==
    ASSUME IsFiniteSet(Arrived), NEW r
    PROVE  /\ IsFiniteSet(Since(r)) /\ Cardinality(Since(r)) \in Nat
           /\ Since(r) \subseteq Answered
<1>1. Since(r) \subseteq Answered /\ Answered \subseteq Arrived
  BY DEF Since, Answered, Arrived, At
<1>2. QED
  BY <1>1, FS_Subset, FS_CardinalityType

\* What ForgivenInv says of request r and n answers since
ForgivenFor(r, n) ==
    /\ \A e \in Range(KbadUsers) : e[1] = req[r].user => e[2] <= n
    /\ \A p \in Mine(req[r].user) :
          /\ p # r /\ req[p].pc = "challenge" => req[p].count <= n + 1
          /\ p # r /\ req[p].pc = "block user" => MaxRolls <= n

LEMMA ForgivenMore ==
    ASSUME TriesBase, NEW r, NEW n \in Nat, NEW m \in Nat, n <= m, ForgivenFor(r, n), MaxRolls \in Nat
    PROVE  ForgivenFor(r, m)
<1>1. \A e \in Range(KbadUsers) : e[2] \in Nat
  BY DEF TriesBase, CountCache, Proper, CountEntry, Range
<1>2. \A p \in Mine(req[r].user) : req[p].count \in Nat
  BY DEF TriesBase, Mine
<1>3. ASSUME NEW e \in Range(KbadUsers), e[1] = req[r].user PROVE e[2] <= m
  <2>1. e[2] <= n
    BY <1>3, Zenon DEF ForgivenFor
  <2>2. QED
    BY <1>1, <2>1
<1>4. ASSUME NEW p \in Mine(req[r].user), p # r, req[p].pc = "challenge" PROVE req[p].count <= m + 1
  <2>1. req[p].count <= n + 1
    BY <1>4, Zenon DEF ForgivenFor
  <2>2. QED
    BY <1>2, <2>1
<1>5. ASSUME NEW p \in Mine(req[r].user), p # r, req[p].pc = "block user" PROVE MaxRolls <= m
  <2>1. MaxRolls <= n
    BY <1>5, Zenon DEF ForgivenFor
  <2>2. QED
    BY <2>1
<1>6. QED
  BY <1>3, <1>4, <1>5, Zenon DEF ForgivenFor

\* The request itself goes on: it is forgiven all when it passes.
LEMMA ForgivenSelf ==
    ASSUME PostInv, TriesBase, NEW r \in Requests, Step(r), Moved(r), Ways(r), CountMoves(r),
           Forgiven(r)', NEW u \in Users, u = req'[r].user, InTurn(Mine(u)),
           NEW n, Forgiven(r) => ForgivenFor(r, n)
    PROVE  ForgivenFor(r, n)' /\ req[r].user = u
<1>1. \/ req[r].pc = "passed" /\ Passed(r) /\ req'[r].pc = "uuid"
      \/ req[r].pc \in {"uuid", "add uuid", "validate", "image", "post", "flag"}
  <2>1. InTopics(topics', r) => req[r].pc \in {"post", "flag"}
    BY DEF Moved, PostInv, Honest
  <2>2. req'[r].pc \in {"uuid", "add uuid", "validate", "image", "post", "flag"} =>
           \/ req[r].pc = "passed" /\ Passed(r) /\ req'[r].pc = "uuid"
           \/ req[r].pc \in {"uuid", "add uuid", "validate", "image", "post", "flag"}
    BY DEF Ways, Moves
  <2>3. QED
    BY <2>1, <2>2 DEF Forgiven, InTopics
<1>2. req[r].user = u
  BY <1>1 DEF Moved
<1>3. /\ Mine(u)' = Mine(u) /\ r \in Mine(u)
      /\ \A p \in Mine(u) : p # r => req'[p].pc = "answered"
  <2>1. r \notin Answered /\ r \in Mine(u)
    BY <1>2 DEF Answered, Moved, Mine
  <2>2. \A p \in Mine(u) : p # r => p \in Answered
    BY <2>1, OthersAnswered DEF TriesBase
  <2>3. Mine(u)' = Mine(u) /\ \A p \in Mine(u) : p # r => req'[p] = req[p]
    BY MineFacts DEF TriesBase, Moved, Others, Mine
  <2>4. QED
    BY <2>1, <2>2, <2>3 DEF Answered
<1>4. ASSUME NEW e \in Range(KbadUsers'), e[1] = u PROVE e[2] <= n
  <2>1. CASE Passed(r)
    <3>1. KbadUsers' = Without(KbadUsers, u)
      BY <1>2, <2>1 DEF Passed
    <3>2. \A d \in Range(KbadUsers') : d[1] # u
      BY <3>1, WithoutFacts DEF TriesBase, CountCache
    <3>3. QED
      BY <1>4, <3>2
  <2>2. CASE req[r].pc \in {"uuid", "add uuid", "validate", "image", "post", "flag"}
    <3>1. Forgiven(r) /\ KbadUsers' = KbadUsers
      BY <2>2 DEF Forgiven, Moved
    <3>2. QED
      BY <1>2, <1>4, <3>1, Zenon DEF ForgivenFor
  <2>3. QED
    BY <1>1, <2>1, <2>2
<1>5. \A p \in Mine(u)' : p # r => req'[p].pc # "challenge" /\ req'[p].pc # "block user"
  BY <1>3
<1>6. Mine(u)' = Mine(req[r].user)'
  BY DEF Mine
<1>7. QED
  BY <1>2, <1>4, <1>5, <1>6, Zenon DEF ForgivenFor

\* Another request of the user goes on: what it counts comes after r.
LEMMA ForgivenOther ==
    ASSUME PostInv, TriesBase, IsFiniteSet(Arrived)', Known \subseteq Known', NEW r \in Requests,
           NEW s \in Requests, s # r, Step(s), Moved(s), Ways(s), CountMoves(s),
           NEW u \in Users, u = req[r].user, InTurn(Mine(u)),
           NEW n, n = Cardinality(Since(r)), ForgivenFor(r, n),
           NEW m, m = Cardinality(Since(r))'
    PROVE  ForgivenFor(r, m)'
<1>1. /\ Mine(u)' = Mine(u) /\ req'[r] = req[r] /\ r \in Mine(u) /\ Mine(u) \subseteq Requests
      /\ \A p \in Requests \ {s} : req'[p] = req[p]
  BY MineFacts DEF TriesBase, Moved, Others, Mine
<1>2. /\ Since(r) \subseteq Since(r)'
      /\ s \in Mine(u) /\ req'[s].pc = "answered" => s \in Since(r)' /\ s \notin Since(r)
  <2>1. /\ \A p \in Requests : Follows(p, r)' <=> Follows(p, r)
        /\ Answered \subseteq Answered' /\ s \notin Answered /\ Answered \subseteq Requests
    BY MovedFacts DEF Follows, Answered
  <2>2. /\ Since(r) = {p \in Answered : Follows(p, r) /\ p \in Mine(u)}
        /\ Since(r)' = {p \in Answered' : Follows(p, r)' /\ p \in Mine(u)'}
    BY <1>1, <2>1 DEF Since, Mine, Answered
  <2>3. s \in Mine(u) => Follows(s, r)
    BY <1>1, <2>1, OthersAnswered DEF TriesBase
  <2>4. req'[s].pc = "answered" => s \in Answered'
    BY DEF Answered
  <2>5. QED
    BY <1>1, <2>1, <2>2, <2>3, <2>4
<1>3. /\ IsFiniteSet(Since(r)) /\ IsFiniteSet(Since(r))' /\ n \in Nat /\ m \in Nat
      /\ MaxRolls \in Nat
  <2>1. IsFiniteSet(Since(r)) /\ n \in Nat
    BY SinceFacts DEF TriesBase
  <2>2. Since(r)' \subseteq Arrived'
    BY DEF Since, Answered, Arrived, At
  <2>3. IsFiniteSet(Since(r)')
    BY <2>2, FS_Subset
  <2>4. QED
    BY <2>1, <2>3, FS_CardinalityType, PostAPIAssumption
<1>4. n <= m
  BY <1>2, <1>3, FS_Subset
<1>5. s \in Mine(u) /\ req'[s].pc = "answered" => n + 1 <= m
  <2>1. ASSUME s \in Mine(u), req'[s].pc = "answered" PROVE n + 1 <= m
    <3>1. Since(r) \cup {s} \subseteq Since(r)' /\ s \notin Since(r)
      BY <1>2, <2>1
    <3>2. Cardinality(Since(r) \cup {s}) = n + 1
      BY <1>3, <3>1, FS_AddElement
    <3>3. Cardinality(Since(r) \cup {s}) <= m
      BY <1>3, <3>1, FS_Subset
    <3>4. QED
      BY <3>2, <3>3
  <2>2. QED
    BY <2>1
<1>6. ForgivenFor(r, m)
  BY <1>3, <1>4, ForgivenMore
<1>7. /\ \A e \in Range(KbadUsers) : e[1] = u => e[2] <= m
      /\ \A e \in Range(KbadUsers) : e[2] \in Nat
      /\ \A p \in Mine(u) : p # r /\ req[p].pc = "challenge" => req[p].count <= m + 1 /\ req[p].count <= n + 1
      /\ \A p \in Mine(u) : p # r /\ req[p].pc = "block user" => MaxRolls <= m
  <2>1. \A e \in Range(KbadUsers) : e[2] \in Nat
    BY DEF TriesBase, CountCache, Proper, CountEntry, Range
  <2>2. QED
    BY <1>6, <2>1, Zenon DEF ForgivenFor
<1>8. ASSUME NEW e \in Range(KbadUsers'), e[1] = u PROVE e[2] <= m
  <2>1. CASE CountKept
    BY <1>7, <1>8, <2>1 DEF CountKept
  <2>2. CASE CountsBut(req[s].user) /\ s \notin Mine(u)
    <3>1. req[s].user # u
      BY <2>2 DEF Mine
    <3>2. QED
      BY <1>7, <1>8, <2>2, <3>1 DEF CountsBut
  <2>3. CASE s \in Mine(u) /\ ~ CountKept
    <3>1. req[s].user = u
      BY <2>3 DEF Mine
    <3>2. Challenge(s) /\ req'[s].pc = "answered" /\ e[2] = req[s].count
      BY <1>8, <2>3, <3>1 DEF CountMoves
    <3>3. req[s].pc = "challenge"
      BY <3>2 DEF Challenge, At
    <3>4. req[s].count <= n + 1 /\ n + 1 <= m
      BY <1>5, <1>7, <2>3, <3>2, <3>3
    <3>5. req[s].count \in Nat
      BY DEF TriesBase
    <3>6. QED
      BY <1>3, <3>2, <3>4, <3>5
  <2>4. QED
    BY <2>1, <2>2, <2>3 DEF CountMoves
<1>9. ASSUME NEW p \in Mine(u), p # r, req'[p].pc = "challenge" PROVE req'[p].count <= m + 1
  <2>1. CASE p # s
    BY <1>1, <1>7, <1>9, <2>1
  <2>2. CASE p = s
    <3>1. Roll(s)
      BY <1>9, <2>2 DEF Ways, Moves
    <3>2. req[s].user = u
      BY <1>9, <2>2 DEF Mine
    <3>3. \/ \E e \in Range(KbadUsers) : e[1] = u /\ req'[s].count = 1 + e[2]
          \/ req'[s].count = 1
      BY <1>9, <2>2, <3>1, <3>2, RollFacts DEF TriesBase
    <3>4. ASSUME NEW e \in Range(KbadUsers), e[1] = u, req'[s].count = 1 + e[2]
          PROVE  req'[s].count <= m + 1
      <4>1. e[2] \in Nat /\ e[2] <= m
        BY <1>7, <3>4, Zenon
      <4>2. QED
        BY <1>3, <3>4, <4>1
    <3>5. QED
      BY <1>3, <2>2, <3>3, <3>4
  <2>3. QED
    BY <2>1, <2>2
<1>10. ASSUME NEW p \in Mine(u), p # r, req'[p].pc = "block user" PROVE MaxRolls <= m
  <2>1. CASE p # s
    BY <1>1, <1>7, <1>10, <2>1
  <2>2. CASE p = s
    <3>1. Challenge(s) /\ req[s].pc = "challenge"
      BY <1>10, <2>2 DEF Ways, Moves
    <3>2. req[s].count > MaxRolls
      BY <1>10, <2>2, <3>1, ChallengeFacts
    <3>3. req[s].count <= m + 1 /\ req[s].count \in Nat
      BY <1>7, <1>10, <2>2, <3>1 DEF TriesBase
    <3>4. QED
      BY <1>3, <3>2, <3>3
  <2>3. QED
    BY <2>1, <2>2
<1>11. Mine(req[r].user)' = Mine(u)
  <2>1. Mine(req[r].user)' = Mine(u)'
    BY <1>1 DEF Mine
  <2>2. QED
    BY <1>1, <2>1
<1>12. req'[r].user = u
  BY <1>1
<1>13. QED
  BY <1>8, <1>9, <1>10, <1>11, <1>12, Zenon DEF ForgivenFor

\* A request comes, or a moderator or the clock steps.
LEMMA ForgivenStays ==
    ASSUME PostInv, TriesBase, IsFiniteSet(Arrived)', NEW r \in Requests,
           Forgiven(r)', NEW u \in Users, u = req'[r].user, CountKept,
           Aside \/ \E s \in Requests, f \in Forms : Comes(s, f)
    PROVE  /\ Forgiven(r) /\ req[r].user = u
           /\ ForgivenFor(r, Cardinality(Since(r))) => ForgivenFor(r, Cardinality(Since(r)))'
<1>1. /\ Forgiven(r) /\ req'[r] = req[r]
      /\ Answered \subseteq Answered'
      /\ \A p \in Answered : req'[p] = req[p]
      /\ \A p \in Mine(u)' : \/ p \in Mine(u) /\ req'[p] = req[p]
                             \/ req'[p].pc \in {"answered", "referer", "address"}
  <2>1. CASE Aside
    BY <2>1 DEF Aside, Forgiven, InTopics, Answered, Mine
  <2>2. CASE \E s \in Requests, f \in Forms : Comes(s, f)
    <3>0. PICK s \in Requests, f \in Forms : Comes(s, f)
      BY <2>2
    <3>1. /\ s # r /\ \A p \in Requests \ {s} : req'[p] = req[p]
      BY <3>0 DEF Comes, Others, Forgiven, InTopics
    <3>2. topics' = topics /\ s \notin Answered /\ req'[s].pc \in {"answered", "referer", "address"}
      BY <3>0, ComesFacts DEF Comes
    <3>3. QED
      BY <3>1, <3>2 DEF Forgiven, InTopics, Answered, Mine
  <2>3. QED
    BY <2>1, <2>2
<1>2. Since(r) \subseteq Since(r)'
  BY <1>1 DEF Since, Follows, Answered
<1>3. PICK n, m : n = Cardinality(Since(r)) /\ m = Cardinality(Since(r))'
  OBVIOUS
<1>4. n \in Nat /\ m \in Nat /\ n <= m /\ MaxRolls \in Nat
  <2>1. Since(r)' \subseteq Arrived'
    BY DEF Since, Answered, Arrived, At
  <2>2. IsFiniteSet(Since(r)')
    BY <2>1, FS_Subset
  <2>3. QED
    BY <1>2, <1>3, <2>2, FS_Subset, FS_CardinalityType, PostAPIAssumption
<1>5. ASSUME ForgivenFor(r, n) PROVE ForgivenFor(r, m)'
  <2>1. ForgivenFor(r, m)
    BY <1>4, <1>5, ForgivenMore
  <2>2. \A e \in Range(KbadUsers') : e[1] = u => e[2] <= m
    BY <1>1, <2>1, Zenon DEF ForgivenFor, CountKept
  <2>3. \A p \in Mine(u) : /\ p # r /\ req[p].pc = "challenge" => req[p].count <= m + 1
                           /\ p # r /\ req[p].pc = "block user" => MaxRolls <= m
    BY <1>1, <2>1, Zenon DEF ForgivenFor
  <2>4. \A p \in Mine(u)' : /\ p # r /\ req'[p].pc = "challenge" => req'[p].count <= m + 1
                            /\ p # r /\ req'[p].pc = "block user" => MaxRolls <= m
    BY <1>1, <2>3
  <2>5. Mine(req[r].user)' = Mine(u)'
    BY DEF Mine
  <2>6. QED
    BY <2>2, <2>4, <2>5, Zenon DEF ForgivenFor
<1>6. ForgivenFor(r, n) <=> ForgivenFor(r, Cardinality(Since(r)))
  BY <1>3
<1>7. ForgivenFor(r, m)' <=> ForgivenFor(r, Cardinality(Since(r)))'
  BY <1>3 DEF ForgivenFor
<1>8. QED
  BY <1>1, <1>5, <1>6, <1>7

LEMMA ForgivenStep ==
    ASSUME PostInv, TriesBase, ForgivenInv, [Next]_vars
    PROVE  ForgivenInv'
<1>1. /\ TriesBase' /\ Known \subseteq Known'
      /\ Aside => CountKept
      /\ \A r \in Requests, f \in Forms : Comes(r, f) => CountKept
      /\ \A r \in Requests : Moved(r) /\ Ways(r) => CountMoves(r)
  BY TriesBaseStep
<1>2. IsFiniteSet(Arrived)'
  BY <1>1 DEF TriesBase
<1>3. ASSUME NEW r \in Requests, Forgiven(r)', NEW u \in Users, u = req'[r].user, InTurn(Mine(u))'
      PROVE  ForgivenFor(r, Cardinality(Since(r)))'
  <2>1. InTurn(Mine(u))
    BY <1>3, InTurnBack DEF TriesBase
  <2>2. ASSUME Forgiven(r), req[r].user = u PROVE ForgivenFor(r, Cardinality(Since(r)))
    <3>1. InTurn(Mine(req[r].user))
      BY <2>1, <2>2
    <3>2. QED
      BY <1>3, <2>2, <3>1, Zenon DEF ForgivenInv, ForgivenFor
  <2>3. PICK n, m : n = Cardinality(Since(r)) /\ m = Cardinality(Since(r))'
    OBVIOUS
  <2>4. ForgivenFor(r, m)' <=> ForgivenFor(r, Cardinality(Since(r)))'
    BY <2>3 DEF ForgivenFor
  <2>5. ASSUME NEW s \in Requests, Step(s), Moved(s), Ways(s), s # r
        PROVE  ForgivenFor(r, m)'
    <3>1. Forgiven(r) /\ req[r].user = u
      BY <1>3, <2>5 DEF Moved, Others, Forgiven
    <3>2. ForgivenFor(r, n)
      BY <2>2, <2>3, <3>1
    <3>3. CountMoves(s)
      BY <1>1, <2>5
    <3>4. QED
      BY <1>1, <1>2, <1>3, <2>1, <2>3, <2>5, <3>1, <3>2, <3>3, ForgivenOther
  <2>6. ASSUME Step(r), Moved(r), Ways(r)
        PROVE  ForgivenFor(r, m)'
    <3>1. CountMoves(r)
      BY <1>1, <2>6
    <3>2. Since(r) = {} /\ Since(r)' = {}
      <4>1. /\ r \notin Answered /\ \A p \in Requests : Follows(p, r)' <=> Follows(p, r)
        BY <2>6, MovedFacts DEF Follows
      <4>2. \A p \in Requests : ~ Follows(p, r)
        BY <4>1 DEF TriesBase, FollowsInv
      <4>3. QED
        BY <4>1, <4>2 DEF Since, Answered
    <3>3. n = m
      BY <2>3, <3>2
    <3>4. ASSUME Forgiven(r) PROVE ForgivenFor(r, m)
      <4>1. req[r].user = u
        <5>1. req[r].pc # "referer"
          BY <3>4 DEF Forgiven, PostInv, Honest
        <5>2. QED
          BY <1>3, <2>6, <5>1 DEF Moved
      <4>2. QED
        BY <2>2, <2>3, <3>3, <3>4, <4>1
    <3>5. QED
      BY <1>3, <2>1, <2>6, <3>1, <3>4, ForgivenSelf
  <2>7. ASSUME Aside \/ \E s \in Requests, f \in Forms : Comes(s, f)
        PROVE  ForgivenFor(r, Cardinality(Since(r)))'
    <3>1. CountKept
      BY <1>1, <2>7
    <3>2. QED
      BY <1>2, <1>3, <2>2, <2>7, <3>1, ForgivenStays
  <2>8. QED
    BY <2>4, <2>5, <2>6, <2>7, NextCases
<1>4. ASSUME NEW r \in Requests, Forgiven(r)', (req[r].user)' \in Users, InTurn(Mine(req[r].user))'
      PROVE  ForgivenFor(r, Cardinality(Since(r)))'
  <2>1. PICK u : u \in Users /\ u = req'[r].user
    BY <1>4
  <2>2. InTurn(Mine(u))'
    BY <1>4, <2>1 DEF Mine
  <2>3. QED
    BY <1>3, <1>4, <2>1, <2>2
<1>5. QED
  BY <1>4, Zenon DEF ForgivenInv, ForgivenFor

LEMMA ForgivenInit == Init => ForgivenInv
<1> SUFFICES ASSUME Init, NEW r \in Requests PROVE ~ Forgiven(r)
  BY DEF ForgivenInv
<1>1. req[r].pc = "new" /\ ~ InTopics(topics, r)
  BY OldTopicsAssumption DEF Init, InTopics, OldPosts, Fresh
<1>2. QED
  BY <1>1 DEF Forgiven

\* THEOREM.  Every step keeps the invariant of those who have passed.
THEOREM ForgivenInvariant == Spec => []ForgivenInv
<1>1. TriesInv => TriesBase
  BY DEF TriesInv
<1>2. PostInv /\ TriesInv /\ ForgivenInv /\ [Next]_vars => ForgivenInv'
  BY <1>1, ForgivenStep
<1>3. QED
  BY <1>2, ForgivenInit, PostInvariant, TriesInvariant, PTL DEF Spec

\* THEOREM.  What a user has failed before a post counts no more: of requests
\* that come in turn, MaxRolls must fail after it before one blocks the ID
\* (handle_newpost.go:86-127).
THEOREM PassedUsersAreForgiven == Spec => []PassedIsForgiven
<1>1. ASSUME PostInv, TriesBase, ForgivenInv, NEW r \in Requests, NEW q \in Requests,
             Follows(q, r), req[q].user = req[r].user, Posted(r), At(q, "block user"),
             InTurn({p \in Requests : req[p].user = req[r].user})
      PROVE  Cardinality({p \in Requests : Follows(p, r) /\ Follows(q, p)}) >= MaxRolls
  <2> DEFINE u == req[r].user
             S == {p \in Requests : Follows(p, r) /\ Follows(q, p)}
  <2>1. InTopics(topics, r) /\ Forgiven(r)
    BY <1>1 DEF Posted, InTopics, Forgiven
  <2>2. InTurn(Mine(u)) /\ q \in Mine(u) /\ r \in Mine(u) /\ q # r /\ q \notin Answered
    BY <1>1 DEF Mine, TriesBase, FollowsInv, At, Answered
  <2>3. u \in Users
    <3>1. Asked(r) \in Forms /\ Asked(q) \in Forms
      BY <1>1, <2>1 DEF TriesBase, FollowsInv, PostInv, ReqType, Asked, Arrived, At, Answered
    <3>2. Asked(r) \in Form /\ Asked(q) \in Form
      BY <3>1, PostAPIAssumption
    <3>3. u # NoUser /\ (u = Asked(r).user \/ u = r) /\ (u = Asked(q).user \/ u = q)
      BY <1>1, <2>1 DEF TriesBase, UserInv, At, Inside, FollowsInv, Answered
    <3>4. Asked(r).user \in Users \cup {NoUser} /\ Asked(q).user \in Users \cup {NoUser}
      BY <3>2 DEF Form
    <3>5. QED
      BY <2>2, <3>3, <3>4
  <2>4. MaxRolls <= Cardinality(Since(r))
    <3>1. q \in Mine(req[r].user) /\ q # r /\ req[q].pc = "block user"
      BY <1>1, <2>2 DEF At
    <3>2. QED
      BY <1>1, <2>1, <2>2, <2>3, <3>1, Zenon DEF ForgivenInv
  <2>5. Since(r) \subseteq S
    <3>1. ASSUME NEW p \in Since(r) PROVE p \in S
      <4>1. p \in Answered /\ Follows(p, r) /\ p \in Mine(u) /\ p \in Requests
        BY <3>1 DEF Since, Mine, Answered
      <4>2. p # q
        BY <2>2, <4>1
      <4>3. Follows(q, p)
        BY <1>1, <2>2, <4>1, <4>2, OthersAnswered DEF TriesBase
      <4>4. QED
        BY <4>1, <4>3
    <3>2. QED
      BY <3>1
  <2>6. S \subseteq Arrived
    BY <1>1 DEF TriesBase, FollowsInv
  <2>7. /\ IsFiniteSet(S) /\ Cardinality(S) \in Nat /\ Cardinality(Since(r)) <= Cardinality(S)
        /\ Cardinality(Since(r)) \in Nat
    <3>1. IsFiniteSet(S)
      BY <1>1, <2>6, FS_Subset DEF TriesBase
    <3>2. QED
      BY <2>5, <3>1, FS_Subset, FS_CardinalityType
  <2>8. QED
    BY <2>4, <2>7, PostAPIAssumption
<1>2. PostInv /\ TriesInv /\ ForgivenInv => PassedIsForgiven
  BY <1>1 DEF PassedIsForgiven, TriesInv
<1>3. QED
  BY <1>2, PostInvariant, TriesInvariant, ForgivenInvariant, PTL
=============================================================================
