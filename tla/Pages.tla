-------------------------------- MODULE Pages -------------------------------
(***************************************************************************)
(* What the pages of the forum show: the posts of a topic (handler.Topic), *)
(* where the link of a post leads (handler.Post) and the topics of a list  *)
(* (handler.Topics, Store.GetTopics).                                      *)
(***************************************************************************)
EXTENDS Integers, SequencesExt

CONSTANTS
    PostsPerPage, TopicsPerPage

ASSUME PagesAssumption == PostsPerPage \in Nat \ {0} /\ TopicsPerPage \in Nat \ {0}

\* Wrong: a last page that is not full is not counted.
intdivfloor(a, b) == a \div b

intdivceil(a, b) == (a + b - 1) \div b

AtLeast1(p) == IF p < 1 THEN 1 ELSE p
AtMost(p, pages) == IF p > pages THEN pages ELSE p

----------------------------------------------------------------------------
(* A topic of n posts, by their IDs.                                       *)

\* The posts of page p; from the second page on the first post leads them.
TopicPage(n, p) ==
    LET q == AtMost(AtLeast1(p), intdivceil(n, PostsPerPage))
        posts == SubSeq([i \in 1..n |-> i], (q - 1) * PostsPerPage + 1, AtMost(q * PostsPerPage, n))
    IN  IF q = 1 THEN posts ELSE <<1>> \o posts

\* The page that the link of a post leads to
PageOfLink(id) == intdivceil(id, PostsPerPage)

----------------------------------------------------------------------------
(* The list of the topics, each with the kind of its subject.              *)

\* A turn of GetTopics' loop: topic i is at place i - 1.
AddTopic(res, kinds, i, start, length, kind) ==
    IF i > start /\ Len(res) < length /\ kinds[i] = kind THEN Append(res, i) ELSE res

\* The places of the topics that GetTopics gives: those from start on that
\* pass the filter, at most length of them.
GetTopics(kinds, start, length, kind) ==
    FoldLeft(LAMBDA res, i : AddTopic(res, kinds, i, start, length, kind),
             <<>>, [i \in DOMAIN kinds |-> i])

ListPage(kinds, p, kind) ==
    GetTopics(kinds, (AtLeast1(p) - 1) * TopicsPerPage, TopicsPerPage, kind)

\* LiveTopicsNum counts the topics of every kind.
ListPages(kinds) == intdivceil(Len(kinds), TopicsPerPage)

----------------------------------------------------------------------------
(* Properties.                                                             *)

\* The link of a post leads to the one page of the topic that shows it, each
\* post once and in order; only the first post is on every page.
LinkShowsPost(n, id) ==
    /\ PageOfLink(id) \in 1..intdivceil(n, PostsPerPage)
    /\ \A p \in 1..intdivceil(n, PostsPerPage) :
          LET posts == TopicPage(n, p)
          IN  /\ id = 1 \/ (id \in Range(posts) <=> p = PageOfLink(id))
              /\ posts[1] = 1
              /\ \A i, j \in DOMAIN posts : i < j => posts[i] < posts[j]

\* Every topic of the kind that a list shows is on one of its pages.
TopicsListed(kinds, kind) ==
    \A i \in DOMAIN kinds : kinds[i] = kind =>
        \E p \in 1..ListPages(kinds) : i \in Range(ListPage(kinds, p, kind))

\* No topic is on two pages of a list.
NoTopicTwice(kinds, kind) ==
    \A p, q \in 1..ListPages(kinds) :
        Range(ListPage(kinds, p, kind)) \cap Range(ListPage(kinds, q, kind)) # {} => p = q
=============================================================================
