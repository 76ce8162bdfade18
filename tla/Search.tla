-------------------------------- MODULE Search ------------------------------
(***************************************************************************)
(* The search of handler.List: stringCompare (server/util.go) and          *)
(* Store.GetPostsBy (server/store.go).  A text matches when more than half *)
(* of the pairs of neighbouring characters of the query occur in it.       *)
(*                                                                         *)
(* A character is its code point.  A topic is a record of its subject and  *)
(* its posts; a post has its message and whether the user or address that  *)
(* is asked for wrote it.                                                  *)
(***************************************************************************)
EXTENDS Integers, FiniteSets, SequencesExt

CONSTANT MaxPairs       \* 128, the pairs of a query that are looked for

ASSUME SearchAssumption == MaxPairs \in Nat

Space == 32
Lower(r) == IF r \in 65..90 THEN r + 32 ELSE r

----------------------------------------------------------------------------
(* stringCompare.                                                          *)

\* Wrong: the half is rounded up, so that a query of one pair needs two.
EnoughHalf(score, n) == 2 * score >= n + 2

Enough(score, n) == score >= n \div 2 + 1

\* A turn of the loop over the query: spaces are left out, and 0 stands before
\* a character that only spaces come before.
AddPair(query, s, i) ==
    IF query[i] = Space \/ Len(s.m) > MaxPairs THEN s
    ELSE [m |-> IF i > 1 THEN Append(s.m, <<s.last, Lower(query[i])>>) ELSE s.m,
          last |-> Lower(query[i])]

Pairs(query) ==
    FoldLeft(LAMBDA s, i : AddPair(query, s, i), [m |-> <<>>, last |-> 0], [i \in DOMAIN query |-> i]).m

\* The places of a text where a pair of the query begins
Score(text, m) ==
    Cardinality({i \in 1..(Len(text) - 1) : <<Lower(text[i]), Lower(text[i + 1])>> \in Range(m)})

stringCompare(text, m) == m # <<>> /\ Enough(Score(text, m), Len(m))

----------------------------------------------------------------------------
(* GetPostsBy, for a query that is not restricted with ">>" or "!!".       *)

Find(s, post, max) ==
    [res |-> IF s.total + 1 <= max THEN Append(s.res, post) ELSE s.res, total |-> s.total + 1]

\* A post is named by its topic and its place.
SearchPost(s, t, i, topic, m, max) ==
    IF m # <<>> /\ i > 1 /\ s.total > max THEN s
    ELSE IF IF m # <<>> THEN stringCompare(topic.posts[i].message, m) ELSE topic.posts[i].asked
    THEN Find(s, <<t, i>>, max) ELSE s

\* A topic whose subject matches is given by its first post.
SearchTopic(s, t, topic, m, max) ==
    IF m # <<>> /\ stringCompare(topic.subject, m) THEN Find(s, <<t, 1>>, max)
    ELSE FoldLeft(LAMBDA acc, i : SearchPost(acc, t, i, topic, m, max),
                  s, [i \in DOMAIN topic.posts |-> i])

\* The topics that the time was enough for are the first ones.
GetPostsBy(topics, query, max, searched) ==
    FoldLeft(LAMBDA s, t : SearchTopic(s, t, topics[t], Pairs(query), max),
             [res |-> <<>>, total |-> 0], [t \in 1..searched |-> t])

----------------------------------------------------------------------------
(* Properties.                                                             *)

Includes(text, query) ==
    \E i \in 0..(Len(text) - Len(query)) :
        \A k \in DOMAIN query : Lower(text[i + k]) = Lower(query[k])

Searchable(query) == Len(query) > 1 /\ Space \notin Range(query)

\* A post that contains the query, in upper or lower case, is given, by its
\* topic when the subject matches too, unless there are more than were asked
\* for; no post is given twice, and never more of them than were asked for.
SearchFinds(topics, query, max) ==
    LET found == GetPostsBy(topics, query, max, Len(topics))
    IN  /\ Len(found.res) <= max /\ Len(found.res) <= found.total
        /\ IsInjective(found.res)
        /\ Searchable(query) /\ found.total <= max =>
              \A t \in DOMAIN topics : \A i \in DOMAIN topics[t].posts :
                 Includes(topics[t].posts[i].message, query) =>
                    \/ <<t, i>> \in Range(found.res)
                    \/ stringCompare(topics[t].subject, Pairs(query)) /\ <<t, 1>> \in Range(found.res)
=============================================================================
