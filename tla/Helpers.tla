------------------------------- MODULE Helpers ------------------------------
(***************************************************************************)
(* The parts that share no state with others, as one specification: the    *)
(* numbers of posts, the bytes of records, the pages, the search, each     *)
(* applied to inputs that grow step by step, texts for the markup, and the *)
(* buffer of the logger, a state machine of its own.  An initial state     *)
(* chooses the part.                                                       *)
(***************************************************************************)
EXTENDS LongID, StringCodec, Pages, Search, CircularLog

CONSTANTS
    w1, w2,
    PostIDs,                    \* the boundaries of the layouts
    Characters, MaxText,        \* of a string of a record
    Kinds, MaxTopics, MaxTopicPosts,
    Words, MaxQuery,            \* characters of a search
    Pieces, MaxPieces           \* of a text

\* The inputs are what the functions are called with: IDs of posts, code
\* points from plane 0 that are no surrogates, and a first line at least.
ASSUME HelpersAssumption ==
    /\ PostIDs \subseteq PostID
    /\ Characters \subseteq Character
    /\ Words \subseteq Nat
    /\ {MaxText, MaxTopics, MaxTopicPosts, MaxQuery, MaxPieces} \subseteq Nat

VARIABLES part, input

HelpersInit ==
    /\ Init
    /\ \/ part = "numbers" /\ input \in {<<0, id>> : id \in PostIDs}
       \/ part \in {"strings", "lists", "queries", "texts"} /\ input = <<>>
       \/ part = "topics" /\ input = <<1>>
       \/ part = "logger" /\ input = <<>>

Grow(name, values, max) ==
    /\ part = name
    /\ Len(input) < max
    /\ \E v \in values : input' = Append(input, v)
    /\ UNCHANGED <<part, vars>>

Count(name, max) ==
    /\ part = name
    /\ input[1] < max
    /\ input' = [input EXCEPT ![1] = @ + 1]
    /\ UNCHANGED <<part, vars>>

HelpersNext ==
    \/ Count("numbers", TopicRange - 1)
    \/ Count("topics", MaxTopicPosts)
    \/ Grow("strings", Characters, MaxText)
    \/ Grow("lists", Kinds, MaxTopics)
    \/ Grow("queries", Words, MaxQuery)
    \/ Grow("texts", Pieces, MaxPieces)
    \/ part = "logger" /\ Next /\ UNCHANGED <<part, input>>

HelpersSpec == HelpersInit /\ [][HelpersNext]_<<part, input, vars>>

----------------------------------------------------------------------------
(* Properties.                                                             *)

\* The number of a post leads back to that post (struct.go:107-141).
LongIDRoundTrip == part = "numbers" => RoundTrip(input[1], input[2])

Ascii == 1..127

Recorded(text) == FieldsReadBack(65536 + Len(text), text, Reverse(text), 255)

Checked(text) ==
    \A i \in DOMAIN text :
        /\ \A c \in {1, 64, 127} : DamageIsCaught(text, [text EXCEPT ![i] = c])
        /\ i > 1 => DamageIsCaught(text, [text EXCEPT ![i] = text[i - 1], ![i - 1] = text[i]])

\* A string is read back among other fields, and a string that a byte of was
\* changed, or two bytes of were swapped, is refused (buffer.go:131-212).
StringsReadBack ==
    part = "strings" => Recorded(input) /\ (Range(input) \subseteq Ascii => Checked(input))

\* Every post is where its link leads (handle_topic.go:51-72, 154-157), and
\* every topic is on some page of its list (handle_topic.go:94-145).
PagesShowAll ==
    /\ part = "topics" => \A id \in 1..input[1] : LinkShowsPost(input[1], id)
    /\ part = "lists" => \A kind \in Kinds : TopicsListed(input, kind)

\* Two topics that may contain the query, one whose subject contains it too
Forum(query) ==
    LET post(text) == [message |-> text, asked |-> Len(text) % 2 = 0]
    IN  << [subject |-> query, posts |-> <<post(<<66, 97>>), post(query)>>],
           [subject |-> <<66>>, posts |-> <<post(<<67>> \o query), post(<<97>>), post(query \o query)>>] >>

\* A search gives what contains the query, within the bound it was given
\* (store.go:488-566, util.go:205-256).
SearchGivesMatches ==
    part = "queries" => \A max \in 0..3 : SearchFinds(Forum(input), input, max)
=============================================================================
