------------------------------- MODULE LongID -------------------------------
(***************************************************************************)
(* The number that names a post in links and moderation commands           *)
(* (Post.LongID and SplitID in server/struct.go).  A topic ID and a post   *)
(* ID are packed in one number, in one of four layouts so that the first   *)
(* posts of a topic get short numbers; bits 9 and 4 of the number tell     *)
(* the layouts apart.                                                      *)
(*                                                                         *)
(* Shifts and masks are products, quotients and remainders of powers of    *)
(* two.  The conversions to uint32 and uint16 are remainders: a number     *)
(* taken from a request need not be one that LongID makes.                 *)
(***************************************************************************)
EXTENDS Integers

CONSTANT
    TopicRange      \* 2^32, the number of values of a uint32

\* A uint32 has whole groups of six bits and two more; only this is used.
ASSUME TopicRangeAssumption ==
    /\ TopicRange \in Nat \ {0}
    /\ TopicRange % 64 = 0

PostRange == 65536          \* the number of values of a uint16

TopicID == 0..(TopicRange - 1)
MaxPostID == 4095           \* LongID panics on 0 and from 1 << 12 on
PostID == 1..MaxPostID

\* Wrong: the 17th post is still given the layout of the posts before it.
LongIDOneLayoutOff(t, id) ==
    LET p == id - 1
    IN  IF p < 4   THEN (t \div 64) * 1024 + ((t \div 4) % 16) * 32 + (t % 4) * 4 + p
        ELSE IF p <= 16  THEN (t \div 16) * 1024 + (t % 16) * 32 + 16 + p
        ELSE IF p < 256 THEN t * 1024 + 512 + (p \div 16) * 32 + (p % 16)
        ELSE t * 16384 + (p \div 256) * 1024 + 512 + ((p \div 16) % 16) * 32 + 16 + (p % 16)

PackLongID(t, id) ==
    LET p == id - 1
    IN  IF p < 4   THEN (t \div 64) * 1024 + ((t \div 4) % 16) * 32 + (t % 4) * 4 + p
        ELSE IF p < 16  THEN (t \div 16) * 1024 + (t % 16) * 32 + 16 + p
        ELSE IF p < 256 THEN t * 1024 + 512 + (p \div 16) * 32 + (p % 16)
        ELSE t * 16384 + (p \div 256) * 1024 + 512 + ((p \div 16) % 16) * 32 + 16 + (p % 16)

UInt32(n) == n % TopicRange
UInt16(n) == n % PostRange

SplitTopic(x) ==
    LET b9 == (x \div 512) % 2
        b4 == (x \div 16) % 2
    IN  IF b9 = 0 /\ b4 = 0
        THEN UInt32(UInt32(x \div 1024) * 64 + ((x \div 32) % 16) * 4 + ((x \div 4) % 4))
        ELSE IF b9 = 0 THEN UInt32(UInt32(x \div 1024) * 16 + ((x \div 32) % 16))
        ELSE IF b4 = 0 THEN UInt32(x \div 1024)
        ELSE UInt32(x \div 16384)

SplitPost(x) ==
    LET b9 == (x \div 512) % 2
        b4 == (x \div 16) % 2
    IN  IF b9 = 0 /\ b4 = 0 THEN UInt16((x % 4) + 1)
        ELSE IF b9 = 0 THEN UInt16((x % 16) + 1)
        ELSE IF b4 = 0 THEN UInt16(((x \div 32) % 16) * 16 + (x % 16) + 1)
        ELSE UInt16(((x \div 1024) % 16) * 256 + ((x \div 32) % 16) * 16 + (x % 16) + 1)

\* A number is split into the IDs that it was made of, in all four layouts
\* and at their boundaries: no link or command reaches another post.
RoundTrip(t, id) ==
    /\ SplitTopic(PackLongID(t, id)) = t
    /\ SplitPost(PackLongID(t, id)) = id
=============================================================================
