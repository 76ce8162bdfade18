----------------------------- MODULE StringCodec ----------------------------
(***************************************************************************)
(* The fields of a log record as bytes (server/buffer.go, crc8.go):        *)
(* numbers with the high byte first, and strings.  In a string a character *)
(* below 128 is one byte; others are gathered in groups, a byte with the   *)
(* top bit and the size of the group, then two bytes for each.  A zero     *)
(* byte and a checksum end it.  There are no lengths: whatever reads a     *)
(* record finds the next field only by reading this one to its end.        *)
(*                                                                         *)
(* A character is its code point and a string a sequence of them.  The     *)
(* bytes of an error or a short file leave the reader in another state     *)
(* than "done".                                                            *)
(***************************************************************************)
EXTENDS Integers, SequencesExt

CONSTANT GroupSize      \* 128, the characters of a full group

ASSUME StringCodecAssumption == GroupSize \in 1..128

Replacement == 65533    \* U+FFFD, which stands for what is not a character
surrogateMin == 55296
surrogateMax == 57343
Surrogates == surrogateMin..surrogateMax
MaxRune == 65535        \* "Plane 0 only" (buffer.go:130)

\* What a string may have: a zero ends it, and a surrogate is no character.
Character == (1..MaxRune) \ Surrogates

High(r) == (r \div 256) % 256
Low(r) == r % 256

----------------------------------------------------------------------------
(* The checksum.                                                           *)

Xor(a, b) ==
    FoldLeft(LAMBDA sum, bit : sum + bit * (((a \div bit) + (b \div bit)) % 2),
             0, <<1, 2, 4, 8, 16, 32, 64, 128>>)

\* The table of crc8.go: eight shifts of its index through the polynomial 7
table8 ==
    [x \in 0..255 |->
        FoldLeft(LAMBDA c, i : IF c >= 128 THEN Xor((2 * c) % 256, 7) ELSE 2 * c,
                 x, <<1, 2, 3, 4, 5, 6, 7, 8>>)]

crc8(v, b) == table8[Xor(v, b)]

----------------------------------------------------------------------------
(* Writing.                                                                *)

WriteUInt32(v) == <<v \div 16777216, (v \div 65536) % 256, High(v), Low(v)>>
WriteUInt16(v) == <<High(v), Low(v)>>

\* Wrong: one more, so that 128 characters do not fit the byte.
GroupByteOneMore(n) == (128 + n) % 256

GroupByte(n) == 128 + n - 1

appendQueue(s) ==
    IF s.queue = <<>> THEN s
    ELSE [s EXCEPT !.out = @ \o <<GroupByte(Len(s.queue) \div 2)>> \o s.queue, !.queue = <<>>]

\* A turn of WriteString's loop
WriteChar(s, r) ==
    IF r < 128 THEN [appendQueue(s) EXCEPT !.out = Append(@, r), !.h = crc8(@, r)]
    ELSE LET t == [s EXCEPT !.queue = @ \o <<High(r), Low(r)>>,
                            !.h = crc8(crc8(@, High(r)), Low(r))]
         IN  IF Len(t.queue) \div 2 = GroupSize THEN appendQueue(t) ELSE t

WriteString(text) ==
    LET s == appendQueue(FoldLeft(WriteChar, [out |-> <<>>, queue |-> <<>>, h |-> 0], text))
    IN  s.out \o <<0, s.h>>

----------------------------------------------------------------------------
(* Reading: one byte at a time, as the states of ReadString's loops.       *)

EncodeRune(n) == IF n \in Surrogates THEN Replacement ELSE n

ReadByte(s, v) ==
    CASE s.at = "char" /\ v = 0   -> [s EXCEPT !.at = "hash"]
      [] s.at = "char" /\ v \in 1..127 ->
            [s EXCEPT !.str = Append(@, v), !.h = crc8(@, v)]
      [] s.at = "char" /\ v > 127 -> [s EXCEPT !.at = "high", !.left = v - 128 + 1]
      [] s.at = "high"            -> [s EXCEPT !.at = "low", !.high = v]
      [] s.at = "low"             ->
            [s EXCEPT !.str = Append(@, EncodeRune(s.high * 256 + v)),
                      !.h = crc8(crc8(@, s.high), v),
                      !.left = @ - 1,
                      !.at = IF s.left = 1 THEN "char" ELSE "high"]
      [] s.at = "hash"            -> [s EXCEPT !.at = IF s.h = v THEN "done" ELSE "invalid"]
      [] s.at \in {"done", "invalid"} -> [s EXCEPT !.rest = Append(@, v)]

\* The string, and the bytes that the next field is read from
ReadString(bytes) ==
    LET s == FoldLeft(ReadByte, [at |-> "char", left |-> 0, high |-> 0, h |-> 0,
                                 str |-> <<>>, rest |-> <<>>], bytes)
    IN  [ok |-> s.at = "done", str |-> s.str, rest |-> s.rest]

ReadUInt32(b) == ((b[1] * 256 + b[2]) * 256 + b[3]) * 256 + b[4]
ReadUInt16(b) == b[1] * 256 + b[2]

----------------------------------------------------------------------------
(* Properties.                                                             *)

Storable(text) == \A i \in DOMAIN text : text[i] \in Character

\* A record of a number, a string, another string and a number gives back
\* what was written, whatever bytes its numbers have and however its
\* characters fall into groups: each field ends where the next one begins.
FieldsReadBack(n, text, text2, m) ==
    LET bytes == WriteUInt32(n) \o WriteString(text) \o WriteString(text2) \o WriteUInt16(m)
        one == ReadString(SubSeq(bytes, 5, Len(bytes)))
        two == ReadString(one.rest)
    IN  Storable(text) /\ Storable(text2) =>
            /\ ReadUInt32(bytes) = n
            /\ one.ok /\ one.str = text
            /\ two.ok /\ two.str = text2
            /\ ReadUInt16(two.rest) = m

\* A string of characters below 128 in which one is changed, or two that
\* follow each other are swapped, is read as errInvalidHash and never as
\* another string.
DamageIsCaught(text, damaged) ==
    LET bytes == WriteString(text)
        body == SubSeq(bytes, 1, Len(text))
        read == ReadString(damaged \o SubSeq(bytes, Len(text) + 1, Len(bytes)))
    IN  damaged # body => ~ read.ok
=============================================================================
