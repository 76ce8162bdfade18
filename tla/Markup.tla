-------------------------------- MODULE Markup ------------------------------
(***************************************************************************)
(* Do of markup/markup.go, which turns the text of a post into HTML when   *)
(* it is shown.  It is one pass over the characters that looks ahead by    *)
(* three, and goes back: what was written since a "[" is cut off and       *)
(* written again once it is known to be a link or not.                     *)
(*                                                                         *)
(* A text is a sequence of characters and the HTML a sequence of them and  *)
(* of the tags and entities that Do writes, "ref" for the whole <a> of a   *)
(* number.  The <a> of a link has its URL twice, in the attribute, which   *)
(* "'>" ends, and before "</a>".  The character "h" stands for "http://"   *)
(* and "P" for the header of a PGP message, which has spaces.  Do is       *)
(* called with allowHTML and without maxLength (struct.go:76).             *)
(***************************************************************************)
EXTENDS Integers, SequencesExt

Digits == {"0", "1"}
Tick == "tick"
NoRef == -1

isDigit(r) == r \in Digits

\* The character after the ones before i, "" beyond the end
Fetch(in, i) == IF i \in DOMAIN in THEN in[i] ELSE ""

Blank == {" ", "\n"}

\* rxPGP: the header comes first, or after blanks.
IsSigned(in) ==
    \E i \in DOMAIN in : in[i] = "P" /\ \A j \in 1..(i - 1) : in[j] \in Blank

\* The host of a URL ends before the first slash, or the query.
HostEnd(text) ==
    LET ends == {i \in DOMAIN text : i > 1 /\ text[i] \in {"/", "?", "h"}}
    IN  IF ends = {} THEN Len(text) + 1 ELSE Min(ends)

\* It begins with "http", and url.Parse accepts it, which takes blanks for
\* the path or the query only, and no new line at all.
IsLink(text) ==
    /\ text # <<>> /\ text[1] = "h"
    /\ Range(SubSeq(text, 1, HostEnd(text) - 1)) \cap {" ", "P"} = {}
    /\ "\n" \notin Range(text)

\* u.String() escapes the path, but not the host, nor the query.
URL(text) ==
    LET path == {i \in HostEnd(text)..Len(text) : "?" \notin Range(SubSeq(text, 1, i))}
    IN  [i \in DOMAIN text |->
            CASE i \in path /\ text[i] = "<" -> "%3C"
              [] i \in path /\ text[i] = ">" -> "%3E"
              [] i \in path /\ text[i] = " " -> "%20"
              [] OTHER -> text[i]]

Escape(text) == [i \in DOMAIN text |-> IF text[i] = "<" THEN "&lt;" ELSE text[i]]

Write(s, token) == [s EXCEPT !.out = Append(@, token)]

\* The number after ">>" has come to its end.
CloseRef(s) ==
    IF s.inRef = NoRef THEN s
    ELSE [Write(s, IF s.inRef = 0 THEN "&gt;&gt;" ELSE "ref") EXCEPT !.inRef = NoRef]

----------------------------------------------------------------------------
(* The cases of the switch.                                                *)

\* The text of a link, which has no brackets, is rendered by Do itself.
RECURSIVE Do(_)

\* Wrong: what was written since the "[" stays.
CutNothing(s) == s.out

CutBack(s) == SubSeq(s.out, 1, s.inLinkPos)

\* No link after all: the "[" and the text after it are written instead.
Reopen(s) ==
    [s EXCEPT !.out = CutBack(s) \o <<"[">> \o Do(s.inLink)]

OpenBracket(s) ==
    LET t == IF s.linking THEN Reopen(s) ELSE s
    IN  IF s.inCode THEN Write(s, "[")
        ELSE [t EXCEPT !.linking = TRUE, !.inLink = <<>>, !.inLinkPos = Len(t.out)]

CloseBracket(s) ==
    IF s.inCode \/ ~ s.linking THEN Write(s, "]")
    ELSE LET t == IF IsLink(s.inLink)
                  THEN [s EXCEPT !.out = CutBack(s) \o <<"<a>">> \o URL(s.inLink) \o <<"'>">>
                                           \o URL(s.inLink) \o <<"</a>">>]
                  ELSE Write(Reopen(s), "]")
         IN  [t EXCEPT !.linking = FALSE]

Ticks(s, in, i) ==
    LET t == IF s.linking THEN [Reopen(s) EXCEPT !.linking = FALSE] ELSE s
        three == Fetch(in, i + 1) = Tick /\ Fetch(in, i + 2) = Tick
    IN  IF ~ three THEN Write(t, Tick)
        ELSE IF Fetch(in, i + 3) = Tick /\ t.inCode = t.inCodeHTML
        THEN [t EXCEPT !.inCode = ~ @, !.inCodeHTML = ~ @, !.ignore = 3]
        ELSE [Write(t, IF t.inCode THEN "</code>" ELSE "<code>")
                EXCEPT !.inCode = ~ @, !.ignore = 2]

Switch(s, in, i) ==
    LET r == in[i]
        next(k) == Fetch(in, i + k)
    IN  CASE r = " "  -> Write(s, IF s.inCode THEN " " ELSE "&nbsp;")
          [] r = "\n" -> IF s.inCode THEN Write(s, "\n")
                         ELSE IF s.out # <<>> /\ Last(s.out) = "<hr>" THEN s
                         ELSE Write(s, "<br>")
          [] r = "<"  -> Write(s, IF s.inCodeHTML THEN "<" ELSE "&lt;")
          [] r = ">"  -> IF s.inCodeHTML THEN Write(s, ">")
                         ELSE IF next(1) = ">" /\ isDigit(next(2)) /\ ~ s.inCode
                         THEN [s EXCEPT !.inRef = 0, !.ignore = 1]
                         ELSE Write(s, "&gt;")
          [] r = "["  -> OpenBracket(s)
          [] r = "]"  -> CloseBracket(s)
          [] r = "="  -> IF next(1) = r /\ next(2) = r /\ next(3) = r /\ ~ s.inCode
                         THEN [Write(s, "<hr>") EXCEPT !.ignore = 3]
                         ELSE Write(s, r)
          [] r = Tick -> Ticks(s, in, i)
          [] OTHER    -> Write(s, r)

\* A turn of the loop: the character goes to the text of the link, may be
\* one that was looked ahead to, may be a digit of the number after ">>".
Turn(s, in, i) ==
    LET r == in[i]
        t == IF s.linking /\ r \notin {"]", "[", Tick}
             THEN [s EXCEPT !.inLink = Append(@, r)] ELSE s
    IN  IF t.ignore > 0 THEN [t EXCEPT !.ignore = @ - 1]
        ELSE IF t.inRef # NoRef /\ isDigit(r)
        THEN [t EXCEPT !.inRef = @ * 10 + (IF r = "0" THEN 0 ELSE 1)]
        ELSE Switch(CloseRef(t), in, i)

\* What is open at the end of the text
Finish(s) ==
    LET code == IF s.inCode /\ ~ s.inCodeHTML THEN Write(s, "</code>") ELSE s
        link == IF s.linking THEN Reopen(code) ELSE code
    IN  IF s.inRef > 0 THEN Write(link, "ref").out ELSE link.out

Do(in) ==
    IF IsSigned(in) THEN <<"<code>">> \o Escape(in) \o <<"</code>">>
    ELSE Finish(FoldLeft(LAMBDA s, i : Turn(s, in, i),
                         [out |-> <<>>, inCode |-> FALSE, inCodeHTML |-> FALSE, inRef |-> NoRef,
                          linking |-> FALSE, inLink |-> <<>>, inLinkPos |-> 0, ignore |-> 0],
                         [i \in DOMAIN in |-> i]))

----------------------------------------------------------------------------
(* Properties.                                                             *)

\* reMessage (handle_newpost.go:142) leaves three ticks of a longer run.
Posted(text) == \A i \in DOMAIN text : \E k \in 0..3 : Fetch(text, i + k) # Tick

Tags(html) == SelectSeq(html, LAMBDA token : token \in {"<code>", "</code>"})

\* The token is part of a link.
InLink(html, i) ==
    \E j \in 1..(i - 1) : html[j] = "<a>" /\ "</a>" \notin Range(SubSeq(html, j, i))

\* Whatever ticks, brackets and numbers a posted text mixes: every <code> is
\* closed before the next one is opened and before the post ends, none is open
\* in a link, and no "<" of the text becomes a tag, but in a URL.
CodeIsClosed(text) ==
    Posted(text) =>
        LET html == Do(text)
            tags == Tags(html)
        IN  /\ \A i \in DOMAIN html : html[i] = "<" => InLink(html, i)
            /\ \A i \in DOMAIN html : html[i] = "<a>" => Len(Tags(SubSeq(html, 1, i))) % 2 = 0
            /\ Len(tags) % 2 = 0
            /\ \A i \in DOMAIN tags : tags[i] = IF i % 2 = 1 THEN "<code>" ELSE "</code>"

\* "x = u.String()" is written between tags as it is (markup.go:165-169):
\* no "<" of the text is left in what is shown.
LinksAreEscaped(text) == Posted(text) => "<" \notin Range(Do(text))

HasLink(html) == "<a>" \in Range(html)
Letters(s) == SelectSeq(s, LAMBDA c : c \in {"a", "b", "h", "/", "P", "[", "]"})

\* Cutting off and writing again neither loses nor repeats a letter or a
\* bracket of a text without links.
TextIsKept(text) ==
    Posted(text) /\ ~ HasLink(Do(text)) => Letters(Do(text)) = Letters(text)

\* A number after ">>" is shown once, in the place of its digits.
NumbersAreKept(text) ==
    LET html == Do(text)
        numbers == {i \in DOMAIN text : isDigit(text[i]) /\ i > 2 /\ text[i - 1] = ">" /\ text[i - 2] = ">"}
    IN  Posted(text) /\ Tags(html) = <<>> /\ ~ HasLink(html) =>
            Len(SelectSeq(html, LAMBDA token : token = "ref")) = Cardinality(numbers)
=============================================================================
