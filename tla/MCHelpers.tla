------------------------------ MODULE MCHelpers -----------------------------
(***************************************************************************)
(* The run of Helpers, and the markup of its texts.                        *)
(***************************************************************************)
EXTENDS Helpers, Markup

\* What is typed as a text, piece by piece
PieceOf ==
    ("ticks" :> <<Tick, Tick, Tick>>) @@ ("ref" :> <<">", ">", "1">>)
    @@ ("rule" :> <<"=", "=", "=", "=">>) @@ ("line" :> <<"\n">>)

Text(pieces) ==
    FlattenSeq([i \in DOMAIN pieces |->
        IF pieces[i] \in DOMAIN PieceOf THEN PieceOf[pieces[i]] ELSE <<pieces[i]>>])

----------------------------------------------------------------------------
(* Properties.                                                             *)

\* A posted text is shown with its code closed, its "<" escaped outside URLs,
\* and its letters kept (markup.go:28-243).
MarkupIsClosed == part = "texts" => CodeIsClosed(Text(input)) /\ TextIsKept(Text(input))
=============================================================================
