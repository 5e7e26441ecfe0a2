---------------------------- MODULE MCSspParser ----------------------------
(* Inputs of SspParser for TLC. *)
EXTENDS SspParser

\* Text with "<" and "%>" in it; code and expressions with strings and character
\* literals that hold what would end a block.  The parser does not look at the
\* first byte of a block, so that none of them starts with a string.
Segments ==
    [kind : {"html"},
     body : {<<"a">>, <<"<", "a">>, <<"a", "<", "a">>, <<"<", "<", "a">>, <<"%", ">">>}]
    \cup
    [kind : {"code"},
     body : {<<"a">>, <<"a", "\"", "%", ">", "\"">>, <<"a", "'", "%", "'">>,
             <<"a", "\"", "'", "\"">>, <<"a", "\\", "a">>, <<"a", "\"", "\\", "\\", "\"">>}]
    \cup
    [kind : {"exp"},
     body : {<<"a">>, <<"%">>, <<"a", "\"", "%", "\"">>, <<"a", "'", "\"", "'">>}]

\* Pages of up to three segments; two texts in a row are one text.
SmallPages ==
    {p \in UNION {[1 .. n -> Segments] : n \in 1 .. 3} :
        \A i \in 1 .. Len(p) - 1 : ~(p[i].kind = "html" /\ p[i + 1].kind = "html")}

\* Any five bytes, and a script that starts with a byte order mark.
Short == UNION {[1 .. n -> Bytes \ {"EF", "BB", "BF"}] : n \in 0 .. 5}

\* The page that grows the most for its size, up to twelve times over, with and
\* without text at its end; and a long text.
Dense == <<"a", "<", "%", "=", "a", "%", ">">>
Long == {[i \in 1 .. 7 * n + e |-> Dense[((i - 1) % 7) + 1]] : n \in 1 .. 12, e \in {0, 1}}
        \cup {[i \in 1 .. 30 |-> "a"]}

\* What follows a syntax error, in a block and in an expression.
Broken == {<<"<", "%">> \o b \o s : b \in {<<"a", "%", "a">>, <<"=", "a", "%", "a">>},
                                    s \in {<<"a">>, <<"%", ">", "a">>}}

SmallRaw == Short \cup Long \cup Broken \cup {Bom \o s : s \in {<<>>, <<"a">>}}

=============================================================================
