----------------------------- MODULE SspParser -----------------------------
(***************************************************************************)
(* The script parsers of src/core/ngx_squ_parser.c, which turn thr->ssp     *)
(* into the source of one function in thr->buf: "default" wraps the script, *)
(* "ssp" turns a page of text with <% code %> and <%= expression %> blocks  *)
(* into calls of print.  One step handles one byte, as the loop of          *)
(* ngx_squ_parse_ssp does.  thr->buf is what ngx_squ_load_script made:      *)
(* four times the script, or a page of memory; the parser never looks at    *)
(* its end.                                                                 *)
(***************************************************************************)
EXTENDS Naturals, Sequences, SequencesExt

CONSTANTS
    PageSize,  \* ngx_pagesize
    Pages,     \* pages, as sequences of segments that can be told apart, to be parsed as "ssp"
    Raw        \* byte sequences, to be parsed as either

\* The bytes the parsers tell apart; "a" stands for all the others.
Bytes == {"<", "%", ">", "=", "'", "\"", "\\", "a", "EF", "BB", "BF"}

\* The literals that are put around the bytes, and their lengths.
FunctionStart == 20  \* return function() {
FunctionEnd   == 2
PrintStart    == 9   \* print(@"
PrintEnd      == 4
ExpStart      == 7   \* print(
ExpEnd        == 3

Width(piece) ==
    CASE piece = "FunctionStart" -> FunctionStart
      [] piece = "FunctionEnd"   -> FunctionEnd
      [] piece = "PrintStart"    -> PrintStart
      [] piece = "PrintEnd"      -> PrintEnd
      [] piece = "ExpStart"      -> ExpStart
      [] piece = "ExpEnd"        -> ExpEnd
      [] OTHER                   -> 1

Literals == {"FunctionStart", "FunctionEnd", "PrintStart", "PrintEnd",
             "ExpStart", "ExpEnd"}

\* A page as its author sees it: text, code and expressions.
Render(seg) ==
    CASE seg.kind = "html" -> seg.body
      [] seg.kind = "code" -> <<"<", "%">> \o seg.body \o <<"%", ">">>
      [] seg.kind = "exp"  -> <<"<", "%", "=">> \o seg.body \o <<"%", ">">>
Source(page) == FlattenSeq([i \in DOMAIN page |-> Render(page[i])])

\* Text has no "<%" in it, and no "<" at its end to make one of the next block; nor a
\* quotation mark, which the parser copies as it is and which ends print(@"...": that
\* form of string knows no other escape than the mark twice.
Text(body) ==
    /\ body[Len(body)] # "<"
    /\ \A i \in 1 .. Len(body) : body[i] # "\""
    /\ \A i \in 1 .. Len(body) - 1 : ~(body[i] = "<" /\ body[i + 1] = "%")

\* How an author reads a block: esc[i] says that byte i is a backslash that takes
\* the next byte with it, and open[i] is the quotation mark of the string that is
\* open behind byte i.  The first byte opens nothing, and no quotation mark and no
\* "%" has a backslash in front of it.
Escapes(body, esc) ==
    /\ ~esc[1] /\ ~esc[Len(body)]
    /\ \A i \in 1 .. Len(body) - 1 :
          /\ esc[i + 1] = (body[i + 1] = "\\" /\ ~esc[i])
          /\ esc[i] => body[i + 1] \notin {"'", "\"", "%"}
Strings(body, open) ==
    /\ open[1] = "none" /\ open[Len(body)] = "none"
    /\ \A i \in 1 .. Len(body) - 1 :
          /\ body[i + 1] = "%" => open[i] # "none"
          /\ open[i + 1] = IF body[i + 1] \notin {"'", "\""} THEN open[i]
                           ELSE IF open[i] = "none" THEN body[i + 1]
                           ELSE IF open[i] = body[i + 1] THEN "none"
                           ELSE open[i]
Block(body) ==
    /\ \E esc \in [1 .. Len(body) -> BOOLEAN] : Escapes(body, esc)
    /\ \E open \in [1 .. Len(body) -> {"none", "'", "\""}] : Strings(body, open)

\* A page the segments of which can be told apart: two texts in a row are one, and
\* a "%" in a block is in a string.
Readable(p) ==
    /\ p \in Seq([kind : {"html", "code", "exp"}, body : Seq(Bytes) \ {<<>>}])
    /\ \A i \in 1 .. Len(p) - 1 : ~(p[i].kind = "html" /\ p[i + 1].kind = "html")
    /\ \A i \in 1 .. Len(p) :
          \/ p[i].kind = "html" /\ Text(p[i].body)
          \/ p[i].kind = "code" /\ Block(p[i].body) /\ p[i].body[1] # "="
          \/ p[i].kind = "exp" /\ Block(p[i].body)

ASSUME ParserAssumption ==
    /\ PageSize \in Nat
    /\ Raw \subseteq Seq(Bytes)
    /\ \A p \in Pages : Readable(p) /\ Source(p) \in Seq(Bytes)

VARIABLES
    parser,     \* which parser the script is configured with
    page,       \* the page src is the source of, or <<>>
    src,        \* thr->ssp
    pos,        \* bytes of it that have been handled
    state,      \* state of the ssp parser
    html,       \* html_start != NULL
    backslash, dquoted, squoted,
    out,        \* what was written to thr->buf, as bytes and literals
    len,        \* its length
    done        \* the parser has returned NGX_OK

quoting == <<backslash, dquoted, squoted>>
vars == <<parser, page, src, pos, state, html, quoting, out, len, done>>

States == {"start", "html_block", "squ_start", "squ_block_start", "squ_block",
           "squ_block_end", "squ_exp_block_start", "squ_exp_block",
           "squ_exp_block_end", "error"}

Init ==
    /\ \/ parser = "ssp" /\ page \in Pages /\ src = Source(page)
       \/ parser \in {"ssp", "default"} /\ page = <<>> /\ src \in Raw
    /\ pos = 0 /\ state = "start" /\ html = FALSE
    /\ backslash = FALSE /\ dquoted = FALSE /\ squoted = FALSE
    /\ out = <<"FunctionStart">> /\ len = FunctionStart
    /\ done = FALSE

-----------------------------------------------------------------------------
(* ngx_squ_parse_ssp                                                        *)

\* n bytes are written, as these pieces.
Emit(pieces, n) == out' = out \o pieces /\ len' = len + n
EmitNothing == UNCHANGED <<out, len>>

Goto(s) == state' = s

\* The next byte is ch.
Reads(s, ch) ==
    /\ parser = "ssp" /\ state = s
    /\ pos < Len(src) /\ ch = src[pos + 1]
    /\ pos' = pos + 1
    /\ UNCHANGED <<parser, page, src, done>>

Start(ch) ==
    /\ Reads("start", ch)
    /\ \/ ch = "<" /\ EmitNothing /\ html' = FALSE /\ Goto("squ_start")
       \/ ch # "<" /\ Emit(<<"PrintStart", ch>>, PrintStart + 1)
                   /\ html' = TRUE /\ Goto("html_block")
    /\ UNCHANGED quoting

\* Variant: every byte of text gets a print of its own.
HtmlBlockReprints(ch) ==
    /\ Reads("html_block", ch)
    /\ \/ ch = "<" /\ EmitNothing /\ Goto("squ_start")
       \/ ch # "<" /\ Emit(<<"PrintStart", ch>>, PrintStart + 1) /\ UNCHANGED state
    /\ UNCHANGED <<html, quoting>>

HtmlBlock(ch) ==
    /\ Reads("html_block", ch)
    /\ \/ ch = "<" /\ EmitNothing /\ Goto("squ_start")
       \/ ch # "<" /\ Emit(<<ch>>, 1) /\ UNCHANGED state
    /\ UNCHANGED <<html, quoting>>

\* After "<": a block, or text.
SquStart(ch) ==
    /\ Reads("squ_start", ch)
    /\ \/ ch = "%" /\ EmitNothing /\ Goto("squ_block_start") /\ UNCHANGED html
       \/ /\ ch # "%" /\ html
          /\ Emit(<<"<", ch>>, 2)
          /\ Goto("html_block") /\ UNCHANGED html
       \/ /\ ch # "%" /\ ~html
          /\ Emit(<<"PrintStart", "<", ch>>, PrintStart + 2)
          /\ Goto("html_block") /\ html' = TRUE
    /\ UNCHANGED quoting

\* Variant: the print of the text before a block is not closed.
SquBlockStartOpen(ch) ==
    /\ Reads("squ_block_start", ch)
    /\ IF ch = "=" THEN EmitNothing /\ Goto("squ_exp_block_start")
       ELSE Emit(<<ch>>, 1) /\ Goto("squ_block")
    /\ html' = FALSE
    /\ backslash' = FALSE /\ dquoted' = FALSE /\ squoted' = FALSE

SquBlockStart(ch) ==
    /\ Reads("squ_block_start", ch)
    /\ \/ ch = "=" /\ html  /\ Emit(<<"PrintEnd">>, PrintEnd) /\ Goto("squ_exp_block_start")
       \/ ch = "=" /\ ~html /\ EmitNothing /\ Goto("squ_exp_block_start")
       \/ ch # "=" /\ html  /\ Emit(<<"PrintEnd", ch>>, PrintEnd + 1) /\ Goto("squ_block")
       \/ ch # "=" /\ ~html /\ Emit(<<ch>>, 1) /\ Goto("squ_block")
    /\ html' = FALSE
    /\ backslash' = FALSE /\ dquoted' = FALSE /\ squoted' = FALSE

InString == backslash \/ dquoted \/ squoted

\* Variant: apostrophes do not quote.
QuotesDouble(ch) ==
    /\ dquoted' = IF ch = "\"" THEN ~InString ELSE dquoted
    /\ backslash' = (ch = "\\" /\ ~backslash)
    /\ UNCHANGED squoted

\* What a byte inside a block does to the quoting.
Quotes(ch) ==
    \/ /\ ch = "'" /\ InString
       /\ squoted' = FALSE /\ backslash' = FALSE /\ UNCHANGED dquoted
    \/ ch = "'" /\ ~InString /\ squoted' = TRUE /\ UNCHANGED <<backslash, dquoted>>
    \/ /\ ch = "\"" /\ InString
       /\ dquoted' = FALSE /\ backslash' = FALSE /\ UNCHANGED squoted
    \/ ch = "\"" /\ ~InString /\ dquoted' = TRUE /\ UNCHANGED <<backslash, squoted>>
    \/ ch = "\\" /\ backslash' = ~backslash /\ UNCHANGED <<dquoted, squoted>>
    \/ ch = "%" /\ UNCHANGED quoting
    \/ /\ ch \notin {"'", "\"", "\\", "%"}
       /\ backslash' = FALSE /\ UNCHANGED <<dquoted, squoted>>

\* Inside a block: "%" outside a string may end it.
InBlock(ch, s, end) ==
    /\ Reads(s, ch)
    /\ \/ /\ ch = "%" /\ ~InString
          /\ EmitNothing /\ Goto(end) /\ UNCHANGED quoting
       \/ /\ ~(ch = "%" /\ ~InString)
          /\ Emit(<<ch>>, 1) /\ Quotes(ch) /\ UNCHANGED state
    /\ UNCHANGED html

SquBlock(ch) == InBlock(ch, "squ_block", "squ_block_end")
SquExpBlock(ch) == InBlock(ch, "squ_exp_block", "squ_exp_block_end")

SquBlockEnd(ch) ==
    /\ Reads("squ_block_end", ch)
    /\ Goto(IF ch = ">" THEN "start" ELSE "error")
    /\ EmitNothing
    /\ UNCHANGED <<html, quoting>>

SquExpBlockStart(ch) ==
    /\ Reads("squ_exp_block_start", ch)
    /\ Emit(<<"ExpStart", ch>>, ExpStart + 1)
    /\ Goto("squ_exp_block")
    /\ UNCHANGED <<html, quoting>>

SquExpBlockEnd(ch) ==
    /\ Reads("squ_exp_block_end", ch)
    /\ \/ ch = ">" /\ Emit(<<"ExpEnd">>, ExpEnd) /\ Goto("start")
       \/ ch # ">" /\ EmitNothing /\ Goto("error")
    /\ UNCHANGED <<html, quoting>>

\* After a syntax error the rest of the page is skipped.
Error(ch) ==
    /\ Reads("error", ch)
    /\ EmitNothing
    /\ UNCHANGED <<state, html, quoting>>

\* The end of the page, whatever the state: a print of text is closed, an open
\* expression is not, and a "<" that was the last byte is lost.
Finish ==
    /\ parser = "ssp" /\ pos = Len(src) /\ ~done
    /\ \/ html  /\ Emit(<<"PrintEnd", "FunctionEnd">>, PrintEnd + FunctionEnd)
       \/ ~html /\ Emit(<<"FunctionEnd">>, FunctionEnd)
    /\ done' = TRUE
    /\ UNCHANGED <<parser, page, src, pos, state, html, quoting>>

-----------------------------------------------------------------------------
\* ngx_squ_parse_default: all but a byte order mark is copied.
Bom == <<"EF", "BB", "BF">>
HasBom == Len(src) >= 3 /\ src[1] = Bom[1] /\ src[2] = Bom[2] /\ src[3] = Bom[3]

ParseDefault ==
    /\ parser = "default" /\ ~done
    /\ LET kept == IF HasBom THEN SubSeq(src, 4, Len(src)) ELSE src
       IN Emit(Append(kept, "FunctionEnd"), Len(kept) + FunctionEnd)
    /\ pos' = Len(src) /\ done' = TRUE
    /\ UNCHANGED <<parser, page, src, state, html, quoting>>

Next ==
    \/ \E ch \in Bytes :
          \/ Start(ch) \/ HtmlBlock(ch) \/ SquStart(ch) \/ SquBlockStart(ch)
          \/ SquBlock(ch) \/ SquBlockEnd(ch)
          \/ SquExpBlockStart(ch) \/ SquExpBlock(ch) \/ SquExpBlockEnd(ch)
          \/ Error(ch)
    \/ Finish \/ ParseDefault

Spec == Init /\ [][Next]_vars

\* ngx_squ_load_script: the size of thr->buf.
Cap(size) == IF 4 * size > PageSize THEN 4 * size ELSE PageSize

-----------------------------------------------------------------------------
(* Properties                                                               *)

\* Whatever the script, the parser stays inside thr->buf, the size of which
\* ngx_squ_load_script guessed before it had read a byte of it.
OutputFits == len <= Cap(Len(src))

\* The calls of print that were opened are closed, each before the next and
\* before the function ends, unless the page ends inside an expression.
Marks ==
    LET marks[i \in 0 .. Len(out)] ==
            IF i = 0 THEN <<>>
            ELSE IF out[i] \in Literals \ {"FunctionStart"} THEN Append(marks[i - 1], out[i])
            ELSE marks[i - 1]
    IN marks[Len(out)]
Closes(p, q) ==
    \/ p = "PrintStart" /\ q = "PrintEnd"
    \/ p = "ExpStart" /\ q = "ExpEnd"
PrintsPaired ==
    parser = "ssp" /\ done
    /\ state \notin {"squ_exp_block", "squ_exp_block_end", "error"} =>
        LET m == Marks
        IN /\ Len(m) % 2 = 1 /\ m[Len(m)] = "FunctionEnd"
           /\ \A i \in 1 .. Len(m) \div 2 : Closes(m[2 * i - 1], m[2 * i])

\* A page of text, code and expressions becomes what it says: the text is
\* printed, the code stands as it is and the expressions are printed, also where
\* strings contain what would end a block.  A text is printed as it stands between
\* print(@" and "), having no quotation mark.
Means(seg) ==
    CASE seg.kind = "html" -> <<"PrintStart">> \o seg.body \o <<"PrintEnd">>
      [] seg.kind = "code" -> seg.body
      [] seg.kind = "exp"  -> <<"ExpStart">> \o seg.body \o <<"ExpEnd">>
MeansThePage ==
    page # <<>> /\ done =>
        out = <<"FunctionStart">>
                 \o FlattenSeq([i \in DOMAIN page |-> Means(page[i])])
                 \o <<"FunctionEnd">>

=============================================================================
