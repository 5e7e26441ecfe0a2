-------------------------- MODULE SspParserProofs --------------------------
(***************************************************************************)
(* That the parsers of SspParser never write past the end of thr->buf,     *)
(* that the calls of print they open are closed in turn, and that a page   *)
(* becomes what it says, for scripts of any length.                        *)
(*                                                                         *)
(* Seven bytes of a page ("a<%=a%>") can become 25 bytes of script, so that *)
(* 7 * len grows by no more than 25 for each byte but for a credit: what a  *)
(* state has already written for bytes it has yet to read.                  *)
(***************************************************************************)
EXTENDS SspParser, Integers, FiniteSetTheorems, SequenceTheorems, WellFoundedInduction, TLAPS

Typed ==
    /\ parser \in {"ssp", "default"}
    /\ src \in Seq(Bytes)
    /\ pos \in Nat /\ pos <= Len(src)
    /\ state \in States
    /\ html \in BOOLEAN /\ done \in BOOLEAN
    /\ len \in Nat

\* A print of text is open only in the states of text and where a block starts.
HtmlStates ==
    /\ html => state \in {"html_block", "squ_start", "squ_block_start"}
    /\ state = "html_block" => html

\* What may have been written ahead in each state, in sevenths of a byte.
Within(credit) == 7 * len <= 7 * FunctionStart + 25 * pos + credit

Slow ==
    /\ state \in {"start", "squ_block_end", "error"} => Within(0)
    /\ state = "html_block" => Within(45)
    /\ state = "squ_start" => Within(20) /\ (html \/ Within(-25))
    /\ state = "squ_block_start" => Within(-5) /\ (html \/ Within(-50))
    /\ state = "squ_block" => Within(5)
    /\ state = "squ_exp_block_start" => Within(-2)
    /\ state = "squ_exp_block" => Within(29)
    /\ state = "squ_exp_block_end" => Within(4)

\* The last of 7 * len: a print of text and the function are closed.
Ended == 7 * len <= 7 * FunctionStart + 25 * Len(src)
                      + 45 + 7 * PrintEnd + 7 * FunctionEnd

IInv ==
    /\ Typed /\ HtmlStates
    /\ ~done /\ parser = "ssp" => Slow
    /\ ~done /\ parser = "default" => len = FunctionStart
    /\ done => Ended /\ pos = Len(src)

\* What every byte step of the ssp parser has in common.
LEMMA ReadsTyped ==
    ASSUME Typed, NEW s \in States, NEW ch \in Bytes, Reads(s, ch)
    PROVE  /\ parser = "ssp" /\ parser' = "ssp" /\ state = s
           /\ src' = src /\ src' \in Seq(Bytes)
           /\ pos' = pos + 1 /\ pos' \in Nat /\ pos' <= Len(src')
           /\ done' = done /\ done' \in BOOLEAN
<1>1. pos < Len(src) /\ Len(src) \in Nat
  BY DEF Reads, Typed
<1> QED
  BY <1>1 DEF Reads, Typed

\* A byte step: pos grows by one, and the credits make up for what is written.
LEMMA ByteStep ==
    ASSUME IInv, ~done, NEW ch \in Bytes,
           \/ Start(ch) \/ HtmlBlock(ch) \/ SquStart(ch) \/ SquBlockStart(ch)
           \/ SquBlock(ch) \/ SquBlockEnd(ch)
           \/ SquExpBlockStart(ch) \/ SquExpBlock(ch) \/ SquExpBlockEnd(ch)
           \/ Error(ch)
    PROVE  IInv'
<1> USE DEF Emit, EmitNothing, Goto, States
<1>1. PICK s \in States : Reads(s, ch)
  BY DEF Start, HtmlBlock, SquStart, SquBlockStart, SquBlock, SquBlockEnd,
         SquExpBlockStart, SquExpBlock, SquExpBlockEnd, InBlock, Error
<1>2. /\ Typed /\ HtmlStates
  BY DEF IInv
<1>3. /\ parser = "ssp" /\ parser' = "ssp" /\ state = s
      /\ src' \in Seq(Bytes)
      /\ pos' = pos + 1 /\ pos' \in Nat /\ pos' <= Len(src')
      /\ done' = done
  BY <1>1, <1>2, ReadsTyped
<1>4. Slow
  BY <1>3 DEF IInv
<1>5. pos \in Nat /\ len \in Nat /\ html \in BOOLEAN
  BY <1>2 DEF Typed
<1>6. /\ state' \in States /\ html' \in BOOLEAN /\ len' \in Nat
      /\ HtmlStates' /\ Slow'
  <2> USE DEF HtmlStates, Slow, Within,
              FunctionStart, PrintStart, PrintEnd, ExpStart, ExpEnd
  <2>1. CASE Start(ch)
    <3>1. state = "start"
      BY <2>1 DEF Start, Reads
    <3>2. CASE state' = "squ_start" /\ html' = FALSE /\ len' = len
      <4>1. Within(20)' /\ Within(-25)'
        BY <3>1, <3>2, <1>3, <1>4, <1>5
      <4> QED
        BY <4>1, <3>2, <1>5
    <3>3. CASE state' = "html_block" /\ html' = TRUE /\ len' = len + 10
      BY <3>1, <3>3, <1>3, <1>4, <1>5
    <3>4. \/ state' = "squ_start" /\ html' = FALSE /\ len' = len
          \/ state' = "html_block" /\ html' = TRUE /\ len' = len + 10
      BY <2>1 DEF Start
    <3> QED
      BY <3>2, <3>3, <3>4
  <2>2. CASE HtmlBlock(ch)
    <3>1. state = "html_block" /\ html' = html
      BY <2>2 DEF HtmlBlock, Reads
    <3>2. CASE state' = "squ_start" /\ len' = len
      <4>1. Within(20)'
        BY <3>1, <3>2, <1>3, <1>4, <1>5
      <4>2. html
        BY <1>2, <3>1
      <4> QED
        BY <4>1, <4>2, <3>1, <3>2, <1>5
    <3>3. CASE state' = "html_block" /\ len' = len + 1
      <4>1. Within(45)'
        BY <3>1, <3>3, <1>3, <1>4, <1>5
      <4>2. html
        BY <1>2, <3>1
      <4> QED
        BY <4>1, <4>2, <3>1, <3>3, <1>5
    <3>4. \/ state' = "squ_start" /\ len' = len
          \/ state' = "html_block" /\ len' = len + 1
      BY <2>2, <3>1 DEF HtmlBlock
    <3> QED
      BY <3>2, <3>3, <3>4
  <2>3. CASE SquStart(ch)
    <3>1. state = "squ_start"
      BY <2>3 DEF SquStart, Reads
    <3>2. CASE state' = "squ_block_start" /\ html' = html /\ len' = len
      BY <3>1, <3>2, <1>3, <1>4, <1>5
    <3>3. CASE html /\ state' = "html_block" /\ html' = html /\ len' = len + 2
      BY <3>1, <3>3, <1>3, <1>4, <1>5
    <3>4. CASE ~html /\ state' = "html_block" /\ html' = TRUE /\ len' = len + 11
      <4>1. Within(-25)
        BY <3>1, <3>4, <1>4
      <4>2. Within(45)'
        BY <4>1, <3>4, <1>3, <1>5
      <4> QED
        BY <4>2, <3>4, <1>5
    <3>5. \/ state' = "squ_block_start" /\ html' = html /\ len' = len
          \/ html /\ state' = "html_block" /\ html' = html /\ len' = len + 2
          \/ ~html /\ state' = "html_block" /\ html' = TRUE /\ len' = len + 11
      BY <2>3 DEF SquStart
    <3> QED
      BY <3>2, <3>3, <3>4, <3>5
  <2>4. CASE SquBlockStart(ch)
    <3>1. state = "squ_block_start" /\ html' = FALSE
      BY <2>4 DEF SquBlockStart, Reads
    <3>2. \/ state' = "squ_exp_block_start" /\ html /\ len' = len + 4
          \/ state' = "squ_exp_block_start" /\ ~html /\ len' = len
          \/ state' = "squ_block" /\ html /\ len' = len + 5
          \/ state' = "squ_block" /\ ~html /\ len' = len + 1
      BY <2>4 DEF SquBlockStart
    <3>3. Within(-5) /\ (html \/ Within(-50))
      BY <3>1, <1>4
    <3>4. CASE state' = "squ_exp_block_start"
      <4>1. Within(-2)'
        BY <3>2, <3>3, <3>4, <1>3, <1>5
      <4>2. len' \in Nat
        BY <3>2, <1>5
      <4>3. html' = FALSE /\ state' = "squ_exp_block_start"
        BY <3>1, <3>4
      <4> HIDE DEF Within
      <4> QED
        BY <4>1, <4>2, <4>3
    <3>5. CASE state' = "squ_block"
      <4>1. Within(5)'
        BY <3>2, <3>3, <3>5, <1>3, <1>5
      <4>2. len' \in Nat
        BY <3>2, <1>5
      <4>3. html' = FALSE /\ state' = "squ_block"
        BY <3>1, <3>5
      <4> HIDE DEF Within
      <4> QED
        BY <4>1, <4>2, <4>3
    <3> QED
      BY <3>2, <3>4, <3>5
  <2>5. CASE SquBlock(ch)
    BY <2>5, <1>2, <1>3, <1>4, <1>5 DEF SquBlock, Reads, InBlock
  <2>6. CASE SquBlockEnd(ch)
    BY <2>6, <1>2, <1>3, <1>4, <1>5 DEF SquBlockEnd, Reads
  <2>7. CASE SquExpBlockStart(ch)
    BY <2>7, <1>2, <1>3, <1>4, <1>5 DEF SquExpBlockStart, Reads
  <2>8. CASE SquExpBlock(ch)
    BY <2>8, <1>2, <1>3, <1>4, <1>5 DEF SquExpBlock, Reads, InBlock
  <2>9. CASE SquExpBlockEnd(ch)
    BY <2>9, <1>2, <1>3, <1>4, <1>5 DEF SquExpBlockEnd, Reads
  <2>10. CASE Error(ch)
    BY <2>10, <1>2, <1>3, <1>4, <1>5 DEF Error, Reads
  <2> QED
    BY <2>1, <2>2, <2>3, <2>4, <2>5, <2>6, <2>7, <2>8, <2>9, <2>10
<1> QED
  BY <1>3, <1>6 DEF IInv, Typed

\* The end of the page: what is left open is closed, and counted in Ended.
LEMMA FinishStep ==
    ASSUME IInv, Finish
    PROVE  IInv'
<1>1. /\ parser = "ssp" /\ pos = Len(src) /\ done' = TRUE
      /\ UNCHANGED <<parser, src, pos, state, html>>
      /\ \/ html /\ len' = len + 6
         \/ ~html /\ len' = len + 2
  BY DEF Finish, Emit, PrintEnd, FunctionEnd
<1>2. Typed /\ HtmlStates /\ Slow
  BY <1>1, ~done DEF IInv, Finish
<1>3. Typed'
  BY <1>1, <1>2 DEF Typed
<1>4. HtmlStates'
  BY <1>1, <1>2 DEF HtmlStates
<1>5. Within(45)
  BY <1>2 DEF Slow, Within, Typed, States, FunctionStart
<1>6. Ended'
  <2>1. pos \in Nat /\ len \in Nat /\ len' <= len + 6 /\ pos = Len(src')
    BY <1>1, <1>2 DEF Typed
  <2> QED
    BY <1>5, <2>1, <1>3 DEF Ended, Within, Typed, FunctionStart, PrintEnd, FunctionEnd
<1> QED
  BY <1>1, <1>3, <1>4, <1>6 DEF IInv

\* The default parser adds the function around the script.
LEMMA DefaultStep ==
    ASSUME IInv, ParseDefault
    PROVE  IInv'
<1>1. /\ Typed /\ HtmlStates /\ len = 20
      /\ done' = TRUE /\ UNCHANGED <<parser, src, state, html>>
      /\ pos' = Len(src)
  BY DEF IInv, ParseDefault, FunctionStart
<1>2. Len(src) \in Nat /\ src \in Seq(Bytes)
  BY <1>1 DEF Typed
<1> DEFINE kept == IF HasBom THEN SubSeq(src, 4, Len(src)) ELSE src
<1>3. Len(kept) \in Nat /\ Len(kept) <= Len(src)
  BY <1>2 DEF HasBom
<1>4. len' = len + (Len(kept) + 2)
  BY DEF ParseDefault, Emit, FunctionEnd
<1> HIDE DEF kept
<1>5. len' \in Nat /\ len' <= Len(src) + 22
  BY <1>1, <1>2, <1>3, <1>4
<1>6. Typed' /\ HtmlStates'
  BY <1>1, <1>2, <1>5 DEF Typed, HtmlStates
<1>7. Ended'
  BY <1>1, <1>2, <1>5 DEF Ended, FunctionStart, PrintEnd, FunctionEnd
<1> QED
  BY <1>1, <1>6, <1>7 DEF IInv

\* Before the first byte nothing but the start of the function is written.
LEMMA InitIInv == Init => IInv
<1> SUFFICES ASSUME Init PROVE IInv
  OBVIOUS
<1>1. src \in Seq(Bytes)
  BY ParserAssumption DEF Init
<1>2. /\ parser \in {"ssp", "default"} /\ pos = 0 /\ state = "start"
      /\ html = FALSE /\ len = 20 /\ done = FALSE
  BY DEF Init, FunctionStart
<1>3. Typed
  <2>1. 0 <= Len(src) /\ 20 \in Nat /\ 0 \in Nat
    BY <1>1
  <2>2. html \in BOOLEAN /\ done \in BOOLEAN /\ state \in States
    BY <1>2 DEF States
  <2> QED
    BY <1>1, <1>2, <2>1, <2>2 DEF Typed
<1>4. HtmlStates /\ Slow
  BY <1>2 DEF HtmlStates, Slow, Within, FunctionStart
<1> QED
  BY <1>2, <1>3, <1>4 DEF IInv, FunctionStart

\* No byte and no end of a page breaks the bound.
LEMMA NextIInv == IInv /\ [Next]_vars => IInv'
<1> SUFFICES ASSUME IInv, [Next]_vars PROVE IInv'
  OBVIOUS
<1>1. ASSUME NEW ch \in Bytes,
             \/ Start(ch) \/ HtmlBlock(ch) \/ SquStart(ch) \/ SquBlockStart(ch)
             \/ SquBlock(ch) \/ SquBlockEnd(ch)
             \/ SquExpBlockStart(ch) \/ SquExpBlock(ch) \/ SquExpBlockEnd(ch)
             \/ Error(ch)
      PROVE  IInv'
  <2>1. CASE ~done
    BY <1>1, <2>1, ByteStep
  <2>2. CASE done
    <3>1. pos = Len(src)
      BY <2>2 DEF IInv
    <3>2. pos < Len(src)
      BY <1>1 DEF Start, HtmlBlock, SquStart, SquBlockStart, SquBlock, SquBlockEnd,
             SquExpBlockStart, SquExpBlock, SquExpBlockEnd, InBlock, Error, Reads
    <3> QED
      BY <3>1, <3>2 DEF IInv, Typed
  <2> QED
    BY <2>1, <2>2
<1>2. CASE Finish
  BY <1>2, FinishStep
<1>3. CASE ParseDefault
  BY <1>3, DefaultStep
<1>4. CASE UNCHANGED vars
  BY <1>4 DEF vars, IInv, Typed, HtmlStates, Slow, Within, Ended
<1> QED
  BY <1>1, <1>2, <1>3, <1>4 DEF Next

\* A page of memory of at least 300 bytes makes up for what is not proportional to
\* the script, and four times the script for the rest.
LEMMA IInvFits ==
    ASSUME PageSize >= 300, IInv
    PROVE  OutputFits
<1>1. /\ Len(src) \in Nat /\ pos \in Nat /\ pos <= Len(src) /\ len \in Nat
      /\ PageSize \in Nat /\ state \in States /\ parser \in {"ssp", "default"}
  BY ParserAssumption DEF IInv, Typed
<1>2. 7 * len <= 227 + 25 * Len(src)
  <2>1. CASE done
    BY <1>1, <2>1 DEF IInv, Ended, FunctionStart, PrintEnd, FunctionEnd
  <2>2. CASE ~done /\ parser = "ssp"
    <3>1. Within(45)
      BY <1>1, <2>2 DEF IInv, Slow, Within, States, FunctionStart
    <3> QED
      BY <1>1, <3>1 DEF Within, FunctionStart
  <2>3. CASE ~done /\ parser = "default"
    BY <1>1, <2>3 DEF IInv, FunctionStart
  <2> QED
    BY <1>1, <2>1, <2>2, <2>3
<1>3. CASE Len(src) >= 76
  BY <1>1, <1>2, <1>3 DEF OutputFits, Cap
<1>4. CASE Len(src) <= 75
  BY <1>1, <1>2, <1>4 DEF OutputFits, Cap
<1> QED
  BY <1>1, <1>3, <1>4

\* For every script, the output of ngx_squ_parse_ssp and of
\* ngx_squ_parse_default fits the buffer ngx_squ_load_script made for it, as
\* long as a page of memory has at least 300 bytes.
THEOREM ParserOutputFits ==
    ASSUME PageSize >= 300
    PROVE  Spec => []OutputFits
<1>1. IInv => OutputFits
  BY IInvFits
<1> QED
  BY <1>1, InitIInv, NextIInv, PTL DEF Spec

-----------------------------------------------------------------------------
(* The calls of print                                                       *)

\* A set with 1 in it, and with every position the next, has all positions.
LEMMA UpTo ==
    ASSUME NEW n \in Nat, NEW S, n > 0 => 1 \in S,
           \A k \in 1 .. n : k \in S /\ k < n => k + 1 \in S
    PROVE  1 .. n \subseteq S
<1> SUFFICES ASSUME NEW z \in (1 .. n) \ S PROVE FALSE
  OBVIOUS
<1> DEFINE N == 1 .. n
           T == {1 .. k : k \in N \ S}
           R == StrictSubsetOrdering(N)
<1>1. IsWellFoundedOn(R, FiniteSubsetsOf(N))
  BY FS_StrictSubsetOrderingWellFounded
<1>2. \A a, b \in SUBSET N : a \subseteq b /\ a # b => <<a, b>> \in R
  BY DEF StrictSubsetOrdering
<1>3. T \subseteq FiniteSubsetsOf(N) /\ T # {}
  <2>1. \A k \in N : 1 .. k \in SUBSET N /\ IsFiniteSet(1 .. k)
    BY FS_Interval
  <2> QED
    BY <2>1 DEF FiniteSubsetsOf
<1>4. PICK t \in T : \A u \in T : ~(<<u, t>> \in R)
  <2> HIDE DEF T, R
  <2> QED
    BY <1>1, <1>3, WFMin
<1>5. PICK k \in N \ S : t = 1 .. k
  BY <1>4
<1>6. k \in 1 .. n /\ k # 1 /\ k - 1 \in 1 .. n /\ k - 1 < n /\ k - 1 + 1 = k
  BY <1>5
<1>7. k - 1 \in N \ S
  BY <1>5, <1>6
<1>8. 1 .. (k - 1) \in SUBSET N /\ 1 .. k \in SUBSET N
      /\ 1 .. (k - 1) \subseteq 1 .. k /\ 1 .. (k - 1) # 1 .. k
  <2>1. k \in 1 .. k /\ k \notin 1 .. (k - 1)
    BY <1>6
  <2>2. 1 .. (k - 1) \subseteq 1 .. k /\ 1 .. k \subseteq N
    BY <1>6
  <2> QED
    BY <2>1, <2>2
<1>9. <<1 .. (k - 1), 1 .. k>> \in R
  <2> HIDE DEF R
  <2> QED
    BY <1>2, <1>8
<1> HIDE DEF R
<1> QED
  BY <1>4, <1>5, <1>7, <1>9


-----------------------------------------------------------------------------
(* The literals of the output                                               *)

Pieces == Bytes \cup Literals \cup {"FunctionStart"}
Marked == Literals \ {"FunctionStart"}

\* g[i] is what is kept of the first i pieces of s, up to n.
Keeps(g, s, n) ==
    g = [i \in 0 .. n |-> IF i = 0 THEN <<>>
                          ELSE IF s[i] \in Marked THEN Append(g[i - 1], s[i]) ELSE g[i - 1]]

\* What is kept of a sequence: Marks, of any.
Kept(s) == (CHOOSE g : Keeps(g, s, Len(s)))[Len(s)]

\* One piece more.
LEMMA KeepsExtends ==
    ASSUME NEW s, NEW k \in Nat, NEW g, Keeps(g, s, k)
    PROVE  \E h : Keeps(h, s, k + 1)
<1> DEFINE h == [i \in 0 .. k + 1 |->
                    IF i = k + 1 THEN IF s[i] \in Marked THEN Append(g[i - 1], s[i]) ELSE g[i - 1]
                    ELSE g[i]]
<1>1. \A i \in 0 .. k : g[i] = IF i = 0 THEN <<>>
                              ELSE IF s[i] \in Marked THEN Append(g[i - 1], s[i]) ELSE g[i - 1]
  BY DEF Keeps
<1>2. \A i \in 0 .. k + 1 :
         h[i] = IF i = 0 THEN <<>>
                ELSE IF s[i] \in Marked THEN Append(h[i - 1], s[i]) ELSE h[i - 1]
  <2> SUFFICES ASSUME NEW i \in 0 .. k + 1
               PROVE  h[i] = IF i = 0 THEN <<>>
                             ELSE IF s[i] \in Marked THEN Append(h[i - 1], s[i]) ELSE h[i - 1]
    OBVIOUS
  <2>1. CASE i = 0
    <3>1. h[0] = g[0] /\ g[0] = <<>>
      BY <1>1
    <3> QED
      BY <2>1, <3>1
  <2>2. CASE i = k + 1
    <3>1. i - 1 \in 0 .. k /\ i - 1 # k + 1 /\ i # 0 /\ i - 1 \in 0 .. k + 1
      BY <2>2
    <3>2. h[i - 1] = g[i - 1]
      BY <3>1
    <3>3. h[i] = IF s[i] \in Marked THEN Append(g[i - 1], s[i]) ELSE g[i - 1]
      BY <2>2
    <3> QED
      BY <3>1, <3>2, <3>3
  <2>3. CASE i # 0 /\ i # k + 1
    <3>1. i \in 0 .. k /\ i - 1 \in 0 .. k /\ i - 1 # k + 1 /\ i - 1 \in 0 .. k + 1
      BY <2>3
    <3>2. h[i - 1] = g[i - 1] /\ h[i] = g[i]
      BY <2>3, <3>1
    <3> QED
      BY <1>1, <2>3, <3>1, <3>2
  <2> QED
    BY <2>1, <2>2, <2>3
<1>3. h = [i \in 0 .. k + 1 |-> h[i]]
  OBVIOUS
<1> HIDE DEF h
<1>4. Keeps(h, s, k + 1)
  BY <1>2, <1>3 DEF Keeps
<1> QED
  BY <1>4

\* There is what is kept of any sequence, however long.
LEMMA KeepsExists ==
    ASSUME NEW n \in Nat, NEW s
    PROVE  \E g : Keeps(g, s, n)
<1> DEFINE Fine == {k \in 1 .. n : \E g : Keeps(g, s, k)}
<1>1. \E g : Keeps(g, s, 0)
  <2> DEFINE g == [i \in 0 .. 0 |-> <<>>]
  <2>1. g = [i \in 0 .. 0 |-> IF i = 0 THEN <<>>
                              ELSE IF s[i] \in Marked THEN Append(g[i - 1], s[i]) ELSE g[i - 1]]
    OBVIOUS
  <2> HIDE DEF g
  <2>2. Keeps(g, s, 0)
    BY <2>1 DEF Keeps
  <2> QED
    BY <2>2
<1>2. n > 0 => 1 \in Fine
  <2>1. \E g : Keeps(g, s, 0 + 1)
    BY <1>1, KeepsExtends
  <2>2. 0 + 1 = 1
    OBVIOUS
  <2> QED
    BY <2>1, <2>2
<1>3. ASSUME NEW k \in 1 .. n, k \in Fine, k < n PROVE k + 1 \in Fine
  <2>1. k \in Nat /\ k + 1 \in 1 .. n
    BY <1>3
  <2>2. \E g : Keeps(g, s, k + 1)
    BY <1>3, <2>1, KeepsExtends
  <2> QED
    BY <2>1, <2>2
<1>4. 1 .. n \subseteq Fine
  <2> HIDE DEF Fine
  <2> QED
    BY <1>2, <1>3, UpTo
<1>5. n = 0 \/ n \in 1 .. n
  OBVIOUS
<1> QED
  BY <1>1, <1>4, <1>5

\* Two ways to keep the same pieces are one.
LEMMA KeepsAlike ==
    ASSUME NEW n \in Nat, NEW s, NEW t, NEW g, NEW h, Keeps(g, s, n), Keeps(h, t, n),
           \A i \in 1 .. n : s[i] = t[i]
    PROVE  g[n] = h[n]
<1> DEFINE Same == {k \in 1 .. n : g[k] = h[k]}
<1>1. \A i \in 0 .. n :
         /\ g[i] = IF i = 0 THEN <<>>
                   ELSE IF s[i] \in Marked THEN Append(g[i - 1], s[i]) ELSE g[i - 1]
         /\ h[i] = IF i = 0 THEN <<>>
                   ELSE IF t[i] \in Marked THEN Append(h[i - 1], t[i]) ELSE h[i - 1]
  BY DEF Keeps
<1>2. 0 \in 0 .. n /\ g[0] = <<>> /\ h[0] = <<>>
  BY <1>1
<1>3. ASSUME NEW k \in 0 .. n, g[k] = h[k], k < n PROVE g[k + 1] = h[k + 1]
  <2>1. k + 1 \in 0 .. n /\ k + 1 \in 1 .. n /\ k + 1 # 0 /\ (k + 1) - 1 = k
    BY <1>3
  <2>2. s[k + 1] = t[k + 1]
    BY <2>1
  <2> QED
    BY <1>1, <1>3, <2>1, <2>2
<1>4. n > 0 => 1 \in Same
  <2>1. n > 0 => g[0 + 1] = h[0 + 1]
    BY <1>2, <1>3
  <2>2. 0 + 1 = 1
    OBVIOUS
  <2> QED
    BY <2>1, <2>2
<1>5. ASSUME NEW k \in 1 .. n, k \in Same, k < n PROVE k + 1 \in Same
  <2>1. k \in 0 .. n /\ k + 1 \in 1 .. n
    BY <1>5
  <2> QED
    BY <1>3, <1>5, <2>1
<1>6. 1 .. n \subseteq Same
  <2> HIDE DEF Same
  <2> QED
    BY <1>4, <1>5, UpTo
<1>7. n = 0 \/ n \in 1 .. n
  OBVIOUS
<1> QED
  BY <1>2, <1>6, <1>7

\* Whatever keeps the marks of s ends with the marks of s.
LEMMA KeptIs ==
    ASSUME NEW s, Len(s) \in Nat
    PROVE  \A g : Keeps(g, s, Len(s)) => Kept(s) = g[Len(s)]
<1> DEFINE F == CHOOSE g : Keeps(g, s, Len(s))
<1>1. Kept(s) = F[Len(s)]
  BY DEF Kept
<1>2. Keeps(F, s, Len(s))
  BY KeepsExists
<1> HIDE DEF F
<1> QED
  BY <1>1, <1>2, KeepsAlike

\* The marks of a longer sequence.
LEMMA KeptAppend ==
    ASSUME NEW S, NEW s \in Seq(S), NEW e \in S
    PROVE  Kept(Append(s, e)) = IF e \in Marked THEN Append(Kept(s), e) ELSE Kept(s)
<1> DEFINE t == Append(s, e)
           n == Len(s)
<1>1. n \in Nat /\ Len(t) = n + 1 /\ t[n + 1] = e /\ \A i \in 1 .. n : s[i] = t[i]
  OBVIOUS
<1>2. PICK g : Keeps(g, t, n + 1)
  BY <1>1, KeepsExists
<1>3. PICK h : Keeps(h, s, n)
  BY <1>1, KeepsExists
<1> HIDE DEF t, n
<1>4. \A i \in 0 .. n + 1 :
         g[i] = IF i = 0 THEN <<>>
                ELSE IF t[i] \in Marked THEN Append(g[i - 1], t[i]) ELSE g[i - 1]
  BY <1>2 DEF Keeps
<1> DEFINE f == [i \in 0 .. n |-> g[i]]
<1>5. f = [i \in 0 .. n |-> IF i = 0 THEN <<>>
                            ELSE IF t[i] \in Marked THEN Append(f[i - 1], t[i]) ELSE f[i - 1]]
  <2>1. \A i \in 0 .. n : f[i] = IF i = 0 THEN <<>>
                                 ELSE IF t[i] \in Marked THEN Append(f[i - 1], t[i]) ELSE f[i - 1]
    <3> SUFFICES ASSUME NEW i \in 0 .. n
                 PROVE  g[i] = IF i = 0 THEN <<>>
                               ELSE IF t[i] \in Marked THEN Append(f[i - 1], t[i]) ELSE f[i - 1]
      OBVIOUS
    <3>1. i \in 0 .. n + 1 /\ (i # 0 => i - 1 \in 0 .. n)
      BY <1>1
    <3>2. i # 0 => f[i - 1] = g[i - 1]
      BY <3>1
    <3> HIDE DEF f
    <3> QED
      BY <1>4, <3>1, <3>2
  <2>2. f = [i \in 0 .. n |-> f[i]]
    OBVIOUS
  <2> HIDE DEF f
  <2> QED
    BY <2>1, <2>2
<1>6. f[n] = g[n]
  BY <1>1
<1> HIDE DEF f
<1>7. f[n] = h[n]
  <2>1. Keeps(f, t, n)
    BY <1>5 DEF Keeps
  <2> QED
    BY <1>1, <1>3, <2>1, KeepsAlike
<1>8. Kept(s) = h[n]
  BY <1>1, <1>3, KeptIs DEF n
<1>9. Kept(t) = g[n + 1]
  <2>1. Len(t) \in Nat
    BY <1>1
  <2> QED
    BY <1>1, <1>2, <2>1, KeptIs
<1>10. g[n + 1] = IF e \in Marked THEN Append(g[n], e) ELSE g[n]
  <2>1. n + 1 \in 0 .. n + 1 /\ n + 1 # 0 /\ (n + 1) - 1 = n
    BY <1>1
  <2> QED
    BY <1>1, <1>4, <2>1
<1> QED
  BY <1>6, <1>7, <1>8, <1>9, <1>10 DEF t

\* What another piece adds to the marks m.
Adds(m, e) == IF e \in Marked THEN Append(m, e) ELSE m

\* A piece is written.
LEMMA EmitsOne ==
    ASSUME out \in Seq(Pieces), NEW a \in Pieces, out' = out \o <<a>>
    PROVE  out' \in Seq(Pieces) /\ Marks' = Adds(Marks, a)
<1>1. out' = Append(out, a)
  OBVIOUS
<1>2. Marks = Kept(out) /\ Marks' = Kept(out')
  BY DEF Marks, Kept, Keeps, Marked
<1>3. Kept(out') = Adds(Kept(out), a)
  BY <1>1, KeptAppend DEF Adds
<1> QED
  BY <1>1, <1>2, <1>3

\* Two pieces are written.
LEMMA EmitsTwo ==
    ASSUME out \in Seq(Pieces), NEW a \in Pieces, NEW b \in Pieces, out' = out \o <<a, b>>
    PROVE  out' \in Seq(Pieces) /\ Marks' = Adds(Adds(Marks, a), b)
<1> DEFINE s == Append(out, a)
<1>1. s \in Seq(Pieces) /\ out' = Append(s, b)
  OBVIOUS
<1>2. Marks = Kept(out) /\ Marks' = Kept(out')
  BY DEF Marks, Kept, Keeps, Marked
<1>3. Kept(s) = Adds(Kept(out), a)
  BY KeptAppend DEF Adds
<1> HIDE DEF s
<1>4. Kept(out') = Adds(Kept(s), b)
  BY <1>1, KeptAppend DEF Adds
<1>5. out' \in Seq(Pieces)
  BY <1>1
<1> QED
  BY <1>2, <1>3, <1>4, <1>5

\* Three pieces are written.
LEMMA EmitsThree ==
    ASSUME out \in Seq(Pieces), NEW a \in Pieces, NEW b \in Pieces, NEW c \in Pieces,
           out' = out \o <<a, b, c>>
    PROVE  out' \in Seq(Pieces) /\ Marks' = Adds(Adds(Adds(Marks, a), b), c)
<1> DEFINE s == Append(out, a)
           t == Append(s, b)
<1>1. s \in Seq(Pieces) /\ t \in Seq(Pieces) /\ out' = Append(t, c)
  OBVIOUS
<1>2. Marks = Kept(out) /\ Marks' = Kept(out')
  BY DEF Marks, Kept, Keeps, Marked
<1>3. Kept(s) = Adds(Kept(out), a)
  BY KeptAppend DEF Adds
<1>4. Kept(t) = Adds(Kept(s), b)
  <2> HIDE DEF s
  <2> QED
    BY <1>1, KeptAppend DEF Adds
<1> HIDE DEF s, t
<1>5. Kept(out') = Adds(Kept(t), c)
  BY <1>1, KeptAppend DEF Adds
<1>6. out' \in Seq(Pieces)
  BY <1>1
<1> QED
  BY <1>2, <1>3, <1>4, <1>5, <1>6

-----------------------------------------------------------------------------
\* Every call of print that was opened is closed.
Paired(m) ==
    /\ m \in Seq(Marked)
    /\ \E c \in Nat : Len(m) = 2 * c /\ \A i \in 1 .. c : Closes(m[2 * i - 1], m[2 * i])

\* All but the last one, which p opened.
Opened(p) == \E m : Paired(m) /\ Marks = Append(m, p)

PInv ==
    /\ out \in Seq(Pieces)
    /\ ~done =>
          /\ html => Opened("PrintStart")
          /\ state \in {"squ_exp_block", "squ_exp_block_end"} => Opened("ExpStart")
          /\ ~html /\ state \notin {"squ_exp_block", "squ_exp_block_end", "error"} => Paired(Marks)
    /\ done => PrintsPaired

\* Another pair behind pairs.
LEMMA PairedTwo ==
    ASSUME NEW m, Paired(m), NEW p \in Marked, NEW q \in Marked, Closes(p, q)
    PROVE  Paired(Append(Append(m, p), q))
<1> DEFINE s == Append(m, p)
           t == Append(s, q)
<1>1. PICK c \in Nat : Len(m) = 2 * c /\ \A i \in 1 .. c : Closes(m[2 * i - 1], m[2 * i])
  BY DEF Paired
<1>2. m \in Seq(Marked)
  BY DEF Paired
<1>3. s \in Seq(Marked) /\ Len(s) = Len(m) + 1 /\ s[Len(m) + 1] = p
      /\ \A i \in 1 .. Len(m) : s[i] = m[i]
  BY <1>2
<1> HIDE DEF s
<1>4. t \in Seq(Marked) /\ Len(t) = Len(s) + 1 /\ t[Len(s) + 1] = q
      /\ \A i \in 1 .. Len(s) : t[i] = s[i]
  BY <1>3
<1> HIDE DEF t
<1>5. /\ Len(t) = 2 * (c + 1) /\ t[2 * c + 1] = p /\ t[2 * c + 2] = q
      /\ \A i \in 1 .. 2 * c : t[i] = m[i]
  BY <1>1, <1>3, <1>4
<1>6. ASSUME NEW i \in 1 .. c + 1 PROVE Closes(t[2 * i - 1], t[2 * i])
  <2>1. CASE i \in 1 .. c
    <3>1. 2 * i - 1 \in 1 .. 2 * c /\ 2 * i \in 1 .. 2 * c
      BY <2>1
    <3> QED
      BY <1>1, <1>5, <2>1, <3>1
  <2>2. CASE i = c + 1
    <3>1. 2 * i - 1 = 2 * c + 1 /\ 2 * i = 2 * c + 2
      BY <2>2
    <3> QED
      BY <1>5, <3>1
  <2> QED
    BY <2>1, <2>2
<1>7. c + 1 \in Nat
  OBVIOUS
<1>8. Paired(t)
  BY <1>4, <1>5, <1>6, <1>7 DEF Paired
<1> QED
  BY <1>8 DEF t, s

\* The function ends behind pairs.
Ends(t) ==
    /\ Len(t) % 2 = 1 /\ t[Len(t)] = "FunctionEnd"
    /\ \A i \in 1 .. Len(t) \div 2 : Closes(t[2 * i - 1], t[2 * i])

\* Pairs, and the end of the function behind them, are what PrintsPaired asks for.
LEMMA PairedEnd == ASSUME NEW m, Paired(m) PROVE Ends(Append(m, "FunctionEnd"))
<1> DEFINE t == Append(m, "FunctionEnd")
<1>1. PICK c \in Nat : Len(m) = 2 * c /\ \A i \in 1 .. c : Closes(m[2 * i - 1], m[2 * i])
  BY DEF Paired
<1>2. m \in Seq(Marked) /\ "FunctionEnd" \in Marked
  BY DEF Paired, Marked, Literals
<1>3. Len(t) = 2 * c + 1 /\ t[2 * c + 1] = "FunctionEnd" /\ \A i \in 1 .. 2 * c : t[i] = m[i]
  BY <1>1, <1>2
<1> HIDE DEF t
<1>4. Len(t) % 2 = 1 /\ Len(t) \div 2 = c
  BY <1>3
<1>5. ASSUME NEW i \in 1 .. c PROVE Closes(t[2 * i - 1], t[2 * i])
  <2>1. 2 * i - 1 \in 1 .. 2 * c /\ 2 * i \in 1 .. 2 * c
    OBVIOUS
  <2> QED
    BY <1>1, <1>3, <2>1
<1>6. t[Len(t)] = "FunctionEnd"
  BY <1>3
<1>7. Ends(t)
  BY <1>4, <1>5, <1>6 DEF Ends
<1> QED
  BY <1>7 DEF t

\* Bytes are not marks, and the marks close as they should.
LEMMA BytesAndMarks ==
    /\ \A e \in Bytes : e \in Pieces /\ e \notin Marked
    /\ {"PrintStart", "PrintEnd", "ExpStart", "ExpEnd", "FunctionEnd"} \subseteq Marked \cap Pieces
    /\ Closes("PrintStart", "PrintEnd") /\ Closes("ExpStart", "ExpEnd")
BY DEF Bytes, Pieces, Marked, Literals, Closes

\* Writing bytes, a mark, or both.
LEMMA Emits ==
    ASSUME out \in Seq(Pieces), NEW ch \in Bytes
    PROVE  /\ out' = out \o <<ch>> => out' \in Seq(Pieces) /\ Marks' = Marks
           /\ out' = out \o <<"<", ch>> => out' \in Seq(Pieces) /\ Marks' = Marks
           /\ \A p \in Marked :
                 \/ out' = out \o <<p>> \/ out' = out \o <<p, ch>> \/ out' = out \o <<p, "<", ch>>
                 => out' \in Seq(Pieces) /\ Marks' = Append(Marks, p)
<1>1. ch \in Pieces /\ ch \notin Marked /\ "<" \in Pieces /\ "<" \notin Marked
  BY DEF Bytes, Pieces, Marked, Literals
<1>2. \A p \in Marked : p \in Pieces
  BY DEF Pieces, Marked
<1>3. out' = out \o <<ch>> => out' \in Seq(Pieces) /\ Marks' = Marks
  BY <1>1, EmitsOne DEF Adds
<1>4. out' = out \o <<"<", ch>> => out' \in Seq(Pieces) /\ Marks' = Marks
  BY <1>1, EmitsTwo DEF Adds
<1>5. ASSUME NEW p \in Marked,
             \/ out' = out \o <<p>> \/ out' = out \o <<p, ch>> \/ out' = out \o <<p, "<", ch>>
      PROVE  out' \in Seq(Pieces) /\ Marks' = Append(Marks, p)
  <2>1. CASE out' = out \o <<p>>
    BY <1>2, <2>1, EmitsOne DEF Adds
  <2>2. CASE out' = out \o <<p, ch>>
    BY <1>1, <1>2, <2>2, EmitsTwo DEF Adds
  <2>3. CASE out' = out \o <<p, "<", ch>>
    BY <1>1, <1>2, <2>3, EmitsThree DEF Adds
  <2> QED
    BY <1>5, <2>1, <2>2, <2>3
<1> QED
  BY <1>3, <1>4, <1>5

\* Nothing is marked: what is open stays open.
LEMMA StaysOpen ==
    ASSUME Marks' = Marks
    PROVE  /\ \A p : Opened(p) => Opened(p)'
           /\ Paired(Marks) => Paired(Marks)'
BY DEF Opened, Paired

\* A call is opened behind pairs.
LEMMA Opens ==
    ASSUME Paired(Marks), NEW p, Marks' = Append(Marks, p)
    PROVE  Opened(p)'
BY DEF Opened, Paired

\* And closed.
LEMMA Shuts ==
    ASSUME NEW p \in Marked, Opened(p), NEW q \in Marked, Closes(p, q), Marks' = Append(Marks, q)
    PROVE  Paired(Marks)'
<1>1. PICK m : Paired(m) /\ Marks = Append(m, p)
  BY DEF Opened
<1>2. Paired(Append(Append(m, p), q))
  BY <1>1, PairedTwo
<1>3. Marks' = Append(Append(m, p), q)
  BY <1>1
<1> QED
  BY <1>2, <1>3 DEF Paired

\* A byte step: print is opened only behind pairs, and only the print that is open is closed.
LEMMA ByteMarks ==
    ASSUME IInv, PInv, ~done, NEW ch \in Bytes,
           \/ Start(ch) \/ HtmlBlock(ch) \/ SquStart(ch) \/ SquBlockStart(ch)
           \/ SquBlock(ch) \/ SquBlockEnd(ch)
           \/ SquExpBlockStart(ch) \/ SquExpBlock(ch) \/ SquExpBlockEnd(ch)
           \/ Error(ch)
    PROVE  PInv'
<1> USE DEF Emit, EmitNothing, Goto
<1>1. ~done' /\ out \in Seq(Pieces) /\ HtmlStates /\ HtmlStates'
  <2>1. IInv'
    BY ByteStep
  <2> QED
    BY <2>1 DEF IInv, PInv, Start, HtmlBlock, SquStart, SquBlockStart, SquBlock, SquBlockEnd,
           SquExpBlockStart, SquExpBlock, SquExpBlockEnd, InBlock, Error, Reads
<1>2. /\ "PrintStart" \in Marked /\ "PrintEnd" \in Marked /\ "ExpStart" \in Marked
      /\ "ExpEnd" \in Marked /\ Closes("PrintStart", "PrintEnd") /\ Closes("ExpStart", "ExpEnd")
  BY BytesAndMarks
<1>3. /\ html => Opened("PrintStart")
      /\ state \in {"squ_exp_block", "squ_exp_block_end"} => Opened("ExpStart")
      /\ ~html /\ state \notin {"squ_exp_block", "squ_exp_block_end", "error"} => Paired(Marks)
  BY DEF PInv
<1>4. html \in BOOLEAN /\ html' \in BOOLEAN
  <2>1. IInv'
    BY ByteStep
  <2> QED
    BY <2>1 DEF IInv, Typed
<1> DEFINE Quiet == out' \in Seq(Pieces) /\ Marks' = Marks
           Adding(p) == out' \in Seq(Pieces) /\ Marks' = Append(Marks, p)
<1>5. /\ out' = out \/ out' = out \o <<ch>> \/ out' = out \o <<"<", ch>> => Quiet
      /\ \A p \in Marked :
            \/ out' = out \o <<p>> \/ out' = out \o <<p, ch>> \/ out' = out \o <<p, "<", ch>>
            => Adding(p)
  <2>1. out' = out => Quiet
    BY <1>1 DEF Marks
  <2> QED
    BY <1>1, <2>1, Emits
<1>6. Quiet => /\ \A p : Opened(p) => Opened(p)'
               /\ Paired(Marks) => Paired(Marks)'
  BY StaysOpen
<1>7. Paired(Marks) => \A p : Adding(p) => Opened(p)'
  BY Opens
<1>8. /\ Opened("PrintStart") /\ Adding("PrintEnd") => Paired(Marks)'
      /\ Opened("ExpStart") /\ Adding("ExpEnd") => Paired(Marks)'
  BY <1>2, Shuts
<1>9. /\ Quiet => out' \in Seq(Pieces)
      /\ \A p : Adding(p) => out' \in Seq(Pieces)
  OBVIOUS
<1> HIDE DEF Quiet, Adding
<1>10. CASE Start(ch)
  <2>1. /\ state = "start"
        /\ \/ out' = out /\ html' = FALSE /\ state' = "squ_start"
           \/ out' = out \o <<"PrintStart", ch>> /\ html' = TRUE /\ state' = "html_block"
    BY <1>10 DEF Start, Reads
  <2>2. ~html
    BY <1>1, <2>1 DEF HtmlStates
  <2> QED
    BY <1>1, <1>2, <1>3, <1>5, <1>6, <1>7, <1>9, <2>1, <2>2 DEF PInv
<1>11. CASE HtmlBlock(ch)
  <2>1. /\ state = "html_block" /\ html' = html /\ (out' = out \/ out' = out \o <<ch>>)
        /\ state' \in {"squ_start", "html_block"}
    BY <1>11 DEF HtmlBlock, Reads
  <2>2. html
    BY <1>1, <2>1 DEF HtmlStates
  <2> QED
    BY <1>1, <1>3, <1>5, <1>6, <1>9, <2>1, <2>2 DEF PInv
<1>12. CASE SquStart(ch)
  <2>1. /\ state = "squ_start"
        /\ \/ state' = "squ_block_start" /\ html' = html /\ out' = out
           \/ html /\ state' = "html_block" /\ html' = html /\ out' = out \o <<"<", ch>>
           \/ ~html /\ state' = "html_block" /\ html' = TRUE /\ out' = out \o <<"PrintStart", "<", ch>>
    BY <1>12 DEF SquStart, Reads
  <2>2. CASE state' = "squ_block_start" /\ html' = html /\ out' = out
    BY <1>1, <1>3, <1>4, <1>5, <1>6, <1>9, <2>1, <2>2 DEF PInv
  <2>3. CASE html /\ state' = "html_block" /\ html' = html /\ out' = out \o <<"<", ch>>
    BY <1>1, <1>3, <1>5, <1>6, <1>9, <2>3 DEF PInv
  <2>4. CASE ~html /\ state' = "html_block" /\ html' = TRUE
             /\ out' = out \o <<"PrintStart", "<", ch>>
    <3>1. Paired(Marks) /\ Adding("PrintStart")
      BY <1>2, <1>3, <1>5, <2>1, <2>4
    <3> QED
      BY <1>1, <1>7, <1>9, <2>4, <3>1 DEF PInv
  <2> QED
    BY <2>1, <2>2, <2>3, <2>4
<1>13. CASE SquBlockStart(ch)
  <2>1. /\ state = "squ_block_start" /\ html' = FALSE
        /\ state' \in {"squ_exp_block_start", "squ_block"}
        /\ \/ html /\ (out' = out \o <<"PrintEnd">> \/ out' = out \o <<"PrintEnd", ch>>)
           \/ ~html /\ (out' = out \/ out' = out \o <<ch>>)
    BY <1>13 DEF SquBlockStart, Reads
  <2> QED
    BY <1>1, <1>2, <1>3, <1>5, <1>6, <1>8, <1>9, <2>1 DEF PInv
<1>14. CASE SquBlock(ch)
  <2>1. /\ state = "squ_block" /\ html' = html /\ state' \in {"squ_block", "squ_block_end"}
        /\ (out' = out \/ out' = out \o <<ch>>)
    BY <1>14 DEF SquBlock, InBlock, Reads
  <2>2. ~html
    BY <1>1, <2>1 DEF HtmlStates
  <2> QED
    BY <1>1, <1>3, <1>5, <1>6, <1>9, <2>1, <2>2 DEF PInv
<1>15. CASE SquBlockEnd(ch)
  <2>1. /\ state = "squ_block_end" /\ html' = html /\ state' \in {"start", "error"} /\ out' = out
    BY <1>15 DEF SquBlockEnd, Reads
  <2>2. ~html
    BY <1>1, <2>1 DEF HtmlStates
  <2> QED
    BY <1>1, <1>3, <1>5, <1>6, <1>9, <2>1, <2>2 DEF PInv
<1>16. CASE SquExpBlockStart(ch)
  <2>1. /\ state = "squ_exp_block_start" /\ html' = html /\ state' = "squ_exp_block"
        /\ out' = out \o <<"ExpStart", ch>>
    BY <1>16 DEF SquExpBlockStart, Reads
  <2>2. ~html
    BY <1>1, <2>1 DEF HtmlStates
  <2> QED
    BY <1>1, <1>2, <1>3, <1>5, <1>7, <1>9, <2>1, <2>2 DEF PInv
<1>17. CASE SquExpBlock(ch)
  <2>1. /\ state = "squ_exp_block" /\ html' = html
        /\ state' \in {"squ_exp_block", "squ_exp_block_end"}
        /\ (out' = out \/ out' = out \o <<ch>>)
    BY <1>17 DEF SquExpBlock, InBlock, Reads
  <2>2. ~html
    BY <1>1, <2>1 DEF HtmlStates
  <2> QED
    BY <1>1, <1>3, <1>5, <1>6, <1>9, <2>1, <2>2 DEF PInv
<1>18. CASE SquExpBlockEnd(ch)
  <2>1. /\ state = "squ_exp_block_end" /\ html' = html
        /\ \/ state' = "start" /\ out' = out \o <<"ExpEnd">>
           \/ state' = "error" /\ out' = out
    BY <1>18 DEF SquExpBlockEnd, Reads
  <2>2. ~html
    BY <1>1, <2>1 DEF HtmlStates
  <2> QED
    BY <1>1, <1>2, <1>3, <1>5, <1>6, <1>8, <1>9, <2>1, <2>2 DEF PInv
<1>19. CASE Error(ch)
  <2>1. state = "error" /\ html' = html /\ state' = "error" /\ out' = out
    BY <1>19 DEF Error, Reads
  <2>2. ~html
    BY <1>1, <2>1 DEF HtmlStates
  <2> QED
    BY <1>1, <1>3, <1>5, <1>6, <1>9, <2>1, <2>2 DEF PInv
<1> QED
  BY <1>10, <1>11, <1>12, <1>13, <1>14, <1>15, <1>16, <1>17, <1>18, <1>19

\* The end of the page closes an open print, and the function.
LEMMA FinishMarks ==
    ASSUME IInv, PInv, Finish
    PROVE  PInv'
<1>1. /\ ~done /\ done' = TRUE /\ UNCHANGED <<parser, state, html>> /\ out \in Seq(Pieces)
      /\ html \in BOOLEAN /\ HtmlStates
  BY DEF Finish, PInv, IInv, Typed
<1>2. /\ html => Opened("PrintStart")
      /\ ~html /\ state \notin {"squ_exp_block", "squ_exp_block_end", "error"} => Paired(Marks)
  BY <1>1 DEF PInv
<1>3. /\ "PrintStart" \in Marked /\ "PrintEnd" \in Marked /\ "FunctionEnd" \in Marked
      /\ "PrintEnd" \in Pieces /\ "FunctionEnd" \in Pieces /\ Closes("PrintStart", "PrintEnd")
  BY BytesAndMarks
<1>4. CASE html
  <2>1. out' = out \o <<"PrintEnd", "FunctionEnd">>
    BY <1>4 DEF Finish, Emit
  <2>2. out' \in Seq(Pieces) /\ Marks' = Append(Append(Marks, "PrintEnd"), "FunctionEnd")
    BY <1>1, <1>3, <2>1, EmitsTwo DEF Adds
  <2>3. PICK m : Paired(m) /\ Marks = Append(m, "PrintStart")
    BY <1>2, <1>4 DEF Opened
  <2> DEFINE p == Append(Append(m, "PrintStart"), "PrintEnd")
  <2>4. Paired(p) /\ Marks' = Append(p, "FunctionEnd")
    BY <1>3, <2>2, <2>3, PairedTwo
  <2> HIDE DEF p
  <2>5. PrintsPaired'
    <3>1. Ends(Marks')
      BY <2>4, PairedEnd
    <3> QED
      BY <3>1 DEF PrintsPaired, Ends, Closes
  <2> QED
    BY <1>1, <2>2, <2>5 DEF PInv
<1>5. CASE ~html /\ state \notin {"squ_exp_block", "squ_exp_block_end", "error"}
  <2>1. out' = out \o <<"FunctionEnd">>
    BY <1>5 DEF Finish, Emit
  <2>2. out' \in Seq(Pieces) /\ Marks' = Append(Marks, "FunctionEnd")
    BY <1>1, <1>3, <2>1, EmitsOne DEF Adds
  <2>3. PrintsPaired'
    <3>1. Ends(Marks')
      BY <1>2, <1>5, <2>2, PairedEnd
    <3> QED
      BY <3>1 DEF PrintsPaired, Ends, Closes
  <2> QED
    BY <1>1, <2>2, <2>3 DEF PInv
<1>6. CASE ~html /\ state \in {"squ_exp_block", "squ_exp_block_end", "error"}
  <2>1. out' = out \o <<"FunctionEnd">>
    BY <1>6 DEF Finish, Emit
  <2>2. out' \in Seq(Pieces)
    BY <1>1, <1>3, <2>1, EmitsOne
  <2>3. PrintsPaired'
    BY <1>1, <1>6 DEF PrintsPaired
  <2> QED
    BY <1>1, <2>2, <2>3 DEF PInv
<1> QED
  BY <1>1, <1>4, <1>5, <1>6

\* Before the first byte no call of print is written.
LEMMA InitPInv == Init => PInv
<1> SUFFICES ASSUME Init PROVE PInv
  OBVIOUS
<1>1. out = <<"FunctionStart">> /\ state = "start" /\ html = FALSE /\ done = FALSE
  BY DEF Init
<1>2. <<>> \in Seq(Pieces) /\ "FunctionStart" \in Pieces /\ "FunctionStart" \notin Marked
      /\ out = Append(<<>>, "FunctionStart")
  BY <1>1 DEF Pieces, Marked
<1>3. Kept(<<>>) = <<>>
  <2>1. Len(<<>>) = 0
    OBVIOUS
  <2>2. PICK g : Keeps(g, <<>>, 0)
    BY KeepsExists
  <2>3. g[0] = <<>>
    BY <2>2 DEF Keeps
  <2>4. Kept(<<>>) = g[0]
    BY <2>1, <2>2, KeptIs
  <2> QED
    BY <2>3, <2>4
<1>4. Kept(out) = <<>>
  BY <1>2, <1>3, KeptAppend
<1>5. Marks = <<>>
  BY <1>4 DEF Marks, Kept, Keeps, Marked
<1>6. Paired(<<>>)
  <2>1. 0 \in Nat /\ Len(<<>>) = 2 * 0 /\ <<>> \in Seq(Marked) /\ 1 .. 0 = {}
    OBVIOUS
  <2> QED
    BY <2>1 DEF Paired
<1>7. out \in Seq(Pieces)
  BY <1>2
<1> QED
  BY <1>1, <1>5, <1>6, <1>7 DEF PInv

\* The ssp parser keeps the invariant, and a script never changes its parser.
LEMMA NextPInv == IInv /\ (parser = "ssp" => PInv) /\ [Next]_vars => (parser = "ssp" => PInv)'
<1> SUFFICES ASSUME IInv, parser = "ssp" => PInv, [Next]_vars, parser' = "ssp" PROVE PInv'
  OBVIOUS
<1>1. ASSUME NEW ch \in Bytes,
             \/ Start(ch) \/ HtmlBlock(ch) \/ SquStart(ch) \/ SquBlockStart(ch)
             \/ SquBlock(ch) \/ SquBlockEnd(ch)
             \/ SquExpBlockStart(ch) \/ SquExpBlock(ch) \/ SquExpBlockEnd(ch)
             \/ Error(ch)
      PROVE  PInv'
  <2>1. parser = "ssp" /\ pos < Len(src)
    BY <1>1 DEF Start, HtmlBlock, SquStart, SquBlockStart, SquBlock, SquBlockEnd,
           SquExpBlockStart, SquExpBlock, SquExpBlockEnd, InBlock, Error, Reads
  <2>2. ~done
    BY <2>1 DEF IInv, Typed
  <2> QED
    BY <1>1, <2>1, <2>2, ByteMarks
<1>2. CASE Finish
  BY <1>2, FinishMarks DEF Finish
<1>3. CASE ParseDefault
  BY <1>3 DEF ParseDefault
<1>4. CASE UNCHANGED vars
  <2>1. /\ UNCHANGED <<parser, out, state, html, done>> /\ PInv
    BY <1>4 DEF vars
  <2>2. Marks' = Marks
    BY <2>1 DEF Marks
  <2>3. PrintsPaired => PrintsPaired'
    BY <2>1, <2>2 DEF PrintsPaired, Closes
  <2> QED
    BY <2>1, <2>2, <2>3, StaysOpen DEF PInv
<1> QED
  BY <1>1, <1>2, <1>3, <1>4 DEF Next

\* The calls of print that ngx_squ_parse_ssp opens are closed, each before the next
\* and before the function ends, unless the page ends inside an expression.
THEOREM ParserPrintsPaired == Spec => []PrintsPaired
<1>1. IInv /\ (parser = "ssp" => PInv) => PrintsPaired
  <2> SUFFICES ASSUME IInv, parser = "ssp" => PInv, parser = "ssp", done PROVE PrintsPaired
    BY DEF PrintsPaired
  <2> QED
    BY DEF PInv
<1>2. Init => (parser = "ssp" => PInv)
  BY InitPInv
<1> QED
  BY <1>1, <1>2, InitIInv, NextIInv, NextPInv, PTL DEF Spec

-----------------------------------------------------------------------------
(* What a page becomes                                                      *)

\* f joins the sequences ss: f[k] is the first k of them.
Parts(f, ss, n) == f[0] = <<>> /\ \A k \in 1 .. n : f[k] = f[k - 1] \o ss[k]

Rendered(p) == [i \in DOMAIN p |-> Render(p[i])]
Meant(p) == [i \in DOMAIN p |-> Means(p[i])]

\* s[k] is the source of the first k segments, and m[k] what they mean.
Joined(s, m) ==
    /\ s \in [0 .. Len(page) -> Seq(Bytes)] /\ Parts(s, Rendered(page), Len(page))
    /\ m \in [0 .. Len(page) -> Seq(Pieces)] /\ Parts(m, Meant(page), Len(page))

\* The output o when part of segment k has been written.
WroteAs(o, m, k, part) == o = (<<"FunctionStart">> \o m[k - 1]) \o part
Wrote(m, k, part) == WroteAs(out, m, k, part)

\* j bytes of segment k have been read.
At(s, k, j) == pos = Len(s[k - 1]) + j

\* Segment k is the next.
Between(s, m, k) ==
    /\ k \in 1 .. Len(page) + 1
    /\ state = "start" /\ At(s, k, 0) /\ Wrote(m, k, <<>>)

\* j bytes of a text have been printed, or all but a "<".
InText(s, m, k, j) ==
    /\ k \in 1 .. Len(page) /\ page[k].kind = "html" /\ j \in 1 .. Len(page[k].body)
    /\ state = "html_block" /\ html /\ At(s, k, j)
    /\ Wrote(m, k, <<"PrintStart">> \o SubSeq(page[k].body, 1, j))
PendingText(s, m, k, j) ==
    /\ k \in 1 .. Len(page) /\ page[k].kind = "html" /\ j \in 1 .. Len(page[k].body)
    /\ page[k].body[j] = "<"
    /\ state = "squ_start" /\ At(s, k, j)
    /\ \/ ~html /\ j = 1 /\ Wrote(m, k, <<>>)
       \/ html /\ j > 1 /\ Wrote(m, k, <<"PrintStart">> \o SubSeq(page[k].body, 1, j - 1))

\* The print of the text before a block is closed behind the block's "<%".
Opening(s, m, k, j) ==
    /\ k \in 1 .. Len(page) /\ page[k].kind # "html"
    /\ \/ j = 1 /\ state = "squ_start"
       \/ j = 2 /\ state = "squ_block_start"
    /\ At(s, k, j)
    /\ \/ ~html /\ Wrote(m, k, <<>>)
       \/ /\ html /\ out \in Seq(Pieces)
          /\ out \o <<"PrintEnd">> = <<"FunctionStart">> \o m[k - 1]

\* Behind byte i of a block the quoting b, d and q is what its author has in mind.
QuotedAs(body, i, b, d, q) ==
    /\ \E esc \in [1 .. Len(body) -> BOOLEAN] : Escapes(body, esc) /\ b = esc[i]
    /\ \E open \in [1 .. Len(body) -> {"none", "'", "\""}] :
          Strings(body, open) /\ d = (open[i] = "\"") /\ q = (open[i] = "'")
Quoted(k, j) == QuotedAs(page[k].body, j, backslash, dquoted, squoted)

\* j bytes of the code of a block have been written, or all and its "%" read.
InCode(s, m, k, j) ==
    /\ k \in 1 .. Len(page) /\ page[k].kind = "code" /\ j \in 1 .. Len(page[k].body)
    /\ state = "squ_block" /\ At(s, k, 2 + j)
    /\ Wrote(m, k, SubSeq(page[k].body, 1, j)) /\ Quoted(k, j)
CodeEnds(s, m, k) ==
    /\ k \in 1 .. Len(page) /\ page[k].kind = "code"
    /\ state = "squ_block_end" /\ At(s, k, 3 + Len(page[k].body))
    /\ Wrote(m, k, page[k].body)

\* And of an expression.
ExpOpens(s, m, k) ==
    /\ k \in 1 .. Len(page) /\ page[k].kind = "exp"
    /\ state = "squ_exp_block_start" /\ At(s, k, 3) /\ Wrote(m, k, <<>>)
    /\ backslash = FALSE /\ dquoted = FALSE /\ squoted = FALSE
InExp(s, m, k, j) ==
    /\ k \in 1 .. Len(page) /\ page[k].kind = "exp" /\ j \in 1 .. Len(page[k].body)
    /\ state = "squ_exp_block" /\ At(s, k, 3 + j)
    /\ Wrote(m, k, <<"ExpStart">> \o SubSeq(page[k].body, 1, j)) /\ Quoted(k, j)
ExpEnds(s, m, k) ==
    /\ k \in 1 .. Len(page) /\ page[k].kind = "exp"
    /\ state = "squ_exp_block_end" /\ At(s, k, 4 + Len(page[k].body))
    /\ Wrote(m, k, <<"ExpStart">> \o page[k].body)

\* Where in the page the parser may be: one alternative for each thing it can be
\* in the middle of, j bytes into segment k.
Reading(s, m) ==
    \E k, j \in Nat :
       \/ Between(s, m, k)
       \/ InText(s, m, k, j) \/ PendingText(s, m, k, j) \/ Opening(s, m, k, j)
       \/ InCode(s, m, k, j) \/ CodeEnds(s, m, k)
       \/ ExpOpens(s, m, k) \/ InExp(s, m, k, j) \/ ExpEnds(s, m, k)

\* The inductive invariant: what is written is what the bytes read so far mean.
MInv ==
    page # <<>> =>
       /\ parser = "ssp" /\ Readable(page)
       /\ \E s, m : /\ Joined(s, m) /\ src = s[Len(page)]
                    /\ IF done THEN out = (<<"FunctionStart">> \o m[Len(page)]) \o <<"FunctionEnd">>
                       ELSE Reading(s, m)
-----------------------------------------------------------------------------
\* There is always such an f.
LEMMA PartsExist ==
    ASSUME NEW T, NEW n \in Nat, NEW ss, \A k \in 1 .. n : ss[k] \in Seq(T)
    PROVE  \E f \in [0 .. n -> Seq(T)] : Parts(f, ss, n)
<1> DEFINE Has(k) == \E f \in [0 .. k -> Seq(T)] : Parts(f, ss, k)
           S == {k \in 1 .. n : Has(k)}
<1>0. Has(0)
  <2>1. [i \in 0 .. 0 |-> <<>>] \in [0 .. 0 -> Seq(T)]
    OBVIOUS
  <2>2. Parts([i \in 0 .. 0 |-> <<>>], ss, 0)
    BY DEF Parts
  <2> QED
    BY <2>1, <2>2
<1>1. ASSUME NEW k \in Nat, k < n, Has(k) PROVE Has(k + 1)
  <2>1. PICK f \in [0 .. k -> Seq(T)] : Parts(f, ss, k)
    BY <1>1
  <2>2. k + 1 \in 1 .. n /\ ss[k + 1] \in Seq(T)
    BY <1>1
  <2>3. f[k] \in Seq(T)
    BY <1>1, <2>1
  <2>4. f[k] \o ss[k + 1] \in Seq(T)
    BY <2>2, <2>3, ConcatProperties
  <2> DEFINE w == f[k] \o ss[k + 1]
             g == [i \in 0 .. k + 1 |-> IF i <= k THEN f[i] ELSE w]
  <2>5. w \in Seq(T)
    BY <2>4
  <2>6. w = f[k] \o ss[k + 1]
    OBVIOUS
  <2> HIDE DEF w
  <2>7. g \in [0 .. k + 1 -> Seq(T)]
    <3>1. \A i \in 0 .. k + 1 : i <= k => i \in 0 .. k
      BY <1>1
    <3> QED
      BY <2>1, <2>5, <3>1
  <2>8. g[0] = <<>>
    BY <1>1, <2>1 DEF Parts
  <2>9. ASSUME NEW i \in 1 .. k + 1 PROVE g[i] = g[i - 1] \o ss[i]
    <3>1. CASE i = k + 1
      <4>1. g[i] = w /\ g[i - 1] = f[k]
        BY <1>1, <3>1
      <4> QED
        BY <2>6, <3>1, <4>1
    <3>2. CASE i \in 1 .. k
      <4>1. g[i] = f[i] /\ g[i - 1] = f[i - 1]
        BY <1>1, <3>2
      <4> QED
        BY <2>1, <3>2, <4>1 DEF Parts
    <3>3. i = k + 1 \/ i \in 1 .. k
      BY <1>1
    <3> QED
      BY <3>1, <3>2, <3>3
  <2> HIDE DEF g
  <2>10. Parts(g, ss, k + 1)
    BY <2>8, <2>9 DEF Parts
  <2> QED
    BY <2>7, <2>10
<1> HIDE DEF Has
<1>2. n > 0 => 1 \in S
  <2>1. n > 0 => Has(0 + 1)
    BY <1>0, <1>1
  <2> QED
    BY <2>1
<1>3. \A k \in 1 .. n : k \in S /\ k < n => k + 1 \in S
  BY <1>1
<1>4. 1 .. n \subseteq S
  <2> HIDE DEF S
  <2> QED
    BY <1>2, <1>3, UpTo
<1>5. Has(n)
  BY <1>0, <1>4
<1> QED
  BY <1>5 DEF Has

\* The length and the elements of c are those of a and then b.
Follows(c, a, b) ==
    /\ Len(c) = Len(a) + Len(b)
    /\ \A x \in 1 .. Len(a) : c[x] = a[x]
    /\ \A x \in 1 .. Len(b) : c[Len(a) + x] = b[x]

\* One sequence behind another.
LEMMA JoinIs ==
    ASSUME NEW T, NEW s1 \in Seq(T), NEW s2 \in Seq(T), NEW t, t = s1 \o s2
    PROVE  t \in Seq(T) /\ Follows(t, s1, s2)
<1>1. /\ s1 \o s2 \in Seq(T) /\ Len(s1 \o s2) = Len(s1) + Len(s2)
      /\ \A i \in 1 .. Len(s1) + Len(s2) : (s1 \o s2)[i] =
            IF i <= Len(s1) THEN s1[i] ELSE s2[i - Len(s1)]
  BY ConcatProperties
<1>2. Len(s1) \in Nat /\ Len(s2) \in Nat
  BY LenProperties
<1>3. \A i \in 1 .. Len(s1) + Len(s2) : t[i] = IF i <= Len(s1) THEN s1[i] ELSE s2[i - Len(s1)]
  BY <1>1
<1>4. ASSUME NEW x \in 1 .. Len(s1) PROVE t[x] = s1[x]
  <2>1. x \in 1 .. Len(s1) + Len(s2) /\ x <= Len(s1)
    BY <1>2
  <2> QED
    BY <1>3, <2>1
<1>5. ASSUME NEW x \in 1 .. Len(s2) PROVE t[Len(s1) + x] = s2[x]
  <2>1. /\ Len(s1) + x \in 1 .. Len(s1) + Len(s2)
        /\ ~(Len(s1) + x <= Len(s1))
        /\ (Len(s1) + x) - Len(s1) = x
    BY <1>2
  <2> QED
    BY <1>3, <2>1
<1> QED
  BY <1>1, <1>4, <1>5 DEF Follows

\* One part more.
LEMMA PartsNext ==
    ASSUME NEW T, NEW n \in Nat, NEW ss, \A k \in 1 .. n : ss[k] \in Seq(T),
           NEW f \in [0 .. n -> Seq(T)], Parts(f, ss, n), NEW k \in 1 .. n, NEW j, j = k - 1
    PROVE  /\ f[j] \in Seq(T) /\ f[k] \in Seq(T) /\ f[k] = f[j] \o ss[k]
           /\ Follows(f[k], f[j], ss[k])
<1>1. j \in 0 .. n /\ k \in 0 .. n
  OBVIOUS
<1>2. f[j] \in Seq(T) /\ f[k] \in Seq(T) /\ ss[k] \in Seq(T)
  BY <1>1
<1>3. f[k] = f[j] \o ss[k]
  BY DEF Parts
<1> QED
  BY <1>2, <1>3, JoinIs

\* Every part is the beginning of the whole.
LEMMA PartsBegin ==
    ASSUME NEW T, NEW n \in Nat, NEW ss, \A k \in 1 .. n : ss[k] \in Seq(T),
           NEW f \in [0 .. n -> Seq(T)], Parts(f, ss, n), NEW k \in 1 .. n
    PROVE  Len(f[k]) <= Len(f[n]) /\ \A x \in 1 .. Len(f[k]) : f[n][x] = f[k][x]
<1> DEFINE Begins(i) == Len(f[k]) <= Len(f[i]) /\ \A x \in 1 .. Len(f[k]) : f[i][x] = f[k][x]
           S == {i \in 1 .. n : i >= k => Begins(i)}
<1>0. \A i \in 1 .. n : Len(f[i]) \in Nat
  BY LenProperties
<1>1. Begins(k)
  BY <1>0
<1>2. ASSUME NEW i \in 1 .. n, i < n, i >= k, Begins(i) PROVE Begins(i + 1)
  <2>1. i + 1 \in 1 .. n /\ i = (i + 1) - 1
    BY <1>2
  <2>2. /\ Len(f[i + 1]) = Len(f[i]) + Len(ss[i + 1])
        /\ \A x \in 1 .. Len(f[i]) : f[i + 1][x] = f[i][x]
    <3>1. Follows(f[i + 1], f[i], ss[i + 1])
      BY <2>1, PartsNext
    <3> QED
      BY <3>1 DEF Follows
  <2>3. Len(ss[i + 1]) \in Nat
    <3>1. ss[i + 1] \in Seq(T)
      BY <2>1
    <3> QED
      BY <3>1, LenProperties
  <2>4. Len(f[k]) \in Nat /\ Len(f[i]) \in Nat
    BY <1>0
  <2>5. Len(f[k]) <= Len(f[i + 1])
    <3>1. Len(f[k]) <= Len(f[i]) /\ Len(f[i + 1]) = Len(f[i]) + Len(ss[i + 1])
      BY <1>2, <2>2
    <3>2. \A a, b, c, d : a \in Nat /\ b \in Nat /\ c \in Nat /\ a <= b /\ d = b + c => a <= d
      OBVIOUS
    <3> QED
      BY <2>3, <2>4, <3>1, <3>2, Zenon
  <2>6. \A x \in 1 .. Len(f[k]) : x \in 1 .. Len(f[i])
    BY <1>2, <2>4
  <2> QED
    BY <1>2, <2>2, <2>5, <2>6
<1> HIDE DEF Begins
<1>3. n > 0 => 1 \in S
  <2>1. 1 >= k => k = 1
    OBVIOUS
  <2> QED
    BY <1>1, <2>1
<1>4. ASSUME NEW i \in 1 .. n, i \in S, i < n PROVE i + 1 \in S
  <2> SUFFICES ASSUME i + 1 >= k PROVE Begins(i + 1)
    <3>1. i + 1 \in 1 .. n
      BY <1>4
    <3> QED
      BY <3>1
  <2>1. CASE i >= k
    BY <1>2, <1>4, <2>1
  <2>2. CASE i + 1 = k
    BY <1>1, <2>2
  <2>3. i >= k \/ i + 1 = k
    BY <1>4
  <2> QED
    BY <2>1, <2>2, <2>3
<1>5. 1 .. n \subseteq S
  <2> HIDE DEF S
  <2> QED
    BY <1>3, <1>4, UpTo
<1>6. Begins(n)
  BY <1>5
<1> QED
  BY <1>6 DEF Begins

\* FlattenSeq is the whole.
LEMMA PartsFlatten ==
    ASSUME NEW T, NEW n \in Nat \ {0}, NEW ss, \A k \in 1 .. n : ss[k] \in Seq(T), Len(ss) = n,
           NEW f \in [0 .. n -> Seq(T)], Parts(f, ss, n)
    PROVE  FlattenSeq(ss) = f[n]
<1> DEFINE D(g) == g = [i \in 1 .. n |-> IF i = 1 THEN ss[i] ELSE g[i - 1] \o ss[i]]
           h == [i \in 1 .. n |-> f[i]]
           F == CHOOSE g : D(g)
<1>1. FlattenSeq(ss) = F[n]
  BY DEF FlattenSeq
<1>2. f[1] = ss[1]
  <2>1. 1 \in 1 .. n /\ ss[1] \in Seq(T)
    OBVIOUS
  <2>2. f[0] = <<>> /\ f[1] = f[1 - 1] \o ss[1]
    BY <2>1 DEF Parts
  <2>3. <<>> \o ss[1] = ss[1]
    BY <2>1, ConcatEmptySeq
  <2> QED
    BY <2>2, <2>3
<1>3. \A i \in 1 .. n : f[i] = IF i = 1 THEN ss[i] ELSE f[i - 1] \o ss[i]
  BY <1>2 DEF Parts
<1>4. \A i \in 1 .. n : i # 1 => i - 1 \in 1 .. n
  OBVIOUS
<1>5. \A i \in 1 .. n : h[i] = f[i] /\ (i # 1 => h[i - 1] = f[i - 1])
  BY <1>4
<1>6. D(h)
  BY <1>3, <1>5
<1>7. D(F)
  BY <1>6
<1> HIDE DEF F, h
<1>8. \A i \in 1 .. n : F[i] = IF i = 1 THEN ss[i] ELSE F[i - 1] \o ss[i]
  BY <1>7
<1> DEFINE Same == {i \in 1 .. n : F[i] = f[i]}
<1>9. n > 0 => 1 \in Same
  BY <1>2, <1>8
<1>10. \A i \in 1 .. n : i \in Same /\ i < n => i + 1 \in Same
  <2> SUFFICES ASSUME NEW i \in 1 .. n, F[i] = f[i], i < n PROVE i + 1 \in 1 .. n /\ F[i + 1] = f[i + 1]
    OBVIOUS
  <2>1. i + 1 \in 1 .. n /\ i + 1 # 1 /\ (i + 1) - 1 = i
    OBVIOUS
  <2>2. F[i + 1] = F[i] \o ss[i + 1]
    BY <1>8, <2>1
  <2>3. f[i + 1] = f[i] \o ss[i + 1]
    BY <1>3, <2>1
  <2> QED
    BY <2>1, <2>2, <2>3
<1>11. 1 .. n \subseteq Same
  <2> HIDE DEF Same
  <2> QED
    BY <1>9, <1>10, UpTo
<1> QED
  BY <1>1, <1>11

-----------------------------------------------------------------------------
\* A segment of a page.
LEMMA SegmentIs ==
    ASSUME NEW p, Readable(p), NEW k \in 1 .. Len(p)
    PROVE  /\ p[k].kind \in {"html", "code", "exp"}
           /\ p[k].body \in Seq(Bytes) /\ Len(p[k].body) \in Nat /\ Len(p[k].body) >= 1
<1> DEFINE Segment == [kind : {"html", "code", "exp"}, body : Seq(Bytes) \ {<<>>}]
<1>1. p \in Seq(Segment)
  BY DEF Readable
<1>2. p[k] \in Segment
  BY <1>1, ElementOfSeq
<1>3. p[k].kind \in {"html", "code", "exp"} /\ p[k].body \in Seq(Bytes) /\ p[k].body # <<>>
  BY <1>2
<1>4. Len(p[k].body) \in Nat \ {0}
  BY <1>3, EmptySeq
<1> QED
  BY <1>3, <1>4

\* The length and the elements of t are those of a, b and then c.
Frames(t, a, b, c) ==
    /\ Len(t) = Len(a) + Len(b) + Len(c)
    /\ \A x \in 1 .. Len(a) : t[x] = a[x]
    /\ \A x \in 1 .. Len(b) : t[Len(a) + x] = b[x]
    /\ \A x \in 1 .. Len(c) : t[Len(a) + Len(b) + x] = c[x]

\* A sequence between two others.
LEMMA FramedIs ==
    ASSUME NEW T, NEW a \in Seq(T), NEW b \in Seq(T), NEW c \in Seq(T), NEW t, t = (a \o b) \o c
    PROVE  t \in Seq(T) /\ Frames(t, a, b, c)
<1> DEFINE d == a \o b
<1>1. d \in Seq(T) /\ Follows(d, a, b)
  BY JoinIs
<1>2. t \in Seq(T) /\ Follows(t, d, c)
  <2>1. t = d \o c
    OBVIOUS
  <2> HIDE DEF d
  <2> QED
    BY <1>1, <2>1, JoinIs
<1> HIDE DEF d
<1>3. Len(a) \in Nat /\ Len(b) \in Nat /\ Len(c) \in Nat
  BY LenProperties
<1>4. Len(d) = Len(a) + Len(b) /\ Len(t) = Len(d) + Len(c)
  BY <1>1, <1>2 DEF Follows
<1>5. ASSUME NEW x \in 1 .. Len(a) PROVE t[x] = a[x]
  <2>1. x \in 1 .. Len(d)
    BY <1>3, <1>4
  <2> QED
    BY <1>1, <1>2, <2>1 DEF Follows
<1>6. ASSUME NEW x \in 1 .. Len(b) PROVE t[Len(a) + x] = b[x]
  <2>1. Len(a) + x \in 1 .. Len(d)
    BY <1>3, <1>4
  <2>2. t[Len(a) + x] = d[Len(a) + x]
    BY <1>2, <2>1 DEF Follows
  <2>3. d[Len(a) + x] = b[x]
    BY <1>1 DEF Follows
  <2> QED
    BY <2>2, <2>3
<1>7. ASSUME NEW x \in 1 .. Len(c) PROVE t[Len(a) + Len(b) + x] = c[x]
  BY <1>2, <1>4 DEF Follows
<1> QED
  BY <1>2, <1>3, <1>4, <1>5, <1>6, <1>7 DEF Frames

\* The bytes of a segment.
LEMMA RenderIs ==
    ASSUME NEW seg, seg.kind \in {"html", "code", "exp"}, seg.body \in Seq(Bytes)
    PROVE  /\ Render(seg) \in Seq(Bytes)
           /\ seg.kind = "html" => Render(seg) = seg.body
           /\ seg.kind = "code" =>
                 /\ Len(Render(seg)) = Len(seg.body) + 4
                 /\ Render(seg)[1] = "<" /\ Render(seg)[2] = "%"
                 /\ \A x \in 1 .. Len(seg.body) : Render(seg)[2 + x] = seg.body[x]
                 /\ Render(seg)[Len(seg.body) + 3] = "%" /\ Render(seg)[Len(seg.body) + 4] = ">"
           /\ seg.kind = "exp" =>
                 /\ Len(Render(seg)) = Len(seg.body) + 5
                 /\ Render(seg)[1] = "<" /\ Render(seg)[2] = "%" /\ Render(seg)[3] = "="
                 /\ \A x \in 1 .. Len(seg.body) : Render(seg)[3 + x] = seg.body[x]
                 /\ Render(seg)[Len(seg.body) + 4] = "%" /\ Render(seg)[Len(seg.body) + 5] = ">"
<1> DEFINE b == seg.body
           r == Render(seg)
<1>1. Len(b) \in Nat
  BY LenProperties
<1>2. \A T : \A x \in T : <<x>> \in Seq(T) /\ Len(<<x>>) = 1 /\ <<x>>[1] = x
  OBVIOUS
<1>3. \A T : \A x, y \in T : <<x, y>> \in Seq(T) /\ Len(<<x, y>>) = 2 /\ <<x, y>>[1] = x /\ <<x, y>>[2] = y
  OBVIOUS
<1>4. \A T : \A x, y, z \in T : /\ <<x, y, z>> \in Seq(T) /\ Len(<<x, y, z>>) = 3
                               /\ <<x, y, z>>[1] = x /\ <<x, y, z>>[2] = y /\ <<x, y, z>>[3] = z
  OBVIOUS
<1>5. {"<", "%", "=", ">"} \subseteq Bytes
  BY DEF Bytes
<1>6. CASE seg.kind = "html"
  <2>1. r = b
    BY <1>6 DEF Render
  <2> QED
    BY <1>6, <2>1
<1>7. CASE seg.kind = "code"
  <2> DEFINE u == <<"<", "%">>
             v == <<"%", ">">>
  <2>1. r = (u \o b) \o v
    BY <1>7 DEF Render
  <2>2. /\ u \in Seq(Bytes) /\ Len(u) = 2 /\ u[1] = "<" /\ u[2] = "%"
        /\ v \in Seq(Bytes) /\ Len(v) = 2 /\ v[1] = "%" /\ v[2] = ">"
    BY <1>3, <1>5
  <2> HIDE DEF u, v, r
  <2>3. /\ r \in Seq(Bytes) /\ Len(r) = Len(u) + Len(b) + Len(v)
        /\ \A x \in 1 .. Len(u) : r[x] = u[x]
        /\ \A x \in 1 .. Len(b) : r[Len(u) + x] = b[x]
        /\ \A x \in 1 .. Len(v) : r[Len(u) + Len(b) + x] = v[x]
    <3>1. r \in Seq(Bytes) /\ Frames(r, u, b, v)
      BY <2>1, <2>2, FramedIs
    <3> QED
      BY <3>1 DEF Frames
  <2> HIDE DEF b
  <2>4. Len(r) = Len(b) + 4 /\ r[1] = "<" /\ r[2] = "%"
    BY <1>1, <2>2, <2>3
  <2>5. \A x \in 1 .. Len(b) : r[2 + x] = b[x]
    BY <2>2, <2>3
  <2>6. r[Len(b) + 3] = "%" /\ r[Len(b) + 4] = ">"
    <3>1. r[2 + Len(b) + 1] = "%" /\ r[2 + Len(b) + 2] = ">"
      BY <2>2, <2>3
    <3>2. 2 + Len(b) + 1 = Len(b) + 3 /\ 2 + Len(b) + 2 = Len(b) + 4
      BY <1>1
    <3> QED
      BY <3>1, <3>2
  <2> QED
    BY <1>7, <2>3, <2>4, <2>5, <2>6 DEF r, b
<1>8. CASE seg.kind = "exp"
  <2> DEFINE u == <<"<", "%", "=">>
             v == <<"%", ">">>
  <2>1. r = (u \o b) \o v
    BY <1>8 DEF Render
  <2>2. /\ u \in Seq(Bytes) /\ Len(u) = 3 /\ u[1] = "<" /\ u[2] = "%" /\ u[3] = "="
        /\ v \in Seq(Bytes) /\ Len(v) = 2 /\ v[1] = "%" /\ v[2] = ">"
    BY <1>3, <1>4, <1>5
  <2> HIDE DEF u, v, r
  <2>3. /\ r \in Seq(Bytes) /\ Len(r) = Len(u) + Len(b) + Len(v)
        /\ \A x \in 1 .. Len(u) : r[x] = u[x]
        /\ \A x \in 1 .. Len(b) : r[Len(u) + x] = b[x]
        /\ \A x \in 1 .. Len(v) : r[Len(u) + Len(b) + x] = v[x]
    <3>1. r \in Seq(Bytes) /\ Frames(r, u, b, v)
      BY <2>1, <2>2, FramedIs
    <3> QED
      BY <3>1 DEF Frames
  <2> HIDE DEF b
  <2>4. Len(r) = Len(b) + 5 /\ r[1] = "<" /\ r[2] = "%" /\ r[3] = "="
    BY <1>1, <2>2, <2>3
  <2>5. \A x \in 1 .. Len(b) : r[3 + x] = b[x]
    BY <2>2, <2>3
  <2>6. r[Len(b) + 4] = "%" /\ r[Len(b) + 5] = ">"
    <3>1. r[3 + Len(b) + 1] = "%" /\ r[3 + Len(b) + 2] = ">"
      BY <2>2, <2>3
    <3>2. 3 + Len(b) + 1 = Len(b) + 4 /\ 3 + Len(b) + 2 = Len(b) + 5
      BY <1>1
    <3> QED
      BY <3>1, <3>2
  <2> QED
    BY <1>8, <2>3, <2>4, <2>5, <2>6 DEF r, b
<1> QED
  BY <1>6, <1>7, <1>8

\* What a segment means is written in pieces.
LEMMA MeansIs ==
    ASSUME NEW seg, seg.kind \in {"html", "code", "exp"}, seg.body \in Seq(Bytes)
    PROVE  Means(seg) \in Seq(Pieces)
<1>1. seg.body \in Seq(Pieces)
  BY SeqMonotonic DEF Pieces
<1>2. \A x \in Pieces : <<x>> \in Seq(Pieces)
  OBVIOUS
<1>3. {"PrintStart", "PrintEnd", "ExpStart", "ExpEnd"} \subseteq Pieces
  BY DEF Pieces, Literals
<1>4. \A x, y \in Pieces : (<<x>> \o seg.body) \o <<y>> \in Seq(Pieces)
  BY <1>1, <1>2, FramedIs
<1> QED
  BY <1>1, <1>3, <1>4 DEF Means

\* Where a segment stands in the source, and what it adds to the output.
LEMMA SegmentStands ==
    ASSUME Readable(page), NEW s, NEW m, Joined(s, m), NEW k \in 1 .. Len(page)
    PROVE  /\ s[k - 1] \in Seq(Bytes) /\ s[k] \in Seq(Bytes)
           /\ Len(s[k]) = Len(s[k - 1]) + Len(Render(page[k]))
           /\ Len(s[k]) <= Len(s[Len(page)])
           /\ \A x \in 1 .. Len(Render(page[k])) :
                 s[Len(page)][Len(s[k - 1]) + x] = Render(page[k])[x]
           /\ m[k - 1] \in Seq(Pieces) /\ m[k] = m[k - 1] \o Means(page[k])
<1> DEFINE n == Len(page)
           ss == Rendered(page)
           mm == Meant(page)
<1>1. n \in Nat /\ DOMAIN page = 1 .. n
  <2>1. page \in Seq([kind : {"html", "code", "exp"}, body : Seq(Bytes) \ {<<>>}])
    BY DEF Readable
  <2> QED
    BY <2>1, LenProperties
<1>2. ASSUME NEW i \in 1 .. n
      PROVE  /\ ss[i] = Render(page[i]) /\ ss[i] \in Seq(Bytes)
             /\ mm[i] = Means(page[i]) /\ mm[i] \in Seq(Pieces)
  <2>1. page[i].kind \in {"html", "code", "exp"} /\ page[i].body \in Seq(Bytes)
    BY SegmentIs
  <2>2. Render(page[i]) \in Seq(Bytes) /\ Means(page[i]) \in Seq(Pieces)
    BY <2>1, RenderIs, MeansIs
  <2> QED
    BY <1>1, <2>2 DEF Rendered, Meant
<1>3. /\ s \in [0 .. n -> Seq(Bytes)] /\ Parts(s, ss, n)
      /\ m \in [0 .. n -> Seq(Pieces)] /\ Parts(m, mm, n)
  BY DEF Joined
<1>4. k \in 1 .. n
  OBVIOUS
<1> HIDE DEF n, ss, mm
<1> DEFINE j == k - 1
<1>5. j = k - 1
  OBVIOUS
<1> HIDE DEF j
<1>6. s[j] \in Seq(Bytes) /\ s[k] \in Seq(Bytes) /\ Follows(s[k], s[j], ss[k])
  <2>1. s \in [0 .. n -> Seq(Bytes)] /\ Parts(s, ss, n) /\ \A i \in 1 .. n : ss[i] \in Seq(Bytes)
    BY <1>2, <1>3
  <2> QED
    BY <1>1, <1>4, <1>5, <2>1, PartsNext
<1>7. m[j] \in Seq(Pieces) /\ m[k] = m[j] \o mm[k]
  <2>1. m \in [0 .. n -> Seq(Pieces)] /\ Parts(m, mm, n) /\ \A i \in 1 .. n : mm[i] \in Seq(Pieces)
    BY <1>2, <1>3
  <2>2. j \in 0 .. n /\ k \in 0 .. n
    BY <1>1, <1>4, <1>5
  <2>3. m[k] = m[k - 1] \o mm[k]
    BY <1>4, <2>1 DEF Parts
  <2> QED
    BY <1>5, <2>1, <2>2, <2>3
<1>8. Len(s[k]) <= Len(s[n]) /\ \A x \in 1 .. Len(s[k]) : s[n][x] = s[k][x]
  <2>1. s \in [0 .. n -> Seq(Bytes)] /\ Parts(s, ss, n) /\ \A i \in 1 .. n : ss[i] \in Seq(Bytes)
    BY <1>2, <1>3
  <2> QED
    BY <1>1, <1>4, <2>1, PartsBegin
<1>9. ss[k] = Render(page[k]) /\ mm[k] = Means(page[k])
  BY <1>2, <1>4
<1>10. Len(s[k]) \in Nat /\ Len(s[j]) \in Nat /\ Len(ss[k]) \in Nat
  BY <1>2, <1>4, <1>6, LenProperties
<1>11. Len(s[k]) = Len(s[j]) + Len(ss[k])
  BY <1>6 DEF Follows
<1>12. ASSUME NEW x \in 1 .. Len(ss[k]) PROVE s[n][Len(s[j]) + x] = ss[k][x]
  <2>0. \A a, b, c \in Nat : \A y \in 1 .. c : b = a + c => a + y \in 1 .. b
    OBVIOUS
  <2>1. Len(s[j]) + x \in 1 .. Len(s[k])
    BY <1>10, <1>11, <1>12, <2>0, Zenon
  <2>2. s[k][Len(s[j]) + x] = ss[k][x]
    BY <1>6 DEF Follows
  <2> QED
    BY <1>8, <2>1, <2>2
<1>13. Len(s[k]) <= Len(s[Len(page)]) /\ s[n] = s[Len(page)]
  BY <1>8 DEF n
<1> QED
  BY <1>5, <1>6, <1>7, <1>9, <1>11, <1>12, <1>13

-----------------------------------------------------------------------------
\* Bytes that have one behind them.
LEMMA HasNext ==
    /\ \A n \in Nat : n >= 1 => 1 \in 1 .. n
    /\ \A n \in Nat : (2 + n) + 1 = 2 + (n + 1) /\ (3 + n) + 1 = 3 + (n + 1)
    /\ \A n \in Nat : \A i \in 1 .. n - 1 : i \in 1 .. n /\ i + 1 \in 1 .. n /\ i < n
    /\ \A n \in Nat : \A i \in 1 .. n : i < n => i \in 1 .. n - 1 /\ i + 1 \in 1 .. n
OBVIOUS

\* No byte of a block is quoted in front of the first.
LEMMA QuotedFirst ==
    ASSUME NEW body, Block(body), Len(body) \in Nat, Len(body) >= 1
    PROVE  QuotedAs(body, 1, FALSE, FALSE, FALSE)
<1>1. PICK esc \in [1 .. Len(body) -> BOOLEAN] : Escapes(body, esc)
  BY DEF Block
<1>2. PICK open \in [1 .. Len(body) -> {"none", "'", "\""}] : Strings(body, open)
  BY DEF Block
<1>3. FALSE = esc[1]
  <2>1. 1 \in 1 .. Len(body)
    BY HasNext, Zenon
  <2>2. ~esc[1]
    BY <1>1 DEF Escapes
  <2>3. esc[1] \in BOOLEAN
    BY <2>1
  <2> QED
    BY <2>2, <2>3
<1>4. FALSE = (open[1] = "\"") /\ FALSE = (open[1] = "'")
  <2>1. open[1] = "none"
    BY <1>2 DEF Strings
  <2> QED
    BY <2>1
<1> QED
  BY <1>1, <1>2, <1>3, <1>4 DEF QuotedAs

\* Quotes reads a byte as the author does.
LEMMA QuotedNext ==
    ASSUME NEW body, Len(body) \in Nat, NEW i \in 1 .. Len(body) - 1,
           QuotedAs(body, i, backslash, dquoted, squoted), Quotes(body[i + 1])
    PROVE  QuotedAs(body, i + 1, backslash', dquoted', squoted')
<1>1. PICK esc \in [1 .. Len(body) -> BOOLEAN] : Escapes(body, esc) /\ backslash = esc[i]
  BY DEF QuotedAs
<1>2. PICK open \in [1 .. Len(body) -> {"none", "'", "\""}] :
         Strings(body, open) /\ dquoted = (open[i] = "\"") /\ squoted = (open[i] = "'")
  BY DEF QuotedAs
<1>3. i \in 1 .. Len(body) /\ i + 1 \in 1 .. Len(body)
  BY HasNext, Zenon
<1>4. /\ esc[i] \in BOOLEAN /\ esc[i + 1] \in BOOLEAN
      /\ open[i] \in {"none", "'", "\""} /\ open[i + 1] \in {"none", "'", "\""}
  BY <1>3
<1> DEFINE ch == body[i + 1]
<1>5. /\ esc[i + 1] = (ch = "\\" /\ ~esc[i])
      /\ esc[i] => ch \notin {"'", "\"", "%"}
  BY <1>1 DEF Escapes
<1>6. /\ ch = "%" => open[i] # "none"
      /\ open[i + 1] = IF ch \notin {"'", "\""} THEN open[i]
                       ELSE IF open[i] = "none" THEN ch
                       ELSE IF open[i] = ch THEN "none" ELSE open[i]
  BY <1>2 DEF Strings
<1>7. Quotes(ch)
  OBVIOUS
<1> HIDE DEF ch
<1>8. backslash = esc[i] /\ dquoted = (open[i] = "\"") /\ squoted = (open[i] = "'")
  BY <1>1, <1>2
<1>9. backslash' = esc[i + 1]
  BY <1>4, <1>5, <1>7, <1>8 DEF Quotes, InString, quoting
<1>10. dquoted' = (open[i + 1] = "\"") /\ squoted' = (open[i + 1] = "'")
  <2>1. CASE ch = "'"
    BY <1>4, <1>5, <1>6, <1>7, <1>8, <2>1 DEF Quotes, InString, quoting
  <2>2. CASE ch = "\""
    BY <1>4, <1>5, <1>6, <1>7, <1>8, <2>2 DEF Quotes, InString, quoting
  <2>3. CASE ch \notin {"'", "\""}
    BY <1>6, <1>7, <1>8, <2>3 DEF Quotes, quoting
  <2> QED
    BY <2>1, <2>2, <2>3
<1> QED
  BY <1>1, <1>2, <1>9, <1>10 DEF QuotedAs

\* A "%" of a block is in a string, for the parser too, and the last byte is not.
LEMMA QuotedPercent ==
    ASSUME NEW body, Len(body) \in Nat, NEW i \in 1 .. Len(body),
           QuotedAs(body, i, backslash, dquoted, squoted)
    PROVE  /\ i < Len(body) /\ body[i + 1] = "%" => InString
           /\ i = Len(body) => ~InString
<1>1. PICK esc \in [1 .. Len(body) -> BOOLEAN] : Escapes(body, esc) /\ backslash = esc[i]
  BY DEF QuotedAs
<1>2. PICK open \in [1 .. Len(body) -> {"none", "'", "\""}] :
         Strings(body, open) /\ dquoted = (open[i] = "\"") /\ squoted = (open[i] = "'")
  BY DEF QuotedAs
<1>3. ASSUME i < Len(body), body[i + 1] = "%" PROVE InString
  <2>1. i \in 1 .. Len(body) - 1
    BY <1>3, HasNext, Zenon
  <2>2. open[i] # "none" /\ open[i] \in {"none", "'", "\""}
    BY <1>2, <1>3, <2>1 DEF Strings
  <2> QED
    BY <1>2, <2>2 DEF InString
<1>4. ASSUME i = Len(body) PROVE ~InString
  <2>1. ~esc[i] /\ open[i] = "none"
    BY <1>1, <1>2, <1>4 DEF Escapes, Strings
  <2> QED
    BY <1>1, <1>2, <2>1 DEF InString
<1> QED
  BY <1>3, <1>4

-----------------------------------------------------------------------------
\* What is known of a page while it is parsed.
Known(s, m) ==
    /\ Readable(page) /\ Joined(s, m) /\ src = s[Len(page)]
    /\ Typed /\ HtmlStates /\ Len(page) \in Nat

\* The next byte of segment k.
LEMMA NextByte ==
    ASSUME NEW s, NEW m, Known(s, m), NEW k \in 1 .. Len(page),
           NEW j \in Nat, At(s, k, j), j < Len(Render(page[k]))
    PROVE  pos < Len(src) /\ src[pos + 1] = Render(page[k])[j + 1]
<1>1. /\ s[k - 1] \in Seq(Bytes) /\ s[k] \in Seq(Bytes)
      /\ Len(s[k]) = Len(s[k - 1]) + Len(Render(page[k]))
      /\ Len(s[k]) <= Len(s[Len(page)])
      /\ \A x \in 1 .. Len(Render(page[k])) :
            s[Len(page)][Len(s[k - 1]) + x] = Render(page[k])[x]
  BY SegmentStands DEF Known
<1>2. Render(page[k]) \in Seq(Bytes)
  BY SegmentIs, RenderIs DEF Known
<1> DEFINE r == Render(page[k])
           a == Len(s[k - 1])
<1>3. a \in Nat /\ Len(r) \in Nat /\ Len(src) \in Nat
  BY <1>1, <1>2, LenProperties DEF Known, Typed
<1>4. pos = a + j /\ a + Len(r) <= Len(src)
  BY <1>1 DEF At, Known
<1>5. \A x \in 1 .. Len(r) : src[a + x] = r[x]
  BY <1>1 DEF Known
<1> HIDE DEF r, a
<1>6. j + 1 \in 1 .. Len(r) /\ pos + 1 = a + (j + 1) /\ pos < Len(src)
  BY <1>3, <1>4 DEF r
<1>7. src[pos + 1] = r[j + 1]
  BY <1>5, <1>6
<1> QED
  BY <1>6, <1>7 DEF r

\* Behind its last byte the next segment begins, or the page ends.
LEMMA NextSegment ==
    ASSUME NEW s, NEW m, Known(s, m), NEW k \in 1 .. Len(page)
    PROVE  /\ Len(s[k - 1]) \in Nat /\ Len(Render(page[k])) \in Nat
           /\ Len(s[k]) = Len(s[k - 1]) + Len(Render(page[k])) /\ Len(s[k]) <= Len(src)
           /\ (k + 1) - 1 = k /\ Len(s[k]) \in Nat
<1>1. /\ s[k - 1] \in Seq(Bytes) /\ s[k] \in Seq(Bytes)
      /\ Len(s[k]) = Len(s[k - 1]) + Len(Render(page[k]))
      /\ Len(s[k]) <= Len(s[Len(page)])
  BY SegmentStands DEF Known
<1>2. Render(page[k]) \in Seq(Bytes)
  BY SegmentIs, RenderIs DEF Known
<1>3. Len(src) = Len(s[Len(page)])
  BY DEF Known
<1>4. (k + 1) - 1 = k
  BY DEF Known
<1> QED
  BY <1>1, <1>2, <1>3, <1>4, LenProperties

\* One byte more, and the last of a segment.
LEMMA AtNext ==
    ASSUME NEW s, NEW m, Known(s, m), NEW k \in 1 .. Len(page), NEW j \in Nat, At(s, k, j), pos' = pos + 1
    PROVE  At(s, k, j + 1)' /\ (j + 1 = Len(Render(page[k])) => At(s, k + 1, 0)')
<1>1. \A a, i \in Nat : (a + i) + 1 = a + (i + 1) /\ (a + i) + 1 = ((a + i) + 1) + 0
  OBVIOUS
<1>2. Len(s[k - 1]) \in Nat /\ Len(s[k]) = Len(s[k - 1]) + Len(Render(page[k])) /\ (k + 1) - 1 = k
  BY NextSegment
<1>3. pos' = Len(s[k - 1]) + (j + 1) /\ pos' = pos' + 0
  <2>1. pos = Len(s[k - 1]) + j
    BY DEF At
  <2>2. pos' = (Len(s[k - 1]) + j) + 1
    BY <2>1, Zenon
  <2>3. /\ (Len(s[k - 1]) + j) + 1 = Len(s[k - 1]) + (j + 1)
        /\ (Len(s[k - 1]) + j) + 1 = ((Len(s[k - 1]) + j) + 1) + 0
    BY <1>1, <1>2, Zenon
  <2> QED
    BY <2>2, <2>3, Zenon
<1>4. At(s, k, j + 1)'
  BY <1>3, Zenon DEF At
<1>5. ASSUME j + 1 = Len(Render(page[k])) PROVE At(s, k + 1, 0)'
  <2>1. pos' = Len(s[k]) + 0
    BY <1>2, <1>3, <1>5, Zenon
  <2>2. pos' = Len(s[(k + 1) - 1]) + 0
    BY <1>2, <2>1, Zenon
  <2> QED
    BY <2>2, Zenon DEF At
<1> QED
  BY <1>4, <1>5

\* Behind a segment.
LEMMA AtEnd ==
    ASSUME NEW s, NEW m, Known(s, m), NEW k \in 1 .. Len(page), At(s, k, Len(Render(page[k])))
    PROVE  pos = Len(s[k]) /\ At(s, k + 1, 0)
<1>1. Len(s[k]) = Len(s[k - 1]) + Len(Render(page[k])) /\ (k + 1) - 1 = k /\ Len(s[k]) \in Nat
  BY NextSegment
<1>2. pos = Len(s[k])
  BY <1>1, Zenon DEF At
<1>3. \A a \in Nat : a = a + 0
  OBVIOUS
<1>4. pos = Len(s[(k + 1) - 1]) + 0
  BY <1>1, <1>2, <1>3, Zenon
<1> QED
  BY <1>2, <1>4, Zenon DEF At

\* A part of a body, and one byte more.
LEMMA PartIs ==
    ASSUME NEW body \in Seq(Bytes), NEW j \in 1 .. Len(body)
    PROVE  /\ SubSeq(body, 1, j) \in Seq(Pieces)
           /\ j = 1 => SubSeq(body, 1, j) = <<body[1]>>
           /\ j = Len(body) => SubSeq(body, 1, j) = body
           /\ j < Len(body) => SubSeq(body, 1, j) \o <<body[j + 1]>> = SubSeq(body, 1, j + 1)
<1>1. Len(body) \in Nat /\ body \in Seq(Pieces)
  BY LenProperties, SeqMonotonic DEF Pieces
<1>2. SubSeq(body, 1, j) \in Seq(Pieces)
  <2>1. \A x \in 1 .. j : body[x] \in Pieces
    BY <1>1, ElementOfSeq
  <2> QED
    BY <2>1, SubSeqProperties
<1>3. ASSUME j = 1 PROVE SubSeq(body, 1, j) = <<body[1]>>
  <2>1. SubSeq(body, 1, 1) = <<body[1]>> \o SubSeq(body, 1 + 1, 1)
    BY <1>1, <1>3, SubSeqRecursiveFirst
  <2>2. SubSeq(body, 1 + 1, 1) = <<>>
    BY SubSeqEmpty
  <2>3. <<body[1]>> \in Seq(Pieces)
    BY <1>1, <1>3, ElementOfSeq
  <2>4. <<body[1]>> \o <<>> = <<body[1]>>
    BY <2>3, ConcatEmptySeq
  <2> QED
    BY <1>3, <2>1, <2>2, <2>4
<1>4. SubSeq(body, 1, Len(body)) = body
  BY SubSeqFull
<1>5. ASSUME j < Len(body)
      PROVE  SubSeq(body, 1, j) \o <<body[j + 1]>> = SubSeq(body, 1, j + 1)
  <2>1. 1 \in 1 .. Len(body) /\ j + 1 \in 1 .. Len(body) /\ (j + 1) - 1 = j
    BY <1>1, <1>5
  <2>2. SubSeq(body, 1, j + 1) = SubSeq(body, 1, (j + 1) - 1) \o <<body[j + 1]>>
    BY <2>1, SubSeqRecursiveSecond
  <2> QED
    BY <2>1, <2>2
<1> QED
  BY <1>2, <1>3, <1>4, <1>5

\* Short sequences of pieces.
LEMMA ShortIs ==
    ASSUME NEW x \in Pieces, NEW y \in Pieces, NEW z \in Pieces
    PROVE  /\ <<x>> \in Seq(Pieces) /\ <<x, y>> \in Seq(Pieces) /\ <<x, y, z>> \in Seq(Pieces)
           /\ <<x>> \o <<y>> = <<x, y>> /\ <<x>> \o <<y, z>> = <<x, y, z>>
<1>1. <<x>> \in Seq(Pieces) /\ <<x, y>> \in Seq(Pieces) /\ <<x, y, z>> \in Seq(Pieces)
  OBVIOUS
<1>2. <<x>> \o <<y>> = <<x, y>>
  <2> DEFINE u == <<x>>
             v == <<y>>
             w == <<x, y>>
             t == u \o v
  <2>1. /\ u \in Seq(Pieces) /\ Len(u) = 1 /\ u[1] = x
        /\ v \in Seq(Pieces) /\ Len(v) = 1 /\ v[1] = y
        /\ w \in Seq(Pieces) /\ Len(w) = 2 /\ w[1] = x /\ w[2] = y
    OBVIOUS
  <2> HIDE DEF u, v, w
  <2>2. t \in Seq(Pieces) /\ Follows(t, u, v)
    BY <2>1, JoinIs
  <2> HIDE DEF t
  <2>3. Len(t) = 2 /\ t[1] = x /\ t[2] = y
    <3>1. Len(t) = 1 + 1 /\ t[1] = x /\ t[1 + 1] = y
      BY <2>1, <2>2 DEF Follows
    <3> QED
      BY <3>1
  <2>4. t = w
    BY <2>1, <2>2, <2>3, SeqEqual
  <2> QED
    BY <2>4 DEF t, u, v, w
<1>3. <<x>> \o <<y, z>> = <<x, y, z>>
  <2> DEFINE u == <<x>>
             v == <<y, z>>
             w == <<x, y, z>>
             t == u \o v
  <2>1. /\ u \in Seq(Pieces) /\ Len(u) = 1 /\ u[1] = x
        /\ v \in Seq(Pieces) /\ Len(v) = 2 /\ v[1] = y /\ v[2] = z
        /\ w \in Seq(Pieces) /\ Len(w) = 3 /\ w[1] = x /\ w[2] = y /\ w[3] = z
    OBVIOUS
  <2> HIDE DEF u, v, w
  <2>2. t \in Seq(Pieces) /\ Follows(t, u, v)
    BY <2>1, JoinIs
  <2> HIDE DEF t
  <2>3. Len(t) = 3 /\ t[1] = x /\ t[2] = y /\ t[3] = z
    <3>1. Len(t) = 1 + 2 /\ t[1] = x /\ t[1 + 1] = y /\ t[1 + 2] = z
      BY <2>1, <2>2 DEF Follows
    <3> QED
      BY <3>1
  <2>4. t = w
    BY <2>1, <2>2, <2>3, SeqEqual
  <2> QED
    BY <2>4 DEF t, u, v, w
<1> QED
  BY <1>1, <1>2, <1>3

\* The part of a body behind a literal x, and one or two bytes more.
LEMMA PartsBehind ==
    ASSUME NEW body \in Seq(Bytes), NEW x \in Pieces, NEW j \in 1 .. Len(body)
    PROVE  /\ j = 1 => <<x, body[1]>> = <<x>> \o SubSeq(body, 1, j)
           /\ j < Len(body) =>
                 (<<x>> \o SubSeq(body, 1, j)) \o <<body[j + 1]>> = <<x>> \o SubSeq(body, 1, j + 1)
           /\ j = 1 /\ j < Len(body) => <<x, body[1], body[2]>> = <<x>> \o SubSeq(body, 1, j + 1)
           /\ \A i \in 1 .. Len(body) : i + 1 = j /\ j < Len(body) =>
                 (<<x>> \o SubSeq(body, 1, i)) \o <<body[j], body[j + 1]>> = <<x>> \o SubSeq(body, 1, j + 1)
<1>1. Len(body) \in Nat
  BY LenProperties
<1>2. \A i \in 1 .. Len(body) : body[i] \in Pieces /\ SubSeq(body, 1, i) \in Seq(Pieces)
  BY PartIs, ElementOfSeq DEF Pieces
<1>3. ASSUME j = 1 PROVE <<x, body[1]>> = <<x>> \o SubSeq(body, 1, j)
  <2>1. body[1] \in Pieces /\ SubSeq(body, 1, j) = <<body[1]>>
    BY <1>2, <1>3, PartIs
  <2> QED
    BY <2>1, ShortIs
<1>4. ASSUME NEW i \in 1 .. Len(body), i < Len(body)
      PROVE  (<<x>> \o SubSeq(body, 1, i)) \o <<body[i + 1]>> = <<x>> \o SubSeq(body, 1, i + 1)
  <2> DEFINE u == SubSeq(body, 1, i)
             v == SubSeq(body, 1, i + 1)
             y == body[i + 1]
  <2>1. u \o <<y>> = v
    BY <1>4, PartIs
  <2>2. y \in Pieces /\ u \in Seq(Pieces)
    <3>1. i + 1 \in 1 .. Len(body)
      BY <1>1, <1>4
    <3> QED
      BY <1>2, <3>1
  <2> HIDE DEF u, v, y
  <2>3. <<x>> \in Seq(Pieces) /\ <<y>> \in Seq(Pieces)
    BY <2>2
  <2>4. (<<x>> \o u) \o <<y>> = <<x>> \o (u \o <<y>>)
    BY <2>2, <2>3, ConcatAssociative
  <2>5. (<<x>> \o u) \o <<y>> = <<x>> \o v
    BY <2>1, <2>4
  <2> QED
    BY <2>5 DEF u, v, y
<1>5. ASSUME j = 1, j < Len(body) PROVE <<x, body[1], body[2]>> = <<x>> \o SubSeq(body, 1, j + 1)
  <2>1. body[1] \in Pieces /\ body[2] \in Pieces
    BY <1>1, <1>2, <1>5
  <2>2. SubSeq(body, 1, j) = <<body[1]>> /\ SubSeq(body, 1, j) \o <<body[j + 1]>> = SubSeq(body, 1, j + 1)
    BY <1>5, PartIs
  <2>3. SubSeq(body, 1, j + 1) = <<body[1], body[2]>>
    <3>1. <<body[1]>> \o <<body[2]>> = <<body[1], body[2]>>
      BY <2>1, ShortIs
    <3>2. body[j + 1] = body[2]
      BY <1>5
    <3> QED
      BY <2>2, <3>1, <3>2
  <2>4. <<x>> \o <<body[1], body[2]>> = <<x, body[1], body[2]>>
    BY <2>1, ShortIs
  <2> QED
    BY <2>3, <2>4
<1>6. ASSUME NEW i \in 1 .. Len(body), i + 1 = j, j < Len(body)
      PROVE  (<<x>> \o SubSeq(body, 1, i)) \o <<body[j], body[j + 1]>> = <<x>> \o SubSeq(body, 1, j + 1)
  <2> DEFINE u == <<x>> \o SubSeq(body, 1, i)
             y == body[j]
             z == body[j + 1]
             v == <<x>> \o SubSeq(body, 1, j)
             w == <<x>> \o SubSeq(body, 1, j + 1)
  <2>1. i < Len(body) /\ j + 1 \in 1 .. Len(body)
    BY <1>1, <1>6
  <2>2. u \o <<y>> = v
    BY <1>4, <1>6, <2>1
  <2>3. v \o <<z>> = w
    BY <1>4, <1>6
  <2>4. y \in Pieces /\ z \in Pieces
    BY <1>2, <2>1
  <2>5. u \in Seq(Pieces)
    <3>1. <<x>> \in Seq(Pieces) /\ SubSeq(body, 1, i) \in Seq(Pieces)
      BY <1>2
    <3> QED
      BY <3>1, ConcatProperties
  <2> HIDE DEF u, v, w, y, z
  <2>6. <<y>> \in Seq(Pieces) /\ <<z>> \in Seq(Pieces) /\ <<y>> \o <<z>> = <<y, z>>
    BY <2>4, ShortIs
  <2>7. (u \o <<y>>) \o <<z>> = u \o (<<y>> \o <<z>>)
    BY <2>5, <2>6, ConcatAssociative
  <2>8. u \o <<y, z>> = w
    BY <2>2, <2>3, <2>6, <2>7
  <2> QED
    BY <2>8 DEF u, w, y, z
<1> QED
  BY <1>3, <1>4, <1>5, <1>6

\* What is written goes behind what segment k has written.
LEMMA WritesOn ==
    ASSUME NEW s, NEW m, Known(s, m), NEW k \in 1 .. Len(page),
           NEW part \in Seq(Pieces), Wrote(m, k, part), NEW e \in Seq(Pieces)
    PROVE  WroteAs(out \o e, m, k, part \o e) /\ out \in Seq(Pieces)
<1> DEFINE a == <<"FunctionStart">> \o m[k - 1]
<1>1. a \in Seq(Pieces)
  <2>1. m[k - 1] \in Seq(Pieces)
    BY SegmentStands DEF Known
  <2>2. <<"FunctionStart">> \in Seq(Pieces)
    BY DEF Pieces
  <2> QED
    BY <2>1, <2>2, ConcatProperties
<1>2. out = a \o part
  BY DEF Wrote, WroteAs
<1> HIDE DEF a
<1>3. (a \o part) \o e = a \o (part \o e)
  BY <1>1, ConcatAssociative
<1>4. out \o e = a \o (part \o e)
  BY <1>2, <1>3
<1>5. a \o part \in Seq(Pieces)
  BY <1>1, ConcatProperties
<1> QED
  BY <1>2, <1>4, <1>5 DEF a, WroteAs

\* When segment k has written what it means, the next can begin.
LEMMA WroteWhole ==
    ASSUME NEW s, NEW m, Known(s, m), NEW k \in 1 .. Len(page),
           NEW o, o = (<<"FunctionStart">> \o m[k - 1]) \o Means(page[k])
    PROVE  o = <<"FunctionStart">> \o m[k] /\ o = (<<"FunctionStart">> \o m[(k + 1) - 1]) \o <<>>
<1> DEFINE a == <<"FunctionStart">>
           b == m[k - 1]
           c == Means(page[k])
           d == m[k]
<1>1. b \in Seq(Pieces) /\ d = b \o c
  BY SegmentStands DEF Known
<1>2. c \in Seq(Pieces)
  BY SegmentIs, MeansIs DEF Known
<1>3. a \in Seq(Pieces)
  BY DEF Pieces
<1>4. o = (a \o b) \o c
  OBVIOUS
<1>5. m[(k + 1) - 1] = d
  BY NextSegment
<1> HIDE DEF a, b, c, d
<1>6. (a \o b) \o c = a \o d
  BY <1>1, <1>2, <1>3, ConcatAssociative
<1>7. a \o d \in Seq(Pieces)
  BY <1>1, <1>2, <1>3, ConcatProperties
<1>8. (a \o d) \o <<>> = a \o d
  BY <1>7, ConcatEmptySeq
<1>9. o = a \o d /\ o = (a \o d) \o <<>>
  BY <1>4, <1>6, <1>8
<1> QED
  BY <1>5, <1>9 DEF a, d

-----------------------------------------------------------------------------
\* The first byte of a segment behind a block, or of the page.
LEMMA StartReads ==
    ASSUME NEW s, NEW m, Known(s, m), NEW k, Between(s, m, k), NEW ch, Start(ch)
    PROVE  k \in Nat /\ (InText(s, m, k, 1)' \/ PendingText(s, m, k, 1)' \/ Opening(s, m, k, 1)')
<1> DEFINE b == page[k].body
<1>1. /\ state = "start" /\ ~html /\ At(s, k, 0) /\ Wrote(m, k, <<>>) /\ k \in 1 .. Len(page) + 1
      /\ pos < Len(src) /\ ch = src[pos + 1] /\ pos' = pos + 1 /\ page' = page
  BY DEF Between, Start, Reads, Known, HtmlStates
<1>2. k \in 1 .. Len(page)
  <2> SUFFICES ASSUME k = Len(page) + 1 PROVE FALSE
    BY <1>1 DEF Known
  <2>1. s[Len(page)] = src /\ k - 1 = Len(page) /\ Len(src) \in Nat
    BY DEF Known, Typed
  <2>2. pos = Len(src)
    BY <1>1, <2>1 DEF At
  <2> QED
    BY <1>1, <2>1, <2>2
<1>3. /\ page[k].kind \in {"html", "code", "exp"} /\ b \in Seq(Bytes) /\ Len(b) \in Nat /\ Len(b) >= 1
  BY <1>2, SegmentIs DEF Known
<1>4. Len(s[k - 1]) \in Nat
  BY <1>2, NextSegment
<1>5. At(s, k, 1)' /\ k \in 1 .. Len(page')
  BY <1>1, <1>2, <1>4 DEF At
<1>6. CASE page[k].kind = "html"
  <2>1. Render(page[k]) = b
    BY <1>3, <1>6, RenderIs
  <2>2. ch = b[1]
    <3>1. 0 < Len(Render(page[k])) /\ 0 \in Nat
      BY <1>3, <2>1
    <3>2. src[pos + 1] = Render(page[k])[0 + 1]
      BY <1>1, <1>2, <3>1, NextByte
    <3> QED
      BY <1>1, <2>1, <3>2
  <2>3. 1 \in 1 .. Len(b)
    BY <1>3
  <2>4. CASE ch = "<"
    <3>1. state' = "squ_start" /\ ~html' /\ out' = out
      BY <2>4 DEF Start, EmitNothing, Goto
    <3>2. Wrote(m, k, <<>>)'
      BY <1>1, <3>1 DEF Wrote, WroteAs
    <3>3. PendingText(s, m, k, 1)'
      BY <1>1, <1>5, <1>6, <2>2, <2>3, <2>4, <3>1, <3>2 DEF PendingText
    <3> QED
      BY <1>2, <3>3
  <2>5. CASE ch # "<"
    <3>1. state' = "html_block" /\ html' /\ out' = out \o <<"PrintStart", ch>>
      BY <2>5 DEF Start, Emit, Goto
    <3>2. "PrintStart" \in Pieces /\ ch \in Pieces
      BY <1>3, <2>2, <2>3, ElementOfSeq DEF Pieces, Literals
    <3>3. <<"PrintStart", ch>> \in Seq(Pieces) /\ <<>> \in Seq(Pieces)
      BY <3>2, ShortIs, EmptySeq
    <3>4. WroteAs(out \o <<"PrintStart", ch>>, m, k, <<>> \o <<"PrintStart", ch>>)
      BY <1>1, <1>2, <3>3, WritesOn
    <3>5. <<>> \o <<"PrintStart", ch>> = <<"PrintStart", ch>>
      BY <3>3, ConcatEmptySeq
    <3>6. <<"PrintStart", ch>> = <<"PrintStart">> \o SubSeq(b, 1, 1)
      BY <1>3, <2>2, <2>3, <3>2, PartsBehind
    <3>7. Wrote(m, k, <<"PrintStart">> \o SubSeq(page[k].body, 1, 1))'
      BY <1>1, <3>1, <3>4, <3>5, <3>6 DEF Wrote, WroteAs
    <3>8. InText(s, m, k, 1)'
      BY <1>1, <1>5, <1>6, <2>3, <3>1, <3>7 DEF InText
    <3> QED
      BY <1>2, <3>8
  <2> QED
    BY <2>4, <2>5
<1>7. CASE page[k].kind # "html"
  <2>1. 0 < Len(Render(page[k])) /\ 0 \in Nat /\ Render(page[k])[1] = "<"
    BY <1>3, <1>7, RenderIs
  <2>2. ch = "<"
    <3>1. src[pos + 1] = Render(page[k])[0 + 1]
      BY <1>1, <1>2, <2>1, NextByte
    <3> QED
      BY <1>1, <2>1, <3>1
  <2>3. state' = "squ_start" /\ ~html' /\ out' = out
    BY <2>2 DEF Start, EmitNothing, Goto
  <2>4. Wrote(m, k, <<>>)'
    BY <1>1, <2>3 DEF Wrote, WroteAs
  <2>5. Opening(s, m, k, 1)'
    BY <1>1, <1>5, <1>7, <2>3, <2>4 DEF Opening
  <2> QED
    BY <1>2, <2>5
<1> QED
  BY <1>6, <1>7

\* The next byte of a text, or the first of the block behind it.
LEMMA HtmlBlockReads ==
    ASSUME NEW s, NEW m, Known(s, m), NEW k, NEW j, InText(s, m, k, j), NEW ch, HtmlBlock(ch)
    PROVE  /\ k \in Nat /\ k + 1 \in Nat /\ j \in Nat /\ j + 1 \in Nat
           /\ InText(s, m, k, j + 1)' \/ PendingText(s, m, k, j + 1)' \/ Opening(s, m, k + 1, 1)'
<1> DEFINE b == page[k].body
<1>1. /\ html /\ At(s, k, j) /\ Wrote(m, k, <<"PrintStart">> \o SubSeq(b, 1, j))
      /\ k \in 1 .. Len(page) /\ j \in 1 .. Len(b) /\ page[k].kind = "html"
      /\ pos < Len(src) /\ ch = src[pos + 1] /\ pos' = pos + 1 /\ page' = page /\ html' = html
  BY DEF InText, HtmlBlock, Reads
<1>2. b \in Seq(Bytes) /\ Len(b) \in Nat /\ Render(page[k]) = b /\ Len(page) \in Nat
  BY <1>1, SegmentIs, RenderIs DEF Known
<1>3. Len(s[k - 1]) \in Nat /\ Len(s[k]) <= Len(src) /\ (k + 1) - 1 = k
  BY <1>1, <1>2, NextSegment
<1>4. "PrintStart" \in Pieces /\ <<"PrintStart">> \in Seq(Pieces)
  BY DEF Pieces, Literals
<1>5. <<"PrintStart">> \o SubSeq(b, 1, j) \in Seq(Pieces)
  <2>1. SubSeq(b, 1, j) \in Seq(Pieces)
    BY <1>1, <1>2, PartIs
  <2> QED
    BY <1>4, <2>1, ConcatProperties
<1>6. CASE j < Len(b)
  <2>1. ch = b[j + 1] /\ j + 1 \in 1 .. Len(b)
    BY <1>1, <1>2, <1>6, NextByte
  <2>2. At(s, k, j + 1)' /\ k \in 1 .. Len(page')
    BY <1>1, <1>2, AtNext
  <2>3. CASE ch = "<"
    <3>1. state' = "squ_start" /\ out' = out
      BY <2>3 DEF HtmlBlock, EmitNothing, Goto
    <3>2. (j + 1) - 1 = j /\ j + 1 > 1
      BY <1>1, <1>2
    <3>3. Wrote(m, k, <<"PrintStart">> \o SubSeq(page[k].body, 1, (j + 1) - 1))'
      BY <1>1, <3>1, <3>2 DEF Wrote, WroteAs
    <3>4. PendingText(s, m, k, j + 1)'
      BY <1>1, <2>1, <2>2, <2>3, <3>1, <3>2, <3>3 DEF PendingText
    <3> QED
      BY <1>1, <1>2, <3>4
  <2>4. CASE ch # "<"
    <3>1. state' = "html_block" /\ out' = out \o <<ch>>
      BY <2>4 DEF HtmlBlock, Reads, Emit
    <3>2. ch \in Pieces /\ <<ch>> \in Seq(Pieces)
      BY <1>2, <2>1, ElementOfSeq DEF Pieces
    <3>3. WroteAs(out \o <<ch>>, m, k, (<<"PrintStart">> \o SubSeq(b, 1, j)) \o <<ch>>)
      BY <1>1, <1>5, <3>2, WritesOn
    <3>4. (<<"PrintStart">> \o SubSeq(b, 1, j)) \o <<ch>> = <<"PrintStart">> \o SubSeq(b, 1, j + 1)
      BY <1>1, <1>2, <1>4, <1>6, <2>1, PartsBehind
    <3>5. Wrote(m, k, <<"PrintStart">> \o SubSeq(page[k].body, 1, j + 1))'
      BY <1>1, <3>1, <3>3, <3>4 DEF Wrote, WroteAs
    <3>6. InText(s, m, k, j + 1)'
      BY <1>1, <2>1, <2>2, <3>1, <3>5 DEF InText
    <3> QED
      BY <1>1, <1>2, <3>6
  <2> QED
    BY <2>3, <2>4
<1>7. CASE j = Len(b)
  <2>1. pos = Len(s[k]) /\ At(s, k + 1, 0)
    BY <1>1, <1>2, <1>7, AtEnd
  <2>2. k + 1 \in 1 .. Len(page) /\ k \in 1 .. Len(page) - 1
    <3>1. k # Len(page)
      BY <1>1, <2>1 DEF Known
    <3> QED
      BY <1>1, <1>2, <3>1
  <2>3. page[k + 1].kind # "html"
    BY <1>1, <2>2 DEF Known, Readable
  <2>4. At(s, k + 1, 1)'
    <3>1. At(s, k + 1, 0 + 1)'
      BY <1>1, <2>1, <2>2, AtNext
    <3> QED
      BY <3>1 DEF At
  <2>5. ch = "<"
    <3>1. /\ page[k + 1].kind \in {"html", "code", "exp"}
          /\ page[k + 1].body \in Seq(Bytes) /\ Len(page[k + 1].body) \in Nat
      BY <2>2, SegmentIs DEF Known
    <3>2. 0 < Len(Render(page[k + 1])) /\ Render(page[k + 1])[0 + 1] = "<"
      BY <2>3, <3>1, RenderIs
    <3>3. src[pos + 1] = Render(page[k + 1])[0 + 1]
      BY <2>1, <2>2, <3>2, NextByte
    <3> QED
      BY <1>1, <3>2, <3>3
  <2>6. state' = "squ_start" /\ out' = out
    BY <2>5 DEF HtmlBlock, EmitNothing, Goto
  <2>7. out \o <<"PrintEnd">> = <<"FunctionStart">> \o m[k] /\ out \in Seq(Pieces)
    <3>1. <<"PrintEnd">> \in Seq(Pieces)
      BY DEF Pieces, Literals
    <3>2. /\ WroteAs(out \o <<"PrintEnd">>, m, k, (<<"PrintStart">> \o SubSeq(b, 1, j)) \o <<"PrintEnd">>)
          /\ out \in Seq(Pieces)
      BY <1>1, <1>5, <3>1, WritesOn
    <3>3. (<<"PrintStart">> \o SubSeq(b, 1, j)) \o <<"PrintEnd">> = Means(page[k])
      <4>1. SubSeq(b, 1, j) = b
        BY <1>1, <1>2, <1>7, PartIs
      <4> QED
        BY <1>1, <4>1 DEF Means
    <3> QED
      BY <1>1, <3>2, <3>3, WroteWhole DEF WroteAs
  <2>8. out' \o <<"PrintEnd">> = <<"FunctionStart">> \o m[(k + 1) - 1] /\ out' \in Seq(Pieces)
    BY <1>3, <2>6, <2>7
  <2>9. Opening(s, m, k + 1, 1)'
    BY <1>1, <2>2, <2>3, <2>4, <2>6, <2>8 DEF Opening
  <2> QED
    BY <1>1, <1>2, <2>9
<1> QED
  BY <1>1, <1>2, <1>6, <1>7

\* What follows a "<" of a text.
LEMMA PendingReads ==
    ASSUME NEW s, NEW m, Known(s, m), NEW k, NEW j, PendingText(s, m, k, j), NEW ch, SquStart(ch)
    PROVE  k \in Nat /\ j + 1 \in Nat /\ InText(s, m, k, j + 1)'
<1> DEFINE b == page[k].body
<1>1. /\ At(s, k, j) /\ k \in 1 .. Len(page) /\ j \in 1 .. Len(b) /\ page[k].kind = "html" /\ b[j] = "<"
      /\ \/ ~html /\ j = 1 /\ Wrote(m, k, <<>>)
         \/ html /\ j > 1 /\ Wrote(m, k, <<"PrintStart">> \o SubSeq(b, 1, j - 1))
      /\ pos < Len(src) /\ ch = src[pos + 1] /\ pos' = pos + 1 /\ page' = page
  BY DEF PendingText, SquStart, Reads
<1>2. b \in Seq(Bytes) /\ Len(b) \in Nat /\ Render(page[k]) = b
  BY <1>1, SegmentIs, RenderIs DEF Known
<1>3. Text(b)
  BY <1>1 DEF Known, Readable
<1>4. j < Len(b)
  <2>1. j # Len(b)
    BY <1>1, <1>3 DEF Text
  <2> QED
    BY <1>1, <1>2, <2>1
<1>5. j \in Nat /\ j \in 1 .. Len(b) - 1 /\ j + 1 \in 1 .. Len(b)
  BY <1>1, <1>2, <1>4
<1>6. ch = b[j + 1]
  <2>1. src[pos + 1] = Render(page[k])[j + 1]
    BY <1>1, <1>2, <1>4, <1>5, NextByte
  <2> QED
    BY <1>1, <1>2, <2>1
<1>7. ch # "%"
  BY <1>1, <1>3, <1>5, <1>6 DEF Text
<1>8. At(s, k, j + 1)'
  BY <1>1, <1>5, AtNext
<1>9. "PrintStart" \in Pieces /\ ch \in Pieces /\ "<" \in Pieces /\ <<"PrintStart">> \in Seq(Pieces)
  <2>1. ch \in Bytes
    BY <1>2, <1>5, <1>6, ElementOfSeq
  <2>2. ch \in Pieces
    BY <2>1 DEF Pieces
  <2>3. "PrintStart" \in Pieces /\ "<" \in Pieces
    BY DEF Pieces, Literals, Bytes
  <2> QED
    BY <2>2, <2>3
<1>10. state' = "html_block" /\ html' /\ Wrote(m, k, <<"PrintStart">> \o SubSeq(page[k].body, 1, j + 1))'
  <2>1. CASE ~html
    <3>1. j = 1 /\ Wrote(m, k, <<>>)
      BY <1>1, <2>1
    <3>2. state' = "html_block" /\ html' /\ out' = out \o <<"PrintStart", "<", ch>>
      BY <1>7, <2>1 DEF SquStart, Emit, Goto
    <3>3. <<"PrintStart", "<", ch>> \in Seq(Pieces) /\ <<>> \in Seq(Pieces)
      BY <1>9, ShortIs, EmptySeq
    <3>4. WroteAs(out \o <<"PrintStart", "<", ch>>, m, k, <<>> \o <<"PrintStart", "<", ch>>)
      BY <1>1, <3>1, <3>3, WritesOn
    <3>5. <<>> \o <<"PrintStart", "<", ch>> = <<"PrintStart", "<", ch>>
      BY <3>3, ConcatEmptySeq
    <3>6. <<"PrintStart", "<", ch>> = <<"PrintStart">> \o SubSeq(b, 1, j + 1)
      <4>1. <<"PrintStart", b[1], b[2]>> = <<"PrintStart">> \o SubSeq(b, 1, j + 1)
        BY <1>1, <1>2, <1>4, <1>9, <3>1, PartsBehind
      <4>2. b[1] = "<" /\ b[2] = ch
        BY <1>1, <1>6, <3>1
      <4> QED
        BY <4>1, <4>2
    <3> QED
      BY <1>1, <3>2, <3>4, <3>5, <3>6 DEF Wrote, WroteAs
  <2>2. CASE html
    <3> DEFINE i == j - 1
    <3>1. Wrote(m, k, <<"PrintStart">> \o SubSeq(b, 1, i)) /\ i \in 1 .. Len(b) /\ i + 1 = j
      BY <1>1, <1>2, <2>2
    <3> HIDE DEF i
    <3>2. state' = "html_block" /\ html' /\ out' = out \o <<"<", ch>>
      BY <1>7, <2>2 DEF SquStart, Emit, Goto
    <3>3. <<"<", ch>> \in Seq(Pieces) /\ <<"PrintStart">> \o SubSeq(b, 1, i) \in Seq(Pieces)
      <4>1. SubSeq(b, 1, i) \in Seq(Pieces)
        BY <1>2, <3>1, PartIs
      <4> QED
        BY <1>9, <4>1, ShortIs, ConcatProperties
    <3>4. WroteAs(out \o <<"<", ch>>, m, k, (<<"PrintStart">> \o SubSeq(b, 1, i)) \o <<"<", ch>>)
      BY <1>1, <3>1, <3>3, WritesOn
    <3>5. (<<"PrintStart">> \o SubSeq(b, 1, i)) \o <<b[j], b[j + 1]>> =
             <<"PrintStart">> \o SubSeq(b, 1, j + 1)
      BY <1>1, <1>2, <1>4, <1>9, <3>1, PartsBehind
    <3> QED
      BY <1>1, <1>6, <3>2, <3>4, <3>5 DEF Wrote, WroteAs
  <2> QED
    BY <2>1, <2>2
<1>11. InText(s, m, k, j + 1)'
  BY <1>1, <1>5, <1>8, <1>10 DEF InText
<1> QED
  BY <1>1, <1>5, <1>11

\* The "%" of a block.
LEMMA OpeningReads ==
    ASSUME NEW s, NEW m, Known(s, m), NEW k, NEW j, Opening(s, m, k, j), NEW ch, SquStart(ch)
    PROVE  k \in Nat /\ Opening(s, m, k, 2)'
<1>1. /\ j = 1 /\ At(s, k, 1) /\ k \in 1 .. Len(page) /\ page[k].kind # "html"
      /\ \/ ~html /\ Wrote(m, k, <<>>)
         \/ /\ html /\ out \in Seq(Pieces)
            /\ out \o <<"PrintEnd">> = <<"FunctionStart">> \o m[k - 1]
      /\ ch = src[pos + 1] /\ pos' = pos + 1 /\ page' = page
  BY DEF Opening, SquStart, Reads
<1>2. /\ page[k].kind \in {"html", "code", "exp"} /\ page[k].body \in Seq(Bytes) /\ Len(page[k].body) \in Nat
  BY <1>1, SegmentIs DEF Known
<1>3. 1 < Len(Render(page[k])) /\ Render(page[k])[1 + 1] = "%"
  BY <1>1, <1>2, RenderIs
<1>4. ch = "%"
  <2>1. src[pos + 1] = Render(page[k])[1 + 1]
    BY <1>1, <1>3, NextByte
  <2> QED
    BY <1>1, <1>3, <2>1
<1>5. At(s, k, 2)'
  <2>1. At(s, k, 1 + 1)'
    BY <1>1, AtNext
  <2> QED
    BY <2>1 DEF At
<1>6. state' = "squ_block_start" /\ out' = out /\ html' = html
  BY <1>4 DEF SquStart, EmitNothing, Goto
<1>7. Opening(s, m, k, 2)'
  BY <1>1, <1>5, <1>6 DEF Opening, Wrote, WroteAs
<1> QED
  BY <1>1, <1>7

\* The first byte of a block: the print of a text in front of it is closed.
LEMMA BlockStartReads ==
    ASSUME NEW s, NEW m, Known(s, m), NEW k, NEW j, Opening(s, m, k, j), NEW ch, SquBlockStart(ch)
    PROVE  k \in Nat /\ (InCode(s, m, k, 1)' \/ ExpOpens(s, m, k)')
<1> DEFINE b == page[k].body
<1>1. /\ j = 2 /\ At(s, k, 2) /\ k \in 1 .. Len(page) /\ page[k].kind # "html"
      /\ \/ ~html /\ Wrote(m, k, <<>>)
         \/ /\ html /\ out \in Seq(Pieces)
            /\ out \o <<"PrintEnd">> = <<"FunctionStart">> \o m[k - 1]
      /\ ch = src[pos + 1] /\ pos' = pos + 1 /\ page' = page
      /\ backslash' = FALSE /\ dquoted' = FALSE /\ squoted' = FALSE
  BY DEF Opening, SquBlockStart, Reads
<1>2. page[k].kind \in {"html", "code", "exp"} /\ b \in Seq(Bytes) /\ Len(b) \in Nat /\ Len(b) >= 1
  BY <1>1, SegmentIs DEF Known
<1>3. At(s, k, 3)'
  <2>1. At(s, k, 2 + 1)'
    BY <1>1, AtNext
  <2> QED
    BY <2>1 DEF At
<1>4. <<"PrintEnd">> \in Seq(Pieces) /\ "PrintEnd" \in Pieces /\ <<>> \in Seq(Pieces)
  BY DEF Pieces, Literals
<1> DEFINE a == <<"FunctionStart">> \o m[k - 1]
<1>5. a \in Seq(Pieces)
  <2>1. m[k - 1] \in Seq(Pieces)
    BY <1>1, SegmentStands DEF Known
  <2>2. <<"FunctionStart">> \in Seq(Pieces)
    BY DEF Pieces
  <2> QED
    BY <2>1, <2>2, ConcatProperties
<1>6. (html => out \o <<"PrintEnd">> = a /\ out \in Seq(Pieces)) /\ (~html => out = a)
  <2>1. ~html => out = a \o <<>>
    BY <1>1 DEF Wrote, WroteAs
  <2>2. a \o <<>> = a
    BY <1>5, ConcatEmptySeq
  <2> QED
    BY <1>1, <2>1, <2>2
<1> HIDE DEF a
<1>7. CASE page[k].kind = "code"
  <2>1. 2 < Len(Render(page[k])) /\ Render(page[k])[2 + 1] = b[1] /\ 1 \in 1 .. Len(b)
    <3>1. 1 \in 1 .. Len(b)
      BY <1>2
    <3> QED
      BY <1>2, <1>7, <3>1, RenderIs
  <2>2. ch = b[1]
    <3>1. src[pos + 1] = Render(page[k])[2 + 1]
      BY <1>1, <2>1, NextByte
    <3> QED
      BY <1>1, <2>1, <3>1
  <2>3. b[1] # "=" /\ Block(b)
    BY <1>1, <1>7 DEF Known, Readable
  <2>4. ch \in Pieces /\ <<ch>> \in Seq(Pieces)
    <3>1. ch \in Bytes
      BY <1>2, <2>1, <2>2, ElementOfSeq
    <3> QED
      BY <3>1 DEF Pieces
  <2>5. state' = "squ_block" /\ out' = out \o (IF html THEN <<"PrintEnd", ch>> ELSE <<ch>>)
    BY <2>2, <2>3 DEF SquBlockStart, Emit, Goto
  <2>6. out' = a \o <<ch>>
    <3>1. CASE html
      <4>1. <<"PrintEnd", ch>> = <<"PrintEnd">> \o <<ch>>
        BY <1>4, <2>4, ShortIs
      <4>2. (out \o <<"PrintEnd">>) \o <<ch>> = out \o (<<"PrintEnd">> \o <<ch>>)
        BY <1>4, <1>6, <2>4, <3>1, ConcatAssociative
      <4> QED
        BY <1>6, <2>5, <3>1, <4>1, <4>2
    <3>2. CASE ~html
      BY <1>6, <2>5, <3>2
    <3> QED
      BY <3>1, <3>2
  <2>7. SubSeq(b, 1, 1) = <<ch>>
    BY <1>2, <2>1, <2>2, PartIs
  <2>8. Wrote(m, k, SubSeq(page[k].body, 1, 1))'
    BY <1>1, <2>6, <2>7 DEF Wrote, WroteAs, a
  <2>9. Quoted(k, 1)'
    <3>1. QuotedAs(b, 1, FALSE, FALSE, FALSE)
      BY <1>2, <2>3, QuotedFirst
    <3> QED
      BY <1>1, <3>1 DEF Quoted
  <2>10. At(s, k, 2 + 1)'
    BY <1>3 DEF At
  <2>11. InCode(s, m, k, 1)'
    BY <1>1, <1>7, <2>1, <2>5, <2>8, <2>9, <2>10 DEF InCode
  <2> QED
    BY <1>1, <2>11
<1>8. CASE page[k].kind = "exp"
  <2>1. 2 < Len(Render(page[k])) /\ Render(page[k])[2 + 1] = "="
    BY <1>2, <1>8, RenderIs
  <2>2. ch = "="
    <3>1. src[pos + 1] = Render(page[k])[2 + 1]
      BY <1>1, <2>1, NextByte
    <3> QED
      BY <1>1, <2>1, <3>1
  <2>3. state' = "squ_exp_block_start" /\ out' = IF html THEN out \o <<"PrintEnd">> ELSE out
    BY <2>2 DEF SquBlockStart, Emit, EmitNothing, Goto
  <2>4. out' = a
    BY <1>6, <2>3
  <2>5. a \o <<>> = a
    BY <1>5, ConcatEmptySeq
  <2>6. Wrote(m, k, <<>>)'
    BY <2>4, <2>5 DEF Wrote, WroteAs, a
  <2>7. ExpOpens(s, m, k)'
    BY <1>1, <1>3, <1>8, <2>3, <2>6 DEF ExpOpens
  <2> QED
    BY <1>1, <2>7
<1> QED
  BY <1>1, <1>2, <1>7, <1>8

\* The next byte of the code of a block, or the "%" behind it.
LEMMA CodeReads ==
    ASSUME NEW s, NEW m, Known(s, m), NEW k, NEW j, InCode(s, m, k, j), NEW ch, SquBlock(ch)
    PROVE  k \in Nat /\ j + 1 \in Nat /\ (InCode(s, m, k, j + 1)' \/ CodeEnds(s, m, k)')
<1> DEFINE b == page[k].body
<1>1. /\ At(s, k, 2 + j) /\ k \in 1 .. Len(page) /\ page[k].kind = "code" /\ j \in 1 .. Len(b)
      /\ Wrote(m, k, SubSeq(b, 1, j)) /\ QuotedAs(b, j, backslash, dquoted, squoted)
      /\ ch = src[pos + 1] /\ pos' = pos + 1 /\ page' = page /\ state = "squ_block"
  BY DEF InCode, Quoted, SquBlock, InBlock, Reads
<1>2. b \in Seq(Bytes) /\ Len(b) \in Nat
  BY <1>1, SegmentIs DEF Known
<1>3. 2 + j \in Nat /\ 2 + j < Len(Render(page[k])) /\ j \in Nat
  BY <1>1, <1>2, RenderIs
<1>4. ch = Render(page[k])[(2 + j) + 1]
  BY <1>1, <1>3, NextByte
<1>5. At(s, k, (2 + j) + 1)'
  BY <1>1, <1>3, AtNext
<1>6. CASE j < Len(b)
  <2>1. j + 1 \in 1 .. Len(b) /\ j \in 1 .. Len(b) - 1 /\ (2 + j) + 1 = 2 + (j + 1)
    BY <1>1, <1>2, <1>3, <1>6, HasNext, Zenon
  <2>2. ch = b[j + 1]
    <3>1. Render(page[k])[2 + (j + 1)] = b[j + 1]
      BY <1>1, <1>2, <2>1, RenderIs
    <3> QED
      BY <1>4, <2>1, <3>1
  <2>3. ~(ch = "%" /\ ~InString)
    BY <1>1, <1>2, <1>6, <2>2, QuotedPercent
  <2>4. state' = "squ_block" /\ out' = out \o <<ch>> /\ Quotes(ch)
    BY <1>1, <2>3 DEF SquBlock, InBlock, Emit
  <2>5. QuotedAs(b, j + 1, backslash', dquoted', squoted')
    BY <1>1, <1>2, <2>1, <2>2, <2>4, QuotedNext
  <2>6. <<ch>> \in Seq(Pieces) /\ SubSeq(b, 1, j) \in Seq(Pieces)
    <3>1. ch \in Bytes
      BY <1>2, <2>1, <2>2, ElementOfSeq
    <3> QED
      BY <1>1, <1>2, <3>1, PartIs DEF Pieces
  <2>7. WroteAs(out \o <<ch>>, m, k, SubSeq(b, 1, j) \o <<ch>>)
    BY <1>1, <2>6, WritesOn
  <2>8. SubSeq(b, 1, j) \o <<ch>> = SubSeq(b, 1, j + 1)
    BY <1>1, <1>2, <1>6, <2>2, PartIs
  <2>9. Wrote(m, k, SubSeq(page[k].body, 1, j + 1))'
    BY <1>1, <2>4, <2>7, <2>8 DEF Wrote, WroteAs
  <2>10. At(s, k, 2 + (j + 1))'
    BY <1>5, <2>1 DEF At
  <2>11. InCode(s, m, k, j + 1)'
    BY <1>1, <2>1, <2>4, <2>5, <2>9, <2>10 DEF InCode, Quoted
  <2> QED
    BY <1>1, <1>3, <2>11
<1>7. CASE j = Len(b)
  <2>1. ch = "%"
    <3>1. (2 + j) + 1 = Len(b) + 3
      BY <1>2, <1>7
    <3> QED
      BY <1>1, <1>2, <1>4, <3>1, RenderIs
  <2>2. ~InString
    BY <1>1, <1>2, <1>7, QuotedPercent
  <2>3. state' = "squ_block_end" /\ out' = out
    BY <2>1, <2>2 DEF SquBlock, InBlock, EmitNothing, Goto
  <2>4. SubSeq(b, 1, j) = b
    BY <1>1, <1>2, <1>7, PartIs
  <2>5. Wrote(m, k, page[k].body)'
    BY <1>1, <2>3, <2>4 DEF Wrote, WroteAs
  <2>6. At(s, k, 3 + Len(page[k].body))'
    <3>1. (2 + j) + 1 = 3 + Len(b)
      BY <1>2, <1>7
    <3> QED
      BY <1>1, <1>5, <3>1 DEF At
  <2>7. CodeEnds(s, m, k)'
    BY <1>1, <2>3, <2>5, <2>6 DEF CodeEnds
  <2> QED
    BY <1>1, <1>3, <2>7
<1> QED
  BY <1>1, <1>2, <1>6, <1>7

\* The ">" of a block.
LEMMA CodeEndReads ==
    ASSUME NEW s, NEW m, Known(s, m), NEW k, CodeEnds(s, m, k), NEW ch, SquBlockEnd(ch)
    PROVE  k + 1 \in Nat /\ Between(s, m, k + 1)'
<1> DEFINE b == page[k].body
<1>1. /\ At(s, k, 3 + Len(b)) /\ k \in 1 .. Len(page) /\ page[k].kind = "code" /\ Wrote(m, k, b)
      /\ ch = src[pos + 1] /\ pos' = pos + 1 /\ page' = page
  BY DEF CodeEnds, SquBlockEnd, Reads
<1>2. b \in Seq(Bytes) /\ Len(b) \in Nat /\ Len(page) \in Nat
  BY <1>1, SegmentIs DEF Known
<1>3. /\ 3 + Len(b) \in Nat /\ 3 + Len(b) < Len(Render(page[k]))
      /\ (3 + Len(b)) + 1 = Len(b) + 4 /\ (3 + Len(b)) + 1 = Len(Render(page[k]))
  BY <1>1, <1>2, RenderIs
<1>4. ch = ">"
  <2>1. ch = Render(page[k])[(3 + Len(b)) + 1]
    BY <1>1, <1>3, NextByte
  <2> QED
    BY <1>1, <1>2, <1>3, <2>1, RenderIs
<1>5. At(s, k + 1, 0)'
  BY <1>1, <1>3, AtNext
<1>6. state' = "start" /\ out' = out
  BY <1>4 DEF SquBlockEnd, EmitNothing, Goto
<1>7. Wrote(m, k + 1, <<>>)'
  <2>1. out = (<<"FunctionStart">> \o m[k - 1]) \o Means(page[k])
    BY <1>1 DEF Wrote, WroteAs, Means
  <2>2. out = (<<"FunctionStart">> \o m[(k + 1) - 1]) \o <<>>
    BY <1>1, <2>1, WroteWhole
  <2> QED
    BY <1>6, <2>2 DEF Wrote, WroteAs
<1>8. k + 1 \in 1 .. Len(page) + 1 /\ k + 1 \in Nat
  BY <1>1, <1>2
<1> QED
  BY <1>1, <1>5, <1>6, <1>7, <1>8 DEF Between

\* The first byte of an expression.
LEMMA ExpOpensReads ==
    ASSUME NEW s, NEW m, Known(s, m), NEW k, ExpOpens(s, m, k), NEW ch, SquExpBlockStart(ch)
    PROVE  k \in Nat /\ InExp(s, m, k, 1)'
<1> DEFINE b == page[k].body
<1>1. /\ At(s, k, 3) /\ k \in 1 .. Len(page) /\ page[k].kind = "exp" /\ Wrote(m, k, <<>>)
      /\ backslash' = FALSE /\ dquoted' = FALSE /\ squoted' = FALSE
      /\ ch = src[pos + 1] /\ pos' = pos + 1 /\ page' = page
      /\ state' = "squ_exp_block" /\ out' = out \o <<"ExpStart", ch>>
  BY DEF ExpOpens, SquExpBlockStart, Reads, Emit, Goto, quoting
<1>2. b \in Seq(Bytes) /\ Len(b) \in Nat /\ Len(b) >= 1
  BY <1>1, SegmentIs DEF Known
<1>3. 1 \in 1 .. Len(b)
  BY <1>2
<1>4. 3 < Len(Render(page[k])) /\ Render(page[k])[3 + 1] = b[1]
  BY <1>1, <1>2, <1>3, RenderIs
<1>5. ch = b[1]
  <2>1. src[pos + 1] = Render(page[k])[3 + 1]
    BY <1>1, <1>4, NextByte
  <2> QED
    BY <1>1, <1>4, <2>1
<1>6. At(s, k, 3 + 1)'
  BY <1>1, AtNext
<1>7. "ExpStart" \in Pieces /\ ch \in Pieces
  <2>1. ch \in Bytes
    BY <1>2, <1>3, <1>5, ElementOfSeq
  <2> QED
    BY <2>1 DEF Pieces, Literals
<1>8. <<"ExpStart", ch>> \in Seq(Pieces) /\ <<>> \in Seq(Pieces)
  BY <1>7, ShortIs, EmptySeq
<1>9. WroteAs(out \o <<"ExpStart", ch>>, m, k, <<>> \o <<"ExpStart", ch>>)
  BY <1>1, <1>8, WritesOn
<1>10. <<>> \o <<"ExpStart", ch>> = <<"ExpStart">> \o SubSeq(b, 1, 1)
  <2>1. <<>> \o <<"ExpStart", ch>> = <<"ExpStart", ch>>
    BY <1>8, ConcatEmptySeq
  <2>2. <<"ExpStart", b[1]>> = <<"ExpStart">> \o SubSeq(b, 1, 1)
    BY <1>2, <1>3, <1>7, PartsBehind
  <2> QED
    BY <1>5, <2>1, <2>2
<1>11. Wrote(m, k, <<"ExpStart">> \o SubSeq(page[k].body, 1, 1))'
  BY <1>1, <1>9, <1>10 DEF Wrote, WroteAs
<1>12. Quoted(k, 1)'
  <2>1. Block(b)
    BY <1>1 DEF Known, Readable
  <2>2. QuotedAs(b, 1, FALSE, FALSE, FALSE)
    BY <1>2, <2>1, QuotedFirst
  <2> QED
    BY <1>1, <2>2 DEF Quoted
<1>13. InExp(s, m, k, 1)'
  BY <1>1, <1>3, <1>6, <1>11, <1>12 DEF InExp
<1> QED
  BY <1>1, <1>13

\* The next byte of an expression, or the "%" behind it.
LEMMA ExpReads ==
    ASSUME NEW s, NEW m, Known(s, m), NEW k, NEW j, InExp(s, m, k, j), NEW ch, SquExpBlock(ch)
    PROVE  k \in Nat /\ j + 1 \in Nat /\ (InExp(s, m, k, j + 1)' \/ ExpEnds(s, m, k)')
<1> DEFINE b == page[k].body
<1>1. /\ At(s, k, 3 + j) /\ k \in 1 .. Len(page) /\ page[k].kind = "exp" /\ j \in 1 .. Len(b)
      /\ Wrote(m, k, <<"ExpStart">> \o SubSeq(b, 1, j)) /\ QuotedAs(b, j, backslash, dquoted, squoted)
      /\ ch = src[pos + 1] /\ pos' = pos + 1 /\ page' = page /\ state = "squ_exp_block"
  BY DEF InExp, Quoted, SquExpBlock, InBlock, Reads
<1>2. b \in Seq(Bytes) /\ Len(b) \in Nat
  BY <1>1, SegmentIs DEF Known
<1>3. 3 + j \in Nat /\ 3 + j < Len(Render(page[k])) /\ j \in Nat
  BY <1>1, <1>2, RenderIs
<1>4. ch = Render(page[k])[(3 + j) + 1]
  BY <1>1, <1>3, NextByte
<1>5. At(s, k, (3 + j) + 1)'
  BY <1>1, <1>3, AtNext
<1>6. "ExpStart" \in Pieces /\ <<"ExpStart">> \in Seq(Pieces)
  BY DEF Pieces, Literals
<1>7. CASE j < Len(b)
  <2>1. j + 1 \in 1 .. Len(b) /\ j \in 1 .. Len(b) - 1 /\ (3 + j) + 1 = 3 + (j + 1)
    BY <1>1, <1>2, <1>3, <1>7, HasNext, Zenon
  <2>2. ch = b[j + 1]
    <3>1. Render(page[k])[3 + (j + 1)] = b[j + 1]
      BY <1>1, <1>2, <2>1, RenderIs
    <3> QED
      BY <1>4, <2>1, <3>1
  <2>3. ~(ch = "%" /\ ~InString)
    BY <1>1, <1>2, <1>7, <2>2, QuotedPercent
  <2>4. state' = "squ_exp_block" /\ out' = out \o <<ch>> /\ Quotes(ch)
    BY <1>1, <2>3 DEF SquExpBlock, InBlock, Emit
  <2>5. QuotedAs(b, j + 1, backslash', dquoted', squoted')
    BY <1>1, <1>2, <2>1, <2>2, <2>4, QuotedNext
  <2>6. <<ch>> \in Seq(Pieces) /\ <<"ExpStart">> \o SubSeq(b, 1, j) \in Seq(Pieces)
    <3>1. ch \in Bytes
      BY <1>2, <2>1, <2>2, ElementOfSeq
    <3>2. <<ch>> \in Seq(Pieces) /\ SubSeq(b, 1, j) \in Seq(Pieces)
      BY <1>1, <1>2, <3>1, PartIs DEF Pieces
    <3> QED
      BY <1>6, <3>2, ConcatProperties
  <2>7. WroteAs(out \o <<ch>>, m, k, (<<"ExpStart">> \o SubSeq(b, 1, j)) \o <<ch>>)
    BY <1>1, <2>6, WritesOn
  <2>8. (<<"ExpStart">> \o SubSeq(b, 1, j)) \o <<b[j + 1]>> = <<"ExpStart">> \o SubSeq(b, 1, j + 1)
    BY <1>1, <1>2, <1>6, <1>7, PartsBehind
  <2>9. Wrote(m, k, <<"ExpStart">> \o SubSeq(page[k].body, 1, j + 1))'
    BY <1>1, <2>2, <2>4, <2>7, <2>8 DEF Wrote, WroteAs
  <2>10. At(s, k, 3 + (j + 1))'
    BY <1>5, <2>1 DEF At
  <2>11. InExp(s, m, k, j + 1)'
    BY <1>1, <2>1, <2>4, <2>5, <2>9, <2>10 DEF InExp, Quoted
  <2> QED
    BY <1>1, <1>3, <2>11
<1>8. CASE j = Len(b)
  <2>1. ch = "%"
    <3>1. (3 + j) + 1 = Len(b) + 4
      BY <1>2, <1>8
    <3> QED
      BY <1>1, <1>2, <1>4, <3>1, RenderIs
  <2>2. ~InString
    BY <1>1, <1>2, <1>8, QuotedPercent
  <2>3. state' = "squ_exp_block_end" /\ out' = out
    BY <2>1, <2>2 DEF SquExpBlock, InBlock, EmitNothing, Goto
  <2>4. SubSeq(b, 1, j) = b
    BY <1>1, <1>2, <1>8, PartIs
  <2>5. Wrote(m, k, <<"ExpStart">> \o page[k].body)'
    BY <1>1, <2>3, <2>4 DEF Wrote, WroteAs
  <2>6. At(s, k, 4 + Len(page[k].body))'
    <3>1. (3 + j) + 1 = 4 + Len(b)
      BY <1>2, <1>8
    <3> QED
      BY <1>1, <1>5, <3>1 DEF At
  <2>7. ExpEnds(s, m, k)'
    BY <1>1, <2>3, <2>5, <2>6 DEF ExpEnds
  <2> QED
    BY <1>1, <1>3, <2>7
<1> QED
  BY <1>1, <1>2, <1>7, <1>8

\* The ">" of an expression: its call of print is closed.
LEMMA ExpEndReads ==
    ASSUME NEW s, NEW m, Known(s, m), NEW k, ExpEnds(s, m, k), NEW ch, SquExpBlockEnd(ch)
    PROVE  k + 1 \in Nat /\ Between(s, m, k + 1)'
<1> DEFINE b == page[k].body
<1>1. /\ At(s, k, 4 + Len(b)) /\ k \in 1 .. Len(page) /\ page[k].kind = "exp"
      /\ Wrote(m, k, <<"ExpStart">> \o b)
      /\ ch = src[pos + 1] /\ pos' = pos + 1 /\ page' = page
  BY DEF ExpEnds, SquExpBlockEnd, Reads
<1>2. b \in Seq(Bytes) /\ Len(b) \in Nat /\ Len(page) \in Nat
  BY <1>1, SegmentIs DEF Known
<1>3. /\ 4 + Len(b) \in Nat /\ 4 + Len(b) < Len(Render(page[k]))
      /\ (4 + Len(b)) + 1 = Len(b) + 5 /\ (4 + Len(b)) + 1 = Len(Render(page[k]))
  BY <1>1, <1>2, RenderIs
<1>4. ch = ">"
  <2>1. ch = Render(page[k])[(4 + Len(b)) + 1]
    BY <1>1, <1>3, NextByte
  <2> QED
    BY <1>1, <1>2, <1>3, <2>1, RenderIs
<1>5. At(s, k + 1, 0)'
  BY <1>1, <1>3, AtNext
<1>6. state' = "start" /\ out' = out \o <<"ExpEnd">>
  BY <1>4 DEF SquExpBlockEnd, Emit, Goto
<1>7. Wrote(m, k + 1, <<>>)'
  <2>1. <<"ExpEnd">> \in Seq(Pieces) /\ <<"ExpStart">> \in Seq(Pieces)
    BY DEF Pieces, Literals
  <2>2. <<"ExpStart">> \o b \in Seq(Pieces)
    <3>1. b \in Seq(Pieces)
      BY <1>2, SeqMonotonic DEF Pieces
    <3> QED
      BY <2>1, <3>1, ConcatProperties
  <2>3. WroteAs(out \o <<"ExpEnd">>, m, k, (<<"ExpStart">> \o b) \o <<"ExpEnd">>)
    BY <1>1, <2>1, <2>2, WritesOn
  <2>4. out' = (<<"FunctionStart">> \o m[k - 1]) \o Means(page[k])
    BY <1>1, <1>6, <2>3 DEF WroteAs, Means
  <2>5. out' = (<<"FunctionStart">> \o m[(k + 1) - 1]) \o <<>>
    BY <1>1, <2>4, WroteWhole
  <2> QED
    BY <2>5 DEF Wrote, WroteAs
<1>8. k + 1 \in 1 .. Len(page) + 1 /\ k + 1 \in Nat
  BY <1>1, <1>2
<1> QED
  BY <1>1, <1>5, <1>6, <1>7, <1>8 DEF Between

-----------------------------------------------------------------------------
\* A byte step goes on with the page.
LEMMA ByteMeans ==
    ASSUME NEW s, NEW m, Known(s, m), Reading(s, m), NEW ch,
           \/ Start(ch) \/ HtmlBlock(ch) \/ SquStart(ch) \/ SquBlockStart(ch)
           \/ SquBlock(ch) \/ SquBlockEnd(ch)
           \/ SquExpBlockStart(ch) \/ SquExpBlock(ch) \/ SquExpBlockEnd(ch)
           \/ Error(ch)
    PROVE  Reading(s, m)'
<1>1. PICK k \in Nat, j \in Nat :
         \/ Between(s, m, k)
         \/ InText(s, m, k, j) \/ PendingText(s, m, k, j) \/ Opening(s, m, k, j)
         \/ InCode(s, m, k, j) \/ CodeEnds(s, m, k)
         \/ ExpOpens(s, m, k) \/ InExp(s, m, k, j) \/ ExpEnds(s, m, k)
  BY DEF Reading
<1>2. /\ Between(s, m, k) => state = "start"
      /\ InText(s, m, k, j) => state = "html_block"
      /\ PendingText(s, m, k, j) => state = "squ_start"
      /\ Opening(s, m, k, j) => state \in {"squ_start", "squ_block_start"}
      /\ InCode(s, m, k, j) => state = "squ_block"
      /\ CodeEnds(s, m, k) => state = "squ_block_end"
      /\ ExpOpens(s, m, k) => state = "squ_exp_block_start"
      /\ InExp(s, m, k, j) => state = "squ_exp_block"
      /\ ExpEnds(s, m, k) => state = "squ_exp_block_end"
  BY DEF Between, InText, PendingText, Opening, InCode, CodeEnds, ExpOpens, InExp, ExpEnds
<1>3. ASSUME NEW i \in Nat, NEW l \in Nat,
             \/ Between(s, m, i)'
             \/ InText(s, m, i, l)' \/ PendingText(s, m, i, l)' \/ Opening(s, m, i, l)'
             \/ InCode(s, m, i, l)' \/ CodeEnds(s, m, i)'
             \/ ExpOpens(s, m, i)' \/ InExp(s, m, i, l)' \/ ExpEnds(s, m, i)'
      PROVE  Reading(s, m)'
  BY <1>3 DEF Reading
<1>4. 1 \in Nat /\ 2 \in Nat
  OBVIOUS
<1>5. CASE Start(ch)
  <2>1. Between(s, m, k)
    <3>1. state = "start"
      BY <1>5 DEF Start, Reads
    <3> QED
      BY <1>1, <1>2, <3>1
  <2> QED
    BY <1>3, <1>4, <1>5, <2>1, StartReads
<1>6. CASE HtmlBlock(ch)
  <2>1. InText(s, m, k, j)
    <3>1. state = "html_block"
      BY <1>6 DEF HtmlBlock, Reads
    <3> QED
      BY <1>1, <1>2, <3>1
  <2> QED
    BY <1>3, <1>4, <1>6, <2>1, HtmlBlockReads
<1>7. CASE SquStart(ch)
  <2>1. PendingText(s, m, k, j) \/ Opening(s, m, k, j)
    <3>1. state = "squ_start"
      BY <1>7 DEF SquStart, Reads
    <3> QED
      BY <1>1, <1>2, <3>1
  <2>2. CASE PendingText(s, m, k, j)
    BY <1>3, <1>7, <2>2, PendingReads
  <2>3. CASE Opening(s, m, k, j)
    BY <1>3, <1>4, <1>7, <2>3, OpeningReads
  <2> QED
    BY <2>1, <2>2, <2>3
<1>8. CASE SquBlockStart(ch)
  <2>1. Opening(s, m, k, j)
    <3>1. state = "squ_block_start"
      BY <1>8 DEF SquBlockStart, Reads
    <3> QED
      BY <1>1, <1>2, <3>1
  <2> QED
    BY <1>3, <1>4, <1>8, <2>1, BlockStartReads
<1>9. CASE SquBlock(ch)
  <2>1. InCode(s, m, k, j)
    <3>1. state = "squ_block"
      BY <1>9 DEF SquBlock, InBlock, Reads
    <3> QED
      BY <1>1, <1>2, <3>1
  <2> QED
    BY <1>3, <1>9, <2>1, CodeReads
<1>10. CASE SquBlockEnd(ch)
  <2>1. CodeEnds(s, m, k)
    <3>1. state = "squ_block_end"
      BY <1>10 DEF SquBlockEnd, Reads
    <3> QED
      BY <1>1, <1>2, <3>1
  <2> QED
    BY <1>3, <1>4, <1>10, <2>1, CodeEndReads
<1>11. CASE SquExpBlockStart(ch)
  <2>1. ExpOpens(s, m, k)
    <3>1. state = "squ_exp_block_start"
      BY <1>11 DEF SquExpBlockStart, Reads
    <3> QED
      BY <1>1, <1>2, <3>1
  <2> QED
    BY <1>3, <1>4, <1>11, <2>1, ExpOpensReads
<1>12. CASE SquExpBlock(ch)
  <2>1. InExp(s, m, k, j)
    <3>1. state = "squ_exp_block"
      BY <1>12 DEF SquExpBlock, InBlock, Reads
    <3> QED
      BY <1>1, <1>2, <3>1
  <2> QED
    BY <1>3, <1>12, <2>1, ExpReads
<1>13. CASE SquExpBlockEnd(ch)
  <2>1. ExpEnds(s, m, k)
    <3>1. state = "squ_exp_block_end"
      BY <1>13 DEF SquExpBlockEnd, Reads
    <3> QED
      BY <1>1, <1>2, <3>1
  <2> QED
    BY <1>3, <1>4, <1>13, <2>1, ExpEndReads
<1>14. ~Error(ch)
  <2>1. state # "error"
    BY <1>1, <1>2
  <2> QED
    BY <2>1 DEF Error, Reads
<1> QED
  BY <1>5, <1>6, <1>7, <1>8, <1>9, <1>10, <1>11, <1>12, <1>13, <1>14

\* A page has ended only behind a block, or behind the last byte of a text.
LEMMA EndsBetween ==
    ASSUME NEW s, NEW m, Known(s, m), Reading(s, m), pos = Len(src)
    PROVE  \/ Between(s, m, Len(page) + 1)
           \/ InText(s, m, Len(page), Len(page[Len(page)].body))
<1>1. PICK k \in Nat, j \in Nat :
         \/ Between(s, m, k)
         \/ InText(s, m, k, j) \/ PendingText(s, m, k, j) \/ Opening(s, m, k, j)
         \/ InCode(s, m, k, j) \/ CodeEnds(s, m, k)
         \/ ExpOpens(s, m, k) \/ InExp(s, m, k, j) \/ ExpEnds(s, m, k)
  BY DEF Reading
<1>2. Len(page) \in Nat /\ Len(src) \in Nat
  BY DEF Known, Typed
<1>3. ASSUME NEW i \in 1 .. Len(page), NEW x \in Nat, At(s, i, x), x < Len(Render(page[i])) PROVE FALSE
  <2>1. pos < Len(src)
    BY <1>3, NextByte
  <2> QED
    BY <1>2, <2>1
<1>4. ASSUME NEW i \in 1 .. Len(page), At(s, i, 0) PROVE FALSE
  <2>1. page[i].kind \in {"html", "code", "exp"} /\ page[i].body \in Seq(Bytes)
        /\ Len(page[i].body) \in Nat /\ Len(page[i].body) >= 1
    BY SegmentIs DEF Known
  <2>2. 0 < Len(Render(page[i])) /\ 0 \in Nat
    BY <2>1, RenderIs
  <2> QED
    BY <1>3, <1>4, <2>2
<1>5. ASSUME NEW i \in 1 .. Len(page)
      PROVE  /\ page[i].kind \in {"html", "code", "exp"} /\ Len(page[i].body) \in Nat
             /\ page[i].kind = "html" => Render(page[i]) = page[i].body
             /\ page[i].kind = "code" => Len(Render(page[i])) = Len(page[i].body) + 4
             /\ page[i].kind = "exp" => Len(Render(page[i])) = Len(page[i].body) + 5
  <2>1. page[i].kind \in {"html", "code", "exp"} /\ page[i].body \in Seq(Bytes) /\ Len(page[i].body) \in Nat
    BY SegmentIs DEF Known
  <2> QED
    BY <2>1, RenderIs
<1>6. CASE Between(s, m, k)
  <2>1. k \in 1 .. Len(page) + 1 /\ At(s, k, 0)
    BY <1>6 DEF Between
  <2>2. k \notin 1 .. Len(page)
    BY <1>4, <2>1
  <2>3. k = Len(page) + 1
    BY <1>2, <2>1, <2>2
  <2> QED
    BY <1>6, <2>3
<1>7. CASE InText(s, m, k, j)
  <2>1. k \in 1 .. Len(page) /\ page[k].kind = "html" /\ j \in 1 .. Len(page[k].body) /\ At(s, k, j)
    BY <1>7 DEF InText
  <2>2. j = Len(page[k].body)
    <3>1. ~(j < Len(Render(page[k])))
      BY <1>3, <2>1
    <3>2. ~(j < Len(page[k].body)) /\ Len(page[k].body) \in Nat
      BY <1>5, <2>1, <3>1
    <3> QED
      BY <2>1, <3>2
  <2>3. At(s, k + 1, 0)
    <3>1. At(s, k, Len(Render(page[k])))
      BY <1>5, <2>1, <2>2
    <3> QED
      BY <2>1, <3>1, AtEnd
  <2>4. k + 1 \notin 1 .. Len(page)
    BY <1>4, <2>3
  <2>5. k = Len(page)
    BY <1>2, <2>1, <2>4
  <2> QED
    BY <1>7, <2>2, <2>5
<1>8. CASE PendingText(s, m, k, j)
  <2>1. k \in 1 .. Len(page) /\ page[k].kind = "html" /\ j \in 1 .. Len(page[k].body) /\ At(s, k, j)
        /\ page[k].body[j] = "<"
    BY <1>8 DEF PendingText
  <2>2. page[k].body[Len(page[k].body)] # "<"
    BY <2>1 DEF Known, Readable, Text
  <2>3. j # Len(page[k].body) /\ Len(page[k].body) \in Nat
    BY <1>5, <2>1, <2>2
  <2>4. j < Len(page[k].body)
    BY <2>1, <2>3
  <2>5. j < Len(Render(page[k]))
    BY <1>5, <2>1, <2>4
  <2> QED
    BY <1>3, <2>1, <2>5
<1>9. CASE Opening(s, m, k, j)
  <2>1. k \in 1 .. Len(page) /\ page[k].kind # "html" /\ j \in {1, 2} /\ At(s, k, j)
    BY <1>9 DEF Opening
  <2>2. j < Len(Render(page[k]))
    BY <1>5, <2>1
  <2> QED
    BY <1>3, <2>1, <2>2
<1>10. CASE InCode(s, m, k, j)
  <2>1. k \in 1 .. Len(page) /\ page[k].kind = "code" /\ j \in 1 .. Len(page[k].body) /\ At(s, k, 2 + j)
    BY <1>10 DEF InCode
  <2>2. 2 + j \in Nat /\ 2 + j < Len(Render(page[k]))
    BY <1>5, <2>1
  <2> QED
    BY <1>3, <2>1, <2>2
<1>11. CASE CodeEnds(s, m, k)
  <2>1. k \in 1 .. Len(page) /\ page[k].kind = "code" /\ At(s, k, 3 + Len(page[k].body))
    BY <1>11 DEF CodeEnds
  <2>2. 3 + Len(page[k].body) \in Nat /\ 3 + Len(page[k].body) < Len(Render(page[k]))
    BY <1>5, <2>1
  <2> QED
    BY <1>3, <2>1, <2>2
<1>12. CASE ExpOpens(s, m, k)
  <2>1. k \in 1 .. Len(page) /\ page[k].kind = "exp" /\ At(s, k, 3)
    BY <1>12 DEF ExpOpens
  <2>2. 3 \in Nat /\ 3 < Len(Render(page[k]))
    BY <1>5, <2>1
  <2> QED
    BY <1>3, <2>1, <2>2
<1>13. CASE InExp(s, m, k, j)
  <2>1. k \in 1 .. Len(page) /\ page[k].kind = "exp" /\ j \in 1 .. Len(page[k].body) /\ At(s, k, 3 + j)
    BY <1>13 DEF InExp
  <2>2. 3 + j \in Nat /\ 3 + j < Len(Render(page[k]))
    BY <1>5, <2>1
  <2> QED
    BY <1>3, <2>1, <2>2
<1>14. CASE ExpEnds(s, m, k)
  <2>1. k \in 1 .. Len(page) /\ page[k].kind = "exp" /\ At(s, k, 4 + Len(page[k].body))
    BY <1>14 DEF ExpEnds
  <2>2. 4 + Len(page[k].body) \in Nat /\ 4 + Len(page[k].body) < Len(Render(page[k]))
    BY <1>5, <2>1
  <2> QED
    BY <1>3, <2>1, <2>2
<1> QED
  BY <1>1, <1>6, <1>7, <1>8, <1>9, <1>10, <1>11, <1>12, <1>13, <1>14

\* Finish closes the print of a text at the end of the page, and the function.
LEMMA FinishMeans ==
    ASSUME NEW s, NEW m, Known(s, m), Reading(s, m), page # <<>>, Finish
    PROVE  out' = (<<"FunctionStart">> \o m[Len(page)]) \o <<"FunctionEnd">>
<1> DEFINE n == Len(page)
           a == <<"FunctionStart">> \o m[n]
<1>1. n \in Nat /\ n \in 1 .. n /\ (n + 1) - 1 = n
  <2>1. page \in Seq([kind : {"html", "code", "exp"}, body : Seq(Bytes) \ {<<>>}])
    BY DEF Known, Readable
  <2>2. n \in Nat \ {0}
    BY <2>1, EmptySeq
  <2> QED
    BY <2>2
<1>2. a \in Seq(Pieces)
  <2>1. m[n] \in Seq(Pieces)
    BY <1>1 DEF Known, Joined
  <2>2. <<"FunctionStart">> \in Seq(Pieces)
    BY DEF Pieces
  <2> QED
    BY <2>1, <2>2, ConcatProperties
<1>3. "FunctionEnd" \in Pieces /\ "PrintEnd" \in Pieces
  BY DEF Pieces, Literals
<1>4. /\ html => out' = out \o <<"PrintEnd", "FunctionEnd">>
      /\ ~html => out' = out \o <<"FunctionEnd">>
  BY DEF Finish, Emit
<1>5. \/ Between(s, m, n + 1)
      \/ InText(s, m, n, Len(page[n].body))
  BY EndsBetween DEF Finish
<1>6. CASE Between(s, m, n + 1)
  <2>1. state = "start" /\ out = a \o <<>>
    BY <1>1, <1>6 DEF Between, Wrote, WroteAs
  <2>2. ~html
    BY <2>1 DEF Known, HtmlStates
  <2>3. out = a
    BY <1>2, <2>1, ConcatEmptySeq
  <2> QED
    BY <1>4, <2>2, <2>3
<1>7. CASE InText(s, m, n, Len(page[n].body))
  <2> DEFINE b == page[n].body
  <2>1. html /\ Wrote(m, n, <<"PrintStart">> \o SubSeq(b, 1, Len(b))) /\ page[n].kind = "html"
    BY <1>7 DEF InText
  <2>2. b \in Seq(Bytes)
    BY <1>1, SegmentIs DEF Known
  <2>3. SubSeq(b, 1, Len(b)) = b
    BY <2>2, SubSeqFull
  <2>4. Wrote(m, n, <<"PrintStart">> \o b)
    BY <2>1, <2>3
  <2>5. <<"PrintStart">> \o b \in Seq(Pieces) /\ <<"PrintEnd">> \in Seq(Pieces)
    <3>1. b \in Seq(Pieces)
      BY <2>2, SeqMonotonic DEF Pieces
    <3>2. <<"PrintStart">> \in Seq(Pieces) /\ <<"PrintEnd">> \in Seq(Pieces)
      BY DEF Pieces, Literals
    <3> QED
      BY <3>1, <3>2, ConcatProperties
  <2>6. WroteAs(out \o <<"PrintEnd">>, m, n, (<<"PrintStart">> \o b) \o <<"PrintEnd">>) /\ out \in Seq(Pieces)
    BY <1>1, <2>4, <2>5, WritesOn
  <2>7. out \o <<"PrintEnd">> = a
    <3>1. out \o <<"PrintEnd">> = (<<"FunctionStart">> \o m[n - 1]) \o Means(page[n])
      BY <2>1, <2>6 DEF WroteAs, Means
    <3> QED
      BY <1>1, <3>1, WroteWhole
  <2>8. (out \o <<"PrintEnd">>) \o <<"FunctionEnd">> = out \o (<<"PrintEnd">> \o <<"FunctionEnd">>)
    <3>1. <<"FunctionEnd">> \in Seq(Pieces)
      BY <1>3
    <3> QED
      BY <2>5, <2>6, <3>1, ConcatAssociative
  <2>9. <<"PrintEnd">> \o <<"FunctionEnd">> = <<"PrintEnd", "FunctionEnd">>
    BY <1>3, ShortIs
  <2> QED
    BY <1>4, <2>1, <2>7, <2>8, <2>9
<1> QED
  BY <1>5, <1>6, <1>7

\* The parser starts in front of the first segment.
LEMMA InitMInv == Init => MInv
<1> SUFFICES ASSUME Init, page # <<>> PROVE MInv
  BY DEF MInv
<1>1. parser = "ssp" /\ Readable(page) /\ src = Source(page)
  BY ParserAssumption DEF Init
<1> DEFINE n == Len(page)
           ss == Rendered(page)
           mm == Meant(page)
<1>2. n \in Nat \ {0} /\ DOMAIN page = 1 .. n
  <2>1. page \in Seq([kind : {"html", "code", "exp"}, body : Seq(Bytes) \ {<<>>}])
    BY <1>1 DEF Readable
  <2> QED
    BY <2>1, EmptySeq, LenProperties
<1>3. /\ Len(ss) = n /\ \A i \in 1 .. n : ss[i] \in Seq(Bytes)
      /\ \A i \in 1 .. n : mm[i] \in Seq(Pieces)
  <2>1. Len(ss) = n
    BY <1>2 DEF Rendered
  <2>2. ASSUME NEW i \in 1 .. n PROVE ss[i] \in Seq(Bytes) /\ mm[i] \in Seq(Pieces)
    <3>1. page[i].kind \in {"html", "code", "exp"} /\ page[i].body \in Seq(Bytes)
      BY <1>1, SegmentIs
    <3>2. Render(page[i]) \in Seq(Bytes) /\ Means(page[i]) \in Seq(Pieces)
      BY <3>1, RenderIs, MeansIs
    <3> QED
      BY <1>2, <3>2 DEF Rendered, Meant
  <2> QED
    BY <2>1, <2>2
<1> HIDE DEF n, ss, mm
<1>4. PICK s \in [0 .. n -> Seq(Bytes)] : Parts(s, ss, n)
  BY <1>2, <1>3, PartsExist
<1>5. PICK m \in [0 .. n -> Seq(Pieces)] : Parts(m, mm, n)
  BY <1>2, <1>3, PartsExist
<1>6. src = s[n]
  <2>1. src = FlattenSeq(ss)
    BY <1>1 DEF Source, ss, Rendered
  <2>2. FlattenSeq(ss) = s[n]
    BY <1>2, <1>3, <1>4, PartsFlatten
  <2> QED
    BY <2>1, <2>2
<1>7. Joined(s, m)
  BY <1>4, <1>5 DEF Joined, n, ss, mm
<1>8. Between(s, m, 1)
  <2>1. s[1 - 1] = <<>> /\ m[1 - 1] = <<>>
    BY <1>4, <1>5 DEF Parts
  <2>2. At(s, 1, 0)
    <3>1. pos = 0 /\ Len(<<>>) + 0 = 0
      BY DEF Init
    <3> QED
      BY <2>1, <3>1 DEF At
  <2>3. Wrote(m, 1, <<>>)
    <3>1. out = <<"FunctionStart">> /\ <<"FunctionStart">> \in Seq(Pieces)
      BY DEF Init, Pieces
    <3>2. <<"FunctionStart">> \o <<>> = <<"FunctionStart">>
      BY <3>1, ConcatEmptySeq
    <3> QED
      BY <2>1, <3>1, <3>2 DEF Wrote, WroteAs
  <2>4. 1 \in 1 .. Len(page) + 1
    BY <1>2 DEF n
  <2> QED
    BY <2>2, <2>3, <2>4 DEF Between, Init
<1>9. Reading(s, m)
  BY <1>8 DEF Reading
<1>10. ~done
  BY DEF Init
<1> QED
  BY <1>1, <1>6, <1>7, <1>9, <1>10 DEF MInv, n

\* Every step keeps to the page.
LEMMA NextMInv == IInv /\ MInv /\ [Next]_vars => MInv'
<1> SUFFICES ASSUME IInv, MInv, [Next]_vars, page' # <<>> PROVE MInv'
  BY DEF MInv
<1>1. page' = page /\ src' = src /\ parser' = parser
  BY DEF Next, vars, Start, HtmlBlock, SquStart, SquBlockStart, SquBlock, SquBlockEnd,
         SquExpBlockStart, SquExpBlock, SquExpBlockEnd, InBlock, Error, Reads, Finish, ParseDefault
<1>2. page # <<>> /\ parser = "ssp" /\ Readable(page)
  BY <1>1 DEF MInv
<1>3. PICK s, m : /\ Joined(s, m) /\ src = s[Len(page)]
                  /\ IF done THEN out = (<<"FunctionStart">> \o m[Len(page)]) \o <<"FunctionEnd">>
                     ELSE Reading(s, m)
  BY <1>2 DEF MInv
<1>4. Known(s, m)
  <2>1. page \in Seq([kind : {"html", "code", "exp"}, body : Seq(Bytes) \ {<<>>}])
    BY <1>2 DEF Readable
  <2>2. Len(page) \in Nat
    BY <2>1, LenProperties
  <2> QED
    BY <1>2, <1>3, <2>2 DEF Known, IInv
<1>5. Joined(s, m)' /\ (src = s[Len(page)])' /\ parser' = "ssp" /\ Readable(page')
  BY <1>1, <1>2, <1>3 DEF Joined
<1>6. IF done' THEN out' = (<<"FunctionStart">> \o m[Len(page')]) \o <<"FunctionEnd">>
      ELSE Reading(s, m)'
  <2>1. CASE UNCHANGED vars
    <3>1. /\ done' = done /\ out' = out /\ page' = page /\ pos' = pos /\ state' = state /\ html' = html
          /\ backslash' = backslash /\ dquoted' = dquoted /\ squoted' = squoted
      BY <2>1 DEF vars, quoting
    <3>2. ASSUME NEW k \in Nat, NEW j \in Nat
          PROVE  /\ Between(s, m, k) => Between(s, m, k)'
                 /\ InText(s, m, k, j) => InText(s, m, k, j)'
                 /\ PendingText(s, m, k, j) => PendingText(s, m, k, j)'
                 /\ Opening(s, m, k, j) => Opening(s, m, k, j)'
                 /\ InCode(s, m, k, j) => InCode(s, m, k, j)'
                 /\ CodeEnds(s, m, k) => CodeEnds(s, m, k)'
                 /\ ExpOpens(s, m, k) => ExpOpens(s, m, k)'
                 /\ InExp(s, m, k, j) => InExp(s, m, k, j)'
                 /\ ExpEnds(s, m, k) => ExpEnds(s, m, k)'
      <4>1. Between(s, m, k) => Between(s, m, k)'
        BY <3>1 DEF Between, At, Wrote, WroteAs
      <4>2. InText(s, m, k, j) => InText(s, m, k, j)'
        BY <3>1 DEF InText, At, Wrote, WroteAs
      <4>3. PendingText(s, m, k, j) => PendingText(s, m, k, j)'
        BY <3>1 DEF PendingText, At, Wrote, WroteAs
      <4>4. Opening(s, m, k, j) => Opening(s, m, k, j)'
        BY <3>1 DEF Opening, At, Wrote, WroteAs
      <4>5. InCode(s, m, k, j) => InCode(s, m, k, j)'
        BY <3>1 DEF InCode, At, Wrote, WroteAs, Quoted
      <4>6. CodeEnds(s, m, k) => CodeEnds(s, m, k)'
        BY <3>1 DEF CodeEnds, At, Wrote, WroteAs
      <4>7. ExpOpens(s, m, k) => ExpOpens(s, m, k)'
        BY <3>1 DEF ExpOpens, At, Wrote, WroteAs
      <4>8. InExp(s, m, k, j) => InExp(s, m, k, j)'
        BY <3>1 DEF InExp, At, Wrote, WroteAs, Quoted
      <4>9. ExpEnds(s, m, k) => ExpEnds(s, m, k)'
        BY <3>1 DEF ExpEnds, At, Wrote, WroteAs
      <4> QED
        BY <4>1, <4>2, <4>3, <4>4, <4>5, <4>6, <4>7, <4>8, <4>9
    <3>3. Reading(s, m) => Reading(s, m)'
      BY <3>2 DEF Reading
    <3> QED
      BY <1>3, <3>1, <3>3
  <2>2. ASSUME NEW ch \in Bytes,
               \/ Start(ch) \/ HtmlBlock(ch) \/ SquStart(ch) \/ SquBlockStart(ch)
               \/ SquBlock(ch) \/ SquBlockEnd(ch)
               \/ SquExpBlockStart(ch) \/ SquExpBlock(ch) \/ SquExpBlockEnd(ch)
               \/ Error(ch)
        PROVE  ~done' /\ Reading(s, m)'
    <3>1. done' = done /\ pos < Len(src)
      BY <2>2 DEF Start, HtmlBlock, SquStart, SquBlockStart, SquBlock, SquBlockEnd,
             SquExpBlockStart, SquExpBlock, SquExpBlockEnd, InBlock, Error, Reads
    <3>2. ~done
      BY <3>1 DEF IInv, Typed
    <3>3. Reading(s, m)
      BY <1>3, <3>2
    <3> QED
      BY <1>4, <2>2, <3>1, <3>2, <3>3, ByteMeans
  <2>3. CASE Finish
    <3>1. ~done /\ done'
      BY <2>3 DEF Finish
    <3>2. out' = (<<"FunctionStart">> \o m[Len(page)]) \o <<"FunctionEnd">>
      BY <1>2, <1>3, <1>4, <2>3, <3>1, FinishMeans
    <3> QED
      BY <1>1, <3>1, <3>2
  <2>4. ~ParseDefault
    BY <1>2 DEF ParseDefault
  <2> QED
    BY <2>1, <2>2, <2>3, <2>4 DEF Next
<1> QED
  BY <1>5, <1>6 DEF MInv

\* What was written for a whole page is what the page means.
LEMMA MInvMeans == MInv => MeansThePage
<1> SUFFICES ASSUME MInv, page # <<>>, done
             PROVE  out = (<<"FunctionStart">> \o FlattenSeq(Meant(page))) \o <<"FunctionEnd">>
  BY DEF MeansThePage, Meant
<1>1. PICK s, m : /\ Readable(page) /\ Joined(s, m)
                  /\ out = (<<"FunctionStart">> \o m[Len(page)]) \o <<"FunctionEnd">>
  BY DEF MInv
<1> DEFINE n == Len(page)
           mm == Meant(page)
<1>2. n \in Nat \ {0} /\ DOMAIN page = 1 .. n
  <2>1. page \in Seq([kind : {"html", "code", "exp"}, body : Seq(Bytes) \ {<<>>}])
    BY <1>1 DEF Readable
  <2> QED
    BY <2>1, EmptySeq, LenProperties
<1>3. Len(mm) = n
  BY <1>2 DEF Meant
<1>4. ASSUME NEW i \in 1 .. n PROVE mm[i] \in Seq(Pieces)
  <2>1. page[i].kind \in {"html", "code", "exp"} /\ page[i].body \in Seq(Bytes)
    BY <1>1, SegmentIs
  <2> QED
    BY <1>2, <2>1, MeansIs DEF Meant
<1>5. m \in [0 .. n -> Seq(Pieces)] /\ Parts(m, mm, n)
  BY <1>1 DEF Joined
<1>6. out = (<<"FunctionStart">> \o m[n]) \o <<"FunctionEnd">>
  BY <1>1
<1> HIDE DEF n, mm
<1>7. FlattenSeq(mm) = m[n]
  BY <1>2, <1>3, <1>4, <1>5, PartsFlatten
<1> QED
  BY <1>6, <1>7 DEF mm

\* For every page of any number of segments of any length that can be told apart,
\* the script that ngx_squ_parse_ssp makes of it prints the text, has the code as
\* it stands and prints the expressions, in the order of the page: the quoting and
\* the lookahead of the parser lose, repeat and invent nothing.
THEOREM ParserMeansThePage == Spec => []MeansThePage
<1> QED
  BY InitIInv, NextIInv, InitMInv, NextMInv, MInvMeans, PTL DEF Spec

=============================================================================
