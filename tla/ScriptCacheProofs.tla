------------------------- MODULE ScriptCacheProofs -------------------------
(* Invariance proofs for ScriptCache, for every instance of its constants. *)
EXTENDS ScriptCache, TLAPS

Elems(q) == {q[i] : i \in DOMAIN q}
Distinct(q) == \A i, j \in DOMAIN q : q[i] = q[j] => i = j

-----------------------------------------------------------------------------
(* The queue operators                                                      *)

\* Taking position i out of a queue of distinct nodes takes out that node and
\* no other.
LEMMA WithoutLemma ==
    ASSUME NEW S, NEW q \in Seq(S), Distinct(q), NEW i \in DOMAIN q
    PROVE  /\ Without(q, i) \in Seq(S)
           /\ Len(Without(q, i)) = Len(q) - 1
           /\ Distinct(Without(q, i))
           /\ Elems(Without(q, i)) = Elems(q) \ {q[i]}
<1> DEFINE w == Without(q, i)
<1>1. Len(q) \in Nat /\ DOMAIN q = 1 .. Len(q) /\ i \in 1 .. Len(q)
  OBVIOUS
<1>2. w = [k \in 1 .. Len(q) - 1 |-> IF k < i THEN q[k] ELSE q[k + 1]]
  BY DEF Without
<1>3. \A k \in 1 .. Len(q) - 1 : w[k] \in S
  BY <1>1, <1>2
<1>4. w \in Seq(S) /\ Len(w) = Len(q) - 1 /\ DOMAIN w = 1 .. Len(q) - 1
  BY <1>1, <1>2, <1>3
<1>5. Distinct(w)
  BY <1>1, <1>2, <1>4 DEF Distinct
<1>6. ASSUME NEW n \in Elems(w) PROVE n \in Elems(q) \ {q[i]}
  BY <1>1, <1>2, <1>4 DEF Elems, Distinct
<1>7. ASSUME NEW n \in Elems(q) \ {q[i]} PROVE n \in Elems(w)
  <2>1. PICK j \in 1 .. Len(q) : q[j] = n
    BY <1>1 DEF Elems
  <2>2. CASE j < i
    BY <2>1, <2>2, <1>1, <1>2, <1>4 DEF Elems
  <2>3. CASE j > i
    <3>1. j - 1 \in DOMAIN w /\ w[j - 1] = n
      BY <2>1, <2>3, <1>1, <1>2, <1>4
    <3> QED
      BY <3>1 DEF Elems
  <2> QED
    BY <2>1, <2>2, <2>3, <1>1
<1> QED
  BY <1>4, <1>5, <1>6, <1>7

\* ngx_queue_remove of a linked or an unlinked node.
LEMMA UnlinkLemma ==
    ASSUME NEW S, NEW q \in Seq(S), Distinct(q), NEW n
    PROVE  /\ Unlink(q, n) \in Seq(S)
           /\ Distinct(Unlink(q, n))
           /\ Elems(Unlink(q, n)) = Elems(q) \ {n}
<1>1. CASE \E i \in DOMAIN q : q[i] = n
  <2>1. PosOf(q, n) \in DOMAIN q /\ q[PosOf(q, n)] = n
    BY <1>1 DEF PosOf
  <2> QED
    BY <1>1, <2>1, WithoutLemma DEF Unlink
<1>2. CASE ~ \E i \in DOMAIN q : q[i] = n
  BY <1>2 DEF Unlink, Elems
<1> QED
  BY <1>1, <1>2

\* Pushing a node that is not linked keeps the nodes distinct.
LEMMA PushHeadLemma ==
    ASSUME NEW S, NEW q \in Seq(S), Distinct(q), NEW n \in S, n \notin Elems(q)
    PROVE  /\ PushHead(q, n) \in Seq(S)
           /\ Distinct(PushHead(q, n))
           /\ Elems(PushHead(q, n)) = Elems(q) \cup {n}
<1> DEFINE p == PushHead(q, n)
<1>1. Len(q) \in Nat /\ DOMAIN q = 1 .. Len(q)
  OBVIOUS
<1>2. p = [k \in 1 .. Len(q) + 1 |-> IF k = 1 THEN n ELSE q[k - 1]]
  BY DEF PushHead
<1>3. \A k \in 1 .. Len(q) + 1 : p[k] \in S
  BY <1>1, <1>2
<1>4. p \in Seq(S) /\ DOMAIN p = 1 .. Len(q) + 1
  BY <1>1, <1>2, <1>3
<1>5. Distinct(p)
  BY <1>1, <1>2, <1>4 DEF Distinct, Elems
<1>6. Elems(p) \subseteq Elems(q) \cup {n}
  BY <1>1, <1>2, <1>4 DEF Elems
<1>7. ASSUME NEW m \in Elems(q) \cup {n} PROVE m \in Elems(p)
  <2>1. CASE m = n
    <3>1. 1 \in DOMAIN p /\ p[1] = n
      BY <1>1, <1>2, <1>4
    <3> QED
      BY <2>1, <3>1 DEF Elems
  <2>2. CASE m \in Elems(q)
    <3>1. PICK j \in 1 .. Len(q) : q[j] = m
      BY <2>2, <1>1 DEF Elems
    <3>2. j + 1 \in DOMAIN p /\ p[j + 1] = m
      BY <3>1, <1>1, <1>2, <1>4
    <3> QED
      BY <3>2 DEF Elems
  <2> QED
    BY <2>1, <2>2
<1> QED
  BY <1>4, <1>5, <1>6, <1>7

-----------------------------------------------------------------------------
(* The inductive invariant                                                  *)

\* The bytecode c may stand for script s where its stat was l.
CodeOK(s, l, c) ==
    /\ Backs(s, l, c)
    /\ c.ver \in 1 .. Version(s)
    /\ ~c.whole => hist[s][c.ver].size > l.size
    /\ c.len <= Cap(l.size)

HistInv == \A s \in Scripts : Version(s) >= 1

EntryInv == \A n \in tree : CodeOK(slab[n].path, slab[n].label, slab[n].code)

SeenOK(t) ==
    /\ thr[t].seen \in 1 .. Version(ScriptOf[t])
    /\ hist[ScriptOf[t]][thr[t].seen] = thr[t].label

ThreadInv ==
    \A t \in Threads :
        /\ thr[t].pc # "idle" => SeenOK(t)
        /\ thr[t].pc = "read" =>
               thr[t].opened \in thr[t].seen .. Version(ScriptOf[t])
        /\ thr[t].pc \in {"parse", "set", "running"} =>
               CodeOK(ScriptOf[t], thr[t].label, thr[t].code)
        /\ thr[t].pc \in {"idle", "checked", "open", "read"} =>
               thr[t].code.len = 0

IndexInv ==
    /\ tree = {n \in Nodes : slab[n] # Free}
    /\ tree = Elems(queue)
    /\ Distinct(queue)

IInv == TypeOK /\ HistInv /\ IndexInv /\ EntryInv /\ ThreadInv

-----------------------------------------------------------------------------
(* The cache primitives preserve the type and the index                     *)

CacheType ==
    /\ slab \in [Nodes -> Entry \cup {Free}]
    /\ tree \subseteq Nodes
    /\ queue \in Seq(Nodes)

\* The free chunk is no entry.
LEMMA EntryNotFree == Free \notin Entry
<1>1. "path" \in DOMAIN [path |-> 0]
  OBVIOUS
<1>2. \A e \in Entry : "path" \in DOMAIN e
  BY DEF Entry
<1>3. "path" \notin DOMAIN Free
  BY DEF Free
<1> QED
  BY <1>2, <1>3

\* A chunk that is linked into the tree holds an entry.
LEMMA LiveEntry ==
    ASSUME CacheType, IndexInv, NEW n \in tree
    PROVE  slab[n] \in Entry
BY DEF CacheType, IndexInv

\* The removal sequence keeps slab, tree and queue in agreement.
LEMMA RemoveNodeLemma ==
    ASSUME CacheType, IndexInv, NEW n \in tree, RemoveNode(n)
    PROVE  CacheType' /\ IndexInv'
<1>1. slab' \in [Nodes -> Entry \cup {Free}]
  BY DEF CacheType, RemoveNode
<1>2. tree' = {m \in Nodes : slab'[m] # Free}
  BY DEF CacheType, IndexInv, RemoveNode
<1>3. queue' \in Seq(Nodes) /\ Distinct(queue') /\ Elems(queue') = tree'
  BY UnlinkLemma DEF CacheType, IndexInv, RemoveNode
<1> QED
  BY <1>1, <1>2, <1>3 DEF CacheType, IndexInv, RemoveNode

\* So does the refresh sequence, and it changes nothing of an entry but its age.
LEMMA RefreshLemma ==
    ASSUME CacheType, IndexInv, ConstAssumption, clock \in [Workers -> Nat],
           NEW n \in tree, NEW w \in Workers, Refresh(n, w)
    PROVE  /\ CacheType' /\ IndexInv'
           /\ \A m \in tree : slab'[m].path = slab[m].path
                              /\ slab'[m].label = slab[m].label
                              /\ slab'[m].code = slab[m].code
<1>1. slab[n] \in Entry
  BY LiveEntry
<1>2. clock[w] + Expire[w] + Grace \in Nat
  BY DEF ConstAssumption
<1>3. /\ slab' = [slab EXCEPT ![n] = [slab[n] EXCEPT !.expire = clock[w] + Expire[w] + Grace]]
      /\ [slab[n] EXCEPT !.expire = clock[w] + Expire[w] + Grace] \in Entry
  BY <1>1, <1>2 DEF Refresh, Entry
<1>4. slab' \in [Nodes -> Entry \cup {Free}]
  BY <1>3 DEF CacheType
<1>5. tree' = {m \in Nodes : slab'[m] # Free}
  BY <1>1, <1>3, EntryNotFree DEF CacheType, IndexInv, Refresh
<1>6. queue' \in Seq(Nodes) /\ Distinct(queue') /\ Elems(queue') = tree'
  <2>1. /\ Unlink(queue, n) \in Seq(Nodes)
        /\ Distinct(Unlink(queue, n))
        /\ Elems(Unlink(queue, n)) = tree \ {n}
    BY UnlinkLemma DEF CacheType, IndexInv
  <2>2. n \in Nodes /\ n \notin Elems(Unlink(queue, n))
    BY <2>1 DEF CacheType
  <2>3. /\ PushHead(Unlink(queue, n), n) \in Seq(Nodes)
        /\ Distinct(PushHead(Unlink(queue, n), n))
        /\ Elems(PushHead(Unlink(queue, n), n)) = Elems(Unlink(queue, n)) \cup {n}
    BY <2>1, <2>2, PushHeadLemma
  <2>4. queue' = PushHead(Unlink(queue, n), n) /\ tree' = tree
    BY DEF Refresh
  <2> QED
    BY <2>1, <2>3, <2>4
<1>7. \A m \in tree : slab'[m].path = slab[m].path
                      /\ slab'[m].label = slab[m].label
                      /\ slab'[m].code = slab[m].code
  BY <1>1, <1>3 DEF CacheType, Entry
<1> QED
  BY <1>4, <1>5, <1>6, <1>7 DEF CacheType, IndexInv, Refresh

\* So does a firing of the timer, for one node and for two; what it leaves is
\* unchanged.
LEMMA ExpireTimerLemma ==
    ASSUME CacheType, IndexInv, NEW w \in Workers, ExpireTimer(w)
    PROVE  /\ CacheType' /\ IndexInv'
           /\ tree' \subseteq tree
           /\ \A m \in tree' : slab'[m] = slab[m]
<1> DEFINE rest == Without(queue, Len(queue))
           next == rest[Len(rest)]
           two  == rest # <<>> /\ Dead(next, w)
           gone == IF two THEN {Oldest, next} ELSE {Oldest}
<1>1. /\ queue' = IF gone = {Oldest} THEN rest ELSE Without(rest, Len(rest))
      /\ tree' = tree \ gone
      /\ slab' = [n \in Nodes |-> IF n \in gone THEN Free ELSE slab[n]]
      /\ queue # <<>>
  BY DEF ExpireTimer
<1>2. Len(queue) \in DOMAIN queue
  BY <1>1 DEF CacheType
<1>3. rest \in Seq(Nodes) /\ Distinct(rest) /\ Elems(rest) = tree \ {Oldest}
  BY <1>2, WithoutLemma DEF CacheType, IndexInv, Oldest
<1>4. queue' \in Seq(Nodes) /\ Distinct(queue') /\ Elems(queue') = tree \ gone
  <2>1. CASE rest # <<>>
    <3>1. Len(rest) \in DOMAIN rest
      BY <2>1, <1>3
    <3>2. /\ Without(rest, Len(rest)) \in Seq(Nodes)
          /\ Distinct(Without(rest, Len(rest)))
          /\ Elems(Without(rest, Len(rest))) = Elems(rest) \ {next}
      BY <1>3, <3>1, WithoutLemma
    <3>3. next \in Elems(rest)
      BY <3>1 DEF Elems
    <3>4. next # Oldest
      BY <3>3, <1>3
    <3>5. CASE two
      <4>1. queue' = Without(rest, Len(rest))
        BY <1>1, <3>4, <3>5
      <4> QED
        BY <4>1, <3>2, <3>5, <1>3
    <3>6. CASE ~two
      BY <3>6, <1>1, <1>3
    <3> QED
      BY <3>5, <3>6
  <2>2. CASE rest = <<>>
    BY <2>2, <1>1, <1>3
  <2> QED
    BY <2>1, <2>2
<1>5. slab' \in [Nodes -> Entry \cup {Free}]
  BY <1>1 DEF CacheType
<1>6. tree' = {m \in Nodes : slab'[m] # Free}
  BY <1>1 DEF CacheType, IndexInv
<1> QED
  BY <1>1, <1>4, <1>5, <1>6 DEF CacheType, IndexInv

-----------------------------------------------------------------------------
(* Versions are only ever appended                                          *)

\* What held of a script's versions still holds when it gets another one.
LEMMA HistGrows ==
    ASSUME TypeOK, NEW s \in Scripts, NEW l \in Label, NEW c \in Code,
           hist' \in [Scripts -> Seq(Label)],
           Version(s)' >= Version(s),
           \A u \in 1 .. Version(s) : hist'[s][u] = hist[s][u],
           CodeOK(s, l, c)
    PROVE  CodeOK(s, l, c)'
<1>1. Version(s) \in Nat /\ Version(s)' \in Nat
  BY DEF TypeOK, Version
<1>2. PICK u \in 1 .. c.ver : u <= Version(s) /\ hist[s][u] = l
  BY DEF CodeOK, Backs
<1>3. c.ver \in Nat
  BY DEF Code
<1>4. u <= Version(s)' /\ hist'[s][u] = l
  BY <1>1, <1>2, <1>3
<1>5. Backs(s, l, c)'
  BY <1>2, <1>4 DEF Backs
<1>6. c.ver \in 1 .. Version(s)' /\ hist'[s][c.ver] = hist[s][c.ver]
  BY <1>1 DEF CodeOK
<1> QED
  BY <1>5, <1>6 DEF CodeOK

-----------------------------------------------------------------------------
(* One lemma per kind of step                                               *)

\* The cache and the files are left alone.
LEMMA CacheKeptLemma ==
    ASSUME IInv, UNCHANGED <<hist, slab, tree, queue>>
    PROVE  CacheType' /\ IndexInv' /\ EntryInv'
<1>1. \A s : Version(s)' = Version(s)
  BY DEF Version
<1>2. \A s, l, c : CodeOK(s, l, c)' <=> CodeOK(s, l, c)
  BY <1>1 DEF CodeOK, Backs
<1> QED
  BY <1>2 DEF IInv, TypeOK, CacheType, IndexInv, EntryInv

\* A step of thread t, given that the new thread and the new cache are fine.
LEMMA ThreadStepLemma ==
    ASSUME IInv, NEW t \in Threads,
           UNCHANGED <<now, clock, hist>>,
           CacheType', IndexInv', EntryInv',
           thr' = [thr EXCEPT ![t] = thr'[t]],
           thr'[t] \in Thread,
           thr'[t].pc # "idle" => SeenOK(t)',
           thr'[t].pc = "read" =>
               thr'[t].opened \in thr'[t].seen .. Version(ScriptOf[t]),
           thr'[t].pc \in {"parse", "set", "running"} =>
               CodeOK(ScriptOf[t], thr'[t].label, thr'[t].code),
           thr'[t].pc \in {"idle", "checked", "open", "read"} =>
               thr'[t].code.len = 0
    PROVE  IInv'
<1>1. \A u \in Threads \ {t} : thr'[u] = thr[u]
  BY DEF IInv, TypeOK
<1>2. \A s : Version(s)' = Version(s)
  BY DEF Version
<1>3. \A s, l, c : CodeOK(s, l, c)' <=> CodeOK(s, l, c)
  BY <1>2 DEF CodeOK, Backs
<1>4. TypeOK'
  BY DEF IInv, TypeOK, CacheType
<1>5. HistInv'
  BY <1>2 DEF IInv, HistInv
<1>6. ThreadInv'
  BY <1>1, <1>2, <1>3 DEF IInv, ThreadInv, SeenOK
<1> QED
  BY <1>4, <1>5, <1>6 DEF IInv

\* After check_script a thread knows the newest version of its script.
LEMMA CheckScriptInv ==
    ASSUME IInv, ConstAssumption, NEW t \in Threads, CheckScript(t)
    PROVE  IInv'
<1> DEFINE s == ScriptOf[t]
<1>1. s \in Scripts /\ Version(s) \in Nat /\ Version(s) >= 1 /\ thr[t] \in Thread
  BY DEF ConstAssumption, IInv, TypeOK, HistInv, Version
<1>2. hist[s] \in Seq(Label) /\ Current(s) \in Label
  BY <1>1 DEF IInv, TypeOK, Current, Version
<1>3. /\ thr'[t] = [thr[t] EXCEPT !.pc = "checked", !.label = Current(s),
                                  !.seen = Version(s)]
      /\ thr' = [thr EXCEPT ![t] = thr'[t]]
  BY DEF CheckScript, IInv, TypeOK
<1>4. thr'[t] \in Thread
  BY <1>1, <1>2, <1>3 DEF Thread, Pcs
<1>5. /\ thr'[t].pc = "checked" /\ thr'[t].label = Current(s)
      /\ thr'[t].seen = Version(s) /\ thr'[t].code = thr[t].code
  BY <1>1, <1>3 DEF Thread
<1>6. SeenOK(t)'
  <2>1. hist' = hist /\ Version(s)' = Version(s) /\ Version(s) \in 1 .. Version(s)
    BY <1>1 DEF CheckScript, Version
  <2> QED
    BY <1>5, <2>1 DEF SeenOK, Current
<1>7. thr[t].code.len = 0
  BY DEF CheckScript, IInv, ThreadInv
<1> QED
  BY <1>3, <1>4, <1>5, <1>6, <1>7, CacheKeptLemma, ThreadStepLemma
     DEF CheckScript, cacheVars

\* No entry is added and none changes the code it stands for.
LEMMA EntryKeptLemma ==
    ASSUME IInv, UNCHANGED hist, tree' \subseteq tree,
           \A m \in tree' : slab'[m].path = slab[m].path
                            /\ slab'[m].label = slab[m].label
                            /\ slab'[m].code = slab[m].code
    PROVE  EntryInv'
<1>1. \A s : Version(s)' = Version(s)
  BY DEF Version
<1>2. \A s, l, c : CodeOK(s, l, c)' <=> CodeOK(s, l, c)
  BY <1>1 DEF CodeOK, Backs
<1> QED
  BY <1>2 DEF IInv, EntryInv

\* Inline code stands for the version that check_script saw.
LEMMA DeclinedInv ==
    ASSUME IInv, ConstAssumption, NEW t \in Threads, thr[t].pc = "checked",
           Declined(t), UNCHANGED <<now, clock, hist>>,
           CacheType', IndexInv', EntryInv'
    PROVE  IInv'
<1> DEFINE s == ScriptOf[t]
<1>1. /\ s \in Scripts /\ Version(s) \in Nat
      /\ thr[t] \in Thread /\ SeenOK(t) /\ thr[t].code.len = 0
      /\ thr[t].label \in Label
  BY DEF ConstAssumption, IInv, TypeOK, ThreadInv, Version, Thread
<1>2. \A x, y : x = y => Version(x)' = Version(y)
  BY DEF Version
<1>3. CASE s \in ConfScripts
  <2> DEFINE c == [ver |-> thr[t].seen, whole |-> TRUE, len |-> 0]
  <2>1. c \in Code
    <3>1. thr[t].seen \in Nat
      BY <1>1 DEF Thread
    <3> QED
      BY <3>1 DEF Code
  <2>2. thr' = [thr EXCEPT ![t] = [thr[t] EXCEPT !.pc = "parse", !.code = c]]
    BY <1>3 DEF Declined
  <2>3. thr'[t] = [thr[t] EXCEPT !.pc = "parse", !.code = c]
    BY <2>2 DEF IInv, TypeOK
  <2>4. /\ thr'[t].pc = "parse" /\ thr'[t].code = c /\ thr'[t] \in Thread
        /\ thr'[t].label = thr[t].label /\ thr'[t].seen = thr[t].seen
    BY <1>1, <2>1, <2>3 DEF Thread, Pcs
  <2>5. 0 <= Cap(thr[t].label.size)
    BY <1>1 DEF Cap, Label, ConstAssumption
  <2>6. CodeOK(s, thr[t].label, c)
    BY <1>1, <2>1, <2>5 DEF CodeOK, Backs, SeenOK
  <2> QED
    BY <1>1, <1>2, <2>2, <2>3, <2>4, <2>6, ThreadStepLemma, ZenonT(60) DEF SeenOK
<1>4. CASE s \notin ConfScripts
  <2>2. thr' = [thr EXCEPT ![t] = [thr[t] EXCEPT !.pc = "open"]]
    BY <1>1, <1>4 DEF Declined, Thread, IInv, TypeOK
  <2>3. thr'[t] = [thr[t] EXCEPT !.pc = "open"]
    BY <2>2 DEF IInv, TypeOK
  <2>4. /\ thr'[t].pc = "open" /\ thr'[t].code = thr[t].code
        /\ thr'[t] \in Thread
        /\ thr'[t].label = thr[t].label /\ thr'[t].seen = thr[t].seen
    BY <1>1, <2>3 DEF Thread, Pcs
  <2> QED
    BY <1>1, <1>2, <2>2, <2>3, <2>4, ThreadStepLemma DEF SeenOK
<1> QED
  BY <1>3, <1>4

\* A valid entry has the label of the thread, so that what its code may stand for
\* holds for the thread too.
LEMMA CacheHitInv ==
    ASSUME IInv, ConstAssumption, NEW t \in Threads, CacheHit(t)
    PROVE  IInv'
<1> DEFINE s == ScriptOf[t]
<1>1. PICK n \in NodesOf(s) :
          /\ Valid(slab[n], t)
          /\ thr' = [thr EXCEPT ![t].pc = "running", ![t].code = slab[n].code]
          /\ Refresh(n, WorkerOf[t])
  BY DEF CacheHit
<1>2. n \in tree /\ slab[n].path = s /\ WorkerOf[t] \in Workers /\ thr[t] \in Thread
  BY DEF NodesOf, ConstAssumption, IInv, TypeOK
<1>3. CacheType /\ IndexInv /\ clock \in [Workers -> Nat]
  BY DEF IInv, TypeOK, CacheType
<1>4. slab[n] \in Entry
  BY <1>2, <1>3, LiveEntry
<1>5. slab[n].label = thr[t].label /\ slab[n].code \in Code
  BY <1>1, <1>2, <1>4 DEF Valid, Entry, Thread, Label
<1>6. /\ CacheType' /\ IndexInv' /\ tree' = tree
      /\ \A m \in tree : slab'[m].path = slab[m].path
                         /\ slab'[m].label = slab[m].label
                         /\ slab'[m].code = slab[m].code
  BY <1>1, <1>2, <1>3, RefreshLemma DEF Refresh
<1>7. EntryInv'
  BY <1>6, EntryKeptLemma DEF CacheHit
<1>8. thr'[t] = [thr[t] EXCEPT !.pc = "running", !.code = slab[n].code]
      /\ thr' = [thr EXCEPT ![t] = thr'[t]]
  BY <1>1 DEF IInv, TypeOK
<1>9. /\ thr'[t].pc = "running" /\ thr'[t].code = slab[n].code
      /\ thr'[t].label = thr[t].label /\ thr'[t].seen = thr[t].seen
      /\ thr'[t] \in Thread
  BY <1>2, <1>5, <1>8 DEF Thread, Pcs
<1>10. CodeOK(s, thr[t].label, slab[n].code)
  BY <1>2, <1>5 DEF IInv, EntryInv
<1>11. SeenOK(t)'
  BY <1>9 DEF CacheHit, IInv, ThreadInv, SeenOK, Version
<1> QED
  BY <1>6, <1>7, <1>8, <1>9, <1>10, <1>11, ThreadStepLemma DEF CacheHit

\* Freeing a stale entry, and loading the script anew.
LEMMA CacheStaleInv ==
    ASSUME IInv, ConstAssumption, NEW t \in Threads, CacheStale(t)
    PROVE  IInv'
<1>1. PICK n \in tree : RemoveNode(n)
  BY DEF CacheStale, NodesOf
<1>2. CacheType /\ IndexInv /\ n \in Nodes
  BY DEF IInv, TypeOK, CacheType
<1>3. CacheType' /\ IndexInv'
  BY <1>1, <1>2, RemoveNodeLemma
<1>4. tree' \subseteq tree /\ \A m \in tree' : slab'[m] = slab[m]
  BY <1>1, <1>2 DEF RemoveNode, CacheType
<1>5. EntryInv'
  BY <1>4, EntryKeptLemma DEF CacheStale
<1> QED
  BY <1>3, <1>5, DeclinedInv DEF CacheStale

\* Finding nothing leaves the cache alone.
LEMMA CacheMissInv ==
    ASSUME IInv, ConstAssumption, NEW t \in Threads, CacheMiss(t)
    PROVE  IInv'
BY CacheKeptLemma, DeclinedInv DEF CacheMiss, cacheVars

\* What is opened is no older than what was seen.
LEMMA OpenScriptInv ==
    ASSUME IInv, ConstAssumption, NEW t \in Threads, OpenScript(t)
    PROVE  IInv'
<1> DEFINE s == ScriptOf[t]
<1>1. /\ s \in Scripts /\ Version(s) \in Nat
      /\ thr[t] \in Thread /\ SeenOK(t) /\ thr[t].code.len = 0
  BY DEF OpenScript, ConstAssumption, IInv, TypeOK, ThreadInv, Version
<1>2. /\ thr'[t] = [thr[t] EXCEPT !.pc = "read", !.opened = Version(s)]
      /\ thr' = [thr EXCEPT ![t] = thr'[t]]
  BY DEF OpenScript, IInv, TypeOK
<1>3. /\ thr'[t].pc = "read" /\ thr'[t].code = thr[t].code
      /\ thr'[t].label = thr[t].label /\ thr'[t].seen = thr[t].seen
      /\ thr'[t].opened = Version(s)
      /\ thr'[t] \in Thread
  BY <1>1, <1>2 DEF Thread, Pcs
<1>4. SeenOK(t)'
  BY <1>1, <1>3 DEF OpenScript, SeenOK, Version
<1>5. thr'[t].opened \in thr'[t].seen .. Version(s)
  BY <1>1, <1>3 DEF SeenOK
<1> QED
  BY <1>1, <1>2, <1>3, <1>4, <1>5, CacheKeptLemma, ThreadStepLemma
     DEF OpenScript, cacheVars

\* Of what is read, the version is no older than what was opened, and whatever is
\* cut off was longer than the stat had said.
LEMMA ReadScriptInv ==
    ASSUME IInv, ConstAssumption, NEW t \in Threads, ReadScript(t)
    PROVE  IInv'
<1> DEFINE s == ScriptOf[t]
<1>1. /\ s \in Scripts /\ Version(s) \in Nat /\ hist[s] \in Seq(Label)
      /\ thr[t] \in Thread /\ thr[t].label \in Label
      /\ SeenOK(t) /\ thr[t].opened \in thr[t].seen .. Version(s)
  BY DEF ReadScript, ConstAssumption, IInv, TypeOK, ThreadInv, Version, Thread
<1>2. PICK v \in thr[t].opened .. Version(s) :
          thr' = [thr EXCEPT ![t].pc = "parse",
                             ![t].code = [ver |-> v, len |-> 0,
                                 whole |-> hist[s][v].size <= thr[t].label.size]]
  BY DEF ReadScript
<1> DEFINE c == [ver |-> v, len |-> 0,
                 whole |-> hist[s][v].size <= thr[t].label.size]
<1>3. /\ thr'[t] = [thr[t] EXCEPT !.pc = "parse", !.code = c]
      /\ thr' = [thr EXCEPT ![t] = thr'[t]]
  BY <1>2 DEF IInv, TypeOK
<1>4. v \in 1 .. Version(s) /\ thr[t].seen \in 1 .. v
  BY <1>1 DEF SeenOK
<1>5. c \in Code /\ hist[s][v] \in Label
  BY <1>1, <1>4 DEF Code, Version
<1>6. /\ thr'[t].pc = "parse" /\ thr'[t].code = c
      /\ thr'[t].label = thr[t].label /\ thr'[t].seen = thr[t].seen
      /\ thr'[t] \in Thread
  BY <1>1, <1>3, <1>5 DEF Thread, Pcs
<1>7. 0 <= Cap(thr[t].label.size)
  BY <1>1 DEF Cap, Label, ConstAssumption
<1>8. CodeOK(s, thr[t].label, c)
  <2>1. /\ c.ver = v /\ c.len = 0
        /\ c.whole <=> hist[s][v].size <= thr[t].label.size
    OBVIOUS
  <2>2. Backs(s, thr[t].label, c)
    <3>1. thr[t].seen <= Version(s) /\ hist[s][thr[t].seen] = thr[t].label
      BY <1>1 DEF SeenOK
    <3> QED
      BY <1>4, <2>1, <3>1 DEF Backs
  <2>3. ~c.whole => hist[s][c.ver].size > thr[t].label.size
    <3>1. hist[s][v].size \in Nat /\ thr[t].label.size \in Nat
      BY <1>1, <1>5 DEF Label
    <3> QED
      BY <2>1, <3>1
  <2> QED
    BY <1>4, <1>7, <2>1, <2>2, <2>3 DEF CodeOK
<1>9. SeenOK(t)'
  BY <1>1, <1>6 DEF ReadScript, SeenOK, Version
<1> QED
  BY <1>3, <1>6, <1>8, <1>9, CacheKeptLemma, ThreadStepLemma
     DEF ReadScript, cacheVars

\* The bytecode fits the buffer.
LEMMA CompileInv ==
    ASSUME IInv, ConstAssumption, NEW t \in Threads, Compile(t)
    PROVE  IInv'
<1> DEFINE s == ScriptOf[t]
<1>1. /\ thr[t] \in Thread /\ thr[t].code \in Code
      /\ SeenOK(t) /\ CodeOK(s, thr[t].label, thr[t].code)
  BY DEF Compile, IInv, TypeOK, ThreadInv, Thread
<1>2. PICK l \in Lens :
          /\ l <= Cap(thr[t].label.size)
          /\ thr' = [thr EXCEPT ![t].pc = "set", ![t].code.len = l]
  BY DEF Compile
<1>3. /\ thr'[t] = [thr[t] EXCEPT !.pc = "set", !.code = [thr[t].code EXCEPT !.len = l]]
      /\ thr' = [thr EXCEPT ![t] = thr'[t]]
  BY <1>1, <1>2 DEF IInv, TypeOK, Thread
<1>4. l \in Nat
  BY DEF ConstAssumption
<1> DEFINE c == [thr[t].code EXCEPT !.len = l]
<1>5. c \in Code /\ c.ver = thr[t].code.ver /\ c.whole = thr[t].code.whole /\ c.len = l
  BY <1>1, <1>4 DEF Code
<1>6. /\ thr'[t].pc = "set" /\ thr'[t].code = c
      /\ thr'[t].label = thr[t].label /\ thr'[t].seen = thr[t].seen
      /\ thr'[t] \in Thread
  BY <1>1, <1>3, <1>5 DEF Thread, Pcs
<1>7. CodeOK(s, thr[t].label, c)
  BY <1>1, <1>2, <1>5 DEF CodeOK, Backs
<1>8. SeenOK(t)'
  BY <1>1, <1>6 DEF Compile, SeenOK, Version
<1> QED
  BY <1>3, <1>6, <1>7, <1>8, CacheKeptLemma, ThreadStepLemma
     DEF Compile, cacheVars

\* What the three outcomes of cache_set have in common: the thread runs.
LEMMA SetInv ==
    ASSUME IInv, ConstAssumption, NEW t \in Threads, thr[t].pc = "set",
           thr' = [thr EXCEPT ![t].pc = "running"],
           UNCHANGED <<now, clock, hist>>,
           CacheType', IndexInv', EntryInv'
    PROVE  IInv'
<1>1. /\ thr[t] \in Thread
      /\ SeenOK(t) /\ CodeOK(ScriptOf[t], thr[t].label, thr[t].code)
  BY DEF IInv, TypeOK, ThreadInv
<1>2. /\ thr'[t] = [thr[t] EXCEPT !.pc = "running"]
      /\ thr' = [thr EXCEPT ![t] = thr'[t]]
  BY DEF IInv, TypeOK
<1>3. /\ thr'[t].pc = "running" /\ thr'[t].code = thr[t].code
      /\ thr'[t].label = thr[t].label /\ thr'[t].seen = thr[t].seen
      /\ thr'[t] \in Thread
  BY <1>1, <1>2 DEF Thread, Pcs
<1>4. SeenOK(t)'
  BY <1>1, <1>3 DEF SeenOK, Version
<1> QED
  BY <1>1, <1>2, <1>3, <1>4, ThreadStepLemma

\* cache_set with an entry present changes only its age.
LEMMA SetPresentInv ==
    ASSUME IInv, ConstAssumption, NEW t \in Threads, SetPresent(t)
    PROVE  IInv'
<1>1. PICK n \in tree : Refresh(n, WorkerOf[t])
  BY DEF SetPresent, NodesOf
<1>2. CacheType /\ IndexInv /\ clock \in [Workers -> Nat] /\ WorkerOf[t] \in Workers
  BY DEF IInv, TypeOK, CacheType, ConstAssumption
<1>3. /\ CacheType' /\ IndexInv' /\ tree' = tree
      /\ \A m \in tree : slab'[m].path = slab[m].path
                         /\ slab'[m].label = slab[m].label
                         /\ slab'[m].code = slab[m].code
  BY <1>1, <1>2, RefreshLemma DEF Refresh
<1>4. EntryInv'
  BY <1>3, EntryKeptLemma DEF SetPresent
<1> QED
  BY <1>3, <1>4, SetInv DEF SetPresent

\* A new entry has the label and the code of its thread.
LEMMA SetInsertInv ==
    ASSUME IInv, ConstAssumption, NEW t \in Threads, SetInsert(t)
    PROVE  IInv'
<1> DEFINE s == ScriptOf[t]
           e == [path |-> s, label |-> thr[t].label, code |-> thr[t].code,
                 expire |-> clock[WorkerOf[t]] + Expire[WorkerOf[t]] + Grace]
<1>1. PICK n \in Nodes :
          /\ slab[n] = Free
          /\ slab' = [slab EXCEPT ![n] = e]
          /\ tree' = tree \cup {n}
          /\ queue' = PushHead(queue, n)
  BY DEF SetInsert
<1>2. /\ CacheType /\ IndexInv /\ s \in Scripts /\ thr[t] \in Thread
      /\ clock[WorkerOf[t]] + Expire[WorkerOf[t]] + Grace \in Nat
  BY DEF IInv, TypeOK, CacheType, ConstAssumption
<1>3. e \in Entry
  BY <1>2 DEF Entry, Thread
<1>4. n \notin tree
  BY <1>1, <1>2 DEF IndexInv
<1>5. CacheType'
  <2>1. queue' \in Seq(Nodes)
    BY <1>1, <1>2, <1>4, PushHeadLemma DEF CacheType, IndexInv
  <2> QED
    BY <2>1, <1>1, <1>2, <1>3 DEF CacheType
<1>6. IndexInv'
  <2>1. Distinct(queue') /\ Elems(queue') = tree'
    BY <1>1, <1>2, <1>4, PushHeadLemma DEF CacheType, IndexInv
  <2>2. tree' = {m \in Nodes : slab'[m] # Free}
    BY <1>1, <1>2, <1>3, EntryNotFree DEF CacheType, IndexInv
  <2> QED
    BY <2>1, <2>2 DEF IndexInv
<1>7. EntryInv'
  <2>1. \A x : Version(x)' = Version(x)
    BY DEF Version, SetInsert
  <2>2. \A x, l, c : CodeOK(x, l, c)' <=> CodeOK(x, l, c)
    BY <2>1 DEF CodeOK, Backs, SetInsert
  <2>3. CodeOK(s, thr[t].label, thr[t].code)
    BY DEF SetInsert, IInv, ThreadInv
  <2>4. \A m \in tree : slab'[m] = slab[m]
    BY <1>1, <1>2, <1>4 DEF CacheType
  <2>5. slab'[n] = e
    BY <1>1, <1>2 DEF CacheType
  <2> QED
    BY <1>1, <2>2, <2>3, <2>4, <2>5 DEF IInv, EntryInv
<1> QED
  BY <1>5, <1>6, <1>7, SetInv DEF SetInsert

\* cache_set without memory changes nothing.
LEMMA SetNoMemoryInv ==
    ASSUME IInv, ConstAssumption, NEW t \in Threads, SetNoMemory(t)
    PROVE  IInv'
BY CacheKeptLemma, SetInv DEF SetNoMemory, cacheVars

\* A thread that has ended has no code.
LEMMA FinalizeInv ==
    ASSUME IInv, ConstAssumption, NEW t \in Threads, Finalize(t)
    PROVE  IInv'
<1>1. thr' = [thr EXCEPT ![t] = Idle] /\ thr'[t] = Idle
  BY DEF Finalize, IInv, TypeOK
<1>2. Idle \in Thread /\ Idle.pc = "idle" /\ Idle.code.len = 0
  BY DEF Idle, Thread, Pcs, NoLabel, NoCode, Label, Code
<1> QED
  BY <1>1, <1>2, CacheKeptLemma, ThreadStepLemma DEF Finalize, cacheVars

\* The timer only removes entries.
LEMMA ExpireTimerInv ==
    ASSUME IInv, NEW w \in Workers, ExpireTimer(w)
    PROVE  IInv'
<1>1. CacheType /\ IndexInv
  BY DEF IInv, TypeOK, CacheType
<1>2. /\ CacheType' /\ IndexInv' /\ tree' \subseteq tree
      /\ \A m \in tree' : slab'[m] = slab[m]
  BY <1>1, ExpireTimerLemma
<1>3. EntryInv'
  BY <1>2, EntryKeptLemma DEF ExpireTimer
<1>4. \A x : Version(x)' = Version(x)
  BY DEF Version, ExpireTimer
<1>5. \A x, l, c : CodeOK(x, l, c)' <=> CodeOK(x, l, c)
  BY <1>4 DEF CodeOK, Backs, ExpireTimer
<1>6. HistInv' /\ ThreadInv'
  BY <1>4, <1>5 DEF ExpireTimer, IInv, HistInv, ThreadInv, SeenOK
<1>7. TypeOK'
  BY <1>2 DEF ExpireTimer, IInv, TypeOK, CacheType
<1> QED
  BY <1>2, <1>3, <1>6, <1>7 DEF IInv

\* Tick and UpdateClock, and a stuttering step.
LEMMA ClockInv ==
    ASSUME IInv, UNCHANGED <<hist, slab, tree, queue, thr>>,
           now' \in Nat, clock' \in [Workers -> Nat]
    PROVE  IInv'
<1>1. \A x : Version(x)' = Version(x)
  BY DEF Version
<1>2. \A x, l, c : CodeOK(x, l, c)' <=> CodeOK(x, l, c)
  BY <1>1 DEF CodeOK, Backs
<1>3. HistInv' /\ ThreadInv' /\ EntryInv' /\ IndexInv'
  BY <1>1, <1>2 DEF IInv, HistInv, ThreadInv, SeenOK, EntryInv, IndexInv
<1>4. TypeOK'
  BY DEF IInv, TypeOK
<1> QED
  BY <1>3, <1>4 DEF IInv

\* A new version of a script changes nothing of what held of the earlier ones.
LEMMA WriteScriptInv ==
    ASSUME IInv, ConstAssumption, NEW s \in Scripts, WriteScript(s)
    PROVE  IInv'
<1>1. PICK sz \in Sizes :
          hist' = [hist EXCEPT ![s] = Append(@, [mtime |-> now, size |-> sz])]
  BY DEF WriteScript
<1>2. hist \in [Scripts -> Seq(Label)] /\ [mtime |-> now, size |-> sz] \in Label
  BY DEF IInv, TypeOK, Label, ConstAssumption
<1>3. hist' \in [Scripts -> Seq(Label)]
  BY <1>1, <1>2
<1>4. \A x \in Scripts :
          /\ Version(x) \in Nat /\ Version(x)' \in Nat
          /\ Version(x)' >= Version(x)
          /\ \A u \in 1 .. Version(x) : hist'[x][u] = hist[x][u]
  BY <1>1, <1>2 DEF Version
<1>5. HistInv'
  BY <1>4 DEF IInv, HistInv
<1>50. \A x \in Scripts, l \in Label, c \in Code : CodeOK(x, l, c) => CodeOK(x, l, c)'
  BY <1>3, <1>4, HistGrows DEF IInv
<1>6. IndexInv'
  BY DEF WriteScript, cacheVars, IInv, IndexInv
<1>7. TypeOK'
  BY <1>3 DEF WriteScript, cacheVars, IInv, TypeOK
<1>8. EntryInv'
  <2> SUFFICES ASSUME NEW n \in tree
               PROVE  CodeOK(slab[n].path, slab[n].label, slab[n].code)'
    BY DEF WriteScript, cacheVars, EntryInv
  <2>1. slab[n] \in Entry
    BY LiveEntry DEF IInv, TypeOK, CacheType
  <2>2. /\ slab[n].path \in Scripts
        /\ slab[n].label \in Label /\ slab[n].code \in Code
    BY <2>1 DEF Entry
  <2>3. CodeOK(slab[n].path, slab[n].label, slab[n].code)
    BY DEF IInv, EntryInv
  <2>4. slab' = slab
    BY DEF WriteScript, cacheVars
  <2> QED
    BY <1>50, <2>2, <2>3, <2>4
<1>9. ThreadInv'
  <2> SUFFICES ASSUME NEW t \in Threads
               PROVE  /\ thr[t].pc # "idle" => SeenOK(t)'
                      /\ thr[t].pc = "read" =>
                             thr[t].opened \in thr[t].seen .. Version(ScriptOf[t])'
                      /\ thr[t].pc \in {"parse", "set", "running"} =>
                             CodeOK(ScriptOf[t], thr[t].label, thr[t].code)'
    BY DEF WriteScript, cacheVars, IInv, ThreadInv
  <2>1. /\ ScriptOf[t] \in Scripts /\ thr[t] \in Thread
        /\ thr[t].label \in Label /\ thr[t].code \in Code
        /\ thr[t].seen \in Nat /\ thr[t].opened \in Nat
    BY DEF ConstAssumption, IInv, TypeOK, Thread
  <2>2. thr[t].pc # "idle" => SeenOK(t)'
    <3> SUFFICES ASSUME thr[t].pc # "idle" PROVE SeenOK(t)'
      OBVIOUS
    <3>1. /\ thr[t].seen \in 1 .. Version(ScriptOf[t])
          /\ hist[ScriptOf[t]][thr[t].seen] = thr[t].label
      BY DEF IInv, ThreadInv, SeenOK
    <3>2. /\ thr[t].seen \in 1 .. Version(ScriptOf[t])'
          /\ hist'[ScriptOf[t]][thr[t].seen] = thr[t].label
      BY <1>4, <2>1, <3>1
    <3>3. thr' = thr
      BY DEF WriteScript
    <3> QED
      BY <3>2, <3>3 DEF SeenOK
  <2>3. thr[t].pc = "read" =>
            thr[t].opened \in thr[t].seen .. Version(ScriptOf[t])'
    BY <1>4, <2>1 DEF IInv, ThreadInv
  <2>4. thr[t].pc \in {"parse", "set", "running"} =>
            CodeOK(ScriptOf[t], thr[t].label, thr[t].code)
    BY DEF IInv, ThreadInv
  <2>5. thr' = thr
    BY DEF WriteScript
  <2> QED
    BY <1>50, <2>1, <2>2, <2>3, <2>4, <2>5
<1> QED
  BY <1>5, <1>6, <1>7, <1>8, <1>9 DEF IInv

-----------------------------------------------------------------------------
(* The theorems                                                             *)

\* The cache starts empty and every thread idle.
LEMMA InitInv == ASSUME ConstAssumption, Init PROVE IInv
<1>1. PICK sz \in [Scripts -> Sizes] :
          hist = [s \in Scripts |->
                     <<[mtime |-> IF s \in ConfScripts THEN -1 ELSE 0,
                        size  |-> sz[s]]>>]
  BY DEF Init
<1>2. \A s \in Scripts : hist[s] \in Seq(Label) /\ Version(s) = 1
  <2> SUFFICES ASSUME NEW s \in Scripts
               PROVE  hist[s] \in Seq(Label) /\ Version(s) = 1
    OBVIOUS
  <2> DEFINE l == [mtime |-> IF s \in ConfScripts THEN -1 ELSE 0, size |-> sz[s]]
  <2>1. sz[s] \in Nat
    BY DEF ConstAssumption
  <2>2. (IF s \in ConfScripts THEN -1 ELSE 0) \in Int
    OBVIOUS
  <2>3. l \in Label
    BY <2>1, <2>2 DEF Label
  <2>4. hist[s] = <<l>>
    BY <1>1
  <2> HIDE DEF l
  <2> QED
    BY <2>3, <2>4 DEF Version
<1>3. Idle \in Thread /\ Idle.pc = "idle" /\ Idle.code.len = 0
  BY DEF Idle, Thread, Pcs, NoLabel, NoCode, Label, Code
<1>4. TypeOK
  <2>1. hist \in [Scripts -> Seq(Label)]
    BY <1>1, <1>2
  <2>2. thr \in [Threads -> Thread]
    BY <1>3 DEF Init
  <2>3. slab \in [Nodes -> Entry \cup {Free}] /\ tree \subseteq Nodes
    BY DEF Init
  <2>4. now \in Nat /\ clock \in [Workers -> Nat] /\ queue \in Seq(Nodes)
    BY DEF Init
  <2> QED
    BY <2>1, <2>2, <2>3, <2>4 DEF TypeOK
<1>5. HistInv
  BY <1>2 DEF HistInv
<1>6. IndexInv
  BY DEF Init, IndexInv, Elems, Distinct
<1>7. EntryInv /\ ThreadInv
  BY <1>3 DEF Init, EntryInv, ThreadInv
<1> QED
  BY <1>4, <1>5, <1>6, <1>7 DEF IInv

\* No step breaks the invariant.
LEMMA NextInv == ASSUME ConstAssumption, IInv, [Next]_vars PROVE IInv'
<1>1. ASSUME NEW t \in Threads, ThreadStep(t) PROVE IInv'
  BY <1>1, CheckScriptInv, CacheHitInv, CacheStaleInv, CacheMissInv,
     OpenScriptInv, ReadScriptInv, CompileInv, SetPresentInv, SetInsertInv,
     SetNoMemoryInv, FinalizeInv DEF ThreadStep
<1>2. ASSUME NEW w \in Workers, UpdateClock(w) PROVE IInv'
  <2>1. now' \in Nat /\ clock' \in [Workers -> Nat]
    BY <1>2 DEF UpdateClock, IInv, TypeOK
  <2> QED
    BY <1>2, <2>1, ClockInv DEF UpdateClock, cacheVars
<1>3. CASE Tick
  <2>1. now' \in Nat /\ clock' \in [Workers -> Nat]
    BY <1>3 DEF Tick, IInv, TypeOK
  <2> QED
    BY <1>3, <2>1, ClockInv DEF Tick, cacheVars
<1>4. CASE UNCHANGED vars
  <2>1. now' \in Nat /\ clock' \in [Workers -> Nat]
    BY <1>4 DEF vars, IInv, TypeOK
  <2> QED
    BY <1>4, <2>1, ClockInv DEF vars, cacheVars
<1> QED
  BY <1>1, <1>2, <1>3, <1>4, ExpireTimerInv, WriteScriptInv DEF Next

\* The inductive invariant holds in every reachable state.
THEOREM InductiveInvariant == Spec => []IInv
<1>1. Init => IInv
  BY InitInv, ConstAssumption
<1>2. IInv /\ [Next]_vars => IInv'
  BY NextInv, ConstAssumption
<1> QED
  BY <1>1, <1>2, PTL DEF Spec

\* Every variable of the cache and of its threads keeps its type.
THEOREM TypeCorrect == Spec => []TypeOK
<1>1. IInv => TypeOK
  BY DEF IInv
<1> QED
  BY <1>1, InductiveInvariant, PTL

\* The slab pool, the rbtree and the LRU queue of ngx_squ_cache.c always hold
\* the same nodes, each once, however the workers interleave.
THEOREM CacheIndexAgrees == Spec => []IndexAgrees
<1>1. IInv => IndexAgrees
  BY DEF IInv, IndexInv, IndexAgrees, Elems, Distinct
<1> QED
  BY <1>1, InductiveInvariant, PTL

\* No thread runs code older than the version its ngx_squ_check_script saw.
THEOREM FreshCode == Spec => []RunsFreshCode
<1>1. IInv => RunsFreshCode
  BY DEF IInv, ThreadInv, CodeOK, RunsFreshCode
<1> QED
  BY <1>1, InductiveInvariant, PTL

\* Code of a read that was cut off at the stat's size never runs in a thread
\* whose own stat saw the file that was read.
THEOREM WholeCode == Spec => []NoTruncatedCode
<1>1. ASSUME IInv, NEW t \in Threads, thr[t].pc = "running", ~thr[t].code.whole
      PROVE  hist[ScriptOf[t]][thr[t].code.ver] # thr[t].label
  <2>1. CodeOK(ScriptOf[t], thr[t].label, thr[t].code)
    BY <1>1 DEF IInv, ThreadInv
  <2>2. thr[t].label.size \in Nat
    BY <1>1 DEF IInv, TypeOK, Thread, Label
  <2> QED
    BY <1>1, <2>1, <2>2 DEF CodeOK
<1>2. IInv => NoTruncatedCode
  BY <1>1 DEF NoTruncatedCode
<1> QED
  BY <1>2, InductiveInvariant, PTL

\* The copy out of the cache always fits the thread's buffer.
THEOREM CodeFits == Spec => []CodeFitsBuffer
<1>1. ASSUME IInv, NEW t \in Threads
      PROVE  thr[t].code.len <= Cap(thr[t].label.size)
  <2>1. thr[t] \in Thread /\ thr[t].label.size \in Nat
    BY <1>1 DEF IInv, TypeOK, Thread, Label
  <2>2. 0 <= Cap(thr[t].label.size)
    BY <2>1, ConstAssumption DEF Cap, ConstAssumption
  <2>3. CASE thr[t].pc \in {"parse", "set", "running"}
    BY <1>1, <2>3 DEF IInv, ThreadInv, CodeOK
  <2>4. CASE thr[t].pc \in {"idle", "checked", "open", "read"}
    BY <1>1, <2>2, <2>4 DEF IInv, ThreadInv
  <2> QED
    BY <2>1, <2>3, <2>4 DEF Thread, Pcs
<1>2. IInv => CodeFitsBuffer
  BY <1>1 DEF CodeFitsBuffer
<1> QED
  BY <1>2, InductiveInvariant, PTL

-----------------------------------------------------------------------------
(* What is cached twice, and what leaves the cache                          *)

\* A step that enters no node keeps the paths of those that stay.
PathsKept == \A n \in tree' : n \in tree /\ slab'[n].path = slab[n].path

LEMMA RefreshKeeps ==
    ASSUME IInv, ConstAssumption, NEW n \in tree, NEW w \in Workers, Refresh(n, w)
    PROVE  PathsKept /\ tree' = tree
<1>1. CacheType /\ IndexInv /\ clock \in [Workers -> Nat]
  BY DEF IInv, TypeOK, CacheType
<1>2. \A m \in tree : slab'[m].path = slab[m].path
  BY <1>1, RefreshLemma
<1> QED
  BY <1>2 DEF PathsKept, Refresh

LEMMA RemoveKeeps ==
    ASSUME IInv, NEW n \in tree, RemoveNode(n)
    PROVE  PathsKept /\ tree' = tree \ {n}
<1>1. slab \in [Nodes -> Entry \cup {Free}] /\ tree \subseteq Nodes
  BY DEF IInv, TypeOK
<1>2. \A m \in tree \ {n} : slab'[m] = slab[m]
  BY <1>1 DEF RemoveNode
<1> QED
  BY <1>2 DEF PathsKept, RemoveNode

LEMMA TimerKeeps ==
    ASSUME IInv, NEW w \in Workers, ExpireTimer(w)
    PROVE  PathsKept
<1>1. CacheType /\ IndexInv
  BY DEF IInv, TypeOK, CacheType
<1>2. tree' \subseteq tree /\ \A m \in tree' : slab'[m] = slab[m]
  BY <1>1, ExpireTimerLemma
<1> QED
  BY <1>2 DEF PathsKept

\* No step but an insertion enters a node.
LEMMA StepKeeps ==
    ASSUME IInv, ConstAssumption, [Next]_vars, \A t \in Threads : ~SetInsert(t)
    PROVE  PathsKept
<1>1. ASSUME UNCHANGED cacheVars PROVE PathsKept
  BY <1>1 DEF cacheVars, PathsKept
<1>2. ASSUME NEW t \in Threads, ThreadStep(t) PROVE PathsKept
  <2>1. WorkerOf[t] \in Workers
    BY DEF ConstAssumption
  <2>2. ASSUME CacheHit(t) \/ SetPresent(t) PROVE PathsKept
    <3>1. PICK n \in tree : Refresh(n, WorkerOf[t])
      BY <2>2 DEF CacheHit, SetPresent, NodesOf
    <3> QED
      BY <2>1, <3>1, RefreshKeeps
  <2>3. ASSUME CacheStale(t) PROVE PathsKept
    <3>1. PICK n \in tree : RemoveNode(n)
      BY <2>3 DEF CacheStale, NodesOf
    <3> QED
      BY <3>1, RemoveKeeps
  <2>4. ASSUME \/ CheckScript(t) \/ CacheMiss(t) \/ OpenScript(t) \/ ReadScript(t)
               \/ Compile(t) \/ SetNoMemory(t) \/ Finalize(t)
        PROVE  PathsKept
    BY <1>1, <2>4
    DEF CheckScript, CacheMiss, OpenScript, ReadScript, Compile, SetNoMemory, Finalize
  <2> QED
    BY <1>2, <2>2, <2>3, <2>4 DEF ThreadStep
<1>3. ASSUME NEW w \in Workers, ExpireTimer(w) PROVE PathsKept
  BY <1>3, TimerKeeps
<1>4. ASSUME NEW w \in Workers, UpdateClock(w) PROVE PathsKept
  BY <1>1, <1>4 DEF UpdateClock
<1>5. ASSUME NEW s \in Scripts, WriteScript(s) PROVE PathsKept
  BY <1>1, <1>5 DEF WriteScript
<1>6. ASSUME Tick PROVE PathsKept
  BY <1>1, <1>6 DEF Tick
<1>7. ASSUME UNCHANGED vars PROVE PathsKept
  BY <1>1, <1>7 DEF vars, cacheVars
<1> QED
  BY <1>2, <1>3, <1>4, <1>5, <1>6, <1>7 DEF Next

\* A path is cached twice only behind another path with its crc32, whichever
\* workers insert it.
THEOREM CachedOnce == Spec => []OneNodePerPath
<1>1. Init => OneNodePerPath
  BY DEF Init, OneNodePerPath
<1>2. IInv /\ OneNodePerPath /\ [Next]_vars => OneNodePerPath'
  <2> SUFFICES ASSUME IInv, OneNodePerPath, [Next]_vars PROVE OneNodePerPath'
    OBVIOUS
  <2> USE ConstAssumption
  <2>1. ASSUME \A t \in Threads : ~SetInsert(t) PROVE OneNodePerPath'
    <3>1. PathsKept
      BY <2>1, StepKeeps
    <3> QED
      BY <3>1 DEF PathsKept, OneNodePerPath
  <2>2. ASSUME NEW t \in Threads, SetInsert(t) PROVE OneNodePerPath'
    <3>1. PICK n \in Nodes :
              /\ slab[n] = Free
              /\ slab' = [slab EXCEPT ![n] =
                             [path |-> ScriptOf[t], label |-> thr[t].label,
                              code |-> thr[t].code,
                              expire |-> clock[WorkerOf[t]]
                                           + Expire[WorkerOf[t]] + Grace]]
              /\ tree' = tree \cup {n}
      BY <2>2 DEF SetInsert
    <3>2. /\ slab \in [Nodes -> Entry \cup {Free}] /\ tree \subseteq Nodes /\ n \notin tree
      BY <3>1 DEF IInv, TypeOK, IndexInv
    <3>3. /\ slab'[n].path = ScriptOf[t]
          /\ \A m \in tree : slab'[m] = slab[m]
      BY <3>1, <3>2
    <3>4. \A m \in tree : slab[m].path \in Scripts
      BY DEF IInv, TypeOK, IndexInv, Entry
    <3>5. ASSUME NEW m \in tree, slab[m].path = ScriptOf[t]
          PROVE  \E s \in Scripts : s # ScriptOf[t] /\ Hash[s] = Hash[ScriptOf[t]]
      <4>1. Hidden(ScriptOf[t])
        BY <2>2, <3>5 DEF SetInsert, MayMiss, NodesOf
      <4> QED
        BY <4>1, <3>4 DEF Hidden
    <3> QED
      BY <3>1, <3>3, <3>5 DEF OneNodePerPath
  <2> QED
    BY <2>1, <2>2
<1> QED
  BY <1>1, <1>2, InductiveInvariant, PTL DEF Spec

\* A node that leaves the tree has expired for the very worker whose timer or thread
\* removes it, or the thread that removes it asks for its script with a stat that
\* contradicts its label.
THEOREM LeavesForCause == Spec => RemovedForCause
<1> DEFINE Cause == \A n \in tree \ tree' :
                \/ \E w \in Workers : ExpireTimer(w) /\ slab[n].expire < clock[w]
                \/ \E t \in Threads :
                      /\ thr'[t] # thr[t] /\ ScriptOf[t] = slab[n].path
                      /\ \/ slab[n].expire < clock[WorkerOf[t]]
                         \/ thr[t].label # slab[n].label
<1>1. ASSUME IInv, ConstAssumption, Next PROVE Cause
  <2> USE ConstAssumption
  <2>1. ASSUME tree' = tree \/ (\E n \in Nodes : tree' = tree \cup {n}) PROVE Cause
    BY <2>1
  <2>2. ASSUME NEW t \in Threads, CacheStale(t) PROVE Cause
    <3>1. PICK n \in tree : slab[n].path = ScriptOf[t] /\ ~Valid(slab[n], t) /\ RemoveNode(n)
      BY <2>2 DEF CacheStale, NodesOf
    <3>2. tree' = tree \ {n} /\ thr[t].pc = "checked" /\ WorkerOf[t] \in Workers
      BY <2>2, <3>1 DEF RemoveNode, CacheStale, ConstAssumption
    <3>3. slab[n].expire < clock[WorkerOf[t]] \/ thr[t].label # slab[n].label
      BY <3>1 DEF Valid
    <3>4. thr'[t].pc \in {"parse", "open"}
      BY <1>1, <2>2 DEF CacheStale, Declined, IInv, TypeOK, Thread
    <3>5. thr'[t] # thr[t]
      BY <3>2, <3>4
    <3> QED
      BY <3>1, <3>2, <3>3, <3>5
  <2>3. ASSUME NEW w \in Workers, ExpireTimer(w) PROVE Cause
    <3>1. \A n \in tree \ tree' : Dead(n, w)
      BY <2>3 DEF ExpireTimer
    <3> QED
      BY <2>3, <3>1 DEF Dead
  <2>4. ASSUME NEW t \in Threads, ThreadStep(t), ~CacheStale(t) PROVE Cause
    <3>1. ASSUME CacheHit(t) \/ SetPresent(t) PROVE tree' = tree
      BY <3>1 DEF CacheHit, SetPresent, Refresh
    <3>2. ASSUME SetInsert(t) PROVE \E n \in Nodes : tree' = tree \cup {n}
      BY <3>2 DEF SetInsert
    <3>3. ASSUME \/ CheckScript(t) \/ CacheMiss(t) \/ OpenScript(t) \/ ReadScript(t)
                 \/ Compile(t) \/ SetNoMemory(t) \/ Finalize(t)
          PROVE  tree' = tree
      BY <3>3
      DEF CheckScript, CacheMiss, OpenScript, ReadScript, Compile, SetNoMemory, Finalize, cacheVars
    <3> HIDE DEF Cause
    <3> QED
      BY <2>1, <2>4, <3>1, <3>2, <3>3 DEF ThreadStep
  <2>5. ASSUME \/ \E w \in Workers : UpdateClock(w)
               \/ \E s \in Scripts : WriteScript(s)
               \/ Tick
        PROVE  Cause
    <3>1. tree' = tree
      BY <2>5 DEF UpdateClock, WriteScript, Tick, cacheVars
    <3> QED
      BY <2>1, <3>1
  <2> HIDE DEF Cause
  <2> QED
    BY <1>1, <2>2, <2>3, <2>4, <2>5 DEF Next
<1>2. IInv /\ [Next]_vars => [Cause]_vars
  <2> HIDE DEF Cause
  <2> QED
    BY <1>1, ConstAssumption
<1>3. [][Cause]_vars => RemovedForCause
  BY DEF RemovedForCause
<1> HIDE DEF Cause
<1> QED
  BY <1>2, <1>3, InductiveInvariant, PTL DEF Spec

-----------------------------------------------------------------------------
(* The cache implements the script service                                  *)

\* Only the thread that steps changes for the service.
LEMMA OtherReaders ==
    ASSUME TypeOK, NEW t \in Threads, thr' = [thr EXCEPT ![t] = thr'[t]]
    PROVE  [u \in Threads |-> Reader(u)]'
             = [[u \in Threads |-> Reader(u)] EXCEPT ![t] = Reader(t)']
<1>1. \A u \in Threads \ {t} : thr'[u] = thr[u]
  BY DEF TypeOK
<1>2. \A u \in Threads \ {t} : Reader(u)' = Reader(u)
  BY <1>1 DEF Reader
<1> QED
  BY <1>2

\* A step between the stat and the start of the code does not show.
LEMMA HiddenStep ==
    ASSUME TypeOK, NEW t \in Threads, thr' = [thr EXCEPT ![t] = thr'[t]],
           UNCHANGED hist,
           thr[t].pc \notin {"idle", "running"},
           thr'[t].pc \notin {"idle", "running"},
           thr'[t].label = thr[t].label
    PROVE  UNCHANGED Service!vars
<1> DEFINE R == [u \in Threads |-> Reader(u)]
<1>1. Reader(t)' = R[t]
  BY DEF Reader
<1>2. R' = [R EXCEPT ![t] = Reader(t)']
  BY OtherReaders
<1>3. R' = R
  BY <1>1, <1>2
<1> QED
  BY <1>3 DEF Service!vars

\* A step to "running" gives the thread code that may stand for its label.
LEMMA GiveStep ==
    ASSUME IInv, IInv', NEW t \in Threads, thr' = [thr EXCEPT ![t] = thr'[t]],
           UNCHANGED hist,
           thr[t].pc \notin {"idle", "running"},
           thr'[t].pc = "running",
           thr'[t].label = thr[t].label
    PROVE  Service!Give(t)
<1> DEFINE s == ScriptOf[t]
           R == [u \in Threads |-> Reader(u)]
<1>1. CodeOK(s, thr[t].label, thr[t].code)'
  BY DEF IInv, ThreadInv
<1>2. PICK c : c = thr'[t].code
  OBVIOUS
<1>3. c.whole \in BOOLEAN
  BY <1>2 DEF IInv, TypeOK, Thread, Code
<1>4. /\ c.ver \in 1 .. Len(hist[s])
      /\ ~c.whole => hist[s][c.ver].size > thr[t].label.size
      /\ \E u \in 1 .. c.ver : hist[s][u] = thr[t].label
  BY <1>1, <1>2 DEF CodeOK, Backs, Version
<1>5. ~c.whole => hist[s][c.ver] # thr[t].label
  <2>1. thr[t].label.size \in Nat
    BY DEF IInv, TypeOK, Thread, Label
  <2> QED
    BY <1>4, <2>1
<1>6. /\ R[t].state = "asked" /\ R[t].label = thr[t].label
      /\ Reader(t)' = [state |-> "given", label |-> R[t].label,
                       answer |-> [ver |-> c.ver, whole |-> c.whole]]
  BY <1>2 DEF Reader
<1>7. R' = [R EXCEPT ![t] = Reader(t)']
  BY OtherReaders DEF IInv
<1>8. DOMAIN hist[s] = 1 .. Len(hist[s])
  <2>1. s \in Scripts
    BY ConstAssumption DEF ConstAssumption
  <2> QED
    BY <2>1 DEF IInv, TypeOK
<1> HIDE DEF R
<1>9. /\ R[t].state = "asked"
      /\ \E v \in DOMAIN hist[s], whole \in BOOLEAN :
            /\ \E u \in 1 .. v : hist[s][u] = R[t].label
            /\ ~whole => hist[s][v] # R[t].label
            /\ R' = [R EXCEPT ![t] =
                        [state |-> "given", label |-> R[t].label,
                         answer |-> [ver |-> v, whole |-> whole]]]
  BY <1>3, <1>4, <1>5, <1>6, <1>7, <1>8, ZenonT(30)
<1> QED
  BY <1>9 DEF R, Service!Give

\* Every step of a thread is one of the service's, or does not show.
LEMMA ThreadStepServes ==
    ASSUME IInv, IInv', NEW t \in Threads, ThreadStep(t)
    PROVE  [Service!Next]_Service!vars
<1> USE DEF Service!Next
<1>1. thr \in [Threads -> Thread]
  BY DEF IInv, TypeOK
<1>2. CASE CheckScript(t)
  <2> DEFINE R == [u \in Threads |-> Reader(u)]
             l == hist[ScriptOf[t]][Len(hist[ScriptOf[t]])]
  <2>1. /\ thr' = [thr EXCEPT ![t] = thr'[t]] /\ UNCHANGED hist
        /\ thr[t].pc = "idle" /\ thr'[t].pc = "checked" /\ thr'[t].label = l
    BY <1>1, <1>2 DEF CheckScript, Current, Version, Thread
  <2>2. /\ R[t].state = "away"
        /\ Reader(t)' = [state |-> "asked", label |-> l,
                         answer |-> [ver |-> 0, whole |-> TRUE]]
    BY <2>1 DEF Reader
  <2>3. R' = [R EXCEPT ![t] = Reader(t)']
    BY <2>1, OtherReaders DEF IInv
  <2> QED
    BY <2>1, <2>2, <2>3 DEF Service!Ask, Service!Away, Service!NoAnswer
<1>3. CASE CacheStale(t) \/ CacheMiss(t) \/ OpenScript(t) \/ ReadScript(t) \/ Compile(t)
  <2>1. /\ thr' = [thr EXCEPT ![t] = thr'[t]] /\ UNCHANGED hist
        /\ thr[t].pc \notin {"idle", "running"}
        /\ thr'[t].pc \notin {"idle", "running"}
        /\ thr'[t].label = thr[t].label
    BY <1>1, <1>3 DEF CacheStale, CacheMiss, OpenScript, ReadScript, Compile,
                      Declined, Thread, Code
  <2> QED
    BY <2>1, HiddenStep DEF IInv
<1>4. CASE CacheHit(t) \/ SetPresent(t) \/ SetInsert(t) \/ SetNoMemory(t)
  <2>1. /\ thr' = [thr EXCEPT ![t] = thr'[t]] /\ UNCHANGED hist
        /\ thr[t].pc \notin {"idle", "running"}
        /\ thr'[t].pc = "running"
        /\ thr'[t].label = thr[t].label
    BY <1>1, <1>4 DEF CacheHit, SetPresent, SetInsert, SetNoMemory, Thread, Code
  <2> QED
    BY <2>1, GiveStep
<1>5. CASE Finalize(t)
  <2> DEFINE R == [u \in Threads |-> Reader(u)]
  <2>1. /\ thr' = [thr EXCEPT ![t] = thr'[t]] /\ UNCHANGED hist
        /\ thr[t].pc # "idle" /\ thr'[t].pc = "idle"
    BY <1>1, <1>5 DEF Finalize, Idle
  <2>2. R[t].state # "away" /\ Reader(t)'.state = "away"
    BY <2>1 DEF Reader
  <2>3. R' = [R EXCEPT ![t] = Reader(t)']
    BY <2>1, OtherReaders DEF IInv
  <2>4. R' = [R EXCEPT ![t] = R'[t]] /\ R'[t].state = "away"
    BY <2>2, <2>3
  <2> QED
    BY <2>1, <2>2, <2>4 DEF Service!Leave, Service!Away
<1> QED
  BY <1>2, <1>3, <1>4, <1>5 DEF ThreadStep

\* So is every step of the rest: an editor writes, and nothing else shows.
LEMMA OtherStepServes ==
    ASSUME IInv, [Next]_vars, ~ \E t \in Threads : ThreadStep(t)
    PROVE  [Service!Next]_Service!vars
<1> DEFINE R == [u \in Threads |-> Reader(u)]
<1>1. CASE UNCHANGED <<hist, thr>>
  <2>1. R' = R
    BY <1>1 DEF Reader
  <2> QED
    BY <1>1, <2>1 DEF Service!vars
<1>2. ASSUME NEW s \in Scripts, WriteScript(s) PROVE Service!Next
  <2>1. PICK sz \in Sizes :
            hist' = [hist EXCEPT ![s] = Append(hist[s], [mtime |-> now, size |-> sz])]
    BY <1>2 DEF WriteScript
  <2>2. hist \in [Scripts -> Seq(Label)] /\ hist[s] \in Seq(Label)
    BY DEF IInv, TypeOK
  <2>3. hist'[s] = Append(hist[s], [mtime |-> now, size |-> sz])
    BY <2>1, <2>2
  <2>4. /\ Len(hist'[s]) = Len(hist[s]) + 1
        /\ hist'[s][Len(hist[s]) + 1] = [mtime |-> now, size |-> sz]
    BY <2>2, <2>3
  <2>5. R' = R
    BY <1>2 DEF WriteScript, Reader
  <2>6. Service!Write(s)
    BY <2>1, <2>4, <2>5 DEF Service!Write
  <2> QED
    BY <2>6 DEF Service!Next
<1>3. \/ UNCHANGED <<hist, thr>>
      \/ \E s \in Scripts : WriteScript(s)
  BY DEF Next, vars, ExpireTimer, UpdateClock, Tick
<1> QED
  BY <1>1, <1>2, <1>3

\* ngx_squ_load_script over the shared cache implements the script service: what
\* lies between the stat and the closure, and every other worker, does not show.
THEOREM CacheServes == Spec => ImplementsService
<1>1. Init => Service!Init
  BY DEF Init, Idle, Reader, Service!Init, Service!Away
<1>2. IInv /\ IInv' /\ [Next]_vars => [Service!Next]_Service!vars
  BY ThreadStepServes, OtherStepServes
<1> QED
  BY <1>1, <1>2, InductiveInvariant, PTL DEF Spec, ImplementsService, Service!Spec

=============================================================================
