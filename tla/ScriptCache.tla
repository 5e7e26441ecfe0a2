---------------------------- MODULE ScriptCache ----------------------------
(***************************************************************************)
(* The compiled-script cache of src/core/ngx_squ_cache.c together with the *)
(* part of src/core/ngx_squ.c that uses it: a script thread takes the size *)
(* and mtime of its script (ngx_squ_check_script), asks the cache for the  *)
(* bytecode (ngx_squ_cache_get), and on a miss opens, reads, parses and    *)
(* compiles the source and stores the bytecode (ngx_squ_cache_set).        *)
(*                                                                         *)
(* The cache is one shared-memory zone used by every worker process.  Each *)
(* critical section of the zone's mutex is one action; between two of them *)
(* any other worker may run, and the script file may be rewritten.         *)
(***************************************************************************)
EXTENDS Integers, Sequences

CONSTANTS
    Workers,      \* nginx worker processes
    Threads,      \* ngx_squ_thread_t objects, one per request or session
    WorkerOf,     \* the worker that runs a thread
    Scripts,      \* script paths: file names, or the MD5 of inline code
    ScriptOf,     \* thr->path, the script its location is configured with
    ConfScripts,  \* the scripts whose code is given inline in nginx.conf
    Hash,         \* crc32 of a path: two paths may collide
    Nodes,        \* the chunks the slab pool can hand out
    Sizes,        \* sizes a script file can have
    Lens,         \* lengths of compiled bytecode
    Expire,       \* lccf->expire of each worker (a reload may change it)
    Grace,        \* the constant 60 added to it
    PageSize,     \* ngx_pagesize
    MaxTime,      \* bound: the wall clock stops here
    MaxVersion    \* bound: how many contents a script file goes through

ASSUME ConstAssumption ==
    /\ WorkerOf \in [Threads -> Workers]
    /\ ScriptOf \in [Threads -> Scripts]
    /\ ConfScripts \subseteq Scripts
    /\ Sizes \subseteq Nat
    /\ Lens \subseteq Nat
    /\ Expire \in [Workers -> Nat]
    /\ Grace \in Nat
    /\ PageSize \in Nat
    /\ MaxTime \in Nat
    /\ MaxVersion \in Nat

VARIABLES
    now,     \* wall clock, in seconds
    clock,   \* clock[w]: the time ngx_time() has cached in worker w
    hist,    \* hist[s]: the labels (mtime, size) of the versions of s so far
    slab,    \* slab[n]: the ngx_squ_cache_code_t in chunk n, or Free
    tree,    \* the chunks linked into cache->rbtree
    queue,   \* cache->queue, most recently used first
    thr      \* thr[t]: the script thread t

cacheVars == <<slab, tree, queue>>
vars == <<now, clock, hist, slab, tree, queue, thr>>

Label == [mtime : Int, size : Nat]
Code  == [ver : Nat, whole : BOOLEAN, len : Nat]
Entry == [path : Scripts, label : Label, code : Code, expire : Nat]
Free  == [free |-> TRUE]

NoCode  == [ver |-> 0, whole |-> TRUE, len |-> 0]
NoLabel == [mtime |-> -1, size |-> 0]

\* Where a thread is: before check_script; before cache_get; about to open the
\* source; read pending; source in thr->ssp; bytecode in thr->buf, not yet
\* offered to the cache; closure obtained and running.
Pcs == {"idle", "checked", "open", "read", "parse", "set", "running"}

\* "seen" is the number of versions the script had when check_script ran, and
\* "opened" the number it had when the file was opened.
Thread == [pc : Pcs, label : Label, code : Code,
           seen : Nat, opened : Nat]

Idle == [pc |-> "idle", label |-> NoLabel, code |-> NoCode,
         seen |-> 0, opened |-> 0]

Version(s) == Len(hist[s])
Current(s) == hist[s][Version(s)]

\* ngx_squ_load_script: the size of thr->buf.
Cap(size) == IF 4 * size > PageSize THEN 4 * size ELSE PageSize

Init ==
    /\ now = 0
    /\ clock = [w \in Workers |-> 0]
    /\ \E sz \in [Scripts -> Sizes] :
           hist = [s \in Scripts |->
                      <<[mtime |-> IF s \in ConfScripts THEN -1 ELSE 0,
                         size  |-> sz[s]]>>]
    /\ slab = [n \in Nodes |-> Free]
    /\ tree = {}
    /\ queue = <<>>
    /\ thr = [t \in Threads |-> Idle]

-----------------------------------------------------------------------------
(* The shared structures: a red-black tree and an LRU queue over slab chunks *)

\* ngx_queue_remove of the link at position i.
Without(q, i) ==
    [k \in 1 .. Len(q) - 1 |-> IF k < i THEN q[k] ELSE q[k + 1]]

PosOf(q, n) == CHOOSE i \in DOMAIN q : q[i] = n

Unlink(q, n) == IF \E i \in DOMAIN q : q[i] = n
                  THEN Without(q, PosOf(q, n)) ELSE q

\* ngx_queue_insert_head
PushHead(q, n) == [k \in 1 .. Len(q) + 1 |-> IF k = 1 THEN n ELSE q[k - 1]]

\* Variant: a lookup that compares only the crc32.
NodesOfHash(s) == {n \in tree : Hash[slab[n].path] = Hash[s]}

\* The nodes a lookup of path s can return.  The tree is ordered by hash and,
\* among equal hashes, by path; ngx_squ_cache_lookup walks it in the opposite
\* direction from ngx_squ_cache_insert_value among equal hashes, so a node of
\* s may be missed when another path with the same hash is in the tree.
NodesOf(s) == {n \in tree : slab[n].path = s}
Hidden(s) == \E n \in tree : slab[n].path # s /\ Hash[slab[n].path] = Hash[s]

\* Variant: a lookup that can miss any node but the root of the tree.
MayMissDeep(s) == NodesOf(s) = {} \/ tree # {}

MayMiss(s) == NodesOf(s) = {} \/ Hidden(s)

\* Variant: the node is freed but stays in the tree.
RemoveNodeFromQueue(n) ==
    /\ queue' = Unlink(queue, n)
    /\ slab' = [slab EXCEPT ![n] = Free]
    /\ UNCHANGED tree

\* The removal sequence of cache_get and cache_expire.
RemoveNode(n) ==
    /\ queue' = Unlink(queue, n)
    /\ tree' = tree \ {n}
    /\ slab' = [slab EXCEPT ![n] = Free]

\* The refresh sequence of cache_get and cache_set.
Refresh(n, w) ==
    /\ slab' = [slab EXCEPT ![n].expire = clock[w] + Expire[w] + Grace]
    /\ queue' = PushHead(Unlink(queue, n), n)
    /\ UNCHANGED tree

-----------------------------------------------------------------------------
(* A script thread                                                          *)

\* ngx_squ_check_script: the stat of the script, or the length of inline code.
CheckScript(t) ==
    /\ thr[t].pc = "idle"
    /\ thr' = [thr EXCEPT ![t].pc = "checked",
                          ![t].label = Current(ScriptOf[t]),
                          ![t].seen = Version(ScriptOf[t])]
    /\ UNCHANGED <<now, clock, hist, cacheVars>>

\* Variant: the mtime is not compared.
ValidBySize(e, t) ==
    /\ e.label.size = thr[t].label.size
    /\ ~(e.expire < clock[WorkerOf[t]])

\* Variant: the size is not compared.
ValidByMtime(e, t) ==
    /\ e.label.mtime = thr[t].label.mtime
    /\ ~(e.expire < clock[WorkerOf[t]])

\* What cache_get compares before it serves an entry.
Valid(e, t) ==
    /\ e.label.mtime = thr[t].label.mtime
    /\ e.label.size = thr[t].label.size
    /\ ~(e.expire < clock[WorkerOf[t]])

\* ngx_squ_cache_get serves the entry: its code is copied into thr->buf.
CacheHit(t) ==
    /\ thr[t].pc = "checked"
    /\ \E n \in NodesOf(ScriptOf[t]) :
          /\ Valid(slab[n], t)
          /\ thr' = [thr EXCEPT ![t].pc = "running", ![t].code = slab[n].code]
          /\ Refresh(n, WorkerOf[t])
    /\ UNCHANGED <<now, clock, hist>>

\* After NGX_DECLINED, ngx_squ_load_script takes inline code as it stands and
\* opens a file.
Declined(t) ==
    thr' = [thr EXCEPT
               ![t].pc = IF ScriptOf[t] \in ConfScripts THEN "parse" ELSE "open",
               ![t].code = IF ScriptOf[t] \in ConfScripts
                             THEN [ver |-> thr[t].seen, whole |-> TRUE, len |-> 0]
                             ELSE @]

\* ngx_squ_cache_get finds an entry that is stale or expired and frees it.
CacheStale(t) ==
    /\ thr[t].pc = "checked"
    /\ \E n \in NodesOf(ScriptOf[t]) : ~Valid(slab[n], t) /\ RemoveNode(n)
    /\ Declined(t)
    /\ UNCHANGED <<now, clock, hist>>

\* ngx_squ_cache_get finds nothing.
CacheMiss(t) ==
    /\ thr[t].pc = "checked"
    /\ MayMiss(ScriptOf[t])
    /\ Declined(t)
    /\ UNCHANGED <<now, clock, hist, cacheVars>>

\* ngx_open_file in ngx_squ_load_script.
OpenScript(t) ==
    /\ thr[t].pc = "open"
    /\ thr' = [thr EXCEPT ![t].pc = "read",
                          ![t].opened = Version(ScriptOf[t])]
    /\ UNCHANGED <<now, clock, hist, cacheVars>>

\* ngx_squ_aio_read: at most thr->size bytes of the file.  A file that was
\* replaced after the open is read in its opened version, one that was
\* rewritten in place in a later one; a longer version is cut off.
ReadScript(t) ==
    /\ thr[t].pc = "read"
    /\ \E v \in thr[t].opened .. Version(ScriptOf[t]) :
          thr' = [thr EXCEPT
                     ![t].pc = "parse",
                     ![t].code =
                        [ver |-> v, len |-> 0,
                         whole |-> hist[ScriptOf[t]][v].size
                                      <= thr[t].label.size]]
    /\ UNCHANGED <<now, clock, hist, cacheVars>>

\* ngx_squ_handler: parse, compile, and serialise the closure into thr->buf;
\* ngx_squ_writer refuses what does not fit.
Compile(t) ==
    /\ thr[t].pc = "parse"
    /\ \E l \in Lens :
          /\ l <= Cap(thr[t].label.size)
          /\ thr' = [thr EXCEPT ![t].pc = "set", ![t].code.len = l]
    /\ UNCHANGED <<now, clock, hist, cacheVars>>

\* ngx_squ_cache_set with an entry present: only its age changes.
SetPresent(t) ==
    /\ thr[t].pc = "set"
    /\ \E n \in NodesOf(ScriptOf[t]) : Refresh(n, WorkerOf[t])
    /\ thr' = [thr EXCEPT ![t].pc = "running"]
    /\ UNCHANGED <<now, clock, hist>>

\* Variant: the entry gets the label the file has by now.
SetInsertRelabelled(t) ==
    /\ thr[t].pc = "set"
    /\ MayMiss(ScriptOf[t])
    /\ \E n \in Nodes :
          /\ slab[n] = Free
          /\ slab' = [slab EXCEPT ![n] =
                         [path |-> ScriptOf[t], label |-> Current(ScriptOf[t]),
                          code |-> thr[t].code,
                          expire |-> clock[WorkerOf[t]]
                                       + Expire[WorkerOf[t]] + Grace]]
          /\ tree' = tree \cup {n}
          /\ queue' = PushHead(queue, n)
    /\ thr' = [thr EXCEPT ![t].pc = "running"]
    /\ UNCHANGED <<now, clock, hist>>

\* ngx_squ_cache_set with no entry found: a new node at the head.
SetInsert(t) ==
    /\ thr[t].pc = "set"
    /\ MayMiss(ScriptOf[t])
    /\ \E n \in Nodes :
          /\ slab[n] = Free
          /\ slab' = [slab EXCEPT ![n] =
                         [path |-> ScriptOf[t], label |-> thr[t].label,
                          code |-> thr[t].code,
                          expire |-> clock[WorkerOf[t]]
                                       + Expire[WorkerOf[t]] + Grace]]
          /\ tree' = tree \cup {n}
          /\ queue' = PushHead(queue, n)
    /\ thr' = [thr EXCEPT ![t].pc = "running"]
    /\ UNCHANGED <<now, clock, hist>>

\* ngx_squ_cache_set when ngx_slab_alloc_locked fails, because the zone is full
\* or fragmented: the caller ignores the error.
SetNoMemory(t) ==
    /\ thr[t].pc = "set"
    /\ MayMiss(ScriptOf[t])
    /\ thr' = [thr EXCEPT ![t].pc = "running"]
    /\ UNCHANGED <<now, clock, hist, cacheVars>>

\* The thread ends: its script returned, or any step above failed and called
\* ngx_squ_finalize, or the client or the worker went away.
Finalize(t) ==
    /\ thr[t].pc # "idle"
    /\ thr' = [thr EXCEPT ![t] = Idle]
    /\ UNCHANGED <<now, clock, hist, cacheVars>>

-----------------------------------------------------------------------------
(* Timers, the clock, and whoever edits the scripts                         *)

Oldest == queue[Len(queue)]

\* Variant: a node expires a second early.
DeadEarly(n, w) == slab[n].expire <= clock[w]

Dead(n, w) == slab[n].expire < clock[w]

\* Variant: the timer leaves the last node in the queue.
ExpireTimerKeepsOne(w) ==
    /\ Len(queue) > 1
    /\ Dead(Oldest, w)
    /\ RemoveNode(Oldest)
    /\ UNCHANGED <<now, clock, hist, thr>>

\* ngx_squ_cache_expire on the timer of worker w: up to two nodes from the
\* tail, stopping at the first that is alive.  When the trylock fails nothing
\* changes and the timer is armed again.
ExpireTimer(w) ==
    /\ queue # <<>>
    /\ Dead(Oldest, w)
    /\ LET rest == Without(queue, Len(queue))
           next == rest[Len(rest)]
           gone == IF rest # <<>> /\ Dead(next, w) THEN {Oldest, next} ELSE {Oldest}
       IN /\ queue' = IF gone = {Oldest} THEN rest ELSE Without(rest, Len(rest))
          /\ tree' = tree \ gone
          /\ slab' = [n \in Nodes |-> IF n \in gone THEN Free ELSE slab[n]]
    /\ UNCHANGED <<now, clock, hist, thr>>

Tick ==
    /\ now < MaxTime
    /\ now' = now + 1
    /\ UNCHANGED <<clock, hist, cacheVars, thr>>

\* ngx_time_update at the top of a worker's event loop.
UpdateClock(w) ==
    /\ clock[w] # now
    /\ clock' = [clock EXCEPT ![w] = now]
    /\ UNCHANGED <<now, hist, cacheVars, thr>>

WriteScript(s) ==
    /\ s \notin ConfScripts
    /\ Version(s) < MaxVersion
    /\ \E sz \in Sizes :
          hist' = [hist EXCEPT ![s] = Append(@, [mtime |-> now, size |-> sz])]
    /\ UNCHANGED <<now, clock, cacheVars, thr>>

ThreadStep(t) ==
    \/ CheckScript(t)
    \/ CacheHit(t) \/ CacheStale(t) \/ CacheMiss(t)
    \/ OpenScript(t) \/ ReadScript(t) \/ Compile(t)
    \/ SetPresent(t) \/ SetInsert(t) \/ SetNoMemory(t)
    \/ Finalize(t)

Next ==
    \/ \E t \in Threads : ThreadStep(t)
    \/ \E w \in Workers : ExpireTimer(w) \/ UpdateClock(w)
    \/ \E s \in Scripts : WriteScript(s)
    \/ Tick

Spec == Init /\ [][Next]_vars

\* Time passes, event loops turn and timers fire; nothing obliges a client.
Fairness ==
    /\ WF_vars(Tick)
    /\ \A w \in Workers : WF_vars(UpdateClock(w)) /\ WF_vars(ExpireTimer(w))

FairSpec == Spec /\ Fairness

-----------------------------------------------------------------------------
(* Properties                                                               *)

TypeOK ==
    /\ now \in Nat
    /\ clock \in [Workers -> Nat]
    /\ hist \in [Scripts -> Seq(Label)]
    /\ slab \in [Nodes -> Entry \cup {Free}]
    /\ tree \subseteq Nodes
    /\ queue \in Seq(Nodes)
    /\ thr \in [Threads -> Thread]

\* The slab, the rbtree and the LRU queue always hold the same nodes, each once:
\* a freed chunk is in neither structure, and no chunk is leaked.
IndexAgrees ==
    /\ tree = {n \in Nodes : slab[n] # Free}
    /\ tree = {queue[i] : i \in DOMAIN queue}
    /\ \A i, j \in DOMAIN queue : queue[i] = queue[j] => i = j

\* Code c can stand for a script labelled l: some version no newer than the one
\* it was compiled from carries that label.
Backs(s, l, c) == \E u \in 1 .. c.ver : u <= Version(s) /\ hist[s][u] = l

\* No thread runs code older than what its stat saw: the code comes from a
\* version at least as new as the first one with the mtime and size the thread
\* obtained in check_script, whichever worker compiled it.
RunsFreshCode ==
    \A t \in Threads :
        thr[t].pc = "running" => Backs(ScriptOf[t], thr[t].label, thr[t].code)

\* Code compiled from a truncated read (the file grew between the stat and the
\* read) never runs in a thread whose stat saw the file that was read.
NoTruncatedCode ==
    \A t \in Threads :
        thr[t].pc = "running" /\ ~thr[t].code.whole
            => hist[ScriptOf[t]][thr[t].code.ver] # thr[t].label

\* The copy in cache_get has no bound of its own: that the bytecode fits
\* thr->buf follows from the entry having the size the buffer was made for.
CodeFitsBuffer ==
    \A t \in Threads : thr[t].code.len <= Cap(thr[t].label.size)

\* Two nodes of one path exist only where its hash collides with another's.
OneNodePerPath ==
    \A m, n \in tree :
        slab[m].path = slab[n].path =>
            m = n \/ \E s \in Scripts : s # slab[m].path
                                        /\ Hash[s] = Hash[slab[m].path]

\* The workers of different expiry and with clocks apart do not take from each other
\* what may be served: an entry is removed by the timer of a worker whose own clock
\* has passed its expiry, or by a thread that asks for that very script, when the
\* clock of its own worker has passed the expiry or its own stat contradicts the
\* label.  Neither the clock of another worker nor the stat of another thread will do.
RemovedForCause ==
    [][\A n \in tree \ tree' :
          \/ \E w \in Workers : ExpireTimer(w) /\ slab[n].expire < clock[w]
          \/ \E t \in Threads :
                /\ thr'[t] # thr[t] /\ ScriptOf[t] = slab[n].path
                /\ \/ slab[n].expire < clock[WorkerOf[t]]
                   \/ thr[t].label # slab[n].label]_vars

\* An expired entry does not stay at the tail: the timers of the workers take
\* it, or a request makes it young again.
ExpiredTailLeaves ==
    []<>(queue = <<>> \/ slab[Oldest].expire >= MaxTime)

\* A thread as ngx_squ_load_script's caller sees it.
Reader(t) ==
    [state |-> IF thr[t].pc \in {"idle", "running"}
                 THEN IF thr[t].pc = "idle" THEN "away" ELSE "given"
                 ELSE "asked",
     label |-> thr[t].label,
     answer |-> IF thr[t].pc = "running"
                  THEN [ver |-> thr[t].code.ver, whole |-> thr[t].code.whole]
                  ELSE [ver |-> 0, whole |-> TRUE]]

Service == INSTANCE ScriptService WITH reader <- [t \in Threads |-> Reader(t)]

\* The cache does not show: stat, lookup, open, read, compile and store, with
\* every worker in between, are to a thread one moment at which it is given code
\* of a version no older than what it saw when it asked.
ImplementsService == Service!Spec

=============================================================================
