------------------------------ MODULE DbdPool ------------------------------
(***************************************************************************)
(* The pools of database connections of one worker and the execute call of *)
(* core/modules/ngx_squ_dbd_module.c.  What a pool is called and how many  *)
(* connections it may have is in shared memory and is set once, by any     *)
(* worker; the connections are the worker's own.                           *)
(*                                                                         *)
(* A call takes a connection, and drives it through connect, query, the    *)
(* columns, and the fields of each row; wherever the server has nothing    *)
(* yet the script is suspended, and the library calls the handler of the   *)
(* connection later.  There are no timers.  When the session ends first,   *)
(* the call goes on without its thread until the answer has been read, and *)
(* the connection is given back then.                                      *)
(*                                                                         *)
(* The worker has one thread of control: the handler of cur runs, or the   *)
(* script whose vm "runs", or nothing.  Names of pools have different      *)
(* crc32; what a lookup does otherwise is in KeyTree.                      *)
(***************************************************************************)
EXTENDS Naturals, Sequences, SequencesExt

CONSTANTS
    Threads, Nobody,    \* sessions of the worker, and no session
    Names,              \* names of pools
    Limits,             \* values of max_connections; with 0 there is no limit
    Cols, Rows,         \* columns and most rows of an answer
    MaxConns            \* bound: connections of the worker

ASSUME DbdAssumption ==
    /\ Nobody \notin Threads
    /\ Limits \subseteq Nat /\ Cols \in Nat /\ Rows \in Nat /\ MaxConns \in Nat

VARIABLES
    conf,   \* conf[n]: connection_n of the pool conf named n, in shared memory
    pools,  \* pools[n]: the ngx_squ_dbd_pool_t named n of this worker
    conn,   \* conn[c]: the c-th connection made, with the context it serves
    vm,     \* vm[t]: what the script of session t does
    cln,    \* cln[t]: the contexts the cleanups in the pool of t point to
    cur,    \* the connection whose handler runs, or 0
    at      \* "got": the server has sent something the handler has not read

vars == <<conf, pools, conn, vm, cln, cur, at>>

\* A connection as it is made for a call of session t.
NewConn(n, t) ==
    [name |-> n, connected |-> FALSE,
     handler |-> "connect",   \* of the library's connection; it names the phase
     ctx |-> "live",          \* the ngx_squ_dbd_ctx_t it is given, or "freed"
     thr |-> t,               \* ctx->thr, or Nobody
     col |-> 0,               \* ctx->col_count
     row |-> 0,               \* ctx->row_count
     seen |-> 0]              \* columns, or fields of a row, read so far

EmptyPool == [busy |-> <<>>, busyN |-> 0, free |-> <<>>, freeN |-> 0]

Init ==
    /\ conf = <<>> /\ pools = <<>> /\ conn = <<>>
    /\ vm = [t \in Threads |-> "none"] /\ cln = [t \in Threads |-> {}]
    /\ cur = 0 /\ at = "read"

NobodyRuns == \A t \in Threads : vm[t] # "runs"
Runs(t) == vm[t] = "runs" /\ cur = 0
Idle == NobodyRuns /\ cur = 0

-----------------------------------------------------------------------------
(* Pools                                                                    *)

\* ngx_rbtree_insert of the pool, or the pool conf, named n.
Put(f, n, v) == [m \in DOMAIN f \cup {n} |-> IF m = n THEN v ELSE f[m]]

\* create_pool, here or in another worker: a pool that is there stays as it is.
CreatePool(n, limit) ==
    /\ n \notin DOMAIN conf
    /\ conf' = Put(conf, n, limit)
    /\ UNCHANGED <<pools, conn, vm, cln, cur, at>>

Having(n) == IF n \in DOMAIN pools THEN pools[n] ELSE EmptyPool

\* The pool has no free connection; one that is there already may be full.
MayConnect(n) == n \in DOMAIN pools => Having(n).busyN # conf[n]

\* The context is made and the connection begins its work for it.
Begin(t, c, p, k) ==
    /\ pools' = Put(pools, k.name, p)
    /\ conn' = [i \in 1 .. (IF c > Len(conn) THEN c ELSE Len(conn)) |->
                   IF i = c
                   THEN [k EXCEPT !.ctx = "live", !.thr = t, !.col = 0, !.row = 0,
                                  !.seen = 0,
                                  !.handler = IF k.connected THEN "query" ELSE "connect"]
                   ELSE conn[i]]
    /\ cln' = [cln EXCEPT ![t] = @ \cup {c}]
    /\ cur' = c /\ at' = "read"
    /\ UNCHANGED <<conf, vm>>

\* get_connection: the free connection that was given back first,
ExecuteFree(t, n) ==
    /\ Runs(t) /\ n \in DOMAIN conf /\ Having(n).free # <<>>
    /\ LET p == pools[n]
           c == Last(p.free)
       IN Begin(t, c,
                [busy |-> <<c>> \o p.busy, busyN |-> p.busyN + 1,
                 free |-> Front(p.free), freeN |-> p.freeN - 1], conn[c])

\* or a new one, in a pool that may be new itself.
ExecuteNew(t, n) ==
    /\ Runs(t) /\ n \in DOMAIN conf /\ Having(n).free = <<>> /\ MayConnect(n)
    /\ Len(conn) < MaxConns
    /\ LET p == Having(n)
           c == Len(conn) + 1
       IN Begin(t, c, [p EXCEPT !.busy = <<c>> \o p.busy, !.busyN = p.busyN + 1],
                NewConn(n, t))

\* No memory for a connection: the pool that was made for it stays.
ExecuteFails(t, n) ==
    /\ Runs(t) /\ n \in DOMAIN conf /\ n \notin DOMAIN pools
    /\ pools' = Put(pools, n, EmptyPool)
    /\ UNCHANGED <<conf, conn, vm, cln, cur, at>>

\* ngx_queue_remove of a connection that is linked.
Unlinked(q, c) == RemoveAt(q, CHOOSE i \in DOMAIN q : q[i] = c)

\* Variant: the connection is linked into the free list and not counted out.
FreedUncounted(p, c) ==
    [p EXCEPT !.busy = Unlinked(p.busy, c),
              !.free = <<c>> \o p.free, !.freeN = p.freeN + 1]

\* free_connection
Freed(p, c) ==
    [p EXCEPT !.busy = Unlinked(p.busy, c), !.busyN = p.busyN - 1,
              !.free = <<c>> \o p.free, !.freeN = p.freeN + 1]

-----------------------------------------------------------------------------
(* The handlers                                                             *)

\* Variant: a call without a thread only destroys its pool.
FinalizeOrphanKeeps(c) ==
    LET t == conn[c].thr
    IN /\ pools' = IF t = Nobody THEN pools
                   ELSE [pools EXCEPT ![conn[c].name] = Freed(@, c)]
       /\ conn' = [conn EXCEPT ![c].ctx = "freed", ![c].thr = Nobody]
       /\ vm' = [i \in Threads |-> IF i = t THEN "runs" ELSE vm[i]]
       /\ cln' = [i \in Threads |-> IF i = t THEN cln[i] \ {c} ELSE cln[i]]
       /\ cur' = 0 /\ UNCHANGED <<conf, at>>

\* ngx_squ_dbd_finalize: the cleanup is told, the connection given back, the pool
\* of the call destroyed, and its script, if it still has one, goes on, inside
\* execute or by an event.
Finalize(c) ==
    LET t == conn[c].thr
    IN /\ pools' = [pools EXCEPT ![conn[c].name] = Freed(@, c)]
       /\ conn' = [conn EXCEPT ![c].ctx = "freed", ![c].thr = Nobody]
       /\ vm' = [i \in Threads |-> IF i = t THEN "runs" ELSE vm[i]]
       /\ cln' = [i \in Threads |-> IF i = t THEN cln[i] \ {c} ELSE cln[i]]
       /\ cur' = 0 /\ UNCHANGED <<conf, at>>

In(phase) == cur # 0 /\ conn[cur].handler = phase

\* The handler of cur goes on with k.
Goes(k) ==
    /\ conn' = [conn EXCEPT ![cur] = k] /\ at' = "read"
    /\ UNCHANGED <<conf, pools, vm, cln, cur>>

\* Nothing yet: the handler returns, and execute, if it was called from there,
\* suspends the script.
Again ==
    /\ cur # 0 /\ at = "read"
    /\ vm' = [t \in Threads |-> IF t = conn[cur].thr THEN "db" ELSE vm[t]]
    /\ cur' = 0
    /\ UNCHANGED <<conf, pools, conn, cln, at>>

\* The server refuses, the connection breaks, or there is no memory.
Fails == cur # 0 /\ Finalize(cur)

Connect ==
    /\ In("connect")
    /\ Goes([conn[cur] EXCEPT !.connected = TRUE, !.handler = "query"])

Query ==
    /\ In("query")
    /\ Goes([conn[cur] EXCEPT !.handler = "column", !.seen = 0])

\* A column is named, or a field read: without a thread it is passed over.
Reads(phase) ==
    /\ In(phase) /\ conn[cur].seen < Cols
    /\ LET k == conn[cur]
       IN Goes([k EXCEPT !.seen = k.seen + 1,
                         !.col = IF k.thr = Nobody THEN k.col ELSE k.col + 1])

Column ==
    \/ Reads("column")
    \/ /\ In("column") /\ conn[cur].seen = Cols
       /\ Goes([conn[cur] EXCEPT !.handler = "row"])

\* Variant: the counter of fields is not set back.
RowRunsOn ==
    \/ /\ In("row") /\ Cols > 0 /\ conn[cur].row < Rows
       /\ Goes([conn[cur] EXCEPT !.row = @ + 1, !.seen = 0, !.handler = "field"])
    \/ In("row") /\ Finalize(cur)

Row ==
    \/ /\ In("row") /\ Cols > 0 /\ conn[cur].row < Rows
       /\ Goes([conn[cur] EXCEPT !.row = @ + 1, !.seen = 0, !.col = 0,
                                 !.handler = "field"])
    \/ In("row") /\ Finalize(cur)

Field ==
    \/ Reads("field")
    \/ /\ In("field") /\ conn[cur].seen = Cols
       /\ Goes([conn[cur] EXCEPT !.handler = "row"])

Handler == Again \/ Fails \/ Connect \/ Query \/ Column \/ Row \/ Field

-----------------------------------------------------------------------------
(* Sessions and events                                                      *)

\* The library has something for connection c.
Answer(c) ==
    /\ Idle /\ c \in 1 .. Len(conn) /\ conn[c].ctx = "live"
    /\ cur' = c /\ at' = "got"
    /\ UNCHANGED <<conf, pools, conn, vm, cln>>

\* A session begins, or what its script waited for elsewhere has come.
Wake(t) ==
    /\ Idle /\ vm[t] \in {"none", "elsewhere"}
    /\ vm' = [vm EXCEPT ![t] = "runs"]
    /\ UNCHANGED <<conf, pools, conn, cln, cur, at>>

\* The script waits for something else.
Pause(t) ==
    /\ Runs(t)
    /\ vm' = [vm EXCEPT ![t] = "elsewhere"]
    /\ UNCHANGED <<conf, pools, conn, cln, cur, at>>

\* Variant: the call is not told that its thread is gone.
SessionEndsUntold(t) ==
    /\ Runs(t) \/ (Idle /\ vm[t] # "none")
    /\ vm' = [vm EXCEPT ![t] = "none"] /\ cln' = [cln EXCEPT ![t] = {}]
    /\ UNCHANGED <<conf, pools, conn, cur, at>>

\* The script has ended, or the connection of the session has gone away: the
\* cleanups in its pool are run.
SessionEnds(t) ==
    /\ Runs(t) \/ (Idle /\ vm[t] # "none")
    /\ vm' = [vm EXCEPT ![t] = "none"] /\ cln' = [cln EXCEPT ![t] = {}]
    /\ conn' = [c \in 1 .. Len(conn) |->
                   IF c \in cln[t] THEN [conn[c] EXCEPT !.thr = Nobody] ELSE conn[c]]
    /\ UNCHANGED <<conf, pools, cur, at>>

Next ==
    \/ \E n \in Names, limit \in Limits : CreatePool(n, limit)
    \/ \E t \in Threads, n \in Names :
          ExecuteFree(t, n) \/ ExecuteNew(t, n) \/ ExecuteFails(t, n)
    \/ Handler
    \/ \E c \in 1 .. Len(conn) : Answer(c)
    \/ \E t \in Threads : Wake(t) \/ Pause(t) \/ SessionEnds(t)

Spec == Init /\ [][Next]_vars

\* Handlers come to their end, no script keeps the worker for ever, and servers
\* answer.  A handler the library calls finds something to read.
Fairness ==
    /\ WF_vars(Handler)
    /\ SF_vars(\E t \in Threads : Pause(t))
    /\ \A c \in 1 .. MaxConns : SF_vars(Answer(c))

FairSpec == Spec /\ Fairness

-----------------------------------------------------------------------------
(* Properties                                                               *)

\* However calls take connections, fail, and outlive their sessions, each
\* connection of a pool is in one of its two lists, once, and among the busy ones
\* exactly while a call has it; the counters are those of the lists; and there are
\* never more connections than create_pool allowed, where it set a limit: with 0
\* there is none, once the first connection is there.
PoolAgrees ==
    \A n \in DOMAIN pools :
        LET p == pools[n]
            all == p.busy \o p.free
        IN /\ p.busyN = Len(p.busy) /\ p.freeN = Len(p.free)
           /\ IsInjective(all)
           /\ ToSet(all) = {c \in 1 .. Len(conn) : conn[c].name = n}
           /\ \A c \in ToSet(all) : c \in ToSet(p.busy) <=> conn[c].ctx = "live"
           /\ conf[n] # 0 => Len(all) <= conf[n]

\* A script that waits for the database waits for one call, which knows it, and
\* which will be told if the session ends; a call that knows a script will resume
\* it in this wait and in no other.
CallsMatch ==
    \A t \in Threads :
        LET calls == {c \in 1 .. Len(conn) : conn[c].ctx = "live" /\ conn[c].thr = t}
        IN /\ Cardinality(calls) <= 1 /\ cln[t] = calls
           /\ (vm[t] = "db") <=> (calls # {} /\ ~(vm[t] = "runs"))
           /\ vm[t] = "runs" => calls \subseteq {cur}

\* The fields a call has stored are those of the row it is at: none is written
\* behind the row, and a query is only sent on a connection that is there.
RowsWhole ==
    \A c \in 1 .. Len(conn) :
        LET k == conn[c]
        IN k.ctx = "live" =>
              /\ k.handler # "connect" => k.connected
              /\ k.thr # Nobody /\ k.handler \in {"column", "field"} => k.col = k.seen

\* Every connection that was taken comes back, also when the session of the call
\* ends before the answer.
ComesBack ==
    \A n \in Names, c \in 1 .. MaxConns :
        (n \in DOMAIN pools /\ c \in ToSet(pools[n].busy))
            ~> (n \in DOMAIN pools /\ c \in ToSet(pools[n].free))

=============================================================================
