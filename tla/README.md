# A TLA+ model of ngx_squirrel_module

ngx_squirrel_module puts the Squirrel language into nginx: scripts serve HTTP
requests and TCP, UDP and UDT sessions, run at the start of a worker, and use
sockets, files, databases and a few protocols through objects of a script API.
The modules here describe the parts of it that are hard to test, check them on
small instances with TLC, and prove what matters most with TLAPS.

Line numbers below are of the files under `src/src/`.

## 1. The system

| Component | Keeps | Operations | Talks to |
|---|---|---|---|
| script thread, `core/ngx_squ.c` | one `ngx_squ_thread_t` per request or session: stat of the script, buffers, VM, reference | check_script, load_script, aio_read, handler, thread_create, thread_run, thread_destroy | cache, parser, and the `output` and `finalize` callbacks of whoever made it |
| script cache, `core/ngx_squ_cache.c` | one shared zone: slab pool, rbtree by crc32 and path, LRU queue | cache_get, cache_set, expiry timer of each worker | all workers, through the zone's mutex |
| parsers, `core/ngx_squ_parser.c` | a table of two parsers | parse_default, parse_ssp | script thread (called between read and compile) |
| protocol configuration, `http/` and `tcp/` modules | per configuration: a number for each module, arrays of configurations per level, script directives | create_main_conf, create_srv_conf, create_loc_conf, set_directive, merge | module loader, parsers |
| module loader, `core/ngx_squ_module.c` | the process-wide module table, indexes, counters; a configuration array per cycle | create_conf, squ_load_module, squ_set_directive, init_conf, init_module and the process hooks | all modules; nginx's configuration cycle |
| keyed tables (cache, `dbd`, `btt`, http session) | seven rbtrees by crc32 and key | insert_value, lookup | their components |
| tcp session, `tcp/` | output chain, input buffer, two events | init, close, process, output, finalize, request.recv, response.send | script thread, nginx's connection |
| udt session, `udt/` | the same | the same | the same |
| udp session, `udp/` | output chain | init, process, output, finalize | script thread |
| http request, `http/ngx_squ_http_module.c` | output chain, header state | handler, output, finalize, cleanup | script thread, nginx's request |
| http log, `http/ngx_squ_http_log_module.c` | a thread of its own while the request is freed | the log handler | http request |
| http script API, session store | request fields; two shared rbtrees | request, response, variable, session | http request |
| autorun, `core/modules/ngx_squ_autorun_module.c` | one flag in a shared zone, a thread | configuration, process_init, process_exit | script thread, all workers |
| utils (sleep) | one timer event per thread | sleep, sleep_handler, sleep_cleanup | script thread |
| socket object | a handle with a cleanup, two timers and pending operations | open, read, write, close, collection by the VM | script thread, events |
| file object | a handle with an offset, two buffers and a pending transfer | open, read, write, close, collection by the VM | script thread, asynchronous reads and writes |
| database pool, `dbd` | pools of connections, free lists, two rbtrees | execute, get_connection, free_connection | script thread |
| tracker, `btt` | torrents and peers in a shared zone, free lists | announce, get_peer, free_peer | http and udp handlers |
| http, smtp and dahua clients | a connection and a dialogue | connect, send, receive, parse | script thread, events |
| axis2c, logger, debugger | - | library calls, one log line, nothing that is called | - |

**What is hard.** *Concurrency*: a worker is single threaded and its scripts are
coroutines, so within one worker the interleaving is that of calls which suspend
a VM and of events that wake it; between workers the cache, the tracker, the
session store and the autorun flag are shared memory under one mutex each, and a
check under the mutex is stale after it. *Failure*: every allocation may fail half
way through an operation; a connection may go away at any suspension; a worker may
die with a flag set in shared memory; a configuration may be refused after it has
changed global tables. *Ordering*: what a `stat` saw, what was opened and what was
read may be three versions of a script; a flush moves the end of the output chain
back. *Timeouts*: timers are set per call and deleted per event, and `timedout` of
an event stays set. *Limits*: a fixed module table, a slab zone, a buffer sized
before its content is known.

**What makes each part correct.** Cache: its three structures agree, no thread runs
code older than its stat, a copy fits its buffer, entries go only for a reason and
do go. Parser: output fits, calls of print are paired, a page means what it says.
Module loader: a module finds its own configuration, before and after reloads.
Protocol configuration: its own slot at every level, the innermost directive
wins, the parts of a script come from one directive. Session: output in order, woken
only by what it waits for, thread released once, every call ends. Objects: an event of
one never resumes a script that waits for another; what was freed is not reached; a
dialogue keeps its order; a body is whole. Database pool: lists, counters and calls
agree, the limit is kept, connections come back. Autorun: one runner per zone, and one
there is. Tables: what is in them is found. Tracker: a record is in one place, a peer
on one side, an answer leaves nobody out. Reply to a request: what is sent is what was
printed, and as long as it says. Files: the kernel is asked for what lies in the file as
the call found it and for no more than the buffer was made for. What is not modelled, and
why: section 7.

## 2. The modules

| Module | Models | Used by |
|---|---|---|
| `ScriptService` | what a thread may rely on when it asks for a script | `ScriptCache`, which implements it |
| `ScriptCache` | cache and script thread up to the running closure | `MCScriptCache` (instances), `ScriptCacheProofs` |
| `KeyTree` | insert_value and lookup of the seven tables over red-black shapes | `MCKeyTree` |
| `SspParser` | both parsers, one byte per step | `MCSspParser`, `SspParserProofs` |
| `TcpSession` | one tcp session: thread, output, recv, send, sleep, timeouts, close | `Sessions`, its own cfg, `SessionsProofs` |
| `Reply` | what the client of a script may rely on, over any protocol | `Sessions`, which implements it |
| `Sessions` | EXTENDS `TcpSession`: a session of tcp, udt, udp or http, the loading of its script, the log script | its own cfg, `SessionsProofs` |
| `ModuleLoader` | module table and configuration array over reloads | `ProtocolConf` |
| `ProtocolConf` | EXTENDS `ModuleLoader`: a block of http, tcp, udp or udt in the configuration, its levels, arrays, directives and merge | `MCProtocolConf`, `ProtocolConfProofs` |
| `Autorun` | worker processes, zones and the running flag | its own cfg, `AutorunProofs` |
| `ScriptVm` | the VM of one thread as objects see it: runs, waits in a call on an object, ended | the next four |
| `SocketHandle` | socket objects and their collection | `ScriptObjects` |
| `SmtpClient`, `HttpClient` | the mail call, the http call | `ScriptObjects` |
| `FileHandle` | file objects, their asynchronous transfers and their collection | `ScriptObjects` |
| `ScriptObjects` | one session using them: they share the VM and the pool of the session | `MCScriptObjects`, `ScriptObjectsProofs` |
| `DbdPool` | pools of connections and the execute call of one worker's sessions | its own cfg, `DbdPoolProofs` |
| `Tracker` | the tracker's zone and the announce of http scripts, over all workers | `MCTracker`, `TrackerProofs` |

In each module the operators whose comment starts with *Variant* are mistakes a
programmer could make there. Nothing in the specification uses them; putting one in
place of the definition that follows it must break the property it is paired with in
`PROJECT.json`, which shows that the property depends on the code.

### ScriptCache

One critical section of the zone's mutex is one action: `CacheHit`, `CacheStale` and
`CacheMiss` are the three ends of `ngx_squ_cache_get`, `SetPresent`, `SetInsert` and
`SetNoMemory` those of `ngx_squ_cache_set`, `ExpireTimer` a firing of the timer
(two nodes at most, from the tail, while they are dead). Between them stand the
steps of `ngx_squ_load_script`: `CheckScript` (stat), `OpenScript`, `ReadScript`,
`Compile`. Any other worker may run between two steps, and `WriteScript` may rewrite
the file: `hist[s]` lists the (mtime, size) labels of its versions. A read returns
the opened version or, where the file was rewritten in place, a later one, cut off at
the size of the stat. Bytecode is a record: the version it came from, whether the
read was whole, its length. `clock[w]` is the second that `ngx_time()` has cached in
worker `w`, which lags behind the wall clock; `Expire[w]` differs between workers
after a reload, because old and new workers share the zone. A lookup may miss a
node when another path with its crc32 is in the tree (`MayMiss`); `KeyTree` shows
exactly when it does.

`slab`, `tree` and `queue` are kept apart although they ought to agree: that they do
(`IndexAgrees`) is the first thing shown.

`ScriptService` is what all this is for. It has scripts that are rewritten and threads
that ask and are given code, and neither cache nor worker nor clock. `Reader` maps a
thread of `ScriptCache` to a reader: it asks with its stat, and it is given the code
with which it starts to run, of a version no older than one with the label it saw;
wherever the code came from may not be seen. `ImplementsService` says that every step of
`ScriptCache` is one of the service or none.

### KeyTree

The module is there to show one disagreement (section 6, 1) and to give the other modules
their lookups: `MayMiss` in `ScriptCache` and `Lookup` in `Tracker` return "not found"
where another key has the crc32 of the one looked for. The tables differ in one place. At a node with the key's crc32 the session tables
compare the key with the node; cache, database and tracker tables compare the node
with the key and turn the other way (`Mirrored`). The tree is modelled with its
shape; after an insertion or a deletion it takes any shape over the same in-order
sequence in which no path is more than twice as long as another. That is what
nginx's rebalancing guarantees, and at most more shapes than it produces: a property
that holds, holds for nginx's shapes, and the shapes of the two counterexamples are
three or four nodes with a valid colouring.

### SspParser

One step handles one byte, as the loop of `ngx_squ_parse_ssp` does; the states carry
its names. Bytes the parser does not tell apart are one value. `out` is kept as
pieces (bytes, and the six literals that are put around them) and `len` as the sum
that decides whether `thr->buf` is overrun.

### TcpSession

The script is the environment: while `vm = "running"` it may print, call recv, send
or sleep, or end, in any order. While it is suspended the event loop delivers what is
armed. `Close` is what `ngx_tcp_close_connection` sets off: close_session, deletion
of timers, destruction of the pool and its cleanups. `held` counts the references on
the VM that `ngx_squ_thread_create` and `ngx_squ_thread_destroy` take and give back.
A print for which there is no memory is dropped by the code without a trace and is
not a step of the model. The data that is sent is kept as the list of its positions,
so that loss, repetition and reordering are all visible.

### Sessions and Reply

A session has a protocol and keeps it. The code has the output function four times and
the handlers of tcp twice, so that the actions of `TcpSession` serve again: `Udt` is
those of `src/udt` by name, `Udp` and `Http` are what differs. `stage` says where a
request is: while its script file is read (`loading`, the asynchronous read of
`ngx_squ.c`), after its script has ended and while nginx sends the response (`reply`),
while its log script runs (`log`). `orphan` is a session that was closed while its script
was read; the model has the step in which the read completes and nothing after it.
`UdpFinalize` is what the end of a udp script does, whatever it ended with; `HttpFinalize`
the same of http. `Reply` is the byte pipe all four are shown to implement: a client is
sent, from the first byte on, some of what has been printed, and nothing when the session
has ended. That udp sends only the first of its buffers keeps to it; sending another one
alone would not. A log script runs while the request is being freed: it may print and go
to sleep like any other, and is destroyed in the same breath.

### ModuleLoader

A reload calls create_conf, then the directives, then init_conf; when anything fails
nginx goes on with the old cycle (`active`, with the globals as they are by then), and
`StaticSurvives` asks what a worker that is started in that situation finds.

### ProtocolConf

`OpenBlock` is create_main_conf of the four protocols: it numbers the modules of the
protocol through the module table and makes the arrays of the main level. `OpenLevel` is a
server or a location, `PutDirective` a line for a protocol module, `SetScript` and
`SetScriptParser` the script directives, `CloseHttp` and `CloseTcp` the merge of every
level into the next one. squ_load_module may come before, between and after. `serving`
keeps what the cycle in use was given: `OwnBlockConf` asks what a worker started later
finds there with the numbers as they are then. Bounds: a file has one block with one
chain of levels (a merge sees no more than an outer and an inner level), a protocol
module has one scope and one directive, `if` blocks are left out, and a module's own
merge is taken to let the inner value win. The number of a module is that of the entries
of its kind up to the last one it has (`Counted`), which is what the counter of the loop
leaves in it; the merge of a chain is written out for the four levels it can have.

### ScriptVm, SocketHandle, SmtpClient, HttpClient, FileHandle, ScriptObjects

`vm` is a call and the object it is on. A call that suspends sets it; the handler that
resumes sets it back. Sockets and the two calls install handlers on the events of their own
connections, by the same pattern: a dummy handler while nothing waits, a timer while
something does. `WokenByItsOwn` is the conjunction of what each of them promises about
the one VM. While a handler runs (`at`, for the two calls whose handlers call one
another) nothing else does. A socket handle has three owners: the userdata of the
script, the cleanup of the session, and, while it connects, its write event; the
collector of the VM may run whenever a script drops the userdata. Mail goes command by
command and pieces of reply by pieces; a response of the http call is a sequence of
units that the parser tells apart, read in any division; its body begins after the first
empty line that follows the status line and headers, where the parser stops (`HeaderEnd`).
`HttpAssumption` says what the responses of an instance may be: what is announced is the
length in the header, where there is one.

A file handle keeps offset, size and two buffers from call to call, also from calls it
refuses; bytes are counted in units and the handles are on one file of `length` units.
An `open` may truncate the file and may append to it, where a write takes no offset
(`WritesAt`); other sessions and programs shorten or extend it at any time
(`FileElsewhere`). A buffer is its size and whether its memory is still the pool's: a
growth that fails has given it back and leaves the handle with the old size (`NotGrown`).
A read or write is refused, finds no memory, ends at once, or is given to the kernel
(`aio`) and suspends the script; it may transfer less than it was asked for. `eof` is the
length of the file when the kernel was asked. The completion comes at any time, also when
the session has ended (`thr` is then cleared by the cleanup) or the handle has been
collected. `uses` picks what kinds of objects the script of this session has, so that an
instance need not have all kinds at once.

### DbdPool

`conf` is shared memory, the pools and connections are the worker's own. `cur` is the
connection whose handler runs, `at` whether the server has sent something that it has
not read. A call may be begun by `execute` itself up to the end of an answer, or be
carried on by events (`Answer`). `cln` is what the cleanups in the pool of a session
point to: when the session ends they take the thread away from its call, which goes on
without one and gives its connection back. A limit of 0 is none: a pool is full where the
connections in use are as many as its limit, and there is one in use by the time it is
asked again. `MaxConns` bounds what a worker makes.

### Tracker

One announce enters the zone twice, `Update` and `Query`, and any worker may come between.
A torrent is found or made, then the peer in it, then its info; each may fail with the
slab exhausted and leave what was made before. `GetTorrent`, `GetPeer`, `GetInfo`,
`MoveInfo` and `FreePeer` are the functions of those names as changes of a record of the
lists, so that a critical section is their composition. The loop of `GetPeerList` ends at
the end of the queue or when it has enough: its answer is the peers of the queue but the
one that asks, up to the place where numwant of them are found. `Full` is the comparison
that counts them: with a numwant of 0, what an announce without the argument has, the
loop never has enough, and the answer is all of the queue (section 6, 7). `said` is not in
the code: it is what the client has last told, to compare the lists with. A worker that
meets a peer without an info dies (`died`); the master frees its mutex and starts another.

### Autorun

Worker processes are born once, so that a respawn is another process. nginx reuses a
zone of the same name and size; the model gives a zone a size and a new number when
it is not reused.

## 3. The runs

| Run | Shows | Instance and why it is enough |
|---|---|---|
| `cache_reload` | agreement of slab, tree and queue, fresh code, no code of a cut-off read, copy fits, one node per path, removal for cause, implementation of the service | two workers with expiry 1 and 0, a thread each, one script, two versions with two sizes, two bytecode lengths, a page of 4 (so that the two sizes give buffers of 4 and 8), time up to 2. Every race of the cache has two threads on one path; two versions give the stat, the open and the read a version each to disagree about; two seconds let one entry expire for one worker and not for the other, and be made young. 689 thousand states |
| `cache_collide` | `ExpiredTailLeaves` (liveness) under a crc32 collision | two threads of two workers, two scripts of one crc32 (one inline in the configuration), two chunks: the pool is full while both paths are in it. 457 thousand states |
| `tree_cache_miss` | *violation*: a key in the tree is not found | trees of up to five nodes |
| `sessions` | order of output, wakings, release, length of a response, every call ends, implementation of `Reply` | a session of each of the four protocols, http with and without a body; buffers of 2, prints of 1 and 3 (one fits, one needs a buffer of its own), 5 bytes in all (three buffers and a rewind), one byte of input. 94 thousand states |
| `tcp_no_data` | *violation*: "no data" while data waits | the same, of tcp alone |
| `protocol_conf` | own configuration, directives stick, what a worker of the old cycle finds; own slot in a block, innermost directive, one directive per script | a table of 9, five linked in (a core module and one of each protocol), a file of one module and one of two, of which one is of udp, two configurations of three lines around and inside one block: a file is loaded twice, a failure leaves half a file, a module moves between two configurations. 2.3 million states |
| `autorun` | one runner per zone, the flag is true, some worker runs the script | three processes, two at a time, two zones, two reloads |
| `ssp_parser` | output fits, prints paired, pages mean what they say | all sequences of up to 5 of 8 byte kinds (every state and every pair of successive quoting bytes), pages of up to 3 of 15 segments that hold what the marks could be taken for, and the page that grows most for its size repeated up to 12 times. `PageSize` is 286, the least for which the output fits; 285 is violated |
| `script_objects` | wakings, reclaiming of handles, order of the mail dialogue, whole bodies, transfers that fit, every call ends | scripts with a socket and the mail call, a socket and the http call, or a file; one handle of each kind, two recipients, replies of up to two pieces, six responses that fit a buffer, overflow it, say too much, say nothing or are none; a file of up to 3 units that anyone may change and buffers of 2, so that a buffer is too small for a later call, a growth may fail and a transfer may find less than it was asked for. The calls of one script exclude each other: one handle and one call show every meeting of an event with a wait for something else. 195 thousand states |
| `file_buffer` | *violation*: a transfer into a buffer that was freed | a script with a file alone |
| `dbd_pool` | lists, counters, limit and calls agree, whole rows, connections come back | two sessions, one pool whose limit is 1 or 0 (none), at most two connections, an answer of one column and up to one row |
| `tracker` | records in one place, a completed peer on one side, whole answers that stop at numwant, what a full zone does | two workers, two torrents, three peers of which two have one crc32, so that a lookup may miss a peer that is listed; three torrents and six peers or infos fit the zone. A peer and its info take two of the six, the one that asks among them, so that a torrent of three peers fits and leaves nothing: an announce may find the zone exhausted at each of its three allocations. numwant is 2, 1, or 0 as where none is given: the answer is limited in either list (`btt.c` 274, 96), filled from both, short, or all there is. Workers, torrents, and the two peers of one crc32 are symmetric. 534 thousand states |

Deadlock is checked in the runs of cache, tracker, `dbd_pool` and the tables, where
something can always happen. A session ends, a parser returns, and configurations,
reloads and processes are bounded: those runs may stop.

### Liveness and fairness

`ExpiredTailLeaves` assumes that time passes, that every worker's event loop turns
(and refreshes its clock) and that its timer finds the mutex free now and then. The
timer is armed again on every path of `ngx_squ_cache_expire`, also when the trylock
fails. No client is assumed to do anything. `CallsEnd` assumes that armed timers fire,
which is nginx's event loop; the 60 s timers of recv and send are armed on every path
that suspends. A partial write arms the timer again: in the model, as in the code, a
client that reads a little now and then would keep a send alive, until everything is
sent; what the script has printed is finite, and a script that waits prints nothing.
For `sessions` it is assumed besides that a log handler returns: it is one call.
`CallsEnd` of the objects assumes the same of the timers of each object, and that a
handler that runs comes to its end; a readiness event without data may come any number
of times and is not counted on. Files have no timer, as in the code: the kernel is
assumed to complete what it was asked for. The mail call before the greeting is excepted
(section 6, 13). `ComesBack` has no timer to rest on, as the database code sets none: it
assumes that the server answers, that the library calls a handler when it has, and
that no script keeps the worker for ever.
`ScriptIsTaken` assumes that the master starts workers and that the initialisation of
a worker is run; it gives up where all processes of the bound have been used.

## 4. What is proved

All theorems hold for every value of the constants that satisfies the module's
`ASSUME`.

**ScriptCacheProofs.** None of the properties is inductive as it stands. Fresh code
in a running thread depends on every entry of the cache, put there by any worker at
any time, standing for its label; that depends on every thread that compiles, on what
it opened being no older than what it saw, and on versions being appended only.
`IInv` is the conjunction of the type invariant, `HistInv` (a script has a version),
`IndexInv` (slab, tree and queue hold the same nodes, each once), `EntryInv` and
`ThreadInv`. The last two say the same of an entry and of a thread (`CodeOK`): some
version no newer than the code's has the label; code of a cut-off read comes from a
version larger than the label says; the length fits the buffer for the label's size.
`CacheHit` moves the fact from an entry to a thread because the two labels are equal,
`SetInsert` moves it back. Theorems: `TypeCorrect`, `CacheIndexAgrees`, `FreshCode`,
`WholeCode`, `CodeFits`. `CachedOnce` needs no more than `IndexInv` besides itself: the
lookup in `SetInsert` may miss only where a path collides. `LeavesForCause` is an action
property: only `CacheStale` and the timer take nodes away, the first the node of the
thread's own script when its own stat or its own worker's clock is against it, the second
what is past its expiry by the clock of the worker whose timer it is.
`CacheServes` shows the refinement, `Spec => ImplementsService`:
under `IInv` a stat maps to `Ask`, the step that makes a thread run to `Give` with the
version that `CodeOK` provides, the end of a request to `Leave`, a rewriting to `Write`,
and every other step, among them all of the cache's own, to a stutter. Collisions are covered: nothing in the argument depends on a
lookup finding what is there.

**SessionsProofs.** First of a tcp session: `WokenByItsOwn` and `ReleasedOnce` from an
invariant `Life` which ties `ref` and `held` to the states of the VM in which a thread
exists. Then the same two of a session of any protocol. The invariant `SInv` is
`Life` in all stages but `reply`, where an http script has ended and its request has not
(`Replying`); a step of another protocol is then one of the first part (`TcpLikeStep`,
`GoneStep`), or leads into or out of `reply`.

Then what is sent. A chain of buffers means the join of their data, a recursive function
(`FlattenSeq`) of a chain of any length. `Laid` gives each buffer the offset in all that
was printed at which it begins, and `FlatLaid` says that the first `n` buffers together are
the run of bytes up to the next offset. This is an induction over the positions of the
chain, which needs no operator as a parameter: the set of positions for which it holds
is all of them (`UpTo`, from the well-foundedness of the subsets of `1 .. n`). From there
on `Drop`, `Rewound` and `Output` are about offsets (`DropIs`, `RewoundIs`, `PrintHolds`).
`OutInv` is the invariant: what is sent is the run up to `Len(sent)`, the chain holds the
run from there to `printed`, and behind the buffer written last every buffer is empty.
Without the last part a print after a rewind could overtake what is left in a later buffer.
`Kinds` reduces the steps of all protocols to five kinds: silent, a print, a write, the
sending of an http body, and the end of a udp session, which sends the first buffer and
leaves it in the chain, so that `OutInv` ends with that session (`OInv`).
`SessionsOutputInOrder` follows; `SessionsLengthSaid` adds `WebInv`, that nothing is sent
or said before an http script has ended and nothing printed afterwards; and
`SessionsAnswer` is the refinement of `Reply`, step by step (`AnswersStep`).

**ScriptObjectsProofs.** `WokenByItsOwn`, `Reclaimed` and `TransfersFit`. Each kind of
object has an invariant of its own (`SocketInv`, `MailInv`, `HttpInv`, `FileInv`) that
speaks of the VM only as far as it waits for that object. A step of one kind takes the VM
from running to a wait for it or back (`Turns`); the waits of two kinds are disjoint
(`Distinct`), so that the step leaves the others what they are (`Apart`). For sockets and
files the invariant is about one handle by itself (`Fits`, `FileFits`): the handler
installed, the owners left and the call the script waits in, in a session that has ended
or not. The end of a session re-establishes all four at once (the four `...Cleaned`).
`TransfersFit` adds what a pending transfer spans (`Spans`), and is about the length the
file had when the kernel was asked (`eof`), since an `open` that truncates or anyone else
may shorten it meanwhile: the kernel then transfers less, which the call bears. Of
`Reclaimed`, `SocketReclaimed` has the exceptions of section 6, 12, and `FileReclaimed` says
nothing of the cleanup of the session, which may lead to a freed handle (section 6, 5), nor
does `TransfersFit` of whether the memory of a buffer is still the pool's
(`BufferLives`, violated). Assumed is that handles, files, mail and the http
call have different names, and of a response what `HttpAssumption` says of it.

`MailInOrderHolds` and `BodyWholeHolds` are about what is said on a connection. A mail has
no sequence number: `DialogueInv` says that the state and the counter of recipients are
the place in the dialogue up to which it has been sent (`Placed`), whatever pieces of
replies have come, so that the command of the next state is the next of the dialogue.
`FetchInv` follows a response through its two buffers: while the header is parsed, what was
read holds no empty line so far; behind it the length that remains has been counted down
by just the units of the body, and the second buffer was made with room for exactly what
is to come. What `Body` joins is then without a gap, and the read never asks for more than
fits (`Fetches`, `Returned`).

**AutorunProofs.** `OneRunner` and `FlagIsTrue`. Each needs the other: a claim is made
where the flag is clear, and that no other worker has taken the script then follows
from the flag being true. `IInv` adds that a configuration with a size has a zone and
that only a forked process of a configuration with a script has taken anything.

**SspParserProofs.** `ParserOutputFits`: with pages of memory of at least 300 bytes no
script overruns `thr->buf`. The worst page is a repetition of `a<%=a%>`, 25 bytes out
for 7 in, so that `4 * size` has 3 bytes in 28 to spare; the invariant bounds `len` by
25/7 of what was read and, in each state, a credit for what has been read and not yet
written about (`Slow`). Only the constant part (the frame of the function, an open
print) needs the page. 300 is what the argument needs and any machine has; TLC finds
286 to be the least.

`ParserPrintsPaired` is about the literals among all that was written, whatever the length
of the script. `KeptAppend` says what one more piece adds to them (an induction over
positions again, `KeepsExists` and `KeepsAlike`); the invariant `PInv` says in which states
of the parser they are pairs (`Paired`) and in which one call of print is open (`Opened`).

`ParserMeansThePage` is about a page made of segments, any number of them and of any
length: the script the script the parser makes prints the text, keeps keeps the code and prints the
expressions, each in its place. Its assumption, `Readable`, says which pages it is about,
namely those whose segments the two marks `<%` and `%>` tell apart and whose texts are what
is printed: no text has `<%` in it
or `<` at its end (the parser takes that `<` for the mark's and the mark for text) and none
a quotation mark (text is copied as it is into the verbatim string `@"..."`, which a
quotation mark ends: section 6, 9), no two
texts stand in a row, and in a block every `%` is in a string. What a string is, `Strings`
and `Escapes` say as an author reads it. The parser reads a little less: it does not examine
the first byte of a block, a quotation mark behind an escaping backslash ends the string for
it, and a backslash before a `%` goes on escaping; blocks with these are not readable, and
nothing in the repository says what they should become. TLC evaluates the assumption for
all pages of the run. The invariant `MInv` has two functions: `s[k]` is the source of the first `k`
segments, `m[k]` what they mean (`Joined`). It has one alternative for each place the
parser may have come to (`Reading`): between two segments, `j` bytes into a text, into the
mark of a block, into its body or its end. Each says where `pos` is (`At`) and what has
been written, `m[k - 1]` and so much of segment `k` (`Wrote`); in a block `Quoted` says
that the parser's `backslash`, `dquoted` and `squoted` are what the author has in mind at
this byte. A "<" in a text is written a byte late (`PendingText`), and `print` is opened
with the first byte of a text and closed with the mark that follows. `NextByte` finds the
byte the parser reads next in the segment where it stands, `ByteMeans` takes the
alternatives one by one, and `EndsBetween` shows that the parser ends at the end of the
last segment, so that `FinishMeans` has the whole page.

**DbdPoolProofs.** `PoolsAgree`, `CallsAlwaysMatch` and `RowsAlwaysWhole`. Between
handlers the properties are about all connections; inside one they are not true yet, as a
connection is put into a queue, made or given back in the middle of a handler. `IInv`
therefore has `PoolInv` (each queue holds, once, the connections of its pool in that
state, and its counter is its length), `ConnInv` (of one connection: the counters of
columns and rows by the place in the chain of handlers) and `CallInv` (of one session:
what it waits in, its cleanups, and the one call that is its own), and names what `cur`
may be in. The limit is kept because a connection is made only where none is free and
those in use are fewer; a limit of 0 is passed by the first and then never met. Assumed is
that limits are natural numbers and that the names of sessions and pools differ from the
values that stand for none.

**TrackerProofs.** `RecordsAlwaysOwnedOnce`, `CompletedNeverLeeches`,
`AnswersAlwaysComplete` and `OnlyFullZoneEverKills`. The invariant is stated of a zone `z`
and not of the variables, because a critical section is a composition of functions and
must be followed from one to the next: `ZoneType`, `Owned` (a record is in one place),
`Keyed` (a peer is listed once for a torrent and side), `Speaks` (the lists are what
`said` says) and `NoneBare` (a peer without an info means that the zone is full). Each
function has a lemma that says what it returns, keeps and may fail with; where it fails,
what it changed before that is still a zone (`ZoneOK`). `Updated` is what an announce has
done when its first section is over, however it ended; `CallInv` carries into the second
section what of it other workers' announces cannot take back. That an answer leaves out
nobody it has room for needs no induction over the queue, because the place where the loop
stops is determined by how many peers lie before it. That it is no longer than numwant
does: `Grows` says that the peers found in a run of the queue are at most one more with
each place, and `GrowsWithin` and `PeerListWithin` that the loop, which stops at the
first place where they are numwant, has no more of them. numwant may be any natural
number; an answer to 0 is empty or has everybody. Lookups may miss as they like (`MayMiss`): no part of the
argument relies on a hit.

**ProtocolConfProofs.** Of the loader, `OwnConfHolds`, `DirectivesAlwaysStick` and
`StaticAlwaysSurvives`, by `LoaderInv`: the modules that are linked in come first in the
table and stay there, whatever half of a file is entered behind them (`StaticFirst`), so
that their index is their place in every configuration (`StaticIndex`), also in one that
is abandoned; any other module of the table has as its index an entry of its own, with its
own configuration at it (`Indexed`). That is why a reload that fails may leave indexes of
other modules behind, but not of these.

Of the blocks of http, tcp, udp and udt, `OwnBlockConfHolds`, `InnermostAlwaysWins` and
`OneDirectiveHolds`. `CtxOK` says of a linked-in module that its number is the count of the
static entries of its kind up to it (`StaticNumber`), which no load changes, so that the
number survives a later numbering that fails; of another module, only that it was numbered
in this configuration if its block is open. Numbers of different modules differ because a
count grows at every entry counted. `Opened` is the invariant of a block up to level `n`:
each array has the module's own slot (`Own`), each slot holds what was last said at its
level (`SaidLast`), each script what its directives gave (`IsGiven`). A merge then goes
level by level: `MergedIs` says what an array is after `n` merges, `CameFrom` that the
fields of a merged script are all of the last directive given at or above the level, which
is where it matters that each directive sets every field that inheritance looks at
together. The chain of levels has at most four, so that the argument needs no induction.

## 5. What is only model-checked

Every safety invariant, action property and refinement of a passing run is the statement of
a theorem. What stays with TLC is:

* Liveness (`ExpiredTailLeaves`, `CallsEnd`, `ComesBack`, `ScriptIsTaken`) is beyond the
  prover.
* `KeyTree` needs recursive operators, which the prover does not take; its runs are there for
  what they refute.
* `ScriptObjects`, `Sessions`, `DbdPool` and `Tracker` are proved safe; that their calls
  end, or that a connection comes back, is liveness and rests on the runs.

## 6. Where the code disagrees with itself

1. `ngx_squ_cache_lookup` (280) turns the wrong way among equal crc32, and with it
   the lookups of the database and tracker tables: a path in the cache is reported
   "not found" and compiled and inserted a second time. The cache stays consistent
   (theorem `CacheIndexAgrees`), because its users bear with a miss.
2. The session lookups stop at the first node with another crc32 below a node with
   the key's (`ngx_squ_http_session.c` 248-250): keys further down are not found. This
   is seen in the source and in `Among`; the run shows the other kind of table.
3. `response.send` answers "no data" when the data is in the second buffer
   (`ngx_squ_tcp_response_module.c` 77). From then on the session cannot send, because
   only a complete flush would rewind the chain. The udt handler is the same.
4. `ngx_squ_file_read` frees a buffer that is too small before it asks for a larger one;
   when there is no memory for that one, the handle keeps the old buffer, and a later and
   smaller call transfers into freed memory (`ngx_squ_file_module.c` 295, 374; run
   `file_buffer`).

Seen while modelling, without a run of their own:

5. The cleanup of a file tests a pointer that nothing clears (516): when the collector has
   destroyed the handle, the end of the session writes to what was freed. The collector
   of sockets clears it; `FileGc` and `FileCleanup` are as the code is.
6. A location that runs scripts and names no parser gets the parser "lsp"
   (`ngx_squ_http_module.c` 789), and only "ssp" and "default" are registered
   (`ngx_squ_parser.c` 423): the sample configuration has such a location
   (`conf/nginx-win32.conf` 100-107), whose parser is a null pointer (`Inherit` of `Find`
   in `MergedScripts`). tcp falls back to "default".
7. An announce that does not say numwant, or says 0, gets room for no peers, and
   `++peers_n == numwant` (`ngx_squ_btt.c` 274) is never true: where the torrent has another
   seeder, every peer of both lists is written behind that room; where it has none, line 96
   takes 0 peers for enough and the leechers are left out (`AnswerComplete`).
8. `ngx_squ_parse_ssp` returns NGX_OK after what it calls a syntax error; the part of
   the page before it is compiled, cached and run (`Finish`).
9. `ngx_squ_parse_ssp` copies the text of a page as it is into a verbatim string
   (`ngx_squ_parser.c` 177-215), and doubles no quotation mark: `<a href="x">` ends the
   string at its first one, and the script is another or does not compile. `Text` leaves
   such pages out of what `MeansThePage` is about.
10. Counters of modules and handles are never reset: `ngx_squ_load_module` refuses a
    configuration for modules that only earlier configurations asked for
    (`LoadModuleLimit`).
11. The cache knows a script by its path alone, so that two locations with one file and
    two parsers share the code of one of them. A module of a protocol that is loaded after
    the block of the protocol has begun has no number yet, or an old one, and its directive
    would write the slot of another.
12. An `open` of a socket that fails after its cleanup was registered leaves the cleanup
    pointing into the destroyed pool; a session that ends while its socket connects
    leaves a connection with nobody to close it; a connect that times out leaves its
    handle and connection to no one; a socket that timed out once stays timed out. The
    first two are the exceptions that `SocketReclaimed`, a part of `Reclaimed`, names.
13. The mail call reads the greeting with a handler entered for the write event, and the
    timer it sets then leads to the dummy handler: a server that never greets is waited
    for until the session ends. `SmtpWakes` and `CallsEnd` name the exception.
14. A database connection stays marked as connected after its query has failed;
    `destroy_pool` is a TODO.
15. `ngx_squ_http_finalize` does not look at what the script ended with: one that throws
    half way, or cannot be loaded once the body was read, is answered 200 with what had
    been printed, and with the right length (`LengthSaid`). The header of a HEAD request
    is sent before the length is known.
16. `ngx_squ_udp_finalize` sends the first buffer of the chain; the rest of a longer page
    is dropped with the connection (TODO in the source).
17. The read of a script that is pending when its tcp, udt or udp session is closed
    completes on freed memory (`ngx_squ.c` 431; stage `orphan`). http holds its request
    for it.
18. A file: a transfer that is pending when the session ends may outlive its handle
    (`FileReclaimed` allows for it); a refused call leaves its offset for the next one; a
    short write is not continued (TODO).
19. The tracker: a peer that has been a seeder and announces bytes left is listed on both
    sides, one that stops stays listed, and nothing expires (compiled out). A refused port is
    compared with NGX_ERROR in a type of 16 bits that cannot equal it. `OnlyFullZoneKills`
    names how the lists kill a worker: by a peer for whose info there was no room.
20. `ngx_squ_tcp_request_recv` does with `s->buffer` what item 4 says of files.
    `RecvNoMemory` has no buffer that could be freed.
21. Tracker, udt and file functions still call the API of another script language in
    places (`ngx_lua_...`), and cannot be built as they are; they are modelled as they
    read.

## 7. Not modelled, and the plan

Out of the model for good: the Squirrel VM (a script is any sequence of API calls),
formatting, logging, the bindings of axis2c and the logger (one library call each),
the debugger (never called). External and modelled by what the code relies on: nginx's
connections, timers, slab pool, queues, rebalancing, configuration cycle and processes.

Not modelled, though it is code:

* The dahua client (`core/modules/ngx_squ_dahua_module.c`) is unfinished and left out of
  the build (`NGX_SQU_DAHUA=NO`): snapshot and audio are empty, the parser of video
  frames is compiled out, and login, ptz and video go on at places marked TODO. What is
  there disagrees with itself too often for a promise to be stated: the write handler
  stays installed after a request and would resume the VM a second time, a partial
  answer is waited for without a timer (954-957), `login` and `ptz` return true when they
  failed, and a second `video` loses the connection of the first.
* The tables of the http script API (request, response, variable) and of the other
  protocols read or write one field within one call; the body of a request that is in a
  file is marked TODO there.
* The operations of the session store are empty functions marked TODO; the udp handler
  of the tracker reads its datagram and does nothing with it.
* axis2c, logger, debugger: see above.

Known limits of the present modules: a module table with no NULL left
(`ngx_squ_module.c` 404) and the parser table that grows with every configuration
(`ngx_squ_parser.c` 423) read or write past an array, and the models stop short of
both; what a completion does on freed memory (section 6, 17) is not the code's choice and
ends the model of its session; a cached closure that cannot be read back ends its thread,
as any failure does.

No proof is left that this prover could check. What the models could still take in is
named above: a session whose read completes after its end, the arrays without an end mark,
and the parts of the http script API that wait for a body.
