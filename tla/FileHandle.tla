---------------------------- MODULE FileHandle ----------------------------
(***************************************************************************)
(* The file object of core/modules/ngx_squ_file_module.c, where files are  *)
(* read and written asynchronously.  A handle keeps from one call to the   *)
(* next an offset, which a call without one goes on from, and two buffers, *)
(* which grow when a call needs more than they hold.  As a socket does, it *)
(* has a pool of its own, referred to by the userdata, by a cleanup of the *)
(* session and, while the kernel works on it, by the event of a transfer.  *)
(*                                                                         *)
(* Bytes are counted in units.  Other sessions and programs have the file  *)
(* as well and may empty, shorten or extend it at any time.                *)
(***************************************************************************)
EXTENDS ScriptVm, Integers, FiniteSetsExt

CONSTANTS
    Files,          \* handles
    Default,        \* an argument that is not given
    FilePage,       \* units of the smallest buffer (ngx_pagesize)
    FileMax         \* bound: the longest file, and offset in a call

ASSUME FileAssumption == FilePage \in Nat \ {0} /\ FileMax \in Nat \ {0}

VARIABLES
    file,           \* file[h]: the ngx_squ_file_ctx_t of h
    length          \* of the file on disk; all handles are on this one

fileVars == <<file, length>>

\* A buffer, and whether the pool still has its memory; b == NULL has no units.
Buffer == [units : Nat, live : BOOLEAN]
NoBuffer == [units |-> 0, live |-> FALSE]

FileCtx ==
    [ctx : {"none", "live", "freed"},       \* the handle's pool
     thr : BOOLEAN,                         \* ctx->thr
     cln : BOOLEAN,                         \* cln_ctx->ctx points here
     udata : {"none", "held", "dropped"},
     fd : BOOLEAN, append : BOOLEAN,        \* open, with NGX_FILE_APPEND
     offset : Int, size : Int,              \* of the last call
     in : Buffer, out : Buffer,
     eof : Nat,                             \* the length, when a transfer was asked for
     aio : {"none", "fread", "fwrite"}]     \* what the kernel works on

NoFile ==
    [ctx |-> "none", thr |-> FALSE, cln |-> FALSE, udata |-> "none",
     fd |-> FALSE, append |-> FALSE, offset |-> 0, size |-> 0,
     in |-> NoBuffer, out |-> NoBuffer, eof |-> 0, aio |-> "none"]

FileInit == file = [h \in Files |-> NoFile] /\ length \in {0, FileMax - 1}

FileBecomes(h, f) == file' = [file EXCEPT ![h] = f]

\* A script that runs holds h.
HoldsFile(h) == vm = Running /\ file[h].udata = "held"

-----------------------------------------------------------------------------
(* open and close                                                           *)

\* With NGX_FILE_TRUNCATE the file is empty from then on, whatever offsets other
\* handles have in it.
FileOpen(h) ==
    /\ vm = Running /\ file[h].ctx = "none"
    /\ \E truncate, append \in BOOLEAN :
          /\ FileBecomes(h, [NoFile EXCEPT !.ctx = "live", !.thr = TRUE, !.cln = TRUE,
                                           !.udata = "held", !.fd = TRUE,
                                           !.append = append])
          /\ length' = IF truncate THEN 0 ELSE length
    /\ UNCHANGED vm

\* The userdata is popped and left to the collector, with the pool; the cleanup
\* is there unless there was no memory for it.
FileOpenFails(h) ==
    /\ vm = Running /\ file[h].ctx = "none"
    /\ \E registered \in BOOLEAN :
          FileBecomes(h, [NoFile EXCEPT !.ctx = "live", !.udata = "dropped",
                                        !.thr = registered, !.cln = registered])
    /\ UNCHANGED <<length, vm>>

FileClose(h) ==
    /\ HoldsFile(h) /\ file[h].fd
    /\ FileBecomes(h, [file[h] EXCEPT !.fd = FALSE])
    /\ UNCHANGED <<length, vm>>

-----------------------------------------------------------------------------
(* read and write                                                           *)

\* Variant: a buffer that is there is taken as it is.
SufficesAnyhow(b, n) == b.units # 0

\* A buffer that is there and large enough is taken as it is.
Suffices(b, n) == b.units # 0 /\ b.units >= n

\* What a call for n units makes of buffer b: any that was made is larger than what
\* a pool hands out of its blocks, so that its memory is freed for another.
Grown(b, n) ==
    IF Suffices(b, n) THEN b ELSE [units |-> Max({FilePage, n}), live |-> TRUE]

\* There was no memory for that other one: the handle leads to what was freed.
NotGrown(b) == [b EXCEPT !.live = FALSE]

\* The kernel has n units for the call in f, or in the file.
Transferred(f, n) == [f EXCEPT !.offset = f.offset + n, !.eof = 0, !.aio = "none"]

\* The kernel is asked, and the call waits.
Asked(f, call) == [f EXCEPT !.eof = length, !.aio = call]

Given(argument, value) == IF argument = Default THEN value ELSE argument

\* What ngx_squ_file_read makes of its arguments before it looks at them: they
\* are in the handle, and a call that is refused leaves them there.
ReadArguments(f, offset, size) ==
    LET o == Given(offset, f.offset)
    IN [f EXCEPT !.offset = o, !.size = Given(size, length - o)]
ReadRefused(f) ==
    \/ f.offset < 0 \/ f.offset >= length
    \/ f.size <= 0 \/ f.size > length - f.offset

FileArguments == {Default} \cup (-1 .. FileMax)

\* ngx_squ_file_read and ngx_squ_file_aio_read: the call is refused, finds no
\* memory for its buffer, ends at once, or waits for the kernel.  An error of the
\* kernel transfers nothing, as 0 units do; so does a handle that was opened for
\* writing only.
FileRead(h) ==
    /\ HoldsFile(h) /\ file[h].fd
    /\ \E offset, size \in FileArguments :
          LET f == ReadArguments(file[h], offset, size)
              g == [f EXCEPT !.in = Grown(f.in, f.size)]
          IN \/ /\ ReadRefused(f) /\ FileBecomes(h, f) /\ UNCHANGED vm
             \/ /\ ~ReadRefused(f)
                /\ \/ /\ ~Suffices(f.in, f.size)
                      /\ FileBecomes(h, [f EXCEPT !.in = NotGrown(f.in)]) /\ UNCHANGED vm
                   \/ \E n \in 0 .. g.size :
                         FileBecomes(h, Transferred(g, n)) /\ UNCHANGED vm
                   \/ FileBecomes(h, Asked(g, "fread")) /\ Suspend("fread", h)
    /\ UNCHANGED length

\* Where the kernel writes for f: O_APPEND takes no offset.
WritesAt(f) == IF f.append THEN length ELSE f.offset

\* What a write of n units makes of the file's length.
Extended(f, n) == IF n = 0 THEN length ELSE Max({length, WritesAt(f) + n})

\* ngx_squ_file_write and ngx_squ_file_aio_write, in the same way: an offset may
\* be the end of the file, and the size is that of the string.
FileWrite(h) ==
    /\ HoldsFile(h) /\ file[h].fd
    /\ \E offset \in FileArguments, size \in 0 .. FileMax :
          LET f == [file[h] EXCEPT !.offset = Given(offset, file[h].offset),
                                   !.size = size]
              g == [f EXCEPT !.out = Grown(f.out, size)]
              refused == f.offset < 0 \/ f.offset > length
          IN /\ WritesAt(f) + size <= FileMax
             /\ \/ refused /\ FileBecomes(h, f) /\ UNCHANGED <<length, vm>>
                \/ /\ ~refused
                   /\ \/ /\ ~Suffices(f.out, size)
                         /\ FileBecomes(h, [f EXCEPT !.out = NotGrown(f.out)])
                         /\ UNCHANGED <<length, vm>>
                      \/ \E n \in 0 .. size :
                            /\ FileBecomes(h, Transferred(g, n))
                            /\ length' = Extended(g, n) /\ UNCHANGED vm
                      \/ /\ FileBecomes(h, Asked(g, "fwrite"))
                         /\ Suspend("fwrite", h) /\ UNCHANGED length

\* The handlers of the event: the result is on the stack of the thread, which is
\* resumed.  When the session has ended they return and touch nothing.
FileWakes(h, f) ==
    IF f.thr THEN FileBecomes(h, f) /\ Resume
    ELSE FileBecomes(h, [file[h] EXCEPT !.eof = 0, !.aio = "none"]) /\ UNCHANGED vm

FileReadDone(h) ==
    /\ vm # Running /\ file[h].aio = "fread"
    /\ \E n \in 0 .. file[h].size : FileWakes(h, Transferred(file[h], n))
    /\ UNCHANGED length

\* A write may be short, and nothing writes the rest of it.
FileWriteDone(h) ==
    /\ vm # Running /\ file[h].aio = "fwrite"
    /\ \E n \in 0 .. file[h].size :
          /\ FileWakes(h, Transferred(file[h], n))
          /\ length' = Extended(file[h], n)

\* Whoever else has the file changes it.
FileElsewhere == length' \in 0 .. FileMax /\ UNCHANGED <<file, vm>>

-----------------------------------------------------------------------------
(* The collector, and the end of the session                                *)

FileDrop(h) ==
    /\ HoldsFile(h)
    /\ FileBecomes(h, [file[h] EXCEPT !.udata = "dropped"])
    /\ UNCHANGED <<length, vm>>

\* ngx_squ_file_gc closes the file and destroys the pool; the cleanup of the
\* session still leads to it.
FileGc(h) ==
    /\ file[h].udata = "dropped"
    /\ FileBecomes(h, [file[h] EXCEPT !.ctx = "freed", !.udata = "none",
                                      !.fd = FALSE])
    /\ UNCHANGED <<length, vm>>

\* ngx_squ_file_cleanup, and the end of the script's references.
FileCleanup ==
    /\ file' = [h \in Files |->
          LET f == file[h]
          IN [f EXCEPT !.thr = IF f.cln THEN FALSE ELSE f.thr,
                       !.cln = FALSE,
                       !.udata = IF f.udata = "held" THEN "dropped" ELSE f.udata]]
    /\ UNCHANGED length

FileNext ==
    \/ \E h \in Files :
          \/ FileOpen(h) \/ FileOpenFails(h) \/ FileClose(h)
          \/ FileRead(h) \/ FileWrite(h) \/ FileReadDone(h) \/ FileWriteDone(h)
          \/ FileDrop(h) \/ FileGc(h)
    \/ FileElsewhere

-----------------------------------------------------------------------------
(* Properties                                                               *)

\* The kernel works on a file for the thread exactly as long as the script waits
\* in the call that asked for it.
FileWaits ==
    \A h \in Files :
        \A call \in {"fread", "fwrite"} :
            WaitsIn(call, h) <=> file[h].aio = call /\ file[h].thr

\* What the kernel is asked to transfer lies in the file as it is then, and is no
\* more than the buffer of the call was made for, whatever offset, size and buffers
\* earlier calls have left in the handle and whoever has shortened the file since:
\* the arguments are only looked at where they are read, before the buffer is
\* chosen and before the script waits.
TransfersFit ==
    \A h \in Files :
        LET f == file[h]
        IN /\ f.aio # "none" => 0 <= f.offset /\ f.offset <= f.eof
           /\ f.aio = "fread" => f.size <= f.in.units /\ f.offset + f.size <= f.eof
           /\ f.aio = "fwrite" => f.size <= f.out.units

\* The buffer of a call is memory of the handle's pool: "b == NULL" (lines 293 and
\* 372) is the code's test for a buffer that is not there.
BufferLives ==
    \A h \in Files :
        LET f == file[h]
        IN f.ctx = "live" => /\ f.aio = "fread" => f.in.live
                             /\ f.aio = "fwrite" => f.out.live

\* No file stays open and no userdata is left once a handle is gone, and a transfer
\* goes on without its handle only after the session has ended.  The cleanup of the
\* session may lead to a handle that is gone: FileGc leaves it as it is.
FileReclaimed ==
    \A h \in Files :
        LET f == file[h]
        IN f.ctx # "live" => ~f.fd /\ f.udata = "none" /\ (f.aio # "none" => vm = Ended)

=============================================================================
