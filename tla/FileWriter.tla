----------------------------- MODULE FileWriter -----------------------------
(***************************************************************************)
(* The output file byte by byte (output.c): the header, timed_write() with *)
(* its partial, interrupted and failing writes, and release_page_cache(),  *)
(* which drops from the page cache what has been written back.             *)
(*                                                                         *)
(* Module Pipeline says which samples a span holds; here the values taken  *)
(* from the ring are numbered in order, and so are their bytes.            *)
(***************************************************************************)
EXTENDS Integers, Sequences, FiniteSets

CONSTANTS
    ValueBytes,    \* sizeof(int16_t): 2
    HeaderBytes,   \* sizeof(LinradHeader): 41
    Chunk,         \* CACHE_CHUNK_BYTES
    RingValues,    \* values the sample ring holds, and a span at most
    MaxValues      \* bound: how many values are stored

ASSUME FileWriterAssumption ==
    /\ ValueBytes \in Nat \ {0} /\ HeaderBytes \in Nat \ {0} /\ Chunk \in Nat \ {0}
    /\ RingValues \in Nat \ {0} /\ MaxValues \in Nat

VARIABLES
    outPc,              \* where the output file and its thread are
    output_active,
    ready, taken,       \* values in the ring ready to be taken; values taken
    part, rest,         \* bytes of this timed_write() and of the one to follow
    done, partial,      \* locals of timed_write()
    written_bytes, failed_bytes, total_writes, partial_writes, failed_writes,
    chunk_start, sync_off, sync_len,
    file,               \* the bytes of the file: a number, or Header
    started, dropped    \* the ranges of the file being written back, and dropped

ringVars  == <<ready, taken>>
partVars  == <<part, rest, done, partial>>
statVars  == <<written_bytes, failed_bytes, total_writes, partial_writes, failed_writes>>
cacheVars == <<chunk_start, sync_off, sync_len, started, dropped>>
fileVars  == <<outPc, output_active, ringVars, partVars, statVars, cacheVars, file>>

Header == -1

TypeOK ==
    /\ outPc \in {"closed", "header", "create", "loop", "write", "release", "joinable"}
    /\ output_active \in BOOLEAN
    /\ ready \in 0..MaxValues /\ taken \in 0..MaxValues
    /\ part \in Nat /\ rest \in Nat /\ done \in 0..part /\ partial \in BOOLEAN
    /\ {written_bytes, failed_bytes, chunk_start, sync_off, sync_len} \subseteq Nat
    /\ partial_writes + failed_writes <= 2 * total_writes
    /\ \A i \in DOMAIN file : file[i] \in {Header} \union (0 .. ValueBytes * MaxValues - 1)
    /\ \A r \in started \union dropped : r[1] \in Nat /\ r[2] \in Nat

FileInit ==
    /\ outPc = "closed" /\ output_active = TRUE
    /\ ready = 0 /\ taken = 0
    /\ part = 0 /\ rest = 0 /\ done = 0 /\ partial = FALSE
    /\ written_bytes = 0 /\ failed_bytes = 0
    /\ total_writes = 0 /\ partial_writes = 0 /\ failed_writes = 0
    /\ chunk_start = 0 /\ sync_off = 0 /\ sync_len = 0
    /\ file = <<>> /\ started = {} /\ dropped = {}

-----------------------------------------------------------------------------
(* output_open(): the file, the header, then the thread *)

Open ==
    /\ outPc = "closed" /\ file = <<>>
    /\ outPc' = "header"
    /\ UNCHANGED <<output_active, ringVars, partVars, statVars, cacheVars, file>>

\* write() may take less than the header: only -1 is looked for.
WriteHeader(n) ==
    /\ outPc = "header"
    /\ file' = [i \in 1..n |-> Header]
    /\ outPc' = "create"
    /\ UNCHANGED <<output_active, ringVars, partVars, statVars, cacheVars>>

ThreadCreated ==
    /\ outPc = "create"
    /\ outPc' = "loop"
    /\ UNCHANGED <<output_active, ringVars, partVars, statVars, cacheVars, file>>

\* The RX thread: n more values in the ring.
Store(n) ==
    /\ ready + n <= RingValues /\ ready + taken + n <= MaxValues
    /\ ready' = ready + n
    /\ UNCHANGED <<outPc, output_active, taken, partVars, statVars, cacheVars, file>>

-----------------------------------------------------------------------------
(* output_thread_func() and timed_write() *)

\* The next span: n values, of which those after the first k are at the start
\* of the ring again and are written by a second call.  COALESCE_MAX_VALUES is
\* no limit to n: the first block is taken whatever its size, and the padding of
\* a gap is one block.
TakeSpan(n, k) ==
    /\ outPc = "loop" /\ output_active
    /\ n \in 1..ready /\ k \in 1..n
    /\ ready' = ready - n /\ taken' = taken + n
    /\ part' = ValueBytes * k /\ rest' = ValueBytes * (n - k)
    /\ done' = 0 /\ partial' = FALSE
    /\ outPc' = "write"
    /\ UNCHANGED <<output_active, statVars, cacheVars, file>>

\* The number of the first byte of the part being written.
PartStart == ValueBytes * taken - rest - part

\* write() takes n of the bytes that are left.  An interrupted one takes none
\* and is repeated.
WriteSome(n) ==
    /\ outPc = "write" /\ n \in 1 .. part - done
    /\ file' = file \o [i \in 1..n |-> PartStart + done + i - 1]
    /\ done' = done + n
    /\ partial' = (partial \/ done' < part)
    /\ UNCHANGED <<outPc, output_active, ringVars, part, rest, statVars, cacheVars>>

\* The part is written, or write() failed or took nothing: the statistics, and
\* the other part if there is one.
CountedWhole(d) == part          \* mutant: a failed write counts as written
Counted(d)      == d

EndWriteKeeping ==               \* mutant: the next part starts at this one's end
    /\ outPc = "write"
    /\ written_bytes' = written_bytes + Counted(done)
    /\ failed_bytes' = failed_bytes + (part - done)
    /\ total_writes' = total_writes + 1
    /\ partial_writes' = partial_writes + (IF partial THEN 1 ELSE 0)
    /\ failed_writes' = failed_writes + (IF done < part THEN 1 ELSE 0)
    /\ part' = rest /\ rest' = 0
    /\ outPc' = IF rest > 0 THEN "write" ELSE "release"
    /\ UNCHANGED <<output_active, ringVars, done, partial, cacheVars, file>>
EndWrite ==
    /\ outPc = "write"
    /\ written_bytes' = written_bytes + Counted(done)
    /\ failed_bytes' = failed_bytes + (part - done)
    /\ total_writes' = total_writes + 1
    /\ partial_writes' = partial_writes + (IF partial THEN 1 ELSE 0)
    /\ failed_writes' = failed_writes + (IF done < part THEN 1 ELSE 0)
    /\ done' = 0 /\ partial' = FALSE
    /\ part' = rest /\ rest' = 0
    /\ outPc' = IF rest > 0 THEN "write" ELSE "release"
    /\ UNCHANGED <<output_active, ringVars, cacheVars, file>>

-----------------------------------------------------------------------------
(* release_page_cache() *)

ChunkFull == written_bytes - chunk_start >= Chunk

Span(off, len) == <<off, off + len>>

\* Write back what was written since the last time; wait for the range before,
\* whose write-back was started then, and drop it.
RememberNothing == UNCHANGED <<sync_off, sync_len>>     \* mutant
RememberChunk ==
    /\ sync_off' = chunk_start
    /\ sync_len' = written_bytes - chunk_start

ToDropAtOnce == {Span(chunk_start, written_bytes - chunk_start)}   \* mutant
ToDrop == IF sync_len > 0 THEN {Span(sync_off, sync_len)} ELSE {}

ReleaseChunk ==
    /\ outPc = "release" /\ ChunkFull
    /\ started' = started \union {Span(chunk_start, written_bytes - chunk_start)}
    /\ dropped' = dropped \union ToDrop
    /\ RememberChunk
    /\ chunk_start' = written_bytes
    /\ outPc' = "loop"
    /\ UNCHANGED <<output_active, ringVars, partVars, statVars, file>>

ReleaseNothing ==
    /\ outPc = "release" /\ ~ChunkFull
    /\ outPc' = "loop"
    /\ UNCHANGED <<output_active, ringVars, partVars, statVars, cacheVars, file>>

\* The thread leaves its loop, whatever is ready.
ThreadEndsEmpty ==               \* mutant: only when everything was taken
    /\ outPc = "loop" /\ ~output_active /\ ready = 0
    /\ outPc' = "joinable"
    /\ UNCHANGED <<output_active, ringVars, partVars, statVars, cacheVars, file>>
ThreadEnds ==
    /\ outPc = "loop" /\ ~output_active
    /\ outPc' = "joinable"
    /\ UNCHANGED <<output_active, ringVars, partVars, statVars, cacheVars, file>>

-----------------------------------------------------------------------------
OutputThread ==
    \/ \E n, k \in 1..RingValues : TakeSpan(n, k)
    \/ \E n \in 1 .. ValueBytes * RingValues : WriteSome(n)
    \/ EndWrite \/ ReleaseChunk \/ ReleaseNothing \/ ThreadEnds
=============================================================================
