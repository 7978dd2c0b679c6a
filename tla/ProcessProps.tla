---------------------------- MODULE ProcessProps ----------------------------
(***************************************************************************)
(* What the recorder's start, end and output file must do, stated of       *)
(* modules Lifecycle and FileWriter.                                       *)
(***************************************************************************)
EXTENDS Lifecycle

Data         == {i \in DOMAIN file : file[i] # Header}
HeaderLength == Cardinality(DOMAIN file \ Data)
BytesOf(n)   == ValueBytes * n

\* Whatever the writes took or refused, the file holds bytes of the values taken
\* from the ring, in order and none twice, and every byte taken is in it or
\* counted as lost (output.c:114-118, 127-158, 221-228).
BytesAccounted ==
    /\ \A i, j \in Data : i < j => file[i] < file[j]
    /\ outPc # "write" => /\ written_bytes + failed_bytes = BytesOf(taken)
                          /\ Len(file) = HeaderLength + written_bytes

\* The ranges written back follow one another from the start of the file, and end
\* where it ends at the latest; and no call of release_page_cache() drops from the
\* page cache what was not being written back before that call
\* (output.c:54-58, 66-76).
RangesFollow ==
    /\ \A r \in started : /\ r[1] = 0 \/ \E s \in started : s[2] = r[1]
                          /\ r[2] <= Len(file)
    /\ \A r, s \in started : r = s \/ r[2] <= s[1] \/ s[2] <= r[1]
CacheReleased == []RangesFollow /\ [][dropped' \subseteq started]_vars

\* Between spans the recording keeps no more of the page cache than two chunks
\* short of a byte and the span that completed the first, which may be all the
\* ring holds (output.c:54-59, 210).
Kept == Cardinality({i \in DOMAIN file : \A r \in dropped : i - 1 \notin r[1] .. r[2] - 1})
CacheBounded ==
    outPc = "loop" => Kept <= HeaderBytes + 2 * (Chunk - 1) + BytesOf(RingValues)

IsOpen(fd, kind) == fd \in DOMAIN open /\ open[fd] = kind

\* A thread that runs has what it uses: the socket, the buffers, the file; also
\* on the way out of a start-up that failed half-way (hpsdr-recorder.c:24-30).
ThreadsHaveWhatTheyUse ==
    /\ rx = "running" => IsOpen(data_socket, "data") /\ blocks /\ insamples
    /\ ka = "running" => IsOpen(data_socket, "data")
    /\ outPc \in {"loop", "write", "release"} =>
           IsOpen(outputfd, "file") /\ blocks /\ insamples

\* Wherever the start-up failed, at the exit nothing is left open, allocated or
\* running.
NothingLeft ==
    mainPc = "exited" => /\ open = <<>> /\ ~blocks /\ ~insamples
                         /\ "running" \notin {rx, ka}
                         /\ outPc \notin {"loop", "write", "release"}

\* A descriptor is closed by the function that owns it, although bind() failing
\* leaves data_socket with the number of a closed one
\* (hpsdr-protocol2.c:144-148, 450-453).
ClosedByItsOwner ==
    [][\A fd \in DOMAIN open \ DOMAIN open' :
           \/ open[fd] = "file" /\ mainPc = "closeFile"
           \/ open[fd] = "data" /\ mainPc = "closeSocket"
           \/ open[fd] = "discovery" /\ mainPc = "discover"]_vars

\* After SIGINT the program ends, wherever it was.
InterruptEnds == ~keep_running ~> Ended

=============================================================================
