---------------------------- MODULE ProcessProofs ----------------------------
(***************************************************************************)
(* What the recorder holds at every step of its start and its end, however *)
(* many attempts, descriptor numbers and bytes there are, and whichever    *)
(* step fails.                                                             *)
(***************************************************************************)
EXTENDS ProcessProps, FiniteSetTheorems, SequenceTheorems, TLAPS

Attempting == {"configure", "wait", "record"}
HasFile    == {"header", "thread", "stream"} \union Attempting
HasBuffers == {"open"} \union HasFile
HasSocket  == {"buffers"} \union HasBuffers
LinkEnds   == {"stopLink", "joinKeepalive"}
OutputEnds == {"stopOutput", "joinOutput"}
Writing    == {"loop", "write", "release"}

\* The descriptors open are the ones the variables name, each of its kind;
\* data_socket alone may name one that is not open.
Named ==
    /\ DOMAIN open \subseteq Nums /\ open = [fd \in DOMAIN open |-> open[fd]]
    /\ \A fd \in DOMAIN open : \/ fd = discovery /\ open[fd] = "discovery"
                               \/ fd = data_socket /\ open[fd] = "data"
                               \/ fd = outputfd /\ open[fd] = "file"
    /\ discovery # -1 => IsOpen(discovery, "discovery") /\ mainPc = "discover"
    /\ outputfd # -1 => IsOpen(outputfd, "file")
    /\ data_socket \in DOMAIN open => open[data_socket] = "data"

\* What there is at a step of main() or of main_exit().
Stage ==
    /\ mainPc \in {"config", "discover", "connect"} => data_socket = -1
    /\ mainPc \in {"config", "discover", "connect", "buffers", "open"} => outputfd = -1
    /\ mainPc \in HasSocket => IsOpen(data_socket, "data")
    /\ mainPc \in HasFile => outputfd # -1
    /\ mainPc \in HasBuffers => blocks /\ insamples
    /\ mainPc \in OutputEnds \union {"closeFile", "free", "exited"} => data_socket = -1
    /\ mainPc \in {"free", "exited"} => outputfd = -1
    /\ mainPc = "exited" => ~blocks /\ ~insamples

\* A thread runs only between its creation and its joining.
Running ==
    /\ rx = "running" =>
           /\ rx_thread_started /\ mainPc \in Attempting \union {"stopRx", "joinRx"}
           /\ IsOpen(data_socket, "data") /\ blocks /\ insamples
    /\ ka = "running" =>
           /\ keepalive_active \/ mainPc = "joinKeepalive"
           /\ mainPc \in Attempting \union {"stopRx", "joinRx"} \union LinkEnds
           /\ IsOpen(data_socket, "data")
    /\ outPc \in Writing =>
           /\ output_thread_started
           /\ mainPc \in {"stream", "stopRx", "joinRx", "closeSocket", "crashed"}
                             \union Attempting \union LinkEnds \union OutputEnds
           /\ IsOpen(outputfd, "file") /\ blocks /\ insamples

Held == Named /\ Stage /\ Running

\* The number socket() and open() give is none that is open, as long as not both
\* of the first two are.
LEMMA FreeIsFree ==
    ASSUME NEW x, DOMAIN open \subseteq {x}
    PROVE  Free \in Nums \ DOMAIN open /\ Free # -1
<1>1. 0 \in Nums /\ 1 \in Nums /\ \A f \in Nums : f \in Nat
  BY LifecycleAssumption DEF Nums
<1>2. \E fd \in Nums \ DOMAIN open : \A f \in Nums \ DOMAIN open : fd <= f
  <2>1. CASE 0 \notin DOMAIN open
    BY <1>1, <2>1
  <2>2. CASE 0 \in DOMAIN open
    <3>1. 1 \notin DOMAIN open
      BY <2>2
    <3>2. \A f \in Nums \ DOMAIN open : 1 <= f
      BY <1>1, <2>2
    <3> QED BY <1>1, <3>1, <3>2
  <2> QED BY <2>1, <2>2
<1>3. Free \in Nums \ DOMAIN open
  BY <1>2 DEF Free
<1> QED BY <1>1, <1>3

\* At first nothing is open and no thread runs.
LEMMA InitHeld == Init => Held
BY DEF Init, FileInit, Held, Named, Stage, Running, IsOpen, Attempting, HasFile,
       HasBuffers, HasSocket, LinkEnds, OutputEnds, Writing

\* Steps that open no descriptor and close none, start no thread, and after
\* which there is no less.
LEMMA StepHeld == Held /\ [Next]_vars => Held'
<1> SUFFICES ASSUME Held, [Next]_vars PROVE Held'
  OBVIOUS
<1> USE DEF Held, Named, Stage, Running, IsOpen, Attempting, HasFile, HasBuffers,
            HasSocket, LinkEnds, OutputEnds, Writing, Go, Fail, Exit,
            mainVars, fdVars, memVars, rxVars, kaVars, fileVars
<1>0. -1 \notin DOMAIN open /\ \A n \in Nums : n \in Nat
  BY LifecycleAssumption DEF Nums
<1>1. CASE Config
  BY <1>1 DEF Config
<1>2. CASE DiscoverAsk
  <2>1. DOMAIN open \subseteq {-1}
    BY <1>2 DEF DiscoverAsk
  <2>2. Free \in Nums \ DOMAIN open /\ Free # -1
    BY <2>1, FreeIsFree
  <2> QED BY <1>2, <2>1, <2>2 DEF DiscoverAsk, Opened
<1>3. CASE DiscoverEnd
  BY <1>3 DEF DiscoverEnd, Closed
<1>4. CASE Connect
  <2>1. DOMAIN open \subseteq {-1}
    BY <1>4 DEF Connect, BindFails
  <2>2. Free \in Nums \ DOMAIN open /\ Free # -1
    BY <2>1, FreeIsFree
  <2>3. CASE mainPc' = "buffers"
    <3>1. /\ open' = [fd \in DOMAIN open \union {Free} |->
                         IF fd = Free THEN "data" ELSE open[fd]]
          /\ data_socket' = Free /\ DOMAIN open = {} /\ mainPc = "connect"
          /\ UNCHANGED <<discovery, outputfd, memVars, rxVars, kaVars, outPc,
                         output_thread_started>>
      BY <1>0, <1>4, <2>1, <2>3 DEF Connect, BindFails, Opened
    <3>2. DOMAIN open' = {data_socket'} /\ open'[data_socket'] = "data"
      BY <3>1
    <3> QED BY <2>2, <2>3, <3>1, <3>2
  <2>4. CASE mainPc' = "stopRx"
    <3>1. UNCHANGED <<open, discovery, outputfd, memVars, rxVars, kaVars, outPc,
                      output_thread_started>>
          /\ DOMAIN open = {} /\ mainPc = "connect"
      BY <1>0, <1>4, <2>1, <2>4 DEF Connect, BindFails
    <3> QED BY <2>4, <3>1
  <2> QED BY <1>4, <2>3, <2>4 DEF Connect, BindFails
<1>5. CASE BuffersCreate
  BY <1>5 DEF BuffersCreate
<1>6. CASE OutputOpen
  <2>1. DOMAIN open \subseteq {data_socket}
    BY <1>6 DEF OutputOpen, Nums
  <2>2. Free \in Nums \ DOMAIN open /\ Free # -1
    BY <2>1, FreeIsFree
  <2> QED BY <1>6, <2>1, <2>2 DEF OutputOpen, Open, Opened
<1>7. CASE OutputHeader
  BY <1>7 DEF OutputHeader, WriteHeader
<1>8. CASE OutputThreadStart
  BY <1>8 DEF OutputThreadStart, ThreadCreated
<1>9. CASE Stream
  BY <1>9 DEF Stream
<1>10. CASE Configure
  BY <1>10 DEF Configure, StartKeepalive
<1>11. CASE GiveUp \/ Wait \/ RecordEnds \/ Interrupt
  BY <1>11 DEF GiveUp, Wait, RecordEnds, Interrupt
<1>12. CASE StopRx
  BY <1>12 DEF StopRx
<1>13. CASE JoinRx
  BY <1>13 DEF JoinRx, JoinRxWaits
<1>14. CASE StopLink
  BY <1>14 DEF StopLink
<1>15. CASE JoinKeepalive
  BY <1>15 DEF JoinKeepalive
<1>16. CASE CloseSocket
  <2>1. /\ mainPc = "closeSocket" /\ mainPc' = "stopOutput" /\ data_socket' = -1
        /\ UNCHANGED <<discovery, outputfd, memVars, rxVars, kaVars, outPc,
                       output_thread_started>>
    BY <1>16 DEF CloseSocket
  <2>2. /\ DOMAIN open' = DOMAIN open \ {data_socket}
        /\ \A fd \in DOMAIN open' : open'[fd] = open[fd]
        /\ open' = [fd \in DOMAIN open' |-> open'[fd]]
    <3>1. CASE data_socket # -1
      BY <1>16, <3>1 DEF CloseSocket, Closed
    <3>2. CASE data_socket = -1
      BY <1>0, <1>16, <3>2 DEF CloseSocket
    <3> QED BY <3>1, <3>2
  <2>3. outputfd # -1 => outputfd # data_socket
    OBVIOUS
  <2>4. Named'
    <3>1. discovery = -1
      BY <2>1
    <3>2. \A fd \in DOMAIN open' : fd = outputfd /\ open'[fd] = "file"
      BY <1>0, <2>2, <3>1
    <3> QED BY <1>0, <2>1, <2>2, <2>3, <3>1, <3>2
  <2>5. Stage' /\ Running'
    BY <2>1, <2>2, <2>3
  <2> QED BY <2>4, <2>5
<1>17. CASE StopOutput
  BY <1>17 DEF StopOutput
<1>18. CASE JoinOutput
  BY <1>18 DEF JoinOutput
<1>19. CASE CloseFile
  <2>1. /\ mainPc = "closeFile" /\ mainPc' = "free"
        /\ UNCHANGED <<data_socket, discovery, memVars, rxVars, kaVars, outPc,
                       output_thread_started>>
    BY <1>19 DEF CloseFile
  <2>2. /\ DOMAIN open' = DOMAIN open \ {outputfd} /\ outputfd' = -1
        /\ \A fd \in DOMAIN open' : open'[fd] = open[fd]
        /\ open' = [fd \in DOMAIN open' |-> open'[fd]]
    <3>1. CASE outputfd >= 0
      BY <1>19, <3>1 DEF CloseFile, CloseFileOpen, Closed
    <3>2. CASE ~(outputfd >= 0)
      <4>1. outputfd = -1
        BY <1>0, <3>2
      <4> QED BY <1>0, <1>19, <3>2, <4>1 DEF CloseFile, CloseFileOpen
    <3> QED BY <3>1, <3>2
  <2>3. Named'
    BY <2>1, <2>2
  <2>4. Stage' /\ Running'
    BY <2>1, <2>2
  <2> QED BY <2>3, <2>4
<1>20. CASE BuffersFree
  BY <1>20 DEF BuffersFree
<1>21. CASE RxStore
  BY <1>21 DEF RxStore, Store, lifeVars
<1>22. CASE RxEnds
  BY <1>22 DEF RxEnds
<1>23. CASE KeepaliveEnds
  BY <1>23 DEF KeepaliveEnds
<1>24. CASE OutputStep
  <2>1. outPc \in Writing
    BY <1>24 DEF OutputStep, OutputThread, TakeSpan, WriteSome, EndWrite, ReleaseChunk,
                 ReleaseNothing, ThreadEnds
  <2>2. UNCHANGED lifeVars
    BY <1>24 DEF OutputStep
  <2> QED BY <2>1, <2>2 DEF lifeVars
<1>25. CASE Terminated \/ UNCHANGED vars
  BY <1>25 DEF Terminated, vars, lifeVars
<1> QED BY <1>1, <1>2, <1>3, <1>4, <1>5, <1>6, <1>7, <1>8, <1>9, <1>10, <1>11, <1>12,
           <1>13, <1>14, <1>15, <1>16, <1>17, <1>18, <1>19, <1>20, <1>21, <1>22,
           <1>23, <1>24, <1>25 DEF Next, Main

\* What each thread uses is held at all times.
LEMMA HeldAlways == Spec => []Held
BY InitHeld, StepHeld, PTL DEF Spec

\* Whichever step of the start failed, a thread that runs has the descriptor and
\* the buffers it uses, also while main_exit() waits for it
\* (hpsdr-recorder.c:24-30).
THEOREM ThreadsAreProvided == Spec => []ThreadsHaveWhatTheyUse
<1>1. Held => ThreadsHaveWhatTheyUse
  BY DEF Held, Running, Writing, ThreadsHaveWhatTheyUse
<1> QED BY <1>1, HeldAlways, PTL

\* And nothing is left open, allocated or running at the exit.
THEOREM NothingIsLeft == Spec => []NothingLeft
<1>1. Held => NothingLeft
  <2> SUFFICES ASSUME Held, mainPc = "exited"
               PROVE  /\ open = <<>> /\ ~blocks /\ ~insamples
                      /\ "running" \notin {rx, ka}
                      /\ outPc \notin {"loop", "write", "release"}
    BY DEF NothingLeft
  <2>1. /\ ~blocks /\ ~insamples /\ data_socket = -1 /\ outputfd = -1 /\ discovery = -1
        /\ rx # "running" /\ ka # "running" /\ outPc \notin Writing
    BY DEF Held, Named, Stage, Running, Attempting, LinkEnds, OutputEnds
  <2>2. -1 \notin Nums
    BY LifecycleAssumption DEF Nums
  <2>3. DOMAIN open = {}
    BY <2>1, <2>2 DEF Held, Named
  <2>4. open = [fd \in {} |-> open[fd]]
    BY <2>3 DEF Held, Named
  <2>5. open = <<>>
    BY <2>4
  <2> QED BY <2>1, <2>5 DEF Writing
<1> QED BY <1>1, HeldAlways, PTL

\* close() never hits a descriptor that is another's by now, although data_socket
\* keeps a stale number when bind() fails (hpsdr-protocol2.c:144-148, 450-453).
THEOREM OwnersClose == Spec => ClosedByItsOwner
<1> DEFINE Owner(fd) == \/ open[fd] = "file" /\ mainPc = "closeFile"
                        \/ open[fd] = "data" /\ mainPc = "closeSocket"
                        \/ open[fd] = "discovery" /\ mainPc = "discover"
<1>1. ASSUME Held, [Next]_vars, NEW fd \in DOMAIN open \ DOMAIN open'
      PROVE  Owner(fd)
  <2>1. CASE DiscoverEnd
    BY <1>1, <2>1 DEF DiscoverEnd, Closed, Held, Named, IsOpen
  <2>2. CASE CloseSocket
    BY <1>1, <2>2 DEF CloseSocket, Closed, Held, Named, Go
  <2>3. CASE CloseFile
    <3>1. outputfd # -1 /\ fd = outputfd /\ mainPc = "closeFile"
      BY <1>1, <2>3, LifecycleAssumption
      DEF CloseFile, CloseFileOpen, Closed, Held, Named, Nums, Go
    <3> QED BY <1>1, <3>1 DEF Held, Named, IsOpen
  <2>4. CASE DiscoverAsk \/ Connect \/ OutputOpen
    BY <1>1, <2>4 DEF DiscoverAsk, Connect, BindFails, OutputOpen, Opened
  <2>5. CASE \/ Config \/ BuffersCreate \/ OutputHeader \/ OutputThreadStart \/ Stream
             \/ Configure \/ GiveUp \/ Wait \/ RecordEnds \/ Interrupt \/ StopRx
             \/ JoinRx \/ StopLink \/ JoinKeepalive \/ StopOutput \/ JoinOutput
             \/ BuffersFree \/ RxStore \/ RxEnds \/ KeepaliveEnds \/ OutputStep
             \/ Terminated \/ UNCHANGED vars
    <3>1. open' = open
      BY <2>5 DEF Config, BuffersCreate, OutputHeader, OutputThreadStart, Stream,
         Configure, GiveUp, Wait, RecordEnds, Interrupt, StopRx, JoinRx, StopLink,
         JoinKeepalive, StopOutput, JoinOutput, BuffersFree, RxStore, RxEnds,
         KeepaliveEnds, OutputStep, Terminated, vars, lifeVars, fdVars
    <3> QED BY <1>1, <3>1
  <2> QED BY <1>1, <2>1, <2>2, <2>3, <2>4, <2>5 DEF Next, Main
<1>2. Held /\ [Next]_vars => [\A fd \in DOMAIN open \ DOMAIN open' : Owner(fd)]_vars
  BY <1>1
<1> QED BY <1>2, HeldAlways, PTL DEF Spec, ClosedByItsOwner

-----------------------------------------------------------------------------
(* The output file *)

\* The header's bytes come first, and there are h of them.
Prefix(h) == /\ h \in 0 .. Len(file)
             /\ \A i \in 1 .. h : file[i] = Header
             /\ \A i \in h + 1 .. Len(file) : file[i] \in Nat

\* Every byte taken from the ring is written, counted as failed, or still to be
\* tried; the bytes in the file are in order and come before the next one tried.
Written ==
    /\ ready \in Nat /\ taken \in Nat
    /\ part \in Nat /\ rest \in Nat /\ done \in 0 .. part
    /\ written_bytes \in Nat /\ failed_bytes \in Nat
    /\ file \in Seq(Int)
    /\ written_bytes + failed_bytes + part + rest = BytesOf(taken)
    /\ outPc # "write" => part = 0 /\ rest = 0 /\ done = 0
    /\ \E h \in Nat : Prefix(h) /\ Len(file) = h + written_bytes + done
    /\ \A i, j \in Data : i < j => file[i] < file[j]
    /\ \A i \in Data : file[i] < written_bytes + failed_bytes + done
    /\ outPc \in {"closed", "header", "create"} => taken = 0
    /\ outPc \in {"closed", "header"} => file = <<>>

\* The ranges written back end where the next one starts.
Released ==
    /\ chunk_start \in 0 .. written_bytes /\ sync_off \in Nat /\ sync_len \in Nat
    /\ sync_len > 0 => Span(sync_off, sync_len) \in started
    /\ chunk_start = 0 \/ \E s \in started : s[2] = chunk_start
    /\ \A r \in started : r[1] \in Nat /\ r[2] \in 0 .. chunk_start
    /\ dropped \subseteq started
    /\ \A r \in started : r[1] = 0 \/ \E s \in started : s[2] = r[1]
    /\ \A r, s \in started : r = s \/ r[2] <= s[1] \/ s[2] <= r[1]

\* Behind a header of h bytes everything in the file is data.
LEMMA DataIsRest ==
    ASSUME file \in Seq(Int), NEW h, Prefix(h)
    PROVE  Data = h + 1 .. Len(file) /\ HeaderLength = h
<1>1. Len(file) \in Nat /\ DOMAIN file = 1 .. Len(file) /\ h \in Nat
  BY LenProperties DEF Prefix
<1>2. Data = h + 1 .. Len(file)
  BY <1>1 DEF Data, Prefix, Header
<1>3. DOMAIN file \ Data = 1 .. h
  BY <1>1, <1>2 DEF Prefix
<1>4. Cardinality(1 .. h) = h
  <2>1. Cardinality(1 .. h) = IF 1 > h THEN 0 ELSE h - 1 + 1
    BY <1>1, FS_Interval
  <2> QED BY <1>1, <2>1
<1> QED BY <1>2, <1>3, <1>4 DEF HeaderLength

\* A span's bytes are those of its two parts, behind those before it.
LEMMA Distributes ==
    ASSUME NEW a \in Nat, NEW n \in Nat, NEW k \in Nat, NEW t \in Nat, k <= n
    PROVE  /\ a * (t + n) = a * t + a * k + a * (n - k)
           /\ a * k \in Nat /\ a * (n - k) \in Nat
<1>1. n - k \in Nat /\ a * n = a * k + a * (n - k)
  OBVIOUS
<1>2. a * (t + n) = a * t + a * n
  OBVIOUS
<1>3. a * k \in Nat /\ a * (n - k) \in Nat
  BY <1>1
<1> QED BY <1>1, <1>2, <1>3

\* An empty file holds every byte that was written.
LEMMA InitWritten == Init => Written /\ Released
<1> SUFFICES ASSUME Init PROVE Written /\ Released
  OBVIOUS
<1>1. file = <<>> /\ file \in Seq(Int) /\ Len(file) = 0
  BY EmptySeq DEF Init, FileInit
<1>2. Prefix(0)
  BY <1>1 DEF Prefix
<1>3. Data = {} /\ BytesOf(0) = 0
  BY <1>1, <1>2, DataIsRest, FileWriterAssumption DEF BytesOf
<1> QED BY <1>1, <1>2, <1>3, FileWriterAssumption DEF Init, FileInit, Written, Released

\* A step that changes nothing of it.
LEMMA KeptWritten ==
    ASSUME Written, UNCHANGED <<ready, taken, partVars, written_bytes, failed_bytes, file>>,
           \/ outPc' = outPc
           \/ outPc # "write" /\ outPc' \notin {"write", "closed", "header", "create"}
    PROVE  Written'
BY DEF Written, Prefix, Data, BytesOf, partVars

\* write() takes n of the bytes that are left.
LEMMA WriteSomeWritten ==
    ASSUME Written, NEW n \in Nat, WriteSome(n)
    PROVE  Written'
<1> DEFINE more == [i \in 1..n |-> PartStart + done + i - 1]
<1>1. /\ outPc = "write" /\ outPc' = "write" /\ n \in 1 .. part - done
      /\ file' = file \o more /\ done' = done + n
      /\ UNCHANGED <<ready, taken, part, rest, written_bytes, failed_bytes>>
  BY DEF WriteSome, ringVars, statVars
<1>2. /\ part \in Nat /\ rest \in Nat /\ done \in 0 .. part /\ taken \in Nat
      /\ written_bytes \in Nat /\ failed_bytes \in Nat /\ file \in Seq(Int)
      /\ Len(file) \in Nat /\ BytesOf(taken) \in Int
      /\ PartStart = written_bytes + failed_bytes
  <2>1. BytesOf(taken) = written_bytes + failed_bytes + part + rest
    BY DEF Written
  <2> QED BY <2>1, LenProperties DEF Written, PartStart, BytesOf
<1>3. more \in Seq(Int) /\ Len(more) = n
      /\ \A i \in 1 .. n : more[i] = written_bytes + failed_bytes + done + i - 1
  BY <1>1, <1>2
<1> HIDE DEF more
<1>4. /\ file' \in Seq(Int) /\ Len(file') = Len(file) + n
      /\ \A i \in 1 .. Len(file) : file'[i] = file[i]
      /\ \A i \in Len(file) + 1 .. Len(file) + n :
             file'[i] = written_bytes + failed_bytes + done + (i - Len(file)) - 1
  <2>1. /\ file' \in Seq(Int) /\ Len(file') = Len(file) + n
        /\ \A i \in 1 .. Len(file) + n :
               file'[i] = IF i <= Len(file) THEN file[i] ELSE more[i - Len(file)]
    BY <1>1, <1>2, <1>3, ConcatProperties
  <2> QED BY <1>1, <1>2, <1>3, <2>1
<1>5. PICK h \in Nat : Prefix(h) /\ Len(file) = h + written_bytes + done
  BY DEF Written
<1>6. Prefix(h)'
  <2>1. h \in 0 .. Len(file) /\ h \in 0 .. Len(file')
    BY <1>1, <1>2, <1>4, <1>5 DEF Prefix
  <2>2. \A i \in 1 .. h : file'[i] = Header
    BY <1>2, <1>4, <1>5, <2>1 DEF Prefix
  <2>3. ASSUME NEW i \in h + 1 .. Len(file')
        PROVE  file'[i] \in Nat
    <3>1. CASE i <= Len(file)
      BY <1>2, <1>4, <1>5, <2>1, <3>1 DEF Prefix
    <3>2. CASE i > Len(file)
      <4>1. /\ file'[i] = written_bytes + failed_bytes + done + (i - Len(file)) - 1
            /\ i \in Int
        BY <1>1, <1>2, <1>4, <2>1, <3>2
      <4> QED BY <1>2, <3>2, <4>1
    <3> QED BY <1>2, <2>1, <3>1, <3>2
  <2> QED BY <2>1, <2>2, <2>3 DEF Prefix
<1>7. Data = h + 1 .. Len(file)
  BY <1>2, <1>5, DataIsRest
<1>8. Data' = h + 1 .. Len(file')
  <2>1. DOMAIN file' = 1 .. Len(file')
    BY <1>4, LenProperties
  <2> QED BY <1>6, <2>1, <1>4 DEF Data, Prefix, Header
<1>9. \A i \in Data : file[i] < written_bytes + failed_bytes + done /\ file[i] \in Int
  BY <1>2, <1>5, <1>7 DEF Written, Prefix
<1> DEFINE Tried == written_bytes + failed_bytes + done
<1>a. Len(file) \in Nat /\ h \in Nat /\ n \in Nat /\ Tried \in Nat
  BY <1>1, <1>2, <1>5
<1>b. ASSUME NEW i \in Data', i <= Len(file)
      PROVE  i \in Data /\ i \in Nat /\ file'[i] = file[i]
  <2>1. i \in h + 1 .. Len(file)
    BY <1>8, <1>a, <1>b
  <2>2. i \in 1 .. Len(file)
    BY <1>a, <2>1
  <2> QED BY <1>4, <1>7, <2>1, <2>2
<1>c. ASSUME NEW i \in Data', ~(i <= Len(file))
      PROVE  /\ i \in Nat /\ i > Len(file) /\ i <= Len(file) + n
             /\ file'[i] = Tried + (i - Len(file)) - 1
  <2>1. i \in Len(file) + 1 .. Len(file) + n
    BY <1>4, <1>8, <1>a, <1>c
  <2> QED BY <1>4, <1>a, <2>1
<1> HIDE DEF Tried
<1>d. \A i \in Data : file[i] < Tried /\ file[i] \in Int
  BY <1>9 DEF Tried
<1>10. \A i, j \in Data' : i < j => file'[i] < file'[j]
  <2> SUFFICES ASSUME NEW i \in Data', NEW j \in Data', i < j
               PROVE  file'[i] < file'[j]
    OBVIOUS
  <2>1. i \in Nat /\ j \in Nat
    BY <1>b, <1>c
  <2>2. CASE j <= Len(file)
    <3>1. i <= Len(file)
      BY <1>a, <2>1, <2>2
    <3>2. i \in Data /\ j \in Data /\ file'[i] = file[i] /\ file'[j] = file[j]
      BY <1>b, <2>2, <3>1
    <3> QED BY <3>2 DEF Written
  <2>3. CASE i <= Len(file) /\ ~(j <= Len(file))
    <3>1. i \in Data /\ file'[i] = file[i]
      BY <1>b, <2>3
    <3>2. j > Len(file) /\ file'[j] = Tried + (j - Len(file)) - 1
      BY <1>c, <2>3
    <3>3. file[i] < Tried /\ file[i] \in Int
      BY <1>d, <3>1
    <3> QED BY <1>a, <2>1, <3>1, <3>2, <3>3
  <2>4. CASE ~(i <= Len(file))
    <3>1. ~(j <= Len(file))
      BY <1>a, <2>1, <2>4
    <3>2. /\ file'[i] = Tried + (i - Len(file)) - 1
          /\ file'[j] = Tried + (j - Len(file)) - 1
      BY <1>c, <2>4, <3>1
    <3> QED BY <1>a, <2>1, <3>2
  <2> QED BY <2>2, <2>3, <2>4
<1>11. \A i \in Data' : file'[i] < written_bytes' + failed_bytes' + done'
  <2>1. written_bytes' + failed_bytes' + done' = Tried + n
    BY <1>1, <1>2 DEF Tried
  <2>2. ASSUME NEW i \in Data'
        PROVE  file'[i] < Tried + n
    <3>1. CASE i <= Len(file)
      <4>1. file'[i] < Tried /\ file'[i] \in Int
        BY <1>b, <1>d, <3>1
      <4> QED BY <1>a, <4>1
    <3>2. CASE ~(i <= Len(file))
      <4>1. /\ i \in Nat /\ i <= Len(file) + n
            /\ file'[i] = Tried + (i - Len(file)) - 1
        BY <1>c, <3>2
      <4> QED BY <1>a, <4>1
    <3> QED BY <3>1, <3>2
  <2> QED BY <2>1, <2>2
<1>12. Len(file') = h + written_bytes' + done'
  BY <1>1, <1>2, <1>4, <1>5
<1>13. BytesOf(taken)' = BytesOf(taken)
  BY <1>1 DEF BytesOf
<1>14. done' \in 0 .. part' /\ part' = part
  BY <1>1, <1>2
<1>15. \E x \in Nat : Prefix(x)' /\ Len(file') = x + written_bytes' + done'
  BY <1>6, <1>12
<1>16. /\ ready' \in Nat /\ taken' \in Nat
       /\ part' \in Nat /\ rest' \in Nat
       /\ written_bytes' \in Nat /\ failed_bytes' \in Nat
       /\ written_bytes' + failed_bytes' + part' + rest' = BytesOf(taken)'
  BY <1>1, <1>13 DEF Written
<1> QED BY <1>1, <1>4, <1>10, <1>11, <1>14, <1>15, <1>16 DEF Written

\* n values are taken, k of them in the first part.
LEMMA TakeSpanWritten ==
    ASSUME Written, NEW n \in 1..RingValues, NEW k \in 1..RingValues, TakeSpan(n, k)
    PROVE  Written'
<1>1. /\ outPc = "loop" /\ outPc' = "write" /\ n \in 1..ready /\ k \in 1..n
      /\ ready' = ready - n /\ taken' = taken + n
      /\ part' = ValueBytes * k /\ rest' = ValueBytes * (n - k) /\ done' = 0
      /\ UNCHANGED <<written_bytes, failed_bytes, file>>
  BY DEF TakeSpan, statVars
<1>2. /\ n \in Nat /\ k \in Nat /\ k <= n /\ ValueBytes \in Nat
      /\ ready \in Nat /\ taken \in Nat /\ written_bytes \in Nat /\ failed_bytes \in Nat
      /\ part = 0 /\ rest = 0 /\ done = 0
      /\ written_bytes + failed_bytes = ValueBytes * taken
  BY <1>1, FileWriterAssumption DEF Written, BytesOf
<1>3. /\ ValueBytes * (taken + n) = ValueBytes * taken + ValueBytes * k + ValueBytes * (n - k)
      /\ ValueBytes * k \in Nat /\ ValueBytes * (n - k) \in Nat
  BY <1>2, Distributes
<1> DEFINE a == ValueBytes * k
           b == ValueBytes * (n - k)
           c == ValueBytes * taken
           d == ValueBytes * (taken + n)
<1>4. /\ a \in Nat /\ b \in Nat /\ d = c + a + b
      /\ part' = a /\ rest' = b /\ written_bytes + failed_bytes = c
      /\ BytesOf(taken)' = d
  BY <1>1, <1>2, <1>3 DEF BytesOf
<1> HIDE DEF a, b, c, d
<1>5. /\ ready' \in Nat /\ taken' \in Nat /\ done' \in 0 .. part'
      /\ part' \in Nat /\ rest' \in Nat
      /\ written_bytes' \in Nat /\ failed_bytes' \in Nat /\ file' \in Seq(Int)
      /\ written_bytes' + failed_bytes' + part' + rest' = BytesOf(taken)'
  <2>1. ready' \in Nat /\ taken' \in Nat
    BY <1>1, <1>2
  <2>2. part' \in Nat /\ rest' \in Nat /\ done' \in 0 .. part'
    BY <1>1, <1>4
  <2>3. written_bytes' \in Nat /\ failed_bytes' \in Nat /\ file' \in Seq(Int)
    BY <1>1 DEF Written
  <2>4. written_bytes' + failed_bytes' + part' + rest' = BytesOf(taken)'
    <3>1. /\ written_bytes' + failed_bytes' = c /\ c \in Int
          /\ part' = a /\ rest' = b /\ BytesOf(taken)' = c + a + b
      BY <1>1, <1>2, <1>4
    <3>2. written_bytes' \in Nat /\ failed_bytes' \in Nat /\ a \in Nat /\ b \in Nat
      BY <1>4, <2>3
    <3> QED BY <3>1, <3>2
  <2> QED BY <2>1, <2>2, <2>3, <2>4
<1>6. \E h \in Nat : Prefix(h)' /\ Len(file') = h + written_bytes' + done'
  BY <1>1, <1>2 DEF Written, Prefix
<1>7. /\ \A i, j \in Data' : i < j => file'[i] < file'[j]
      /\ \A i \in Data' : file'[i] < written_bytes' + failed_bytes' + done'
  BY <1>1, <1>2 DEF Written, Data
<1> QED BY <1>1, <1>5, <1>6, <1>7 DEF Written

\* A part ends: what was done is written, and the rest of it failed.
LEMMA EndWriteWritten ==
    ASSUME Written, EndWrite
    PROVE  Written'
<1>1. /\ outPc = "write" /\ outPc' = IF rest > 0 THEN "write" ELSE "release"
      /\ written_bytes' = written_bytes + done
      /\ failed_bytes' = failed_bytes + (part - done)
      /\ done' = 0 /\ part' = rest /\ rest' = 0
      /\ UNCHANGED <<ready, taken, file>>
  BY DEF EndWrite, Counted, ringVars
<1>2. /\ part \in Nat /\ rest \in Nat /\ done \in 0 .. part
      /\ written_bytes \in Nat /\ failed_bytes \in Nat
      /\ written_bytes + failed_bytes + part + rest = BytesOf(taken)
      /\ BytesOf(taken)' = BytesOf(taken)
  BY <1>1 DEF Written, BytesOf
<1>3. /\ ready' \in Nat /\ taken' \in Nat /\ done' \in 0 .. part'
      /\ part' \in Nat /\ rest' \in Nat
      /\ written_bytes' \in Nat /\ failed_bytes' \in Nat /\ file' \in Seq(Int)
      /\ outPc' # "write" => part' = 0 /\ rest' = 0 /\ done' = 0
  BY <1>1, <1>2 DEF Written
<1>4. written_bytes' + failed_bytes' + part' + rest' = BytesOf(taken)'
  BY <1>1, <1>2
<1>5. \E h \in Nat : Prefix(h)' /\ Len(file') = h + written_bytes' + done'
  <2>1. PICK h \in Nat : Prefix(h) /\ Len(file) = h + written_bytes + done
    BY DEF Written
  <2>2. Prefix(h)' /\ Len(file') = h + written_bytes' + done'
    BY <1>1, <1>2, <2>1 DEF Prefix
  <2> QED BY <2>2
<1>6. Data' = Data /\ \A i \in Data : file'[i] = file[i]
  BY <1>1 DEF Data
<1>7. \A i \in Data : file[i] \in Int /\ file[i] < written_bytes + failed_bytes + done
  <2>1. PICK h \in Nat : Prefix(h)
    BY DEF Written
  <2>2. file \in Seq(Int)
    BY DEF Written
  <2>3. Data = h + 1 .. Len(file)
    BY <2>1, <2>2, DataIsRest
  <2> QED BY <2>1, <2>3 DEF Written, Prefix
<1>8. \A i \in Data' : file'[i] < written_bytes' + failed_bytes' + done'
  <2>1. written_bytes' + failed_bytes' + done' = written_bytes + failed_bytes + part
    BY <1>1, <1>2
  <2> QED BY <1>2, <1>6, <1>7, <2>1
<1>9. \A i, j \in Data' : i < j => file'[i] < file'[j]
  BY <1>6 DEF Written
<1> QED BY <1>1, <1>3, <1>4, <1>5, <1>8, <1>9 DEF Written

\* The header, or as much of it as write() took.
LEMMA WriteHeaderWritten ==
    ASSUME Written, NEW n \in 0..HeaderBytes, WriteHeader(n)
    PROVE  Written'
<1>1. /\ outPc = "header" /\ outPc' = "create" /\ file' = [i \in 1..n |-> Header]
      /\ UNCHANGED <<ready, taken, part, rest, done, written_bytes, failed_bytes>>
  BY DEF WriteHeader, ringVars, partVars, statVars
<1>2. /\ taken = 0 /\ part = 0 /\ rest = 0 /\ done = 0
      /\ written_bytes \in Nat /\ failed_bytes \in Nat /\ n \in Nat
      /\ BytesOf(0) = 0 /\ BytesOf(taken)' = BytesOf(taken)
      /\ written_bytes + failed_bytes = BytesOf(taken)
  BY <1>1, FileWriterAssumption DEF Written, BytesOf
<1>3. written_bytes = 0 /\ failed_bytes = 0
  BY <1>2
<1>4. file' \in Seq(Int) /\ Len(file') = n /\ DOMAIN file' = 1..n
  BY <1>1, <1>2 DEF Header
<1>5. Prefix(n)' /\ Len(file') = n + written_bytes' + done'
  BY <1>1, <1>2, <1>3, <1>4 DEF Prefix
<1>6. Data' = {}
  BY <1>1, <1>4 DEF Data
<1>7. \E h \in Nat : Prefix(h)' /\ Len(file') = h + written_bytes' + done'
  BY <1>2, <1>5
<1> QED BY <1>1, <1>2, <1>4, <1>6, <1>7 DEF Written

\* A chunk is started where the last one ended, and dropped when the next starts.
LEMMA ReleaseChunkReleased ==
    ASSUME Written, Released, ReleaseChunk
    PROVE  Released'
<1> DEFINE new == Span(chunk_start, written_bytes - chunk_start)
<1>1. /\ written_bytes \in Nat /\ chunk_start \in 0 .. written_bytes
      /\ written_bytes - chunk_start \in Nat \ {0}
      /\ written_bytes' = written_bytes /\ chunk_start' = written_bytes
      /\ sync_off' = chunk_start /\ sync_len' = written_bytes - chunk_start
      /\ started' = started \union {new}
      /\ dropped' = dropped \union ToDrop
  BY FileWriterAssumption
     DEF ReleaseChunk, ChunkFull, RememberChunk, Written, Released, statVars
<1>2. new = <<chunk_start, written_bytes>> /\ new[1] = chunk_start /\ new[2] = written_bytes
  BY <1>1 DEF Span
<1>3. Span(sync_off, sync_len)' = new
  BY <1>1 DEF Span
<1> HIDE DEF new
<1>4. /\ chunk_start' \in 0 .. written_bytes' /\ sync_off' \in Nat /\ sync_len' \in Nat
      /\ (sync_len > 0 => Span(sync_off, sync_len) \in started)'
      /\ \E s \in started' : s[2] = chunk_start'
  BY <1>1, <1>2, <1>3
<1>5. \A r \in started : r[1] \in Nat /\ r[2] \in 0 .. chunk_start
  BY DEF Released
<1>6. \A r \in started' : r[1] \in Nat /\ r[2] \in 0 .. chunk_start'
  BY <1>1, <1>2, <1>5
<1>7. dropped' \subseteq started'
  BY <1>1 DEF Released, ToDrop
<1>8. \A r \in started' : r[1] = 0 \/ \E s \in started' : s[2] = r[1]
  BY <1>1, <1>2 DEF Released
<1>9. \A r, s \in started' : r = s \/ r[2] <= s[1] \/ s[2] <= r[1]
  BY <1>1, <1>2, <1>5 DEF Released
<1> QED BY <1>4, <1>6, <1>7, <1>8, <1>9 DEF Released

\* Nothing else starts or drops a range, and written_bytes only grows.
LEMMA KeptReleased ==
    ASSUME Released, UNCHANGED cacheVars, written_bytes' = written_bytes
    PROVE  Released'
BY DEF Released, Span, cacheVars

\* Bytes that are written join the chunk that is not started yet.
LEMMA GrownReleased ==
    ASSUME Released, UNCHANGED cacheVars, written_bytes \in Nat, NEW d \in Nat,
           written_bytes' = written_bytes + d
    PROVE  Released'
<1>1. UNCHANGED <<chunk_start, sync_off, sync_len, started, dropped>>
  BY DEF cacheVars
<1>2. Span(sync_off, sync_len)' = Span(sync_off, sync_len)
  BY <1>1 DEF Span
<1>3. chunk_start' \in 0 .. written_bytes'
  BY <1>1 DEF Released
<1> QED BY <1>1, <1>2, <1>3 DEF Released

\* Each step of the output thread keeps both, taken one at a time.
LEMMA OutputThreadWritten ==
    ASSUME Written, Released, OutputThread
    PROVE  Written' /\ Released'
<1>1. ASSUME NEW n \in 1..RingValues, NEW k \in 1..RingValues, TakeSpan(n, k)
      PROVE  Written' /\ Released'
  <2>1. Written'
    BY <1>1, TakeSpanWritten
  <2>2. UNCHANGED cacheVars /\ written_bytes' = written_bytes
    BY <1>1 DEF TakeSpan, statVars
  <2> QED BY <2>1, <2>2, KeptReleased
<1>2. ASSUME NEW n \in 1 .. ValueBytes * RingValues, WriteSome(n)
      PROVE  Written' /\ Released'
  <2>1. n \in Nat
    BY FileWriterAssumption
  <2>2. Written'
    BY <1>2, <2>1, WriteSomeWritten
  <2>3. UNCHANGED cacheVars /\ written_bytes' = written_bytes
    BY <1>2 DEF WriteSome, statVars
  <2> QED BY <2>2, <2>3, KeptReleased
<1>3. CASE EndWrite
  <2>1. Written'
    BY <1>3, EndWriteWritten
  <2>2. UNCHANGED cacheVars /\ written_bytes' = written_bytes + done
    BY <1>3 DEF EndWrite, Counted
  <2>3. written_bytes \in Nat /\ done \in Nat
    BY DEF Written
  <2> QED BY <2>1, <2>2, <2>3, GrownReleased
<1>4. CASE ReleaseChunk
  <2>1. /\ UNCHANGED <<ready, taken, partVars, written_bytes, failed_bytes, file>>
        /\ outPc = "release" /\ outPc' = "loop"
    BY <1>4 DEF ReleaseChunk, ringVars, statVars
  <2> QED BY <1>4, <2>1, KeptWritten, ReleaseChunkReleased
<1>5. CASE ReleaseNothing \/ ThreadEnds
  <2>1. /\ UNCHANGED <<ready, taken, partVars, written_bytes, failed_bytes, file, cacheVars>>
        /\ outPc \in {"release", "loop"} /\ outPc' \in {"loop", "joinable"}
    BY <1>5 DEF ReleaseNothing, ThreadEnds, ringVars, statVars
  <2> QED BY <2>1, KeptWritten, KeptReleased
<1> QED BY <1>1, <1>2, <1>3, <1>4, <1>5 DEF OutputThread

\* Outside its own steps nobody touches what the output thread counts.
LEMMA StepWritten == Written /\ Released /\ [Next]_vars => Written' /\ Released'
<1> SUFFICES ASSUME Written, Released, [Next]_vars PROVE Written' /\ Released'
  OBVIOUS
<1>1. ASSUME UNCHANGED <<outPc, ringVars, partVars, statVars, cacheVars, file>>
      PROVE  Written' /\ Released'
  <2>1. /\ UNCHANGED <<ready, taken, partVars, written_bytes, failed_bytes, file>>
        /\ UNCHANGED cacheVars /\ outPc' = outPc
    BY <1>1 DEF ringVars, statVars
  <2>2. Written'
    BY <2>1, KeptWritten
  <2>3. Released'
    BY <2>1, KeptReleased
  <2> QED BY <2>2, <2>3
<1>2. CASE OutputOpen
  <2>1. CASE UNCHANGED fileVars
    BY <1>1, <2>1 DEF fileVars
  <2>2. CASE Open
    <3>1. /\ UNCHANGED <<ready, taken, part, rest, done, written_bytes, failed_bytes, file>>
          /\ UNCHANGED cacheVars /\ outPc = "closed" /\ outPc' = "header" /\ file = <<>>
      BY <2>2 DEF Open, ringVars, partVars, statVars
    <3>2. Written'
      BY <3>1 DEF Written, Prefix, Data, BytesOf
    <3> QED BY <3>1, <3>2, KeptReleased
  <2> QED BY <1>2, <2>1, <2>2 DEF OutputOpen
<1>3. CASE OutputHeader
  <2>1. CASE UNCHANGED fileVars
    BY <1>1, <2>1 DEF fileVars
  <2>2. ASSUME NEW n \in 0..HeaderBytes, WriteHeader(n) PROVE Written' /\ Released'
    <3>1. UNCHANGED cacheVars /\ written_bytes' = written_bytes
      BY <2>2 DEF WriteHeader, statVars
    <3> QED BY <2>2, <3>1, WriteHeaderWritten, KeptReleased
  <2> QED BY <1>3, <2>1, <2>2 DEF OutputHeader
<1>4. CASE OutputThreadStart
  <2>1. CASE UNCHANGED fileVars
    BY <1>1, <2>1 DEF fileVars
  <2>2. CASE ThreadCreated
    <3>1. /\ UNCHANGED <<ready, taken, partVars, written_bytes, failed_bytes, file, cacheVars>>
          /\ outPc = "create" /\ outPc' = "loop"
      BY <2>2 DEF ThreadCreated, ringVars, statVars
    <3> QED BY <3>1, KeptWritten, KeptReleased
  <2> QED BY <1>4, <2>1, <2>2 DEF OutputThreadStart
<1>5. CASE RxStore
  <2>1. /\ UNCHANGED <<outPc, taken, part, rest, done, written_bytes, failed_bytes, file>>
        /\ UNCHANGED cacheVars /\ ready' = ready + 1
    BY <1>5 DEF RxStore, Store, partVars, statVars
  <2>2. ready' \in Nat /\ BytesOf(taken)' = BytesOf(taken) /\ Data' = Data
    BY <2>1 DEF Written, BytesOf, Data
  <2>3. \E h \in Nat : Prefix(h)' /\ Len(file') = h + written_bytes' + done'
    BY <2>1 DEF Written, Prefix
  <2>4. Written'
    BY <2>1, <2>2, <2>3 DEF Written
  <2> QED BY <2>1, <2>4, KeptReleased
<1>6. CASE OutputStep
  BY <1>6, OutputThreadWritten DEF OutputStep
<1>7. CASE StopOutput
  BY <1>1, <1>7 DEF StopOutput
<1>8. CASE \/ Config \/ DiscoverAsk \/ DiscoverEnd \/ Connect \/ BuffersCreate \/ Stream
           \/ Configure \/ GiveUp \/ Wait \/ RecordEnds \/ Interrupt \/ StopRx \/ JoinRx
           \/ StopLink \/ JoinKeepalive \/ CloseSocket \/ JoinOutput \/ CloseFile
           \/ BuffersFree \/ RxEnds \/ KeepaliveEnds \/ Terminated \/ UNCHANGED vars
  <2>1. UNCHANGED fileVars
    BY <1>8 DEF Config, DiscoverAsk, DiscoverEnd, Connect, BuffersCreate, Stream,
       Configure, GiveUp, Wait, RecordEnds, Interrupt, StopRx, JoinRx, StopLink,
       JoinKeepalive, CloseSocket, JoinOutput, CloseFile, BuffersFree, RxEnds,
       KeepaliveEnds, Terminated, vars
  <2> QED BY <1>1, <2>1 DEF fileVars
<1> QED BY <1>2, <1>3, <1>4, <1>5, <1>6, <1>7, <1>8 DEF Next, Main

\* The file holds what was counted at all times.
LEMMA WrittenAlways == Spec => [](Written /\ Released)
BY InitWritten, StepWritten, PTL DEF Spec

\* However write() splits or refuses what it is given, the file holds the bytes
\* in order and none twice, and the counters account for every byte
\* (output.c:114-118, 127-158, 221-228).
THEOREM BytesAreAccounted == Spec => []BytesAccounted
<1>1. Written => BytesAccounted
  <2> SUFFICES ASSUME Written PROVE BytesAccounted
    OBVIOUS
  <2>1. PICK h \in Nat : Prefix(h) /\ Len(file) = h + written_bytes + done
    BY DEF Written
  <2>2. file \in Seq(Int)
    BY DEF Written
  <2>3. HeaderLength = h
    BY <2>1, <2>2, DataIsRest
  <2> QED BY <2>1, <2>3 DEF Written, BytesAccounted
<1> QED BY <1>1, WrittenAlways, PTL

\* A range that is dropped was remembered by an earlier call, which started its
\* write-back.
LEMMA DroppedWasStarted == Released /\ [Next]_vars => [dropped' \subseteq started]_vars
<1> SUFFICES ASSUME Released, [Next]_vars PROVE dropped' \subseteq started
  OBVIOUS
<1>1. dropped \subseteq started
  BY DEF Released
<1>2. CASE ReleaseChunk
  <2>1. dropped' = dropped \union ToDrop /\ ToDrop \subseteq started
    BY <1>2 DEF ReleaseChunk, ToDrop, Released
  <2> QED BY <1>1, <2>1
<1>3. CASE dropped' = dropped
  BY <1>1, <1>3
<1>4. CASE OutputStep
  <2>1. ReleaseChunk \/ UNCHANGED cacheVars
    BY <1>4 DEF OutputStep, OutputThread, TakeSpan, WriteSome, EndWrite, ReleaseNothing,
                ThreadEnds
  <2> QED BY <1>2, <1>3, <2>1 DEF cacheVars
<1>5. CASE OutputOpen \/ OutputHeader \/ OutputThreadStart \/ RxStore \/ StopOutput
  <2>1. UNCHANGED cacheVars
    BY <1>5 DEF OutputOpen, OutputHeader, OutputThreadStart, RxStore, StopOutput, Open,
                WriteHeader, ThreadCreated, Store, fileVars
  <2> QED BY <1>3, <2>1 DEF cacheVars
<1>6. CASE \/ Config \/ DiscoverAsk \/ DiscoverEnd \/ Connect \/ BuffersCreate \/ Stream
           \/ Configure \/ GiveUp \/ Wait \/ RecordEnds \/ Interrupt \/ StopRx \/ JoinRx
           \/ StopLink \/ JoinKeepalive \/ CloseSocket \/ JoinOutput \/ CloseFile
           \/ BuffersFree \/ RxEnds \/ KeepaliveEnds \/ Terminated \/ UNCHANGED vars
  <2>1. UNCHANGED fileVars
    BY <1>6 DEF Config, DiscoverAsk, DiscoverEnd, Connect, BuffersCreate, Stream,
       Configure, GiveUp, Wait, RecordEnds, Interrupt, StopRx, JoinRx, StopLink,
       JoinKeepalive, CloseSocket, JoinOutput, CloseFile, BuffersFree, RxEnds,
       KeepaliveEnds, Terminated, vars
  <2> QED BY <1>3, <2>1 DEF fileVars, cacheVars
<1> QED BY <1>4, <1>5, <1>6 DEF Next, Main

\* The ranges written back follow one another within the file, and nothing is
\* dropped from the page cache that was not being written back before the call
\* that drops it (output.c:54-58, 66-76).
THEOREM CacheIsReleased == Spec => CacheReleased
<1>1. Written /\ Released => RangesFollow
  <2> SUFFICES ASSUME Written, Released PROVE RangesFollow
    OBVIOUS
  <2>1. PICK h \in Nat : Prefix(h) /\ Len(file) = h + written_bytes + done
    BY DEF Written
  <2>2. Len(file) >= written_bytes /\ Len(file) \in Nat
    BY <2>1 DEF Written
  <2>3. \A r \in started : r[2] <= Len(file)
    BY <2>2 DEF Written, Released
  <2> QED BY <2>3 DEF Released, RangesFollow
<1> QED BY <1>1, WrittenAlways, DroppedWasStarted, PTL DEF Spec, CacheReleased

-----------------------------------------------------------------------------
(* The page cache *)

Slack == Chunk - 1 + BytesOf(RingValues)

\* Everything before the range now being written back has been dropped; that
\* range, and what was written since, are a chunk short of a byte and a span
\* each at most.
Cached ==
    /\ chunk_start = sync_off + sync_len /\ sync_len <= Slack
    /\ \A x \in 0 .. sync_off - 1 : \E r \in dropped : x \in r[1] .. r[2] - 1
    /\ Len(file) <= HeaderBytes + written_bytes + done
    /\ outPc \in {"write", "release"} => written_bytes + part + rest - chunk_start <= Slack
    /\ outPc \notin {"write", "release"} => written_bytes - chunk_start <= Chunk - 1

\* What Cached compares are numbers.
LEMMA CacheTypes ==
    ASSUME Written, Released
    PROVE  /\ written_bytes \in Nat /\ part \in Nat /\ rest \in Nat /\ done \in 0 .. part
           /\ chunk_start \in Nat /\ sync_off \in Nat /\ sync_len \in Nat
           /\ Len(file) \in Nat /\ Slack \in Nat /\ Chunk \in Nat \ {0}
           /\ HeaderBytes \in Nat /\ BytesOf(RingValues) \in Nat
<1>1. Len(file) \in Nat
  BY LenProperties DEF Written
<1>2. RingValues \in Nat /\ ValueBytes \in Nat /\ Chunk \in Nat \ {0} /\ HeaderBytes \in Nat
  BY FileWriterAssumption
<1>3. BytesOf(RingValues) \in Nat
  BY <1>2 DEF BytesOf
<1>4. Slack \in Nat
  BY <1>2, <1>3 DEF Slack
<1> QED BY <1>1, <1>2, <1>3, <1>4 DEF Written, Released

\* Nothing is written at the start.
LEMMA InitCached == Init => Cached
<1> SUFFICES ASSUME Init PROVE Cached
  OBVIOUS
<1>1. Written /\ Released
  BY InitWritten
<1>2. Len(file) = 0
  BY EmptySeq DEF Init, FileInit
<1> QED BY <1>1, <1>2, CacheTypes DEF Init, FileInit, Cached

\* A step that writes nothing and drops nothing.
LEMMA KeptCached ==
    ASSUME Cached, UNCHANGED <<partVars, written_bytes, file, cacheVars>>,
           \/ outPc' = outPc
           \/ {outPc, outPc'} \cap {"write", "release"} = {}
    PROVE  Cached'
BY DEF Cached, Slack, BytesOf, partVars, cacheVars

\* A span adds what it takes at most.
LEMMA TakeSpanCached ==
    ASSUME Written, Released, Cached, NEW n \in 1..RingValues, NEW k \in 1..RingValues,
           TakeSpan(n, k)
    PROVE  Cached'
<1>t. /\ written_bytes \in Nat /\ part \in Nat /\ rest \in Nat /\ done \in 0 .. part
      /\ chunk_start \in Nat /\ sync_off \in Nat /\ sync_len \in Nat
      /\ Len(file) \in Nat /\ Slack \in Nat /\ Chunk \in Nat \ {0}
      /\ HeaderBytes \in Nat /\ BytesOf(RingValues) \in Nat
  BY CacheTypes
<1>1. /\ outPc = "loop" /\ outPc' = "write" /\ k \in 1 .. n
      /\ part' = ValueBytes * k /\ rest' = ValueBytes * (n - k) /\ done' = 0
      /\ UNCHANGED <<written_bytes, file, chunk_start, sync_off, sync_len, dropped>>
  BY DEF TakeSpan, statVars, cacheVars
<1>2. n \in Nat /\ k \in Nat /\ k <= n /\ RingValues - n \in Nat /\ ValueBytes \in Nat
  BY <1>1, FileWriterAssumption
<1>3. ValueBytes * (0 + n) = ValueBytes * 0 + ValueBytes * k + ValueBytes * (n - k)
  BY <1>2, Distributes
<1>4. /\ ValueBytes * (0 + RingValues)
            = ValueBytes * 0 + ValueBytes * n + ValueBytes * (RingValues - n)
      /\ ValueBytes * n \in Nat /\ ValueBytes * (RingValues - n) \in Nat
  BY <1>2, FileWriterAssumption, Distributes
<1>5. part' + rest' <= BytesOf(RingValues) /\ part' \in Nat /\ rest' \in Nat
  <2>1. ValueBytes * k \in Nat /\ ValueBytes * (n - k) \in Nat
    BY <1>2, Distributes
  <2>2. ValueBytes * 0 = 0 /\ 0 + n = n /\ 0 + RingValues = RingValues
    BY <1>2, FileWriterAssumption
  <2> DEFINE a == ValueBytes * k
             b == ValueBytes * (n - k)
             c == ValueBytes * n
             d == ValueBytes * (RingValues - n)
             e == ValueBytes * RingValues
  <2>3. /\ a \in Nat /\ b \in Nat /\ c \in Nat /\ d \in Nat /\ c = a + b /\ e = c + d
        /\ part' = a /\ rest' = b /\ BytesOf(RingValues) = e
    BY <1>1, <1>3, <1>4, <2>1, <2>2 DEF BytesOf
  <2> HIDE DEF a, b, c, d, e
  <2> QED BY <2>3
<1>6. written_bytes - chunk_start <= Chunk - 1 /\ Len(file) <= HeaderBytes + written_bytes
  <2>1. done = 0
    BY <1>1 DEF Written
  <2> QED BY <1>1, <2>1, <1>t DEF Cached
<1>7. written_bytes' + part' + rest' - chunk_start' <= Slack'
  <2>1. Slack' = Slack /\ Slack = Chunk - 1 + BytesOf(RingValues)
    BY DEF Slack, BytesOf
  <2>2. part' + rest' \in Nat /\ written_bytes' = written_bytes /\ chunk_start' = chunk_start
    BY <1>1, <1>5
  <2>3. written_bytes + (part' + rest') - chunk_start <= Slack
    <3>1. PICK new \in Nat, b \in Nat : new = part' + rest' /\ b = BytesOf(RingValues) /\ new <= b
      <4>1. part' + rest' \in Nat /\ BytesOf(RingValues) \in Nat /\ part' + rest' <= BytesOf(RingValues)
        BY <1>5, <1>t, <2>2
      <4> QED BY <4>1, Zenon
    <3>2. Slack = Chunk - 1 + b
      BY <2>1, <3>1
    <3>3. written_bytes + new - chunk_start <= Slack
      <4>1. written_bytes \in Int /\ chunk_start \in Int /\ Chunk \in Int
        BY <1>t
      <4>2. written_bytes - chunk_start <= Chunk - 1 /\ new \in Int /\ b \in Int /\ new <= b
        BY <1>6, <3>1
      <4> QED BY <3>2, <4>1, <4>2
    <3> QED BY <3>1, <3>3
  <2>4. written_bytes \in Int /\ chunk_start \in Int /\ part' \in Int /\ rest' \in Int
    BY <1>5, <1>t
  <2> QED BY <2>1, <2>2, <2>3, <2>4
<1>8. Slack' = Slack
  BY DEF Slack, BytesOf
<1>9. Len(file') <= HeaderBytes + written_bytes' + done'
  BY <1>1, <1>6, <1>t
<1> QED BY <1>1, <1>7, <1>8, <1>9 DEF Cached

\* The file grows by what write() takes.
LEMMA WriteSomeCached ==
    ASSUME Written, Released, Cached, NEW n \in Nat, WriteSome(n)
    PROVE  Cached'
<1>t. /\ written_bytes \in Nat /\ part \in Nat /\ rest \in Nat /\ done \in 0 .. part
      /\ chunk_start \in Nat /\ sync_off \in Nat /\ sync_len \in Nat
      /\ Len(file) \in Nat /\ Slack \in Nat /\ Chunk \in Nat \ {0}
      /\ HeaderBytes \in Nat /\ BytesOf(RingValues) \in Nat
  BY CacheTypes
<1> DEFINE more == [i \in 1..n |-> PartStart + done + i - 1]
<1>1. /\ outPc = "write" /\ outPc' = "write"
      /\ file' = file \o more /\ done' = done + n
      /\ UNCHANGED <<part, rest, written_bytes, chunk_start, sync_off, sync_len, dropped>>
  BY DEF WriteSome, statVars, cacheVars
<1>2. PartStart + done \in Int
  BY <1>t, FileWriterAssumption DEF PartStart, Written
<1>3. more \in Seq(Int) /\ Len(more) = n
  BY <1>2
<1> HIDE DEF more
<1>4. Len(file') = Len(file) + n
  <2>1. file \in Seq(Int)
    BY DEF Written
  <2> QED BY <1>1, <1>3, <2>1, ConcatProperties
<1>5. Len(file') <= HeaderBytes + written_bytes' + done'
  BY <1>1, <1>4, <1>t DEF Cached
<1> QED BY <1>1, <1>5 DEF Cached, Slack, BytesOf

\* What was done of the part counts as written.
LEMMA EndWriteCached ==
    ASSUME Written, Released, Cached, EndWrite
    PROVE  Cached'
<1>t. /\ written_bytes \in Nat /\ part \in Nat /\ rest \in Nat /\ done \in 0 .. part
      /\ chunk_start \in Nat /\ sync_off \in Nat /\ sync_len \in Nat
      /\ Len(file) \in Nat /\ Slack \in Nat /\ Chunk \in Nat \ {0}
      /\ HeaderBytes \in Nat /\ BytesOf(RingValues) \in Nat
  BY CacheTypes
<1>1. /\ outPc = "write" /\ outPc' \in {"write", "release"}
      /\ written_bytes' = written_bytes + done
      /\ done' = 0 /\ part' = rest /\ rest' = 0
      /\ UNCHANGED <<file, chunk_start, sync_off, sync_len, dropped>>
  BY DEF EndWrite, Counted, cacheVars
<1>2. /\ written_bytes + part + rest - chunk_start <= Slack
      /\ Len(file) <= HeaderBytes + written_bytes + done
  BY <1>1 DEF Cached
<1>3. written_bytes' + part' + rest' - chunk_start' <= Slack
  BY <1>1, <1>2, <1>t
<1>4. Len(file') <= HeaderBytes + written_bytes' + done'
  BY <1>1, <1>2, <1>t
<1> QED BY <1>1, <1>3, <1>4 DEF Cached, Slack, BytesOf

\* The range being written back is dropped, and the next one is what was
\* written since.
LEMMA ReleaseCached ==
    ASSUME Written, Released, Cached, ReleaseChunk
    PROVE  Cached'
<1>t. /\ written_bytes \in Nat /\ part \in Nat /\ rest \in Nat /\ done \in 0 .. part
      /\ chunk_start \in Nat /\ sync_off \in Nat /\ sync_len \in Nat
      /\ Len(file) \in Nat /\ Slack \in Nat /\ Chunk \in Nat \ {0}
      /\ HeaderBytes \in Nat /\ BytesOf(RingValues) \in Nat
  BY CacheTypes
<1>1. /\ outPc = "release" /\ outPc' = "loop"
      /\ dropped' = dropped \union ToDrop
      /\ sync_off' = chunk_start /\ sync_len' = written_bytes - chunk_start
      /\ chunk_start' = written_bytes
      /\ UNCHANGED <<part, rest, done, written_bytes, file>>
  BY DEF ReleaseChunk, RememberChunk, partVars, statVars
<1>2. part = 0 /\ rest = 0 /\ done = 0
  BY <1>1 DEF Written
<1>3. /\ chunk_start' = sync_off' + sync_len' /\ sync_len' <= Slack
      /\ written_bytes' - chunk_start' <= Chunk - 1
  BY <1>1, <1>2, <1>t DEF Cached
<1>4. ASSUME NEW x \in 0 .. sync_off' - 1
      PROVE  \E r \in dropped' : x \in r[1] .. r[2] - 1
  <2>1. x \in 0 .. chunk_start - 1 /\ chunk_start = sync_off + sync_len /\ x \in Nat
    BY <1>1, <1>t DEF Cached
  <2>2. CASE x < sync_off
    <3>1. x \in 0 .. sync_off - 1
      BY <2>1, <2>2, <1>t
    <3> QED BY <1>1, <3>1 DEF Cached
  <2>3. CASE x >= sync_off
    <3> DEFINE r == Span(sync_off, sync_len)
    <3>1. sync_len > 0
      BY <2>1, <2>3, <1>t
    <3>2. r[1] = sync_off /\ r[2] = sync_off + sync_len
      BY DEF Span
    <3>3. x \in r[1] .. r[2] - 1
      BY <2>1, <2>3, <3>2, <1>t
    <3>4. r \in dropped'
      BY <1>1, <3>1 DEF ToDrop
    <3> QED BY <3>3, <3>4
  <2> QED BY <2>1, <2>2, <2>3, <1>t
<1> QED BY <1>1, <1>3, <1>4 DEF Cached, Slack, BytesOf

\* A step of the output thread.
LEMMA OutputThreadCached ==
    ASSUME Written, Released, Cached, OutputThread
    PROVE  Cached'
<1>1. ASSUME NEW n \in 1..RingValues, NEW k \in 1..RingValues, TakeSpan(n, k)
      PROVE  Cached'
  BY <1>1, TakeSpanCached
<1>2. ASSUME NEW n \in 1 .. ValueBytes * RingValues, WriteSome(n)
      PROVE  Cached'
  <2>1. n \in Nat
    BY FileWriterAssumption
  <2> QED BY <1>2, <2>1, WriteSomeCached
<1>3. CASE ReleaseNothing
  <2>1. /\ UNCHANGED <<part, rest, done, written_bytes, file>>
        /\ UNCHANGED <<chunk_start, sync_off, sync_len, dropped>>
        /\ outPc = "release" /\ outPc' = "loop" /\ ~ChunkFull
    BY <1>3 DEF ReleaseNothing, partVars, statVars, cacheVars
  <2>2. written_bytes - chunk_start <= Chunk - 1
    BY <2>1, CacheTypes DEF ChunkFull
  <2> QED BY <2>1, <2>2 DEF Cached, Slack, BytesOf
<1>4. CASE ThreadEnds
  BY <1>4, KeptCached DEF ThreadEnds, statVars
<1> QED BY <1>1, <1>2, <1>3, <1>4, EndWriteCached, ReleaseCached DEF OutputThread

\* Every step keeps the cache bounded.
LEMMA StepCached == Written /\ Released /\ Cached /\ [Next]_vars => Cached'
<1> SUFFICES ASSUME Written, Released, Cached, [Next]_vars PROVE Cached'
  OBVIOUS
<1>1. ASSUME UNCHANGED <<outPc, partVars, statVars, cacheVars, file>>
      PROVE  Cached'
  BY <1>1, KeptCached DEF statVars
<1>2. CASE OutputOpen
  BY <1>1, <1>2, KeptCached DEF OutputOpen, Open, fileVars, statVars
<1>3. CASE OutputHeader
  <2>1. CASE UNCHANGED fileVars
    BY <1>1, <2>1 DEF fileVars
  <2>2. ASSUME NEW n \in 0..HeaderBytes, WriteHeader(n) PROVE Cached'
    <3>1. /\ outPc = "header" /\ outPc' = "create" /\ file' = [i \in 1..n |-> Header]
          /\ UNCHANGED <<part, rest, done, written_bytes>>
          /\ UNCHANGED <<chunk_start, sync_off, sync_len, dropped>>
      BY <2>2 DEF WriteHeader, partVars, statVars, cacheVars
    <3>2. n \in Nat /\ n <= HeaderBytes
      BY FileWriterAssumption
    <3>3. Len(file') = n
      BY <3>1, <3>2 DEF Header
    <3>4. Len(file') <= HeaderBytes + written_bytes' + done'
      BY <3>1, <3>2, <3>3, CacheTypes
    <3> QED BY <3>1, <3>4 DEF Cached, Slack, BytesOf
  <2> QED BY <1>3, <2>1, <2>2 DEF OutputHeader
<1>4. CASE OutputThreadStart
  BY <1>1, <1>4, KeptCached DEF OutputThreadStart, ThreadCreated, fileVars, statVars
<1>5. CASE RxStore
  BY <1>1, <1>5 DEF RxStore, Store
<1>6. CASE OutputStep
  BY <1>6, OutputThreadCached DEF OutputStep
<1>7. CASE StopOutput
  BY <1>1, <1>7 DEF StopOutput
<1>8. CASE \/ Config \/ DiscoverAsk \/ DiscoverEnd \/ Connect \/ BuffersCreate \/ Stream
           \/ Configure \/ GiveUp \/ Wait \/ RecordEnds \/ Interrupt \/ StopRx \/ JoinRx
           \/ StopLink \/ JoinKeepalive \/ CloseSocket \/ JoinOutput \/ CloseFile
           \/ BuffersFree \/ RxEnds \/ KeepaliveEnds \/ Terminated \/ UNCHANGED vars
  <2>1. UNCHANGED fileVars
    BY <1>8 DEF Config, DiscoverAsk, DiscoverEnd, Connect, BuffersCreate, Stream,
       Configure, GiveUp, Wait, RecordEnds, Interrupt, StopRx, JoinRx, StopLink,
       JoinKeepalive, CloseSocket, JoinOutput, CloseFile, BuffersFree, RxEnds,
       KeepaliveEnds, Terminated, vars
  <2> QED BY <1>1, <2>1 DEF fileVars
<1> QED BY <1>2, <1>3, <1>4, <1>5, <1>6, <1>7, <1>8 DEF Next, Main

\* However the writes are split or fail, and however long the recording is, no
\* more of the page cache is kept between spans than two chunks short of a byte
\* and one span (output.c:54-59).
THEOREM CacheIsBounded == Spec => []CacheBounded
<1>1. Written /\ Released /\ Cached => CacheBounded
  <2> SUFFICES ASSUME Written, Released, Cached, outPc = "loop"
               PROVE  Kept <= HeaderBytes + 2 * (Chunk - 1) + BytesOf(RingValues)
    BY DEF CacheBounded
  <2> DEFINE K == {i \in DOMAIN file : \A r \in dropped : i - 1 \notin r[1] .. r[2] - 1}
             N == Len(file)
  <2>1. /\ written_bytes \in Nat /\ sync_off \in Nat /\ sync_len \in Nat /\ chunk_start \in Nat
        /\ N \in Nat /\ Chunk \in Nat /\ HeaderBytes \in Nat /\ BytesOf(RingValues) \in Nat
        /\ DOMAIN file = 1 .. N /\ done = 0
    BY CacheTypes, LenProperties DEF Written
  <2>2. /\ chunk_start = sync_off + sync_len
        /\ sync_len <= Chunk - 1 + BytesOf(RingValues)
        /\ N <= HeaderBytes + written_bytes
        /\ written_bytes - chunk_start <= Chunk - 1
    BY <2>1 DEF Cached, Slack
  <2>3. K \subseteq sync_off + 1 .. N
    <3>1. ASSUME NEW i \in K, i <= sync_off PROVE FALSE
      <4>1. i \in 1 .. N /\ i - 1 \in 0 .. sync_off - 1
        BY <2>1, <3>1
      <4> QED BY <3>1, <4>1 DEF Cached
    <3> QED BY <2>1, <3>1
  <2>4. Cardinality(K) <= Cardinality(sync_off + 1 .. N)
    <3>1. IsFiniteSet(sync_off + 1 .. N)
      BY <2>1, FS_Interval
    <3> QED BY <2>3, <3>1, FS_Subset
  <2>5. Cardinality(sync_off + 1 .. N) =
            IF sync_off + 1 > N THEN 0 ELSE N - (sync_off + 1) + 1
    <3>1. PICK a \in Int, n \in Int : a = sync_off + 1 /\ n = N
      <4>1. sync_off + 1 \in Int /\ N \in Int
        BY <2>1
      <4> QED BY <4>1, Zenon
    <3>2. Cardinality(a .. n) = IF a > n THEN 0 ELSE n - a + 1
      BY FS_Interval
    <3> QED BY <3>1, <3>2
  <2>6. Cardinality(K) \in Int
    <3>1. IsFiniteSet(sync_off + 1 .. N)
      BY <2>1, FS_Interval
    <3>2. IsFiniteSet(K)
      BY <2>3, <3>1, FS_Subset
    <3> QED BY <3>2, FS_CardinalityType
  <2>7. Kept = Cardinality(K)
    BY DEF Kept
  <2> HIDE DEF K, N
  <2>8. PICK k \in Int, n \in Nat, c \in Nat, b \in Nat :
            k = Cardinality(K) /\ n = N /\ c = Chunk /\ b = BytesOf(RingValues)
    BY <2>1, <2>6
  <2>9. k <= (IF sync_off + 1 > n THEN 0 ELSE n - (sync_off + 1) + 1)
    BY <2>4, <2>5, <2>8
  <2>10. /\ sync_len <= c - 1 + b /\ n <= HeaderBytes + written_bytes
         /\ written_bytes - chunk_start <= c - 1 /\ c \in Nat \ {0}
    BY <2>2, <2>8, FileWriterAssumption
  <2>11. k <= HeaderBytes + 2 * (c - 1) + b
    BY <2>1, <2>2, <2>9, <2>10
  <2> QED BY <2>7, <2>8, <2>11
<1>2. Spec => []Cached
  BY InitCached, StepCached, WrittenAlways, PTL DEF Spec
<1> QED BY <1>1, <1>2, WrittenAlways, PTL

-----------------------------------------------------------------------------
(* Type correctness *)

\* What the output thread keeps count of.
Counts ==
    /\ outPc \in {"closed", "header", "create", "loop", "write", "release", "joinable"}
    /\ ready \in Nat /\ taken \in Nat /\ ready + taken <= MaxValues
    /\ total_writes \in Nat
    /\ partial_writes \in 0 .. total_writes /\ failed_writes \in 0 .. total_writes

\* What main() and the threads keep.
States ==
    /\ mainPc \in {"config", "discover", "connect", "buffers", "open", "header",
                   "thread", "stream", "configure", "wait", "record",
                   "stopRx", "joinRx", "stopLink", "joinKeepalive", "closeSocket",
                   "stopOutput", "joinOutput", "closeFile", "free",
                   "exited", "crashed"}
    /\ attempt \in 0..Attempts
    /\ exit_status \in {"none", "success", "failure"}
    /\ {data_socket, discovery, outputfd} \subseteq Nums \union {-1}
    /\ rx \in ThreadState /\ ka \in ThreadState

\* What is done or allowed, and what is held.
Flags ==
    /\ output_active \in BOOLEAN /\ partial \in BOOLEAN
    /\ keep_running \in BOOLEAN /\ ip_address \in BOOLEAN
    /\ blocks \in BOOLEAN /\ insamples \in BOOLEAN
    /\ streaming_active \in BOOLEAN /\ rx_thread_started \in BOOLEAN
    /\ keepalive_active \in BOOLEAN /\ output_thread_started \in BOOLEAN

\* Each part starts within its type.
LEMMA InitTypes == Init => Counts /\ States /\ Flags
<1>1. Init => Counts
  BY FileWriterAssumption DEF Init, FileInit, Counts
<1>2. Init => States
  BY LifecycleAssumption DEF Init, States, ThreadState
<1>3. Init => Flags
  BY Zenon DEF Init, FileInit, Flags
<1> QED BY <1>1, <1>2, <1>3

\* The counts move with the spans taken and the writes made.
LEMMA StepCounts == Counts /\ [Next]_vars => Counts'
<1> SUFFICES ASSUME Counts, [Next]_vars PROVE Counts'
  OBVIOUS
<1> USE DEF Counts, ringVars, partVars, statVars, cacheVars, fileVars
<1>0. MaxValues \in Nat
  BY FileWriterAssumption
<1>1. CASE OutputStep
  <2>1. ASSUME NEW n \in 1..RingValues, NEW k \in 1..RingValues, TakeSpan(n, k)
        PROVE  Counts'
    BY <1>0, <2>1 DEF TakeSpan
  <2>2. ASSUME NEW n \in 1 .. ValueBytes * RingValues, WriteSome(n)
        PROVE  Counts'
    BY <2>2 DEF WriteSome
  <2>3. CASE EndWrite
    BY <2>3 DEF EndWrite
  <2>4. CASE ReleaseChunk \/ ReleaseNothing \/ ThreadEnds
    BY <2>4 DEF ReleaseChunk, ReleaseNothing, ThreadEnds
  <2> QED BY <1>1, <2>1, <2>2, <2>3, <2>4 DEF OutputStep, OutputThread
<1>2. CASE RxStore
  BY <1>0, <1>2 DEF RxStore, Store
<1>3. CASE OutputOpen \/ OutputHeader \/ OutputThreadStart \/ StopOutput
  BY <1>3 DEF OutputOpen, OutputHeader, OutputThreadStart, StopOutput, Open,
              WriteHeader, ThreadCreated
<1>4. CASE \/ Config \/ DiscoverAsk \/ DiscoverEnd \/ Connect \/ BuffersCreate \/ Stream
           \/ Configure \/ GiveUp \/ Wait \/ RecordEnds \/ Interrupt \/ StopRx \/ JoinRx
           \/ StopLink \/ JoinKeepalive \/ CloseSocket \/ JoinOutput \/ CloseFile
           \/ BuffersFree \/ RxEnds \/ KeepaliveEnds \/ Terminated \/ UNCHANGED vars
  <2>1. UNCHANGED fileVars
    BY <1>4 DEF Config, DiscoverAsk, DiscoverEnd, Connect, BuffersCreate, Stream,
       Configure, GiveUp, Wait, RecordEnds, Interrupt, StopRx, JoinRx, StopLink,
       JoinKeepalive, CloseSocket, JoinOutput, CloseFile, BuffersFree, RxEnds,
       KeepaliveEnds, Terminated, vars
  <2> QED BY <2>1
<1> QED BY <1>1, <1>2, <1>3, <1>4 DEF Next, Main

\* A state is followed by a state, and a file number is a free one or none.
LEMMA StepStates == Held /\ States /\ [Next]_vars => States'
<1> SUFFICES ASSUME Held, States, [Next]_vars PROVE States'
  OBVIOUS
<1> USE DEF States, ThreadState, Go, Fail, Exit, mainVars, fdVars, memVars, rxVars, kaVars
<1>0. -1 \notin DOMAIN open /\ Attempts \in Nat
  BY LifecycleAssumption DEF Held, Named, Nums
<1>1. CASE DiscoverAsk \/ Connect
  <2>1. DOMAIN open \subseteq {-1}
    BY <1>1 DEF DiscoverAsk, Connect, BindFails, Held, Named, Stage
  <2>2. Free \in Nums
    BY <2>1, FreeIsFree
  <2> QED BY <1>1, <2>2 DEF DiscoverAsk, Connect, BindFails
<1>2. CASE OutputOpen
  <2>1. DOMAIN open \subseteq {data_socket}
    BY <1>2 DEF OutputOpen, Held, Named, Stage, Nums
  <2>2. Free \in Nums
    BY <2>1, FreeIsFree
  <2> QED BY <1>2, <2>2 DEF OutputOpen
<1>3. CASE Config \/ DiscoverEnd \/ BuffersCreate \/ OutputHeader \/ OutputThreadStart \/ Stream
  BY <1>3 DEF Config, DiscoverEnd, BuffersCreate, OutputHeader, OutputThreadStart, Stream
<1>4. CASE Configure
  BY <1>0, <1>4 DEF Configure, StartKeepalive
<1>5. CASE GiveUp \/ Wait \/ RecordEnds \/ Interrupt
  BY <1>5 DEF GiveUp, Wait, RecordEnds, Interrupt
<1>6. CASE StopRx \/ JoinRx \/ StopLink \/ JoinKeepalive
  BY <1>6 DEF StopRx, JoinRx, JoinRxWaits, StopLink, JoinKeepalive
<1>7. CASE CloseSocket \/ StopOutput \/ JoinOutput \/ CloseFile \/ BuffersFree
  BY <1>7 DEF CloseSocket, StopOutput, JoinOutput, CloseFile, CloseFileOpen, BuffersFree
<1>8. CASE RxEnds \/ KeepaliveEnds
  BY <1>8 DEF RxEnds, KeepaliveEnds
<1>9. CASE RxStore \/ OutputStep \/ Terminated \/ UNCHANGED vars
  <2>1. UNCHANGED lifeVars
    BY <1>9 DEF RxStore, OutputStep, Terminated, vars
  <2> QED BY <2>1 DEF lifeVars
<1> QED BY <1>1, <1>2, <1>3, <1>4, <1>5, <1>6, <1>7, <1>8, <1>9 DEF Next, Main

\* A flag is set, cleared or left.
LEMMA StepFlags == Flags /\ [Next]_vars => Flags'
<1> SUFFICES ASSUME Flags, [Next]_vars PROVE Flags'
  OBVIOUS
<1> USE DEF Flags, mainVars, memVars, rxVars, kaVars, fileVars, partVars
<1>1. CASE Config
  BY <1>1, Zenon DEF Config
<1>2. CASE DiscoverAsk
  BY <1>2, Zenon DEF DiscoverAsk
<1>3. CASE DiscoverEnd
  BY <1>3, Zenon DEF DiscoverEnd
<1>4. CASE Connect
  BY <1>4, Zenon DEF Connect, BindFails
<1>5. CASE BuffersCreate
  BY <1>5, Zenon DEF BuffersCreate
<1>6. CASE OutputOpen
  BY <1>6, Zenon DEF OutputOpen, Open
<1>7. CASE OutputHeader
  BY <1>7, Zenon DEF OutputHeader, WriteHeader
<1>8. CASE OutputThreadStart
  BY <1>8, Zenon DEF OutputThreadStart, ThreadCreated
<1>9. CASE Stream
  BY <1>9, Zenon DEF Stream
<1>10. CASE Configure
  BY <1>10, Zenon DEF Configure, StartKeepalive
<1>11. CASE GiveUp \/ Wait \/ RecordEnds
  <2>1. CASE GiveUp
    BY <2>1, Zenon DEF GiveUp
  <2>2. CASE Wait
    BY <2>2, Zenon DEF Wait
  <2>3. CASE RecordEnds
    BY <2>3, Zenon DEF RecordEnds
  <2> QED BY <1>11, <2>1, <2>2, <2>3
<1>12. CASE Interrupt
  BY <1>12, Zenon DEF Interrupt
<1>13. CASE StopRx
  BY <1>13, Zenon DEF StopRx
<1>14. CASE JoinRx
  BY <1>14, Zenon DEF JoinRx
<1>15. CASE StopLink
  BY <1>15, Zenon DEF StopLink
<1>16. CASE JoinKeepalive
  BY <1>16, Zenon DEF JoinKeepalive
<1>17. CASE CloseSocket
  BY <1>17, Zenon DEF CloseSocket
<1>18. CASE StopOutput
  BY <1>18, Zenon DEF StopOutput
<1>19. CASE JoinOutput
  BY <1>19, Zenon DEF JoinOutput
<1>20. CASE CloseFile
  BY <1>20, Zenon DEF CloseFile
<1>21. CASE BuffersFree
  BY <1>21, Zenon DEF BuffersFree
<1>22. CASE RxEnds
  BY <1>22, Zenon DEF RxEnds
<1>23. CASE KeepaliveEnds
  BY <1>23, Zenon DEF KeepaliveEnds
<1>24. CASE RxStore \/ OutputStep \/ Terminated \/ UNCHANGED vars
  <2>1. UNCHANGED lifeVars
    BY <1>24 DEF RxStore, OutputStep, Terminated, vars
  <2>2. UNCHANGED output_active
    BY <1>24 DEF RxStore, Store, OutputStep, OutputThread, TakeSpan, WriteSome, EndWrite,
                ReleaseChunk, ReleaseNothing, ThreadEnds, Terminated, vars
  <2>3. partial' \in BOOLEAN
    <3>1. ASSUME NEW n \in 1 .. ValueBytes * RingValues, WriteSome(n)
          PROVE  partial' \in BOOLEAN
      BY <3>1, Zenon DEF WriteSome
    <3>2. ASSUME NEW n \in 1..RingValues, NEW k \in 1..RingValues, TakeSpan(n, k)
          PROVE  partial' \in BOOLEAN
      BY <3>2, Zenon DEF TakeSpan
    <3>3. CASE EndWrite \/ ReleaseChunk \/ ReleaseNothing \/ ThreadEnds \/ RxStore
                  \/ Terminated \/ UNCHANGED vars
      BY <3>3, Zenon DEF EndWrite, ReleaseChunk, ReleaseNothing, ThreadEnds, RxStore,
                         Store, Terminated, vars
    <3> QED BY <1>24, <3>1, <3>2, <3>3, Zenon DEF OutputStep, OutputThread
  <2> QED BY <2>1, <2>2, <2>3, Zenon DEF lifeVars
<1> QED
  BY <1>1, <1>2, <1>3, <1>4, <1>5, <1>6, <1>7, <1>8, <1>9, <1>10, <1>11, <1>12, <1>13, <1>14,
     <1>15, <1>16, <1>17, <1>18, <1>19, <1>20, <1>21, <1>22, <1>23, <1>24 DEF Next, Main

\* Every variable of the process and of its output file keeps its type; the
\* bytes in the file are the header's or bytes that were taken from the ring.
THEOREM ProcessTypes == Spec => []LifeTypeOK
<1>1. Held /\ Written /\ Released /\ Counts /\ States /\ Flags => LifeTypeOK
  <2> SUFFICES ASSUME Held, Written, Released, Counts, States, Flags PROVE LifeTypeOK
    OBVIOUS
  <2>1. ASSUME NEW i \in DOMAIN file
        PROVE  file[i] \in {Header} \union (0 .. ValueBytes * MaxValues - 1)
    <3>1. PICK h \in Nat : Prefix(h)
      BY DEF Written
    <3>2. file \in Seq(Int) /\ DOMAIN file = 1 .. Len(file) /\ Len(file) \in Nat
      BY LenProperties DEF Written
    <3>3. Data = h + 1 .. Len(file)
      BY <3>1, <3>2, DataIsRest
    <3>4. CASE i \in Data
      <4>1. file[i] \in Nat
        BY <3>1, <3>3, <3>4 DEF Prefix
      <4>2. file[i] < written_bytes + failed_bytes + done
        BY <3>4 DEF Written
      <4>3. /\ written_bytes \in Nat /\ failed_bytes \in Nat /\ done \in 0 .. part
            /\ part \in Nat /\ rest \in Nat /\ taken \in Nat
            /\ written_bytes + failed_bytes + part + rest = BytesOf(taken)
        BY DEF Written
      <4>4. BytesOf(taken) <= ValueBytes * MaxValues
        <5>1. taken \in Nat /\ MaxValues - taken \in Nat /\ ValueBytes \in Nat /\ MaxValues \in Nat
          BY FileWriterAssumption DEF Counts
        <5>2. /\ ValueBytes * (0 + MaxValues)
                     = ValueBytes * 0 + ValueBytes * taken + ValueBytes * (MaxValues - taken)
              /\ ValueBytes * taken \in Nat /\ ValueBytes * (MaxValues - taken) \in Nat
          BY <5>1, Distributes
        <5>3. ValueBytes * 0 = 0 /\ 0 + MaxValues = MaxValues
          BY <5>1
        <5> QED BY <5>2, <5>3 DEF BytesOf
      <4>5. BytesOf(taken) \in Int /\ ValueBytes * MaxValues \in Int
        BY <4>3, FileWriterAssumption DEF BytesOf
      <4> DEFINE all == BytesOf(taken)  cap == ValueBytes * MaxValues
      <4> HIDE DEF all, cap
      <4>6. all \in Int /\ cap \in Int /\ all <= cap
            /\ written_bytes + failed_bytes + part + rest = all
        BY <4>3, <4>4, <4>5 DEF all, cap
      <4>7. file[i] \in 0 .. cap - 1
        BY <4>1, <4>2, <4>3, <4>6
      <4> QED BY <4>7 DEF cap
    <3>5. CASE i \notin Data
      BY <3>5 DEF Data
    <3> QED BY <3>4, <3>5
  <2>2. /\ part \in Nat /\ rest \in Nat /\ done \in 0 .. part
        /\ written_bytes \in Nat /\ failed_bytes \in Nat
        /\ chunk_start \in Nat /\ sync_off \in Nat /\ sync_len \in Nat
    BY CacheTypes DEF Written
  <2>3. \A r \in started \union dropped : r[1] \in Nat /\ r[2] \in Nat
    BY <2>2 DEF Released
  <2>4. /\ ready \in 0..MaxValues /\ taken \in 0..MaxValues
        /\ partial_writes + failed_writes <= 2 * total_writes
    BY FileWriterAssumption DEF Counts
  <2>5. TypeOK
    BY <2>1, <2>2, <2>3, <2>4, Zenon DEF TypeOK, Counts, Flags
  <2>6. \A fd \in DOMAIN open : open[fd] \in {"discovery", "data", "file"}
    BY DEF Held, Named
  <2>7. DOMAIN open \subseteq Nums
    BY DEF Held, Named
  <2> QED BY <2>5, <2>6, <2>7, Zenon DEF LifeTypeOK, States, Flags
<1> QED
  BY <1>1, InitTypes, StepCounts, StepStates, StepFlags, HeldAlways, WrittenAlways, PTL DEF Spec
=============================================================================
