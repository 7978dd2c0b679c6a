----------------------------- MODULE Lifecycle -----------------------------
(***************************************************************************)
(* The recorder from its start to its end: the steps of main() and of      *)
(* main_exit() (hpsdr-recorder.c), which every failure of the start-up     *)
(* leads to, with the descriptors, buffers and threads they create and     *)
(* give back (hpsdr-protocol2.c, buffers.c, streaming.c), composed with    *)
(* the output file of module FileWriter.                                   *)
(*                                                                         *)
(* What the threads do with one another's data is in modules Pipeline,     *)
(* Control and Link; here it matters that they run, and on what.           *)
(***************************************************************************)
EXTENDS FileWriter

CONSTANTS
    Attempts,    \* attempts to configure the radio: 3
    Descriptors  \* bound: descriptor numbers there are; two are open at a time

ASSUME LifecycleAssumption ==
    Attempts \in Nat \ {0} /\ Descriptors \in Nat /\ Descriptors >= 2

VARIABLES
    mainPc, attempt, keep_running, exit_status,
    ip_address,                     \* whether it is known
    open,                           \* open descriptors, and what they are
    data_socket, discovery, outputfd,
    blocks, insamples,              \* whether they are allocated
    rx, streaming_active, rx_thread_started,
    ka, keepalive_active,
    output_thread_started

mainVars   == <<mainPc, attempt, keep_running, exit_status, ip_address>>
fdVars     == <<open, data_socket, discovery, outputfd>>
memVars    == <<blocks, insamples>>
rxVars     == <<rx, streaming_active, rx_thread_started>>
kaVars     == <<ka, keepalive_active>>
lifeVars   == <<mainVars, fdVars, memVars, rxVars, kaVars, output_thread_started>>
vars       == <<lifeVars, fileVars>>

Nums == 0 .. Descriptors - 1
Ended == mainPc \in {"exited", "crashed"}
ThreadState == {"none", "running", "ended"}

LifeTypeOK ==
    /\ TypeOK
    /\ mainPc \in {"config", "discover", "connect", "buffers", "open", "header",
                   "thread", "stream", "configure", "wait", "record",
                   "stopRx", "joinRx", "stopLink", "joinKeepalive", "closeSocket",
                   "stopOutput", "joinOutput", "closeFile", "free",
                   "exited", "crashed"}
    /\ attempt \in 0..Attempts /\ keep_running \in BOOLEAN
    /\ exit_status \in {"none", "success", "failure"} /\ ip_address \in BOOLEAN
    /\ DOMAIN open \subseteq Nums
    /\ \A fd \in DOMAIN open : open[fd] \in {"discovery", "data", "file"}
    /\ {data_socket, discovery, outputfd} \subseteq Nums \union {-1}
    /\ blocks \in BOOLEAN /\ insamples \in BOOLEAN
    /\ rx \in ThreadState /\ streaming_active \in BOOLEAN /\ rx_thread_started \in BOOLEAN
    /\ ka \in ThreadState /\ keepalive_active \in BOOLEAN
    /\ output_thread_started \in BOOLEAN

Init ==
    /\ FileInit
    /\ mainPc = "config" /\ attempt = 0 /\ keep_running = TRUE
    /\ exit_status = "none" /\ ip_address = FALSE
    /\ open = <<>> /\ data_socket = -1 /\ discovery = -1 /\ outputfd = -1
    /\ blocks = FALSE /\ insamples = FALSE
    /\ rx = "none" /\ streaming_active = TRUE /\ rx_thread_started = FALSE
    /\ ka = "none" /\ keepalive_active = FALSE
    /\ output_thread_started = FALSE

-----------------------------------------------------------------------------
(* The steps of the main thread *)

\* From one step of main() to the next, or to main_exit().
Go(from, to) == mainPc = from /\ mainPc' = to
Exit(status) == mainPc' = "stopRx" /\ exit_status' = status
Fail(from)   == mainPc = from /\ Exit("failure")

\* socket() and open() return the lowest number that is free.
Free == CHOOSE fd \in Nums \ DOMAIN open : \A f \in Nums \ DOMAIN open : fd <= f
Opened(kind) ==
    open' = [fd \in DOMAIN open \union {Free} |-> IF fd = Free THEN kind ELSE open[fd]]
Closed(fd)   == open' = [f \in DOMAIN open \ {fd} |-> open[f]]

\* get_config_from_cli(), and whether it left an address.
Config ==
    /\ \/ Go("config", "discover") /\ UNCHANGED <<exit_status, ip_address>>
       \/ Go("config", "connect") /\ ip_address' = TRUE /\ UNCHANGED exit_status
       \/ Fail("config") /\ UNCHANGED ip_address
    /\ UNCHANGED <<attempt, keep_running, fdVars, memVars, rxVars, kaVars,
                   output_thread_started, fileVars>>

\* hpsdr_discover(): the request goes out ...
DiscoverAsk ==
    /\ mainPc = "discover" /\ discovery = -1
    /\ \/ Opened("discovery") /\ discovery' = Free /\ UNCHANGED <<mainPc, exit_status>>
       \/ Fail("discover") /\ UNCHANGED <<open, discovery>>
    /\ UNCHANGED <<attempt, keep_running, ip_address, data_socket, outputfd, memVars,
                   rxVars, kaVars, output_thread_started, fileVars>>

\* ... and is answered, or not within two seconds, or cannot be sent.
DiscoverEnd ==
    /\ mainPc = "discover" /\ discovery # -1
    /\ Closed(discovery) /\ discovery' = -1
    /\ \/ Go("discover", "connect") /\ ip_address' = TRUE /\ UNCHANGED exit_status
       \/ Fail("discover") /\ UNCHANGED ip_address
    /\ UNCHANGED <<attempt, keep_running, data_socket, outputfd, memVars,
                   rxVars, kaVars, output_thread_started, fileVars>>

\* hpsdr_connect(): when bind() fails the descriptor is closed, but data_socket
\* keeps its number.
BindFailsIgnored ==              \* mutant: main() goes on without the port
    /\ Go("connect", "buffers") /\ data_socket' = Free /\ UNCHANGED <<open, exit_status>>
BindFails ==
    /\ Fail("connect") /\ data_socket' = Free /\ UNCHANGED open

Connect ==
    /\ \/ /\ Go("connect", "buffers") /\ Opened("data") /\ data_socket' = Free
          /\ UNCHANGED exit_status
       \/ Fail("connect") /\ UNCHANGED <<open, data_socket>>
       \/ BindFails
    /\ UNCHANGED <<attempt, keep_running, ip_address, discovery, outputfd, memVars,
                   rxVars, kaVars, output_thread_started, fileVars>>

\* buffers_create(): either malloc() may fail.
BuffersCreate ==
    /\ \/ Go("buffers", "open") /\ blocks' = TRUE /\ insamples' = TRUE /\ UNCHANGED exit_status
       \/ Fail("buffers") /\ blocks' \in BOOLEAN /\ UNCHANGED insamples
    /\ UNCHANGED <<attempt, keep_running, ip_address, fdVars, rxVars, kaVars,
                   output_thread_started, fileVars>>

-----------------------------------------------------------------------------
(* output_open() *)

OutputOpen ==
    /\ \/ /\ Go("open", "header") /\ Open /\ Opened("file") /\ outputfd' = Free
          /\ UNCHANGED exit_status
       \/ Fail("open") /\ UNCHANGED <<open, outputfd, fileVars>>
    /\ UNCHANGED <<attempt, keep_running, ip_address, data_socket, discovery, memVars,
                   rxVars, kaVars, output_thread_started>>

OutputHeader ==
    /\ \/ /\ Go("header", "thread") /\ \E n \in 0..HeaderBytes : WriteHeader(n)
          /\ UNCHANGED exit_status
       \/ Fail("header") /\ UNCHANGED fileVars
    /\ UNCHANGED <<attempt, keep_running, ip_address, fdVars, memVars, rxVars, kaVars,
                   output_thread_started>>

OutputThreadStart ==
    /\ \/ /\ Go("thread", "stream") /\ ThreadCreated /\ output_thread_started' = TRUE
          /\ UNCHANGED exit_status
       \/ Fail("thread") /\ UNCHANGED <<output_thread_started, fileVars>>
    /\ UNCHANGED <<attempt, keep_running, ip_address, fdVars, memVars, rxVars, kaVars>>

-----------------------------------------------------------------------------
(* stream(), the attempts and the recording *)

Stream ==
    /\ \/ /\ Go("stream", "configure") /\ rx' = "running" /\ rx_thread_started' = TRUE
          /\ UNCHANGED exit_status
       \/ Fail("stream") /\ UNCHANGED <<rx, rx_thread_started>>
    /\ UNCHANGED <<attempt, keep_running, ip_address, fdVars, memVars,
                   streaming_active, kaVars, output_thread_started, fileVars>>

\* hpsdr_start_keepalive() does not look at the result of pthread_create().
StartKeepalive ==
    /\ keepalive_active' = TRUE /\ ka' \in {"running", ka}

Configure ==
    /\ keep_running /\ attempt < Attempts
    /\ \/ /\ Go("configure", "wait") /\ attempt' = attempt + 1
          /\ IF attempt = 0 THEN StartKeepalive ELSE UNCHANGED kaVars
          /\ UNCHANGED exit_status
       \/ Fail("configure") /\ UNCHANGED <<attempt, kaVars>>
    /\ UNCHANGED <<keep_running, ip_address, fdVars, memVars, rxVars,
                   output_thread_started, fileVars>>

\* No attempt is left, or SIGINT.
GiveUp ==
    /\ ~keep_running \/ attempt = Attempts
    /\ Fail("configure")
    /\ UNCHANGED <<attempt, keep_running, ip_address, fdVars, memVars, rxVars, kaVars,
                   output_thread_started, fileVars>>

\* wait_for_stream()
Wait ==
    /\ \/ Go("wait", "record") /\ ready + taken > 0
       \/ Go("wait", "configure")
    /\ UNCHANGED <<attempt, keep_running, exit_status, ip_address, fdVars, memVars,
                   rxVars, kaVars, output_thread_started, fileVars>>

\* The time limit, or SIGINT.
RecordEnds ==
    /\ mainPc = "record"
    /\ Exit(IF ready + taken = 0 THEN "failure" ELSE "success")
    /\ UNCHANGED <<attempt, keep_running, ip_address, fdVars, memVars, rxVars, kaVars,
                   output_thread_started, fileVars>>

\* int_handler(), once signal() has been called.
Interrupt ==
    /\ mainPc # "config" /\ ~Ended /\ keep_running
    /\ keep_running' = FALSE
    /\ UNCHANGED <<mainPc, attempt, exit_status, ip_address, fdVars, memVars, rxVars,
                   kaVars, output_thread_started, fileVars>>

-----------------------------------------------------------------------------
(* main_exit() *)

\* streaming_stop()
StopRx ==
    /\ IF rx_thread_started
         THEN Go("stopRx", "joinRx") /\ streaming_active' = FALSE
         ELSE Go("stopRx", "stopLink") /\ UNCHANGED streaming_active
    /\ UNCHANGED <<attempt, keep_running, exit_status, ip_address, fdVars, memVars, rx,
                   rx_thread_started, kaVars, output_thread_started, fileVars>>

JoinRxAtOnce == Go("joinRx", "stopLink")         \* mutant: not joined
JoinRxWaits  == Go("joinRx", "stopLink") /\ rx = "ended"

JoinRx ==
    /\ JoinRxWaits
    /\ rx_thread_started' = FALSE
    /\ UNCHANGED <<attempt, keep_running, exit_status, ip_address, fdVars, memVars, rx,
                   streaming_active, kaVars, output_thread_started, fileVars>>

\* hpsdr_close()
StopLink ==
    /\ IF keepalive_active
         THEN Go("stopLink", "joinKeepalive") /\ keepalive_active' = FALSE
         ELSE Go("stopLink", "closeSocket") /\ UNCHANGED keepalive_active
    /\ UNCHANGED <<attempt, keep_running, exit_status, ip_address, fdVars, memVars,
                   rxVars, ka, output_thread_started, fileVars>>

\* Joining a thread that was never created may return an error, or crash.
JoinKeepalive ==
    /\ \/ Go("joinKeepalive", "closeSocket") /\ ka # "running"
       \/ Go("joinKeepalive", "crashed") /\ ka = "none"
    /\ UNCHANGED <<attempt, keep_running, exit_status, ip_address, fdVars, memVars,
                   rxVars, kaVars, output_thread_started, fileVars>>

\* close() of a number that is not open does nothing.
CloseSocket ==
    /\ Go("closeSocket", "stopOutput")
    /\ IF data_socket # -1 THEN Closed(data_socket) /\ data_socket' = -1
                           ELSE UNCHANGED <<open, data_socket>>
    /\ UNCHANGED <<attempt, keep_running, exit_status, ip_address, discovery, outputfd,
                   memVars, rxVars, kaVars, output_thread_started, fileVars>>

\* output_close()
StopOutput ==
    /\ Go("stopOutput", IF output_thread_started THEN "joinOutput" ELSE "closeFile")
    /\ output_active' = FALSE
    /\ UNCHANGED <<attempt, keep_running, exit_status, ip_address, fdVars, memVars,
                   rxVars, kaVars, output_thread_started, outPc, ringVars, partVars,
                   statVars, cacheVars, file>>

JoinOutput ==
    /\ Go("joinOutput", "closeFile") /\ outPc = "joinable"
    /\ output_thread_started' = FALSE
    /\ UNCHANGED <<attempt, keep_running, exit_status, ip_address, fdVars, memVars,
                   rxVars, kaVars, fileVars>>

CloseFileNever == UNCHANGED <<open, outputfd>>     \* mutant
CloseFileOpen  == IF outputfd >= 0 THEN Closed(outputfd) /\ outputfd' = -1
                                   ELSE UNCHANGED <<open, outputfd>>
CloseFile ==
    /\ Go("closeFile", "free")
    /\ CloseFileOpen
    /\ UNCHANGED <<attempt, keep_running, exit_status, ip_address, data_socket,
                   discovery, memVars, rxVars, kaVars, output_thread_started, fileVars>>

\* buffers_free(), and exit()
BuffersFree ==
    /\ Go("free", "exited")
    /\ blocks' = FALSE /\ insamples' = FALSE
    /\ UNCHANGED <<attempt, keep_running, exit_status, ip_address, fdVars, rxVars,
                   kaVars, output_thread_started, fileVars>>

-----------------------------------------------------------------------------
(* The threads *)

\* The RX thread stores a packet, or finds that it is to stop.
RxStore ==
    /\ rx = "running" /\ Store(1)
    /\ UNCHANGED lifeVars

RxEnds ==
    /\ rx = "running" /\ ~streaming_active
    /\ rx' = "ended"
    /\ UNCHANGED <<mainVars, fdVars, memVars, streaming_active, rx_thread_started,
                   kaVars, output_thread_started, fileVars>>

KeepaliveEnds ==
    /\ ka = "running" /\ ~keepalive_active
    /\ ka' = "ended"
    /\ UNCHANGED <<mainVars, fdVars, memVars, rxVars, keepalive_active,
                   output_thread_started, fileVars>>

OutputStep == ~Ended /\ OutputThread /\ UNCHANGED lifeVars

-----------------------------------------------------------------------------
Main == \/ Config \/ DiscoverAsk \/ DiscoverEnd \/ Connect \/ BuffersCreate
        \/ OutputOpen \/ OutputHeader \/ OutputThreadStart
        \/ Stream \/ Configure \/ GiveUp \/ Wait
        \/ StopRx \/ JoinRx \/ StopLink \/ JoinKeepalive \/ CloseSocket
        \/ StopOutput \/ JoinOutput \/ CloseFile \/ BuffersFree

Terminated == Ended /\ UNCHANGED vars

Next == \/ Main \/ RecordEnds \/ Interrupt
        \/ RxStore \/ RxEnds \/ KeepaliveEnds \/ OutputStep \/ Terminated

\* The threads run and their system calls return; the recording ends when it is
\* interrupted, and need not otherwise.
Fairness == /\ WF_vars(Main) /\ WF_vars(RecordEnds /\ ~keep_running)
            /\ WF_vars(RxEnds) /\ WF_vars(KeepaliveEnds) /\ WF_vars(OutputStep)

Spec     == Init /\ [][Next]_vars
FairSpec == Spec /\ Fairness
=============================================================================
