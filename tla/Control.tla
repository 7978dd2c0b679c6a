------------------------------- MODULE Control -------------------------------
(***************************************************************************)
(* The control plane of hpsdr-recorder: how the main thread configures the *)
(* radio in up to three attempts and waits for its stream                  *)
(* (hpsdr-recorder.c), how the keepalive thread repeats the configuration  *)
(* for as long as the recording lasts, and how hpsdr_close() ends it       *)
(* (hpsdr-protocol2.c).                                                    *)
(*                                                                         *)
(* Both threads call the same hpsdr_configure_*() functions, which number  *)
(* their packets from one unprotected counter per kind.  A call is three   *)
(* steps: Build reads the counter, Bump stores its successor, and Send is  *)
(* sendto().  The radio, the network and the RX thread are the             *)
(* environment.                                                            *)
(***************************************************************************)
EXTENDS Integers, Sequences

CONSTANTS
    Attempts,    \* attempts: 3
    SeqSpace,    \* the counters of packets are taken modulo this: 2^32
    SendsFail,   \* whether sendto() may fail
    CreateFails, \* whether pthread_create() may fail
    MaxSamples,  \* bound: how often stats_total_samples() grows
    MaxReboots   \* bound: how often the radio loses its configuration

ASSUME ControlAssumption ==
    /\ Attempts \in Nat \ {0} /\ SeqSpace \in Nat \ {0}
    /\ SendsFail \in BOOLEAN /\ CreateFails \in BOOLEAN
    /\ MaxSamples \in Nat /\ MaxReboots \in Nat

VARIABLES
    mainPc, attempt, keep_running, start_samples, exit_status,
    gave_up,           \* the main thread reported that nothing was recorded
    rx_running,        \* the RX thread has not been joined
    data_socket,       \* whether the socket is open
    keepalive_active, kaPc, cycling,
    current,           \* current_freq1, .._freq2, .._sample_rate, .._diversity
    job,               \* what each thread still has to send
    sequence,          \* general_sequence, rx_sequence, ...
    heard, running, tuned,   \* the radio: kinds heard, P2running, its tuning
    reboots, samples,        \* the radio's reboots; stats_total_samples()
    next_number, in_order    \* history: the numbers went out consecutively

Kind    == {"general", "tx", "rx", "hp"}
Thread  == {"main", "keepalive"}
Setting == {"none", "default", "configured"}
Number  == 0 .. SeqSpace - 1
Phase   == {"build", "bump", "send"}
MainPc  == {"attempt", "configure", "waiting", "recording", "stopping",
            "close", "join", "closeSocket", "exited", "crashed"}

ctlVars   == <<mainPc, attempt, keep_running, start_samples, exit_status, gave_up>>
sockVars  == <<rx_running, data_socket>>
kaVars    == <<keepalive_active, kaPc, cycling, current>>
numVars   == <<sequence, next_number, in_order>>
radioVars == <<heard, running, tuned, reboots, samples>>
vars == <<ctlVars, sockVars, kaVars, job, numVars, radioVars>>

Idle == [todo |-> <<>>, phase |-> "build", num |-> 0]

TypeOK ==
    /\ mainPc \in MainPc /\ attempt \in 0..Attempts /\ keep_running \in BOOLEAN
    /\ start_samples \in 0..MaxSamples
    /\ exit_status \in {"none", "success", "failure"} /\ gave_up \in BOOLEAN
    /\ rx_running \in BOOLEAN /\ data_socket \in BOOLEAN
    /\ keepalive_active \in BOOLEAN /\ kaPc \in {"none", "running", "exited"}
    /\ cycling \in 0..7 /\ current \in {"default", "configured"}
    /\ job \in [Thread -> [todo : Seq(Kind), phase : Phase, num : Number]]
    /\ sequence \in [Kind -> Number]
    /\ next_number \in [Kind -> Number] /\ in_order \in BOOLEAN
    /\ heard \in SUBSET Kind /\ running \in BOOLEAN /\ tuned \in Setting
    /\ reboots \in 0..MaxReboots /\ samples \in 0..MaxSamples

\* After stream(): the RX thread runs and the socket is bound.
Init ==
    /\ mainPc = "attempt" /\ attempt = 0 /\ keep_running = TRUE
    /\ start_samples = 0 /\ exit_status = "none" /\ gave_up = FALSE
    /\ rx_running = TRUE /\ data_socket = TRUE
    /\ keepalive_active = FALSE /\ kaPc = "none" /\ cycling = 0
    /\ current = "default"
    /\ job = [t \in Thread |-> Idle]
    /\ sequence = [k \in Kind |-> 0]
    /\ next_number = [k \in Kind |-> 0] /\ in_order = TRUE
    /\ heard = {} /\ running = FALSE /\ tuned = "none"
    /\ reboots = 0 /\ samples = 0

-----------------------------------------------------------------------------
(* hpsdr_configure_general(), _receiver(), _transmitter_disabled() and      *)
(* _high_priority(): the caller's next packet                               *)

Busy(t)   == job[t].todo # <<>>
Packet(t) == Head(job[t].todo)

\* The settings a packet carries: the main thread passes the configuration,
\* the keepalive thread what hpsdr_start_keepalive() left for it.
Carries(t) == IF t = "main" THEN "configured" ELSE current

Build(t) ==
    /\ Busy(t) /\ job[t].phase = "build"
    /\ job' = [job EXCEPT ![t].num = sequence[Packet(t)], ![t].phase = "bump"]
    /\ UNCHANGED <<ctlVars, sockVars, kaVars, numVars, radioVars>>

\* The store of X_sequence++, from the value Build read.
NextNumber(n) == (n + 1) % SeqSpace

Bump(t) ==
    /\ Busy(t) /\ job[t].phase = "bump"
    /\ sequence' = [sequence EXCEPT ![Packet(t)] = NextNumber(job[t].num)]
    /\ job' = [job EXCEPT ![t].phase = "send"]
    /\ UNCHANGED <<ctlVars, sockVars, kaVars, next_number, in_order, radioVars>>

\* Hand the packet to sendto(): note whether its number follows the last one
\* of its kind.  Once one did not, the expectation is dropped.
HandOver(t) ==
    /\ Busy(t) /\ job[t].phase = "send"
    /\ in_order' = (in_order /\ job[t].num = next_number[Packet(t)])
    /\ next_number' = IF in_order'
                      THEN [next_number EXCEPT ![Packet(t)] = (@ + 1) % SeqSpace]
                      ELSE [k \in Kind |-> 0]
    /\ UNCHANGED <<sequence, sockVars, kaVars>>

NextJob(t) == job' = [job EXCEPT ![t] = [Idle EXCEPT !.todo = Tail(job[t].todo)]]

\* The packet reaches the radio.
SendDelivered(t) ==
    /\ HandOver(t) /\ NextJob(t)
    /\ heard' = heard \union {Packet(t)}
    /\ running' = (running \/ Packet(t) = "hp")
    /\ tuned' = IF Packet(t) \in {"rx", "hp"} THEN Carries(t) ELSE tuned
    /\ UNCHANGED <<ctlVars, reboots, samples>>

\* The packet is lost on the way, and nobody notices.
SendLost(t) ==
    /\ HandOver(t) /\ NextJob(t)
    /\ UNCHANGED <<ctlVars, radioVars>>

\* sendto() fails.  send_radio_config() gives up and main() exits; the
\* keepalive thread ignores the result and goes on.
SendFails(t) ==
    /\ SendsFail
    /\ HandOver(t)
    /\ \/ /\ t = "main"
          /\ job' = [job EXCEPT ![t] = Idle]
          /\ exit_status' = "failure" /\ mainPc' = "stopping"
          /\ UNCHANGED <<attempt, keep_running, start_samples, gave_up>>
       \/ t = "keepalive" /\ NextJob(t) /\ UNCHANGED ctlVars
    /\ UNCHANGED radioVars

-----------------------------------------------------------------------------
(* keepalive_thread_func(); the 100 ms of sleep are between two turns *)

Turn(c) == CASE c \in {1, 3, 5, 7} -> <<"tx", "hp">>
             [] c \in {2, 4, 6}    -> <<"rx", "hp">>
             [] c = 8              -> <<"general", "rx", "hp">>
             [] OTHER              -> <<>>

AfterTurnMissing(c) == c                     \* mutant: cycling is not reset
AfterTurnEarly(c) == IF c >= 7 THEN 0 ELSE c \* mutant: the eighth turn is skipped
AfterTurn(c) == IF c = 8 THEN 0 ELSE c

KeepaliveTurn ==
    /\ kaPc = "running" /\ ~Busy("keepalive") /\ keepalive_active
    /\ job' = [job EXCEPT !["keepalive"].todo = Turn(cycling + 1)]
    /\ cycling' = AfterTurn(cycling + 1)
    /\ UNCHANGED <<ctlVars, sockVars, keepalive_active, kaPc, current, numVars,
                   radioVars>>

KeepaliveExit ==
    /\ kaPc = "running" /\ ~Busy("keepalive") /\ ~keepalive_active
    /\ kaPc' = "exited"
    /\ UNCHANGED <<ctlVars, sockVars, keepalive_active, cycling, current, job,
                   numVars, radioVars>>

\* hpsdr_start_keepalive(): the result of pthread_create() is not looked at.
StartKeepaliveUntold ==                      \* mutant: the settings stay behind
    /\ keepalive_active' = TRUE
    /\ kaPc' = "running"
    /\ UNCHANGED <<cycling, current>>
StartKeepalive ==
    /\ current' = "configured"
    /\ \/ keepalive_active /\ UNCHANGED <<keepalive_active, kaPc>>
       \/ /\ ~keepalive_active /\ keepalive_active' = TRUE
          /\ \/ kaPc' = "running"
             \/ CreateFails /\ UNCHANGED kaPc
    /\ UNCHANGED cycling

-----------------------------------------------------------------------------
(* main(): the attempts, wait_for_stream() and the recording *)

Setup == <<"general", "tx", "rx", "hp">>

\* The next attempt begins: send_radio_config().
BeginAttemptTogether ==        \* mutant: the keepalive starts before the setup
    /\ mainPc = "attempt" /\ keep_running /\ attempt < Attempts
    /\ attempt' = attempt + 1
    /\ job' = [job EXCEPT !["main"].todo = Setup]
    /\ mainPc' = "configure"
    /\ StartKeepalive
    /\ UNCHANGED <<keep_running, start_samples, exit_status, gave_up, sockVars,
                   numVars, radioVars>>
BeginAttempt ==
    /\ mainPc = "attempt" /\ keep_running /\ attempt < Attempts
    /\ attempt' = attempt + 1
    /\ job' = [job EXCEPT !["main"].todo = Setup]
    /\ mainPc' = "configure"
    /\ UNCHANGED <<keep_running, start_samples, exit_status, gave_up, sockVars,
                   kaVars, numVars, radioVars>>

\* The setup went out.  The first time, the keepalive is started; then
\* wait_for_stream() takes its count of samples.
Configured ==
    /\ mainPc = "configure" /\ ~Busy("main")
    /\ IF attempt = 1 THEN StartKeepalive ELSE UNCHANGED kaVars
    /\ mainPc' = "waiting" /\ start_samples' = samples
    /\ UNCHANGED <<attempt, keep_running, exit_status, gave_up, sockVars, job,
                   numVars, radioVars>>

StreamSeen ==
    /\ mainPc = "waiting" /\ samples > start_samples
    /\ mainPc' = "recording"
    /\ UNCHANGED <<attempt, keep_running, start_samples, exit_status, gave_up,
                   sockVars, kaVars, job, numVars, radioVars>>

\* The last check of the 5 s saw no new sample, or SIGINT ended the wait.
WaitOver ==
    /\ mainPc = "waiting" /\ (samples = start_samples \/ ~keep_running)
    /\ mainPc' = "attempt"
    /\ UNCHANGED <<attempt, keep_running, start_samples, exit_status, gave_up,
                   sockVars, kaVars, job, numVars, radioVars>>

\* No attempt is left, or SIGINT: only the former reports that nothing was
\* recorded.
GiveUp ==
    /\ mainPc = "attempt" /\ (attempt = Attempts \/ ~keep_running)
    /\ gave_up' = keep_running
    /\ exit_status' = "failure" /\ mainPc' = "stopping"
    /\ UNCHANGED <<attempt, keep_running, start_samples, sockVars, kaVars, job,
                   numVars, radioVars>>

\* SIGINT or the time limit ends the recording.
StopRecording ==
    /\ mainPc = "recording"
    /\ exit_status' = IF samples = 0 THEN "failure" ELSE "success"
    /\ mainPc' = "stopping"
    /\ UNCHANGED <<attempt, keep_running, start_samples, gave_up, sockVars, kaVars,
                   job, numVars, radioVars>>

Ended == mainPc \in {"exited", "crashed"}

Interrupt ==
    /\ keep_running /\ ~Ended
    /\ keep_running' = FALSE
    /\ UNCHANGED <<mainPc, attempt, start_samples, exit_status, gave_up, sockVars,
                   kaVars, job, numVars, radioVars>>

-----------------------------------------------------------------------------
(* main_exit(): streaming_stop(), then hpsdr_close() *)

\* streaming_stop() returns: the RX thread is joined.
StreamingStop ==
    /\ mainPc = "stopping"
    /\ rx_running' = FALSE
    /\ mainPc' = "close"
    /\ UNCHANGED <<attempt, keep_running, start_samples, exit_status, gave_up,
                   data_socket, kaVars, job, numVars, radioVars>>

\* hpsdr_close() stops the keepalive if it was started.
CloseStillActive ==            \* mutant: the flag is not cleared
    /\ mainPc = "close"
    /\ mainPc' = IF keepalive_active THEN "join" ELSE "closeSocket"
    /\ UNCHANGED <<attempt, keep_running, start_samples, exit_status, gave_up,
                   sockVars, kaVars, job, numVars, radioVars>>
Close ==
    /\ mainPc = "close"
    /\ mainPc' = IF keepalive_active THEN "join" ELSE "closeSocket"
    /\ keepalive_active' = FALSE
    /\ UNCHANGED <<attempt, keep_running, start_samples, exit_status, gave_up,
                   sockVars, kaPc, cycling, current, job, numVars, radioVars>>

\* pthread_join(keepalive_thread) returns when the thread has ended.  If it was
\* never created its handle is 0: the call may return an error or crash.
JoinNothing ==                 \* mutant: the thread is not joined
    /\ mainPc = "join"
    /\ mainPc' = "closeSocket"
    /\ UNCHANGED <<attempt, keep_running, start_samples, exit_status, gave_up,
                   sockVars, kaVars, job, numVars, radioVars>>
JoinKeepalive ==
    /\ mainPc = "join"
    /\ \/ kaPc \in {"exited", "none"} /\ mainPc' = "closeSocket"
       \/ kaPc = "none" /\ mainPc' = "crashed"
    /\ UNCHANGED <<attempt, keep_running, start_samples, exit_status, gave_up,
                   sockVars, kaVars, job, numVars, radioVars>>

CloseSocket ==
    /\ mainPc = "closeSocket"
    /\ data_socket' = FALSE
    /\ mainPc' = "exited"
    /\ UNCHANGED <<attempt, keep_running, start_samples, exit_status, gave_up,
                   rx_running, kaVars, job, numVars, radioVars>>

Terminated == Ended /\ UNCHANGED vars

-----------------------------------------------------------------------------
(* The radio.  It streams once it has heard of its general settings, of its *)
(* receivers and that it shall run.                                         *)

Streaming == running /\ {"general", "rx", "hp"} \subseteq heard

\* Samples arrive and the RX thread counts them.
Samples ==
    /\ Streaming /\ rx_running /\ samples < MaxSamples
    /\ samples' = samples + 1
    /\ UNCHANGED <<ctlVars, sockVars, kaVars, job, numVars, heard, running, tuned,
                   reboots>>

\* The radio's watchdog stops the stream of a recorder that went silent, or
\* whose packets were lost.
Watchdog ==
    /\ running /\ ~Ended
    /\ running' = FALSE
    /\ UNCHANGED <<ctlVars, sockVars, kaVars, job, numVars, heard, tuned, reboots,
                   samples>>

\* The radio loses power and comes back knowing nothing.
Reboot ==
    /\ reboots < MaxReboots /\ ~Ended
    /\ reboots' = reboots + 1
    /\ heard' = {} /\ running' = FALSE /\ tuned' = "none"
    /\ UNCHANGED <<ctlVars, sockVars, kaVars, job, numVars, samples>>

-----------------------------------------------------------------------------
Steps(t) == Build(t) \/ Bump(t) \/ SendDelivered(t) \/ SendLost(t) \/ SendFails(t)
KeepaliveWork == Steps("keepalive") \/ KeepaliveTurn \/ KeepaliveExit
MainWork == \/ Steps("main") \/ BeginAttempt \/ Configured \/ StreamSeen
            \/ WaitOver \/ GiveUp
            \/ StreamingStop \/ Close \/ JoinKeepalive \/ CloseSocket

Next == \/ MainWork \/ StopRecording \/ Interrupt \/ KeepaliveWork
        \/ Samples \/ Watchdog \/ Reboot \/ Terminated

\* The threads run, the wait and sendto() return, and the link does not lose
\* for ever all the keepalive's packets of a kind.  The recording may last for
\* ever.
Fairness ==
    /\ WF_vars(MainWork) /\ WF_vars(KeepaliveWork)
    /\ \A k \in Kind :
           SF_vars(Busy("keepalive") /\ Packet("keepalive") = k
                       /\ SendDelivered("keepalive"))

Spec     == Init /\ [][Next]_vars
FairSpec == Spec /\ Fairness
=============================================================================
