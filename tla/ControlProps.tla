---------------------------- MODULE ControlProps ----------------------------
(***************************************************************************)
(* What the control plane promises, and the inductive invariant its proofs *)
(* rest on.                                                                *)
(***************************************************************************)
EXTENDS Control

\* No thread hands a packet to sendto(), or receives, on a closed socket: a
\* closed descriptor's number may already belong to another file.
SocketOutlivesUsers ==
    data_socket \/ (~rx_running /\ \A t \in Thread : ~Busy(t))

\* Until the second attempt the counters have one user at a time, in turn, so
\* the packets of every kind are numbered consecutively.  From then on the
\* main thread and the keepalive race for them.
NumberedInTurn == attempt <= 1 => in_order

\* Whoever configured the radio last, main thread or keepalive, it is never
\* left at the settings the keepalive's variables were compiled with.
TunedAsConfigured == tuned # "default"

\* The radio of a running keepalive streams again and again, whatever was
\* lost of the main thread's setup, whatever its watchdog does and although
\* it may have rebooted.
StreamComesBack == kaPc = "running" ~> (Streaming \/ ~keepalive_active)

\* Once the end is decided the program ends: the keepalive leaves its loop.
CloseEnds == mainPc = "stopping" ~> Ended

-----------------------------------------------------------------------------
(* The inductive invariant *)

(* What the order of main()'s steps guarantees.                             *)

\* The main thread sends only while it configures, the keepalive only while
\* its thread runs.
Senders == /\ Busy("main") => mainPc = "configure"
           /\ Busy("keepalive") => kaPc = "running"

\* Where the main thread is tells which threads there still are.
ClosingOrder ==
    /\ mainPc \in {"close", "join", "closeSocket", "exited", "crashed"} => ~rx_running
    /\ mainPc \in {"closeSocket", "exited"} => kaPc # "running"
    /\ mainPc \in {"join", "closeSocket", "exited"} => ~keepalive_active
    /\ kaPc = "running" /\ ~keepalive_active => mainPc = "join"
    /\ ~data_socket => mainPc = "exited"

\* The keepalive thread knows the configured settings from its first packet.
Informed == /\ kaPc # "none" => current = "configured"
            /\ tuned # "default"

\* Before the keepalive is started there is no second user of the counters,
\* and afterwards the main thread is none until the second attempt.
OneUser == /\ attempt = 0 => mainPc \in {"attempt", "stopping", "close",
                                         "closeSocket", "exited"}
           /\ attempt = 0 => kaPc = "none" /\ ~keepalive_active
           /\ attempt = 1 /\ mainPc = "configure" => kaPc = "none"

\* The last packet handed over and the counter agree, but for the packet that
\* is being built.
Sending(t, k) == Busy(t) /\ Packet(t) = k /\ job[t].phase = "send"
Numbering ==
    attempt <= 1 =>
        /\ in_order
        /\ \A t \in Thread : Busy(t) /\ job[t].phase # "build"
                                => job[t].num = next_number[Packet(t)]
        /\ \A k \in Kind :
               sequence[k] = IF \E t \in Thread : Sending(t, k)
                             THEN (next_number[k] + 1) % SeqSpace
                             ELSE next_number[k]
        /\ \A t \in Thread : ~Busy(t) => job[t].phase = "build"

\* The types together with what main()'s order of steps, the sole use of the
\* counters and the numbers in flight keep true: inductive, and it implies the
\* safety properties above.
IInv == TypeOK /\ Senders /\ ClosingOrder /\ Informed /\ OneUser /\ Numbering
=============================================================================
