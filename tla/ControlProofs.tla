--------------------------- MODULE ControlProofs ----------------------------
(***************************************************************************)
(* Proofs about the control plane: types, the socket outlives its users,   *)
(* the packets are numbered in turn until the second attempt, and the      *)
(* keepalive never sends its compiled-in settings.                         *)
(***************************************************************************)
EXTENDS ControlProps, TLAPS

-----------------------------------------------------------------------------
(* Facts about one packet *)

(* A caller with something left to send has a packet of a known kind at the   *)
(* head of its list, and what follows is such a list again.                   *)
LEMMA PacketTyped ==
    ASSUME TypeOK, NEW t \in Thread, Busy(t)
    PROVE  Packet(t) \in Kind /\ Tail(job[t].todo) \in Seq(Kind)
<1>1. job[t].todo \in Seq(Kind) /\ job[t].todo # <<>>
    BY DEF TypeOK, Busy
<1> QED
    BY <1>1 DEF Packet

(* The lists a thread is given are lists of kinds.                            *)
LEMMA ListsOfKinds ==
    /\ <<>> \in Seq(Kind) /\ Setup \in Seq(Kind)
    /\ \A c \in Nat : Turn(c) \in Seq(Kind)
<1>1. /\ <<>> \in Seq(Kind) /\ <<"tx", "hp">> \in Seq(Kind)
      /\ <<"rx", "hp">> \in Seq(Kind)
    BY DEF Kind
<1>2. <<"general", "rx", "hp">> \in Seq(Kind)
    BY DEF Kind
<1>3. Setup \in Seq(Kind)
    BY DEF Setup, Kind
<1>4. ASSUME NEW c \in Nat PROVE Turn(c) \in Seq(Kind)
    <2>1. CASE c \in {1, 3, 5, 7}
        BY <2>1, <1>1 DEF Turn
    <2>2. CASE c \in {2, 4, 6}
        BY <2>2, <1>1 DEF Turn
    <2>3. CASE c = 8
        BY <2>3, <1>2 DEF Turn
    <2>4. CASE c \notin {1, 3, 5, 7} \union {2, 4, 6} \union {8}
        BY <2>4, <1>1 DEF Turn
    <2> QED
        BY <2>1, <2>2, <2>3, <2>4
<1> QED
    BY <1>1, <1>3, <1>4

(* The settings a packet carries are never unknown.                           *)
LEMMA CarriesTyped ==
    ASSUME TypeOK, NEW t \in Thread
    PROVE  Carries(t) \in Setting
BY DEF TypeOK, Carries, Setting

(* Numbers are taken modulo the counter's width.                              *)
LEMMA SuccessorTyped ==
    ASSUME NEW n \in Number
    PROVE  (n + 1) % SeqSpace \in Number
BY ControlAssumption DEF Number

(* At most one thread has something to send until the second attempt.         *)
LEMMA SoleUser ==
    ASSUME TypeOK, Senders, OneUser, attempt <= 1,
           NEW t \in Thread, Busy(t), NEW u \in Thread, Busy(u)
    PROVE  t = u
BY DEF TypeOK, Senders, OneUser, Thread

-----------------------------------------------------------------------------
(* The types *)

(* The initial state is well typed.                                           *)
LEMMA TypeInit == Init => TypeOK
<1> SUFFICES ASSUME Init
             PROVE  TypeOK
    OBVIOUS
<1>1. 0 \in Number /\ 0 \in 0..Attempts /\ 0 \in 0..MaxSamples /\ 0 \in 0..MaxReboots
    BY ControlAssumption DEF Number
<1>2. Idle \in [todo : Seq(Kind), phase : Phase, num : Number]
    BY <1>1, ListsOfKinds DEF Idle, Phase
<1>3. job \in [Thread -> [todo : Seq(Kind), phase : Phase, num : Number]]
    BY <1>2 DEF Init
<1>4. sequence \in [Kind -> Number] /\ next_number \in [Kind -> Number]
    BY <1>1 DEF Init
<1>5. /\ mainPc \in MainPc /\ keep_running \in BOOLEAN /\ gave_up \in BOOLEAN
      /\ rx_running \in BOOLEAN /\ data_socket \in BOOLEAN
      /\ keepalive_active \in BOOLEAN /\ in_order \in BOOLEAN /\ running \in BOOLEAN
    BY Zenon DEF Init, MainPc
<1> QED
    BY <1>1, <1>3, <1>4, <1>5 DEF Init, TypeOK, Setting

(* No step leaves the types.                                                  *)
LEMMA TypeStep == TypeOK /\ [Next]_vars => TypeOK'
<1> SUFFICES ASSUME TypeOK, [Next]_vars
             PROVE  TypeOK'
    OBVIOUS
<1> USE ControlAssumption
<1>1. ASSUME NEW t \in Thread, Build(t) PROVE TypeOK'
    <2>1. sequence[Packet(t)] \in Number
        BY <1>1, PacketTyped DEF Build, TypeOK
    <2>2. job' \in [Thread -> [todo : Seq(Kind), phase : Phase, num : Number]]
        BY <1>1, <2>1 DEF Build, TypeOK, Phase
    <2> QED
        BY <1>1, <2>2 DEF Build, TypeOK, ctlVars, sockVars, kaVars, numVars, radioVars
<1>2. ASSUME NEW t \in Thread, Bump(t) PROVE TypeOK'
    <2>1. NextNumber(job[t].num) \in Number
        BY SuccessorTyped DEF TypeOK, NextNumber
    <2>2. sequence' \in [Kind -> Number]
        BY <1>2, <2>1 DEF Bump, TypeOK
    <2>3. job' \in [Thread -> [todo : Seq(Kind), phase : Phase, num : Number]]
        BY <1>2 DEF Bump, TypeOK, Phase
    <2> QED
        BY <1>2, <2>2, <2>3 DEF Bump, TypeOK, ctlVars, sockVars, kaVars, radioVars
<1>3. ASSUME NEW t \in Thread, HandOver(t)
      PROVE  /\ next_number' \in [Kind -> Number] /\ in_order' \in BOOLEAN
             /\ [Idle EXCEPT !.todo = Tail(job[t].todo)]
                    \in [todo : Seq(Kind), phase : Phase, num : Number]
             /\ Packet(t) \in Kind
    <2>1. Packet(t) \in Kind /\ Tail(job[t].todo) \in Seq(Kind)
        BY <1>3, PacketTyped DEF HandOver
    <2>2. 0 \in Number
        BY DEF Number
    <2>3. [Idle EXCEPT !.todo = Tail(job[t].todo)]
              \in [todo : Seq(Kind), phase : Phase, num : Number]
        BY <2>1, <2>2 DEF Idle, Phase
    <2>4. \A k \in Kind : (next_number[k] + 1) % SeqSpace \in Number
        BY SuccessorTyped DEF TypeOK
    <2>5. next_number' \in [Kind -> Number]
        BY <1>3, <2>1, <2>2, <2>4 DEF HandOver, TypeOK
    <2>6. in_order' \in BOOLEAN
        BY <1>3 DEF HandOver, TypeOK
    <2> QED
        BY <2>1, <2>3, <2>5, <2>6
<1>4. ASSUME NEW t \in Thread, SendDelivered(t) PROVE TypeOK'
    <2>1. HandOver(t) /\ NextJob(t)
        BY <1>4 DEF SendDelivered
    <2>2. job' \in [Thread -> [todo : Seq(Kind), phase : Phase, num : Number]]
        BY <2>1, <1>3 DEF NextJob, TypeOK
    <2>3. heard' \in SUBSET Kind /\ running' \in BOOLEAN /\ tuned' \in Setting
        BY <1>4, <2>1, <1>3, CarriesTyped DEF SendDelivered, TypeOK
    <2>4. UNCHANGED <<mainPc, attempt, keep_running, start_samples, exit_status,
                      gave_up, rx_running, data_socket, keepalive_active, kaPc,
                      cycling, current, sequence, reboots, samples>>
        BY <1>4, <2>1 DEF SendDelivered, HandOver, ctlVars, sockVars, kaVars
    <2> QED
        BY <1>3, <2>1, <2>2, <2>3, <2>4 DEF TypeOK
<1>5. ASSUME NEW t \in Thread, SendLost(t) PROVE TypeOK'
    <2>1. HandOver(t) /\ NextJob(t)
        BY <1>5 DEF SendLost
    <2>2. job' \in [Thread -> [todo : Seq(Kind), phase : Phase, num : Number]]
        BY <2>1, <1>3 DEF NextJob, TypeOK
    <2>3. UNCHANGED <<mainPc, attempt, keep_running, start_samples, exit_status,
                      gave_up, rx_running, data_socket, keepalive_active, kaPc,
                      cycling, current, sequence, heard, running, tuned, reboots,
                      samples>>
        BY <1>5, <2>1 DEF SendLost, HandOver, ctlVars, sockVars, kaVars, radioVars
    <2> QED
        BY <1>3, <2>1, <2>2, <2>3 DEF TypeOK
<1>6. ASSUME NEW t \in Thread, SendFails(t) PROVE TypeOK'
    <2>1. HandOver(t)
        BY <1>6 DEF SendFails
    <2>2. Idle \in [todo : Seq(Kind), phase : Phase, num : Number]
        BY DEF Idle, Phase, Number
    <2>3. job' \in [Thread -> [todo : Seq(Kind), phase : Phase, num : Number]]
        BY <1>6, <2>1, <2>2, <1>3 DEF SendFails, NextJob, TypeOK
    <2>4. mainPc' \in MainPc /\ exit_status' \in {"none", "success", "failure"}
        BY <1>6 DEF SendFails, TypeOK, ctlVars, MainPc
    <2> QED
        BY <1>6, <2>1, <1>3, <2>3, <2>4
        DEF SendFails, HandOver, TypeOK, ctlVars, sockVars, kaVars, radioVars
<1>7. CASE KeepaliveTurn
    <2>1. Turn(cycling + 1) \in Seq(Kind) /\ AfterTurn(cycling + 1) \in 0..7
        BY ListsOfKinds DEF TypeOK, AfterTurn
    <2>2. job' \in [Thread -> [todo : Seq(Kind), phase : Phase, num : Number]]
        BY <1>7, <2>1 DEF KeepaliveTurn, TypeOK, Thread
    <2> QED
        BY <1>7, <2>1, <2>2 DEF KeepaliveTurn, TypeOK, ctlVars, sockVars, numVars, radioVars
<1>8. CASE BeginAttempt
    <2>1. job' \in [Thread -> [todo : Seq(Kind), phase : Phase, num : Number]]
        BY <1>8, ListsOfKinds DEF BeginAttempt, TypeOK, Thread
    <2> QED
        BY <1>8, <2>1
        DEF BeginAttempt, TypeOK, sockVars, kaVars, numVars, radioVars, MainPc
<1>9. CASE KeepaliveExit
    BY <1>9 DEF
        KeepaliveExit, TypeOK, ctlVars, sockVars, kaVars, numVars, radioVars,
        MainPc
<1>10. CASE Configured
    <2>1. /\ keepalive_active' \in BOOLEAN /\ kaPc' \in {"none", "running", "exited"}
          /\ cycling' \in 0..7 /\ current' \in {"default", "configured"}
        BY <1>10 DEF Configured, StartKeepalive, TypeOK, kaVars
    <2>2. mainPc' \in MainPc /\ start_samples' \in 0..MaxSamples
        BY <1>10 DEF Configured, TypeOK, MainPc
    <2> QED
        BY <1>10, <2>1, <2>2 DEF Configured, TypeOK, sockVars, numVars, radioVars
<1>11. CASE StreamSeen
    BY <1>11 DEF
        StreamSeen, TypeOK, ctlVars, sockVars, kaVars, numVars, radioVars,
        MainPc
<1>12. CASE WaitOver
    BY <1>12 DEF
        WaitOver, TypeOK, ctlVars, sockVars, kaVars, numVars, radioVars, MainPc
<1>13. CASE GiveUp
    BY <1>13 DEF
        GiveUp, TypeOK, ctlVars, sockVars, kaVars, numVars, radioVars, MainPc
<1>14. CASE StopRecording
    BY <1>14 DEF
        StopRecording, TypeOK, ctlVars, sockVars, kaVars, numVars, radioVars,
        MainPc
<1>15. CASE Interrupt
    <2>1. keep_running' \in BOOLEAN
        BY <1>15 DEF Interrupt
    <2> QED
        BY <1>15, <2>1
        DEF Interrupt, TypeOK, ctlVars, sockVars, kaVars, numVars, radioVars
<1>16. CASE StreamingStop
    BY <1>16 DEF
        StreamingStop, TypeOK, ctlVars, sockVars, kaVars, numVars, radioVars,
        MainPc
<1>17. CASE Close
    <2>1. mainPc' \in MainPc /\ keepalive_active' \in BOOLEAN
        BY <1>17 DEF Close, MainPc
    <2> QED
        BY <1>17, <2>1 DEF Close, TypeOK, sockVars, numVars, radioVars
<1>18. CASE JoinKeepalive
    BY <1>18 DEF
        JoinKeepalive, TypeOK, ctlVars, sockVars, kaVars, numVars, radioVars,
        MainPc
<1>19. CASE CloseSocket
    BY <1>19 DEF
        CloseSocket, TypeOK, ctlVars, sockVars, kaVars, numVars, radioVars,
        MainPc
<1>20. CASE Samples
    BY <1>20 DEF
        Samples, TypeOK, ctlVars, sockVars, kaVars, numVars, radioVars, MainPc
<1>21. CASE Watchdog
    <2>1. running' \in BOOLEAN
        BY <1>21 DEF Watchdog
    <2> QED
        BY <1>21, <2>1
        DEF Watchdog, TypeOK, ctlVars, sockVars, kaVars, numVars, radioVars
<1>22. CASE Reboot
    <2>1. running' \in BOOLEAN /\ heard' \in SUBSET Kind /\ tuned' \in Setting
        BY <1>22 DEF Reboot, Setting
    <2> QED
        BY <1>22, <2>1
        DEF Reboot, TypeOK, ctlVars, sockVars, kaVars, numVars, radioVars
<1>23. CASE UNCHANGED vars
    BY <1>23 DEF vars, TypeOK, ctlVars, sockVars, kaVars, numVars, radioVars
<1> QED
    BY <1>1, <1>2, <1>4, <1>5, <1>6, <1>7, <1>8, <1>9, <1>10, <1>11, <1>12,
       <1>13, <1>14, <1>15, <1>16, <1>17, <1>18, <1>19, <1>20, <1>21, <1>22,
       <1>23
    DEF Next, MainWork, KeepaliveWork, Steps, Thread, Terminated

-----------------------------------------------------------------------------
(* The order of the main thread's steps *)

(* Nothing is being sent at the start, and everything is in its first state.  *)
LEMMA OrderInit == Init => Senders /\ ClosingOrder /\ Informed /\ OneUser
BY DEF Init, Senders, ClosingOrder, Informed, OneUser, Busy, Idle, Thread

(* A thread is given packets only by itself, and ends only when it has none. *)
LEMMA SendersStep ==
    ASSUME TypeOK, Senders, [Next]_vars
    PROVE  Senders'
<1>1. ASSUME NEW t \in Thread, Build(t) PROVE Senders'
    BY <1>1 DEF
        Build, Senders, TypeOK, Busy, Idle, Thread, Setup, ctlVars, sockVars,
        kaVars, numVars, radioVars
<1>2. ASSUME NEW t \in Thread, Bump(t) PROVE Senders'
    BY <1>2 DEF
        Bump, Senders, TypeOK, Busy, Idle, Thread, Setup, ctlVars, sockVars,
        kaVars, numVars, radioVars
<1>3. ASSUME NEW t \in Thread, SendDelivered(t) PROVE Senders'
    BY <1>3 DEF
        SendDelivered, HandOver, NextJob, Senders, TypeOK, Busy, Idle, Thread,
        Setup, ctlVars, sockVars, kaVars, numVars, radioVars
<1>4. ASSUME NEW t \in Thread, SendLost(t) PROVE Senders'
    BY <1>4 DEF
        SendLost, HandOver, NextJob, Senders, TypeOK, Busy, Idle, Thread,
        Setup, ctlVars, sockVars, kaVars, numVars, radioVars
<1>5. ASSUME NEW t \in Thread, SendFails(t) PROVE Senders'
    BY <1>5 DEF
        SendFails, HandOver, NextJob, Senders, TypeOK, Busy, Idle, Thread,
        Setup, ctlVars, sockVars, kaVars, numVars, radioVars
<1>6. CASE KeepaliveTurn
    BY <1>6 DEF
        KeepaliveTurn, Senders, TypeOK, Busy, Idle, Thread, Setup, ctlVars,
        sockVars, kaVars, numVars, radioVars
<1>7. CASE KeepaliveExit
    BY <1>7 DEF
        KeepaliveExit, Senders, TypeOK, Busy, Idle, Thread, Setup, ctlVars,
        sockVars, kaVars, numVars, radioVars
<1>8. CASE BeginAttempt
    BY <1>8 DEF
        BeginAttempt, Senders, TypeOK, Busy, Idle, Thread, Setup, ctlVars,
        sockVars, kaVars, numVars, radioVars
<1>9. CASE Configured
    BY <1>9 DEF
        Configured, StartKeepalive, Senders, TypeOK, Busy, Idle, Thread, Setup,
        ctlVars, sockVars, kaVars, numVars, radioVars
<1>10. CASE StreamSeen
    BY <1>10 DEF
        StreamSeen, Senders, TypeOK, Busy, Idle, Thread, Setup, ctlVars,
        sockVars, kaVars, numVars, radioVars
<1>11. CASE WaitOver
    BY <1>11 DEF
        WaitOver, Senders, TypeOK, Busy, Idle, Thread, Setup, ctlVars,
        sockVars, kaVars, numVars, radioVars
<1>12. CASE GiveUp
    BY <1>12 DEF
        GiveUp, Senders, TypeOK, Busy, Idle, Thread, Setup, ctlVars, sockVars,
        kaVars, numVars, radioVars
<1>13. CASE StopRecording
    BY <1>13 DEF
        StopRecording, Senders, TypeOK, Busy, Idle, Thread, Setup, ctlVars,
        sockVars, kaVars, numVars, radioVars
<1>14. CASE Interrupt
    BY <1>14 DEF
        Interrupt, Senders, TypeOK, Busy, Idle, Thread, Setup, ctlVars,
        sockVars, kaVars, numVars, radioVars
<1>15. CASE StreamingStop
    BY <1>15 DEF
        StreamingStop, Senders, TypeOK, Busy, Idle, Thread, Setup, ctlVars,
        sockVars, kaVars, numVars, radioVars
<1>16. CASE Close
    BY <1>16 DEF
        Close, Senders, TypeOK, Busy, Idle, Thread, Setup, ctlVars, sockVars,
        kaVars, numVars, radioVars
<1>17. CASE JoinKeepalive
    BY <1>17 DEF
        JoinKeepalive, Senders, TypeOK, Busy, Idle, Thread, Setup, ctlVars,
        sockVars, kaVars, numVars, radioVars
<1>18. CASE CloseSocket
    BY <1>18 DEF
        CloseSocket, Senders, TypeOK, Busy, Idle, Thread, Setup, ctlVars,
        sockVars, kaVars, numVars, radioVars
<1>19. CASE Samples
    BY <1>19 DEF
        Samples, Senders, TypeOK, Busy, Idle, Thread, Setup, ctlVars, sockVars,
        kaVars, numVars, radioVars
<1>20. CASE Watchdog
    BY <1>20 DEF
        Watchdog, Senders, TypeOK, Busy, Idle, Thread, Setup, ctlVars,
        sockVars, kaVars, numVars, radioVars
<1>21. CASE Reboot
    BY <1>21 DEF
        Reboot, Senders, TypeOK, Busy, Idle, Thread, Setup, ctlVars, sockVars,
        kaVars, numVars, radioVars
<1>22. CASE UNCHANGED vars
    BY <1>22 DEF
        vars, Senders, TypeOK, Busy, Idle, Thread, Setup, ctlVars, sockVars,
        kaVars, numVars, radioVars
<1> QED
    BY <1>1, <1>2, <1>3, <1>4, <1>5, <1>6, <1>7, <1>8, <1>9, <1>10, <1>11,
       <1>12, <1>13, <1>14, <1>15, <1>16, <1>17, <1>18, <1>19, <1>20, <1>21,
       <1>22
    DEF Next, MainWork, KeepaliveWork, Steps, Thread, Terminated

(* main_exit() joins the RX thread, stops and joins the keepalive, and only   *)
(* then closes the socket.                                                    *)
LEMMA ClosingOrderStep ==
    ASSUME TypeOK, Senders, ClosingOrder, [Next]_vars
    PROVE  ClosingOrder'
<1>1. ASSUME NEW t \in Thread, Build(t) PROVE ClosingOrder'
    BY <1>1 DEF
        Build, ClosingOrder, TypeOK, MainPc, ctlVars, sockVars, kaVars,
        numVars, radioVars
<1>2. ASSUME NEW t \in Thread, Bump(t) PROVE ClosingOrder'
    BY <1>2 DEF
        Bump, ClosingOrder, TypeOK, MainPc, ctlVars, sockVars, kaVars, numVars,
        radioVars
<1>3. ASSUME NEW t \in Thread, SendDelivered(t) PROVE ClosingOrder'
    BY <1>3 DEF
        SendDelivered, HandOver, NextJob, ClosingOrder, TypeOK, MainPc,
        ctlVars, sockVars, kaVars, numVars, radioVars
<1>4. ASSUME NEW t \in Thread, SendLost(t) PROVE ClosingOrder'
    BY <1>4 DEF
        SendLost, HandOver, NextJob, ClosingOrder, TypeOK, MainPc, ctlVars,
        sockVars, kaVars, numVars, radioVars
<1>5. ASSUME NEW t \in Thread, SendFails(t) PROVE ClosingOrder'
    BY <1>5 DEF
        SendFails, HandOver, NextJob, ClosingOrder, Senders, Busy, TypeOK, MainPc, ctlVars,
        sockVars, kaVars, numVars, radioVars
<1>6. CASE KeepaliveTurn
    BY <1>6 DEF
        KeepaliveTurn, ClosingOrder, TypeOK, MainPc, ctlVars, sockVars, kaVars,
        numVars, radioVars
<1>7. CASE KeepaliveExit
    BY <1>7 DEF
        KeepaliveExit, ClosingOrder, TypeOK, MainPc, ctlVars, sockVars, kaVars,
        numVars, radioVars
<1>8. CASE BeginAttempt
    BY <1>8 DEF
        BeginAttempt, ClosingOrder, TypeOK, MainPc, ctlVars, sockVars, kaVars,
        numVars, radioVars
<1>9. CASE Configured
    BY <1>9 DEF
        Configured, StartKeepalive, ClosingOrder, TypeOK, MainPc, ctlVars,
        sockVars, kaVars, numVars, radioVars
<1>10. CASE StreamSeen
    BY <1>10 DEF
        StreamSeen, ClosingOrder, TypeOK, MainPc, ctlVars, sockVars, kaVars,
        numVars, radioVars
<1>11. CASE WaitOver
    BY <1>11 DEF
        WaitOver, ClosingOrder, TypeOK, MainPc, ctlVars, sockVars, kaVars,
        numVars, radioVars
<1>12. CASE GiveUp
    BY <1>12 DEF
        GiveUp, ClosingOrder, TypeOK, MainPc, ctlVars, sockVars, kaVars,
        numVars, radioVars
<1>13. CASE StopRecording
    BY <1>13 DEF
        StopRecording, ClosingOrder, TypeOK, MainPc, ctlVars, sockVars, kaVars,
        numVars, radioVars
<1>14. CASE Interrupt
    BY <1>14 DEF
        Interrupt, ClosingOrder, TypeOK, MainPc, ctlVars, sockVars, kaVars,
        numVars, radioVars
<1>15. CASE StreamingStop
    BY <1>15 DEF
        StreamingStop, ClosingOrder, TypeOK, MainPc, ctlVars, sockVars, kaVars,
        numVars, radioVars
<1>16. CASE Close
    BY <1>16 DEF
        Close, ClosingOrder, TypeOK, MainPc, ctlVars, sockVars, kaVars,
        numVars, radioVars
<1>17. CASE JoinKeepalive
    BY <1>17 DEF
        JoinKeepalive, ClosingOrder, TypeOK, MainPc, ctlVars, sockVars, kaVars,
        numVars, radioVars
<1>18. CASE CloseSocket
    BY <1>18 DEF
        CloseSocket, ClosingOrder, TypeOK, MainPc, ctlVars, sockVars, kaVars,
        numVars, radioVars
<1>19. CASE Samples
    BY <1>19 DEF
        Samples, ClosingOrder, TypeOK, MainPc, ctlVars, sockVars, kaVars,
        numVars, radioVars
<1>20. CASE Watchdog
    BY <1>20 DEF
        Watchdog, ClosingOrder, TypeOK, MainPc, ctlVars, sockVars, kaVars,
        numVars, radioVars
<1>21. CASE Reboot
    BY <1>21 DEF
        Reboot, ClosingOrder, TypeOK, MainPc, ctlVars, sockVars, kaVars,
        numVars, radioVars
<1>22. CASE UNCHANGED vars
    BY <1>22 DEF
        vars, ClosingOrder, TypeOK, MainPc, ctlVars, sockVars, kaVars, numVars,
        radioVars
<1> QED
    BY <1>1, <1>2, <1>3, <1>4, <1>5, <1>6, <1>7, <1>8, <1>9, <1>10, <1>11,
       <1>12, <1>13, <1>14, <1>15, <1>16, <1>17, <1>18, <1>19, <1>20, <1>21,
       <1>22
    DEF Next, MainWork, KeepaliveWork, Steps, Thread, Terminated

(* The settings are left for the keepalive before its thread exists. *)
LEMMA InformedStep ==
    ASSUME TypeOK, Senders, Informed, [Next]_vars
    PROVE  Informed'
<1>1. ASSUME NEW t \in Thread, Build(t) PROVE Informed'
    BY <1>1 DEF
        Build, Informed, Senders, TypeOK, Carries, Thread, ctlVars, sockVars,
        kaVars, numVars, radioVars
<1>2. ASSUME NEW t \in Thread, Bump(t) PROVE Informed'
    BY <1>2 DEF
        Bump, Informed, Senders, TypeOK, Carries, Thread, ctlVars, sockVars,
        kaVars, numVars, radioVars
<1>3. ASSUME NEW t \in Thread, SendDelivered(t) PROVE Informed'
    BY <1>3 DEF
        SendDelivered, HandOver, NextJob, Informed, Senders, TypeOK, Carries,
        Thread, ctlVars, sockVars, kaVars, numVars, radioVars
<1>4. ASSUME NEW t \in Thread, SendLost(t) PROVE Informed'
    BY <1>4 DEF
        SendLost, HandOver, NextJob, Informed, Senders, TypeOK, Carries,
        Thread, ctlVars, sockVars, kaVars, numVars, radioVars
<1>5. ASSUME NEW t \in Thread, SendFails(t) PROVE Informed'
    BY <1>5 DEF
        SendFails, HandOver, NextJob, Informed, Senders, TypeOK, Carries,
        Thread, ctlVars, sockVars, kaVars, numVars, radioVars
<1>6. CASE KeepaliveTurn
    BY <1>6 DEF
        KeepaliveTurn, Informed, Senders, TypeOK, Carries, Thread, ctlVars,
        sockVars, kaVars, numVars, radioVars
<1>7. CASE KeepaliveExit
    BY <1>7 DEF
        KeepaliveExit, Informed, Senders, TypeOK, Carries, Thread, ctlVars,
        sockVars, kaVars, numVars, radioVars
<1>8. CASE BeginAttempt
    BY <1>8 DEF
        BeginAttempt, Informed, Senders, TypeOK, Carries, Thread, ctlVars,
        sockVars, kaVars, numVars, radioVars
<1>9. CASE Configured
    BY <1>9 DEF
        Configured, StartKeepalive, Informed, Senders, TypeOK, Carries, Thread,
        ctlVars, sockVars, kaVars, numVars, radioVars
<1>10. CASE StreamSeen
    BY <1>10 DEF
        StreamSeen, Informed, Senders, TypeOK, Carries, Thread, ctlVars,
        sockVars, kaVars, numVars, radioVars
<1>11. CASE WaitOver
    BY <1>11 DEF
        WaitOver, Informed, Senders, TypeOK, Carries, Thread, ctlVars,
        sockVars, kaVars, numVars, radioVars
<1>12. CASE GiveUp
    BY <1>12 DEF
        GiveUp, Informed, Senders, TypeOK, Carries, Thread, ctlVars, sockVars,
        kaVars, numVars, radioVars
<1>13. CASE StopRecording
    BY <1>13 DEF
        StopRecording, Informed, Senders, TypeOK, Carries, Thread, ctlVars,
        sockVars, kaVars, numVars, radioVars
<1>14. CASE Interrupt
    BY <1>14 DEF
        Interrupt, Informed, Senders, TypeOK, Carries, Thread, ctlVars,
        sockVars, kaVars, numVars, radioVars
<1>15. CASE StreamingStop
    BY <1>15 DEF
        StreamingStop, Informed, Senders, TypeOK, Carries, Thread, ctlVars,
        sockVars, kaVars, numVars, radioVars
<1>16. CASE Close
    BY <1>16 DEF
        Close, Informed, Senders, TypeOK, Carries, Thread, ctlVars, sockVars,
        kaVars, numVars, radioVars
<1>17. CASE JoinKeepalive
    BY <1>17 DEF
        JoinKeepalive, Informed, Senders, TypeOK, Carries, Thread, ctlVars,
        sockVars, kaVars, numVars, radioVars
<1>18. CASE CloseSocket
    BY <1>18 DEF
        CloseSocket, Informed, Senders, TypeOK, Carries, Thread, ctlVars,
        sockVars, kaVars, numVars, radioVars
<1>19. CASE Samples
    BY <1>19 DEF
        Samples, Informed, Senders, TypeOK, Carries, Thread, ctlVars, sockVars,
        kaVars, numVars, radioVars
<1>20. CASE Watchdog
    BY <1>20 DEF
        Watchdog, Informed, Senders, TypeOK, Carries, Thread, ctlVars,
        sockVars, kaVars, numVars, radioVars
<1>21. CASE Reboot
    BY <1>21 DEF
        Reboot, Informed, Senders, TypeOK, Carries, Thread, ctlVars, sockVars,
        kaVars, numVars, radioVars
<1>22. CASE UNCHANGED vars
    BY <1>22 DEF
        vars, Informed, Senders, TypeOK, Carries, Thread, ctlVars, sockVars,
        kaVars, numVars, radioVars
<1> QED
    BY <1>1, <1>2, <1>3, <1>4, <1>5, <1>6, <1>7, <1>8, <1>9, <1>10, <1>11,
       <1>12, <1>13, <1>14, <1>15, <1>16, <1>17, <1>18, <1>19, <1>20, <1>21,
       <1>22
    DEF Next, MainWork, KeepaliveWork, Steps, Thread, Terminated

(* The keepalive is started after the first setup, and the next setup belongs *)
(* to the second attempt.                                                     *)
LEMMA OneUserStep ==
    ASSUME TypeOK, Senders, OneUser, [Next]_vars
    PROVE  OneUser'
<1>1. ASSUME NEW t \in Thread, Build(t) PROVE OneUser'
    BY <1>1 DEF
        Build, OneUser, Senders, TypeOK, Busy, Idle, Thread, ctlVars, sockVars,
        kaVars, numVars, radioVars
<1>2. ASSUME NEW t \in Thread, Bump(t) PROVE OneUser'
    BY <1>2 DEF
        Bump, OneUser, Senders, TypeOK, Busy, Idle, Thread, ctlVars, sockVars,
        kaVars, numVars, radioVars
<1>3. ASSUME NEW t \in Thread, SendDelivered(t) PROVE OneUser'
    BY <1>3 DEF
        SendDelivered, HandOver, NextJob, OneUser, Senders, TypeOK, Busy, Idle,
        Thread, ctlVars, sockVars, kaVars, numVars, radioVars
<1>4. ASSUME NEW t \in Thread, SendLost(t) PROVE OneUser'
    BY <1>4 DEF
        SendLost, HandOver, NextJob, OneUser, Senders, TypeOK, Busy, Idle,
        Thread, ctlVars, sockVars, kaVars, numVars, radioVars
<1>5. ASSUME NEW t \in Thread, SendFails(t) PROVE OneUser'
    BY <1>5 DEF
        SendFails, HandOver, NextJob, OneUser, Senders, TypeOK, Busy, Idle,
        Thread, ctlVars, sockVars, kaVars, numVars, radioVars
<1>6. CASE KeepaliveTurn
    BY <1>6 DEF
        KeepaliveTurn, OneUser, Senders, TypeOK, Busy, Idle, Thread, ctlVars,
        sockVars, kaVars, numVars, radioVars
<1>7. CASE KeepaliveExit
    BY <1>7 DEF
        KeepaliveExit, OneUser, Senders, TypeOK, Busy, Idle, Thread, ctlVars,
        sockVars, kaVars, numVars, radioVars
<1>8. CASE BeginAttempt
    BY <1>8 DEF
        BeginAttempt, OneUser, Senders, TypeOK, Busy, Idle, Thread, ctlVars,
        sockVars, kaVars, numVars, radioVars
<1>9. CASE Configured
    BY <1>9 DEF
        Configured, StartKeepalive, OneUser, Senders, TypeOK, Busy, Idle,
        Thread, ctlVars, sockVars, kaVars, numVars, radioVars
<1>10. CASE StreamSeen
    BY <1>10 DEF
        StreamSeen, OneUser, Senders, TypeOK, Busy, Idle, Thread, ctlVars,
        sockVars, kaVars, numVars, radioVars
<1>11. CASE WaitOver
    BY <1>11 DEF
        WaitOver, OneUser, Senders, TypeOK, Busy, Idle, Thread, ctlVars,
        sockVars, kaVars, numVars, radioVars
<1>12. CASE GiveUp
    BY <1>12 DEF
        GiveUp, OneUser, Senders, TypeOK, Busy, Idle, Thread, ctlVars,
        sockVars, kaVars, numVars, radioVars
<1>13. CASE StopRecording
    BY <1>13 DEF
        StopRecording, OneUser, Senders, TypeOK, Busy, Idle, Thread, ctlVars,
        sockVars, kaVars, numVars, radioVars
<1>14. CASE Interrupt
    BY <1>14 DEF
        Interrupt, OneUser, Senders, TypeOK, Busy, Idle, Thread, ctlVars,
        sockVars, kaVars, numVars, radioVars
<1>15. CASE StreamingStop
    BY <1>15 DEF
        StreamingStop, OneUser, Senders, TypeOK, Busy, Idle, Thread, ctlVars,
        sockVars, kaVars, numVars, radioVars
<1>16. CASE Close
    BY <1>16 DEF
        Close, OneUser, Senders, TypeOK, Busy, Idle, Thread, ctlVars, sockVars,
        kaVars, numVars, radioVars
<1>17. CASE JoinKeepalive
    BY <1>17 DEF
        JoinKeepalive, OneUser, Senders, TypeOK, Busy, Idle, Thread, ctlVars,
        sockVars, kaVars, numVars, radioVars
<1>18. CASE CloseSocket
    BY <1>18 DEF
        CloseSocket, OneUser, Senders, TypeOK, Busy, Idle, Thread, ctlVars,
        sockVars, kaVars, numVars, radioVars
<1>19. CASE Samples
    BY <1>19 DEF
        Samples, OneUser, Senders, TypeOK, Busy, Idle, Thread, ctlVars,
        sockVars, kaVars, numVars, radioVars
<1>20. CASE Watchdog
    BY <1>20 DEF
        Watchdog, OneUser, Senders, TypeOK, Busy, Idle, Thread, ctlVars,
        sockVars, kaVars, numVars, radioVars
<1>21. CASE Reboot
    BY <1>21 DEF
        Reboot, OneUser, Senders, TypeOK, Busy, Idle, Thread, ctlVars,
        sockVars, kaVars, numVars, radioVars
<1>22. CASE UNCHANGED vars
    BY <1>22 DEF
        vars, OneUser, Senders, TypeOK, Busy, Idle, Thread, ctlVars, sockVars,
        kaVars, numVars, radioVars
<1> QED
    BY <1>1, <1>2, <1>3, <1>4, <1>5, <1>6, <1>7, <1>8, <1>9, <1>10, <1>11,
       <1>12, <1>13, <1>14, <1>15, <1>16, <1>17, <1>18, <1>19, <1>20, <1>21,
       <1>22
    DEF Next, MainWork, KeepaliveWork, Steps, Thread, Terminated

-----------------------------------------------------------------------------
(* The numbers of the packets *)

(* All counters start where the radio's expectation does.                     *)
LEMMA NumberingInit == Init => Numbering
BY DEF Init, Numbering, Sending, Busy, Idle, Thread

(* A packet handed over carries the number that was expected, and leaves      *)
(* counter and expectation equal.                                             *)
LEMMA NumberingHandedOver ==
    ASSUME TypeOK, Senders, OneUser, Numbering, NEW t \in Thread, HandOver(t),
           NEW j, j.phase = "build", job' = [job EXCEPT ![t] = j],
           attempt' = attempt
    PROVE  Numbering'
<1> SUFFICES ASSUME attempt <= 1
             PROVE  Numbering'
    BY DEF Numbering
<1> DEFINE k0 == Packet(t)
<1>1. Busy(t) /\ job[t].phase = "send" /\ k0 \in Kind
    BY PacketTyped DEF HandOver
<1>2. \A u \in Thread : Busy(u) => u = t
    BY <1>1, SoleUser
<1>3. job[t].num = next_number[k0]
    BY <1>1 DEF Numbering
<1>4. in_order' /\ next_number' = [next_number EXCEPT ![k0] = (@ + 1) % SeqSpace]
    BY <1>3 DEF HandOver, Numbering
<1>5. \A u \in Thread : job'[u].phase = "build"
    BY <1>2 DEF Numbering, TypeOK
<1>6. \A u \in Thread, k \in Kind : ~Sending(u, k)'
    BY <1>5 DEF Sending
<1>7. ASSUME NEW k \in Kind PROVE sequence'[k] = next_number'[k]
    <2>1. sequence' = sequence
        BY DEF HandOver
    <2>2. (\E u \in Thread : Sending(u, k)) <=> k = k0
        BY <1>1, <1>2 DEF Sending
    <2>3. sequence[k] = IF k = k0 THEN (next_number[k] + 1) % SeqSpace
                                  ELSE next_number[k]
        BY <2>2 DEF Numbering
    <2> QED
        BY <2>1, <2>3, <1>4, <1>1 DEF TypeOK
<1> QED
    BY <1>4, <1>5, <1>6, <1>7 DEF Numbering

(* No step of either thread breaks the numbering before the second attempt.   *)
LEMMA NumberingStep ==
    ASSUME TypeOK, Senders, OneUser, Numbering, [Next]_vars
    PROVE  Numbering'
<1>1. ASSUME NEW t \in Thread, Build(t) PROVE Numbering'
    <2> SUFFICES ASSUME attempt <= 1
                 PROVE  Numbering'
        BY <1>1 DEF Build, Numbering, ctlVars
    <2>1. Busy(t) /\ job[t].phase = "build" /\ Packet(t) \in Kind
        BY <1>1, PacketTyped DEF Build
    <2>2. \A u \in Thread : Busy(u) => u = t
        BY <2>1, SoleUser
    <2>3. sequence[Packet(t)] = next_number[Packet(t)]
        BY <2>1, <2>2 DEF Numbering, Sending
    <2>4. /\ job' = [job EXCEPT ![t].num = sequence[Packet(t)], ![t].phase = "bump"]
          /\ UNCHANGED <<attempt, in_order, next_number, sequence>>
        BY <1>1 DEF Build, ctlVars, numVars
    <2>5. \A u \in Thread : job'[u].todo = job[u].todo
        BY <2>4 DEF TypeOK
    <2>6. \A u \in Thread : Busy(u)' = Busy(u) /\ Packet(u)' = Packet(u)
        BY <2>5 DEF Busy, Packet
    <2>7. \A u \in Thread, k \in Kind : ~Sending(u, k) /\ ~Sending(u, k)'
        BY <2>1, <2>2, <2>4, <2>6 DEF Sending, TypeOK
    <2> QED
        BY <2>1, <2>2, <2>3, <2>4, <2>6, <2>7 DEF Numbering, TypeOK
<1>2. ASSUME NEW t \in Thread, Bump(t) PROVE Numbering'
    <2> SUFFICES ASSUME attempt <= 1
                 PROVE  Numbering'
        BY <1>2 DEF Bump, Numbering, ctlVars
    <2>1. Busy(t) /\ job[t].phase = "bump" /\ Packet(t) \in Kind
        BY <1>2, PacketTyped DEF Bump
    <2>2. \A u \in Thread : Busy(u) => u = t
        BY <2>1, SoleUser
    <2>3. /\ job' = [job EXCEPT ![t].phase = "send"]
          /\ sequence' = [sequence EXCEPT ![Packet(t)] = NextNumber(job[t].num)]
          /\ UNCHANGED <<attempt, in_order, next_number>>
        BY <1>2 DEF Bump, ctlVars
    <2>4. \A u \in Thread : job'[u].todo = job[u].todo /\ job'[u].num = job[u].num
        BY <2>3 DEF TypeOK
    <2>5. \A u \in Thread : Busy(u)' = Busy(u) /\ Packet(u)' = Packet(u)
        BY <2>4 DEF Busy, Packet
    <2>6. job[t].num = next_number[Packet(t)]
        BY <2>1 DEF Numbering
    <2>7. \A u \in Thread, k \in Kind :
              ~Sending(u, k) /\ (Sending(u, k)' <=> u = t /\ k = Packet(t))
        BY <2>1, <2>2, <2>3, <2>5 DEF Sending, TypeOK
    <2>8. ASSUME NEW k \in Kind
          PROVE  sequence'[k] = IF \E u \in Thread : Sending(u, k)'
                                THEN (next_number'[k] + 1) % SeqSpace
                                ELSE next_number'[k]
        <3>1. sequence[k] = next_number[k]
            BY <2>7 DEF Numbering
        <3> QED
            BY <3>1, <2>1, <2>3, <2>6, <2>7 DEF NextNumber, TypeOK
    <2>9. \A u \in Thread : ~Busy(u)' => job'[u].phase = "build"
        BY <2>1, <2>3, <2>5 DEF Numbering, TypeOK
    <2>10. \A u \in Thread : Busy(u)' /\ job'[u].phase # "build"
                                 => job'[u].num = next_number'[Packet(u)']
        BY <2>2, <2>3, <2>4, <2>5, <2>6
    <2> QED
        BY <2>3, <2>8, <2>9, <2>10 DEF Numbering
<1>3. ASSUME NEW t \in Thread, SendDelivered(t) PROVE Numbering'
    BY <1>3, NumberingHandedOver DEF SendDelivered, NextJob, Idle, ctlVars
<1>4. ASSUME NEW t \in Thread, SendLost(t) PROVE Numbering'
    BY <1>4, NumberingHandedOver DEF SendLost, NextJob, Idle, ctlVars
<1>5. ASSUME NEW t \in Thread, SendFails(t) PROVE Numbering'
    BY <1>5, NumberingHandedOver DEF SendFails, NextJob, Idle, ctlVars
<1>6. CASE KeepaliveTurn
    <2> SUFFICES ASSUME attempt' <= 1
                 PROVE  Numbering'
        BY DEF Numbering
    <2>1. /\ ~Busy("keepalive") /\ attempt <= 1
          /\ job' = [job EXCEPT !["keepalive"].todo = Turn(cycling + 1)]
          /\ UNCHANGED <<sequence, next_number, in_order>>
        BY <1>6 DEF KeepaliveTurn, OneUser, TypeOK, ctlVars, numVars, Senders
    <2>2. \A u \in Thread : /\ job'[u].phase = job[u].phase /\ job'[u].num = job[u].num
                            /\ u # "keepalive" => job'[u].todo = job[u].todo
        BY <2>1 DEF TypeOK
    <2>3. job["keepalive"].phase = "build"
        BY <2>1 DEF Numbering, Thread
    <2>4. \A u \in Thread : u # "keepalive" => Busy(u)' = Busy(u) /\ Packet(u)' = Packet(u)
        BY <2>2 DEF Busy, Packet
    <2>5. \A u \in Thread, k \in Kind : Sending(u, k)' <=> Sending(u, k)
        BY <2>2, <2>3, <2>4 DEF Sending
    <2> QED
        BY <2>1, <2>2, <2>3, <2>4, <2>5 DEF Numbering
<1>7. CASE BeginAttempt
    <2> SUFFICES ASSUME attempt' <= 1
                 PROVE  Numbering'
        BY DEF Numbering
    <2>1. /\ ~Busy("main") /\ attempt <= 1
          /\ job' = [job EXCEPT !["main"].todo = Setup]
          /\ UNCHANGED <<sequence, next_number, in_order>>
        BY <1>7 DEF BeginAttempt, OneUser, TypeOK, ctlVars, numVars, Senders
    <2>2. \A u \in Thread : /\ job'[u].phase = job[u].phase /\ job'[u].num = job[u].num
                            /\ u # "main" => job'[u].todo = job[u].todo
        BY <2>1 DEF TypeOK
    <2>3. job["main"].phase = "build"
        BY <2>1 DEF Numbering, Thread
    <2>4. \A u \in Thread : u # "main" => Busy(u)' = Busy(u) /\ Packet(u)' = Packet(u)
        BY <2>2 DEF Busy, Packet
    <2>5. \A u \in Thread, k \in Kind : Sending(u, k)' <=> Sending(u, k)
        BY <2>2, <2>3, <2>4 DEF Sending
    <2> QED
        BY <2>1, <2>2, <2>3, <2>4, <2>5 DEF Numbering
<1>8. CASE Configured
    BY <1>8 DEF Configured, Numbering, Sending, Busy, Packet, ctlVars, numVars
<1>9. CASE KeepaliveExit
    BY <1>9 DEF
        KeepaliveExit, Numbering, Sending, Busy, Packet, ctlVars, numVars
<1>10. CASE StreamSeen
    BY <1>10 DEF StreamSeen, Numbering, Sending, Busy, Packet, ctlVars, numVars
<1>11. CASE WaitOver
    BY <1>11 DEF WaitOver, Numbering, Sending, Busy, Packet, ctlVars, numVars
<1>12. CASE GiveUp
    BY <1>12 DEF GiveUp, Numbering, Sending, Busy, Packet, ctlVars, numVars
<1>13. CASE StopRecording
    BY <1>13 DEF
        StopRecording, Numbering, Sending, Busy, Packet, ctlVars, numVars
<1>14. CASE Interrupt
    BY <1>14 DEF Interrupt, Numbering, Sending, Busy, Packet, ctlVars, numVars
<1>15. CASE StreamingStop
    BY <1>15 DEF
        StreamingStop, Numbering, Sending, Busy, Packet, ctlVars, numVars
<1>16. CASE Close
    BY <1>16 DEF Close, Numbering, Sending, Busy, Packet, ctlVars, numVars
<1>17. CASE JoinKeepalive
    BY <1>17 DEF
        JoinKeepalive, Numbering, Sending, Busy, Packet, ctlVars, numVars
<1>18. CASE CloseSocket
    BY <1>18 DEF CloseSocket, Numbering, Sending, Busy, Packet, ctlVars, numVars
<1>19. CASE Samples
    BY <1>19 DEF Samples, Numbering, Sending, Busy, Packet, ctlVars, numVars
<1>20. CASE Watchdog
    BY <1>20 DEF Watchdog, Numbering, Sending, Busy, Packet, ctlVars, numVars
<1>21. CASE Reboot
    BY <1>21 DEF Reboot, Numbering, Sending, Busy, Packet, ctlVars, numVars
<1>22. CASE UNCHANGED vars
    BY <1>22 DEF vars, Numbering, Sending, Busy, Packet, ctlVars, numVars
<1> QED
    BY <1>1, <1>2, <1>3, <1>4, <1>5, <1>6, <1>7, <1>8, <1>9, <1>10, <1>11,
       <1>12, <1>13, <1>14, <1>15, <1>16, <1>17, <1>18, <1>19, <1>20, <1>21,
       <1>22
    DEF Next, MainWork, KeepaliveWork, Steps, Thread, Terminated

-----------------------------------------------------------------------------
(* The theorems *)

(* The inductive invariant holds in every reachable state.                    *)
THEOREM ControlInvariance == Spec => []IInv
<1>1. Init => IInv
    BY TypeInit, OrderInit, NumberingInit DEF IInv
<1>2. IInv /\ [Next]_vars => IInv'
    BY TypeStep, SendersStep, ClosingOrderStep, InformedStep, OneUserStep, NumberingStep
    DEF IInv
<1> QED
    BY <1>1, <1>2, PTL DEF Spec

(* Every variable keeps its type.                                             *)
THEOREM ControlTypes == Spec => []TypeOK
<1>1. IInv => TypeOK
    BY DEF IInv
<1> QED
    BY <1>1, ControlInvariance, PTL

(* No thread sends or receives on a closed socket.                            *)
THEOREM SocketIsClosedLast == Spec => []SocketOutlivesUsers
<1>1. IInv => SocketOutlivesUsers
    BY DEF IInv, SocketOutlivesUsers, Senders, ClosingOrder, Thread
<1> QED
    BY <1>1, ControlInvariance, PTL

(* Until the second attempt, every kind of packet is numbered consecutively.  *)
THEOREM NumbersAreInTurn == Spec => []NumberedInTurn
<1>1. IInv => NumberedInTurn
    BY DEF IInv, Numbering, NumberedInTurn
<1> QED
    BY <1>1, ControlInvariance, PTL

(* The radio is never left at the settings the keepalive was compiled with.   *)
THEOREM KeepaliveIsInformed == Spec => []TunedAsConfigured
<1>1. IInv => TunedAsConfigured
    BY DEF IInv, Informed, TunedAsConfigured
<1> QED
    BY <1>1, ControlInvariance, PTL
=============================================================================
