-------------------------------- MODULE Main --------------------------------
(***************************************************************************)
(* The process (wmain, ctsTraffic.cpp): WSAStartup, ctsConfig::Startup,    *)
(* the Ctrl-C handler, the broker and its wait, and the exit code. Startup *)
(* parses the settings; for a media stream it runs                          *)
(* MediaStreamSettings::CalculateTransferSize (ctsConfig.cpp, which makes  *)
(* the call, is not in src). The broker and the sockets it creates are     *)
(* SocketBroker, composed by INSTANCE over the same variables; a socket    *)
(* entering Closing records its outcome in                                  *)
(* ConnectionStatusDetails (spec 4.5), whose counters make the exit code.  *)
(***************************************************************************)
EXTENDS Integers, FiniteSets

CONSTANTS
    Iterations, ConnectionLimit, ConnectionThrottleLimit, ServerExitLimit, AcceptLimit,
    UlongBits,          \* the width of unsigned long (32, scaled)
    IntBits,            \* the width of int, the type of the exit code (32, scaled)
    MediaStreamInputs   \* the media-stream settings the command line may give

VARIABLES
    accept_function, total_remaining, pending_sockets, active_sockets, done,
    fail_fast, started, interrupted, exited, phase,
    main_pc,            \* where wmain is
    time_limit,         \* Settings->TimeLimit > 0
    media,              \* Settings->MediaStreamSettings after Startup
    successes,          \* ConnectionStatusDetails.successful_completion_count
    connection_errors,  \* ConnectionStatusDetails.connection_error_count
    protocol_errors,    \* ConnectionStatusDetails.protocol_error_count
    exit_code           \* the value wmain returns

B == INSTANCE SocketBroker
MS == INSTANCE MediaStreamSettings

broker_vars == <<accept_function, total_remaining, pending_sockets, active_sockets, done,
                 fail_fast, started, interrupted, exited, phase>>
main_vars == <<main_pc, time_limit, media, successes, connection_errors, protocol_errors,
               exit_code>>
vars == <<broker_vars, main_vars>>

ERROR_SUCCESS == 0
ERROR_INVALID_DATA == 13
WSASYSNOTREADY == 10091
\* HRESULT_FROM_WIN32 of a SetConsoleCtrlHandler failure, as an int
CtrlHandlerHresult == -2147024809

\* MAXINT
MaxInt == 2^(IntBits - 1) - 1

\* the settings of a run that is not a media stream: CalculateTransferSize is not called
NotCalled == [bps |-> 0, fps |-> 0, depth |-> 0, secs |-> 0, buffered |-> 0,
              frame_size |-> 0, frames |-> 0, total |-> 0, outcome |-> "not_called"]

\* what a socket's teardown may record, by the state it leaves: a failed
\* create or connect is a connection error; io_fn's end may be any outcome
TeardownOutcomes(p) ==
    IF p = "InitiatingIo" THEN {"success", "connection_error", "protocol_error"}
    ELSE {"connection_error"}

-----------------------------------------------------------------------------
\* mutant: error_count is returned as static_cast<int> without the MAXINT cap
ExitCodeTruncated(errors) ==
    LET w == errors % 2^IntBits
    IN IF w > MaxInt THEN w - 2^IntBits ELSE w

\* "if (error_count > MAXINT) error_count = MAXINT; return static_cast<int>(error_count)"
ExitCode(errors) == IF errors > MaxInt THEN MaxInt ELSE errors

\* the process ends: wmain returns code
Return(code) == main_pc' = "exited" /\ exit_code' = code

-----------------------------------------------------------------------------
Init ==
    /\ B!Init
    /\ main_pc = "wsa_startup"
    /\ time_limit \in BOOLEAN
    /\ media = NotCalled
    /\ successes = 0 /\ connection_errors = 0 /\ protocol_errors = 0
    /\ exit_code = ERROR_SUCCESS

(* WSAStartup: on failure wmain returns its error.                         *)
WSAStartupStep ==
    /\ main_pc = "wsa_startup"
    /\ \/ main_pc' = "startup" /\ UNCHANGED exit_code
       \/ Return(WSASYSNOTREADY)
    /\ UNCHANGED <<broker_vars, time_limit, media, successes, connection_errors, protocol_errors>>

(* ctsConfig::Startup returns false (the usage was asked for): Shutdown,   *)
(* ERROR_INVALID_DATA, and the usage hint.                                  *)
StartupHelp ==
    /\ main_pc = "startup"
    /\ Return(ERROR_INVALID_DATA)
    /\ UNCHANGED <<broker_vars, time_limit, media, successes, connection_errors, protocol_errors>>

(* Startup succeeds for a run that is not a media stream.                  *)
StartupTcp ==
    /\ main_pc = "startup"
    /\ main_pc' = "run"
    /\ UNCHANGED <<broker_vars, time_limit, media, successes, connection_errors,
                   protocol_errors, exit_code>>

(* Startup of a media stream computes the transfer size: it goes on when   *)
(* the call returns; a FAIL_FAST ends the process; invalid_argument and    *)
(* ctsSafeIntException reach wmain's catch blocks, which return            *)
(* ERROR_INVALID_DATA.                                                      *)
StartupMediaStream(s) ==
    LET r == MS!CalculateTransferSize(s, accept_function)
    IN /\ main_pc = "startup"
       /\ media' = r
       /\ CASE r.outcome = "returned" -> main_pc' = "run" /\ UNCHANGED exit_code
            [] r.outcome \in {"argument_fail_fast", "alignment_fail_fast"} ->
                 main_pc' = "crashed" /\ UNCHANGED exit_code
            [] OTHER -> Return(ERROR_INVALID_DATA)
       /\ UNCHANGED <<broker_vars, time_limit, successes, connection_errors, protocol_errors>>

(* SetConsoleCtrlHandler fails: THROW_WIN32 reaches the ResultException    *)
(* catch, which returns the HRESULT before any broker exists.              *)
CtrlHandlerFails ==
    /\ main_pc = "run"
    /\ Return(CtrlHandlerHresult)
    /\ UNCHANGED <<broker_vars, time_limit, media, successes, connection_errors, protocol_errors>>

(* SetConsoleCtrlHandler succeeds: from here on Ctrl-C runs               *)
(* CtrlBreakHandlerRoutine instead of ending the process.                  *)
InstallCtrlHandler ==
    /\ main_pc = "run"
    /\ main_pc' = "handler"
    /\ UNCHANGED <<broker_vars, time_limit, media, successes, connection_errors, protocol_errors,
                   exit_code>>

(* The settings are printed, the broker is made and started, and wmain    *)
(* blocks in broker->wait.                                                  *)
StartBroker ==
    /\ main_pc = "handler"
    /\ B!Start
    /\ main_pc' = "waiting"
    /\ UNCHANGED <<time_limit, media, successes, connection_errors, protocol_errors, exit_code>>

(* The operator hits Ctrl-C once the handler is installed: before the     *)
(* broker starts, or while wmain waits.                                     *)
CtrlC ==
    /\ main_pc \in {"handler", "waiting"}
    /\ B!CtrlC
    /\ UNCHANGED main_vars

\* the broker's own steps while wmain waits
BrokerStep(A) == main_pc = "waiting" /\ A /\ UNCHANGED main_vars

\* mutant: a socket that fails before IO records nothing
CountedNoEarly(o, p) ==
    /\ successes' = successes + IF o = "success" THEN 1 ELSE 0
    /\ connection_errors' = connection_errors +
           IF o = "connection_error" /\ p = "InitiatingIo" THEN 1 ELSE 0
    /\ protocol_errors' = protocol_errors + IF o = "protocol_error" THEN 1 ELSE 0

\* the ConnectionStatusDetails counter the outcome o of a teardown from p increments
Counted(o, p) ==
    /\ successes' = successes + IF o = "success" THEN 1 ELSE 0
    /\ connection_errors' = connection_errors + IF o = "connection_error" THEN 1 ELSE 0
    /\ protocol_errors' = protocol_errors + IF o = "protocol_error" THEN 1 ELSE 0

(* complete_state moves socket s to Closing, which records the outcome o   *)
(* and notifies the broker.                                                 *)
SocketClosing(s, o) ==
    /\ main_pc = "waiting"
    /\ o \in TeardownOutcomes(phase[s])
    /\ B!SocketClosing(s)
    /\ Counted(o, phase[s])
    /\ UNCHANGED <<main_pc, time_limit, media, exit_code>>

\* lines 147-216: the final status, the summaries and the exit code
Finish == Return(ExitCode(connection_errors + protocol_errors))

(* broker->wait returns on done or Ctrl-C; wmain tears the broker down,    *)
(* prints the summaries and returns the error count.                       *)
ReturnOnEvent ==
    /\ main_pc = "waiting"
    /\ B!Exit
    /\ Finish
    /\ UNCHANGED <<time_limit, media, successes, connection_errors, protocol_errors>>

(* broker->wait times out at Settings->TimeLimit: "Timelimit reached", and *)
(* the same teardown and exit code.                                         *)
ReturnOnTimeLimit ==
    /\ main_pc = "waiting"
    /\ time_limit /\ B!Running /\ started /\ ~done /\ ~interrupted
    /\ exited' = TRUE
    /\ Finish
    /\ UNCHANGED <<accept_function, total_remaining, pending_sockets, active_sockets, done,
                   fail_fast, started, interrupted, phase>>
    /\ UNCHANGED <<time_limit, media, successes, connection_errors, protocol_errors>>

Startup ==
    StartupHelp \/ StartupTcp \/ \E s \in MediaStreamInputs : StartupMediaStream(s)

SocketStep(s) ==
    \/ BrokerStep(B!SocketAdvance(s))
    \/ BrokerStep(B!SocketInitiatingIo(s))
    \/ \E o \in TeardownOutcomes(phase[s]) : SocketClosing(s, o)

Next ==
    \/ WSAStartupStep \/ Startup \/ CtrlHandlerFails \/ InstallCtrlHandler \/ StartBroker
    \/ BrokerStep(B!TimerCallback) \/ CtrlC
    \/ \E s \in B!Sockets : SocketStep(s) \/ BrokerStep(B!SocketClosed(s))
    \/ ReturnOnEvent \/ ReturnOnTimeLimit

(* wmain runs on; the broker's timer and the sockets' injected functions   *)
(* progress as in SocketBroker; the time limit, when set, expires. Ctrl-C  *)
(* is the operator's choice and is not fair.                                *)
Fairness ==
    /\ WF_vars(WSAStartupStep) /\ WF_vars(Startup) /\ WF_vars(CtrlHandlerFails \/ InstallCtrlHandler)
    /\ WF_vars(StartBroker)
    /\ WF_vars(BrokerStep(B!TimerCallback))
    /\ \A s \in B!Sockets : WF_vars(SocketStep(s)) /\ WF_vars(BrokerStep(B!SocketClosed(s)))
    /\ WF_vars(ReturnOnEvent) /\ WF_vars(ReturnOnTimeLimit)

Spec == Init /\ [][Next]_vars /\ Fairness

-----------------------------------------------------------------------------
TypeOK ==
    /\ B!TypeOK
    /\ main_pc \in {"wsa_startup", "startup", "run", "handler", "waiting", "exited",
                   "crashed"}
    /\ time_limit \in BOOLEAN
    /\ media.outcome \in MS!Outcomes \cup {"not_called"}
    /\ {successes, connection_errors, protocol_errors} \subseteq Nat
    /\ exit_code \in Int

\* the errors the process has recorded
ErrorCount == connection_errors + protocol_errors

(* The exit code reports the run (spec 5, CLI surface): wmain returns 0    *)
(* exactly when the broker ran and no connection failed, and a run that    *)
(* returns 0 after the broker's done event made every connection it was   *)
(* asked for, each successfully, whatever order the sockets closed in.     *)
ExitCodeReportsErrors ==
    main_pc = "exited" =>
        /\ (exit_code = ERROR_SUCCESS) = (started /\ ErrorCount = 0)
        /\ exit_code = ERROR_SUCCESS /\ done => successes = Cardinality(B!RunSockets)

(* A media stream's settings are never refused by the frame-alignment      *)
(* FAIL_FAST, and settings CalculateTransferSize accepts describe a whole   *)
(* stream: StreamLengthSeconds * FramesPerSecond frames of FrameSizeBytes, *)
(* between 40 bytes and MAXULONG32, that add up to the transfer size, and  *)
(* on a client BufferDepthSeconds * FramesPerSecond buffered frames.        *)
TransferSizeConsistent ==
    /\ media.outcome # "alignment_fail_fast"
    /\ media.outcome = "returned" =>
          /\ media.frame_size * media.frames = media.total
          /\ media.frame_size \in MS!MinFrameSizeBytes .. MS!MaxUlong
          /\ media.frames = media.secs * media.fps
          /\ ~accept_function => media.buffered = media.depth * media.fps

(* The frame size is the configured rate per frame (spec 4.3: bits/sec ÷ 8 *)
(* ÷ frames/sec = bytes/frame) whenever CalculateTransferSize accepts the  *)
(* settings.                                                                *)
FrameSizeMatchesRate ==
    media.outcome = "returned" => media.frame_size = (media.bps \div 8) \div media.fps

(* The broker keeps its contract inside the process: no counter FAIL_FAST, *)
(* counters equal to its sockets, a client within ConnectionLimit, and     *)
(* done only once every connection has left IO.                            *)
NoCounterUnderflow == B!NoCounterUnderflow

CountersMatchSockets == B!CountersMatchSockets

ConnectionLimitRespected == B!ConnectionLimitRespected

DoneMeansAllFinished == B!DoneMeansAllFinished

(* wmain always returns or the process fails fast: without a time limit or *)
(* Ctrl-C, only once the broker has made and closed every connection.      *)
EventuallyReturns == <>(main_pc \in {"exited", "crashed"})

=============================================================================
