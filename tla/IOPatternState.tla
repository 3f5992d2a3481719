--------------------------- MODULE IOPatternState ---------------------------
(***************************************************************************)
(* The per-connection protocol state machine ctsIOPatternState             *)
(* (src/ctsTraffic/ctsIOPatternState.hpp), driven by the IO pattern that   *)
(* posts the tasks it asks for and by a network that completes every       *)
(* posted task in any order, with any byte count a socket can return, or   *)
(* with an error.                                                          *)
(***************************************************************************)
EXTENDS Integers, Sequences, Bags, BagsExt, FiniteSetsExt

CONSTANTS
    Protocol,            \* ctsConfig::Settings->Protocol: "TCP" or "UDP"
    MaxTransfer,         \* ctsConfig::GetTransferSize()
    BufferSize,          \* largest buffer the pattern posts for MoreIo
    ConnectionIdLength,  \* ctsStatistics::ConnectionIdLength (scaled down)
    MaxOutstanding,      \* IO the pattern keeps posted at once (pre-posts)
    ErrorCodes           \* completion codes: NO_ERROR and some WSA errors

ASSUME Protocol \in {"TCP", "UDP"}
ASSUME MaxTransfer \in Nat \ {0} /\ BufferSize \in Nat \ {0}
ASSUME ConnectionIdLength \in Nat \ {0} /\ MaxOutstanding \in Nat \ {0}
ASSUME "NO_ERROR" \in ErrorCodes

\* the 4-byte status word the server returns (literal 4 in completed_task)
StatusLength == 4

InternalPatternState ==
    {"Initialized", "MoreIo", "ServerSendConnectionId", "ClientRecvConnectionId",
     "ServerSendCompletion", "ClientRecvCompletion", "GracefulShutdown",
     "HardShutdown", "RequestFIN", "CompletedTransfer", "ErrorIOFailed"}

ProtocolTask ==
    {"NoIo", "SendConnectionId", "RecvConnectionId", "MoreIo", "SendCompletion",
     "RecvCompletion", "GracefulShutdown", "HardShutdown", "RequestFIN"}

ProtocolError ==
    {"NoError", "TooManyBytes", "TooFewBytes", "CorruptedBytes",
     "ErrorIOFailed", "SuccessfullyCompleted"}

\* a FAIL_FAST of the class: the process aborts
FailFast == "FailFast"

\* a posted IO: the protocol task it serves, its buffer_length and track_io
Task == [ptask : ProtocolTask \ {"NoIo"}, len : 0..Max({BufferSize, ConnectionIdLength, StatusLength}),
         track : BOOLEAN, send : BOOLEAN]

VARIABLES
    internal_state, pended_state, confirmed_bytes, inflight_bytes,
    is_listening,   \* ctsConfig::IsListening()
    tcp_shutdown,   \* ctsConfig::Settings->TcpShutdown
    outstanding,    \* bag of the tasks posted and not yet completed
    last_result,    \* the ctsIOPatternProtocolError last returned
    trajectory      \* history: the internal states in the order entered

vars == <<internal_state, pended_state, confirmed_bytes, inflight_bytes,
          is_listening, tcp_shutdown, outstanding, last_result, trajectory>>

-----------------------------------------------------------------------------
\* mutant: RecvCompletion forgotten in the pended set
PendsOnNotRecvCompletion(task) == task \notin {"NoIo", "MoreIo", "RecvCompletion"}

(* get_next_task sets pended_state on every branch that returns a        *)
(* protocol task other than MoreIo.                                        *)
PendsOn(task) == task \notin {"NoIo", "MoreIo"}

(* get_next_task: the task returned and the state it leaves behind.        *)
NextTask ==
    LET R(t, s) == [task |-> t, state |-> s]
    IN
    IF pended_state THEN R("NoIo", internal_state)
    ELSE CASE internal_state = "Initialized" ->
                IF is_listening THEN R("SendConnectionId", "ServerSendConnectionId")
                                ELSE R("RecvConnectionId", "ClientRecvConnectionId")
           [] internal_state \in {"ServerSendConnectionId", "ClientRecvConnectionId"} ->
                R("MoreIo", "MoreIo")
           [] internal_state = "MoreIo" ->
                IF confirmed_bytes + inflight_bytes < MaxTransfer
                THEN R("MoreIo", "MoreIo") ELSE R("NoIo", "MoreIo")
           [] internal_state = "ServerSendCompletion" -> R("SendCompletion", internal_state)
           [] internal_state = "ClientRecvCompletion" -> R("RecvCompletion", internal_state)
           [] internal_state = "GracefulShutdown" -> R("GracefulShutdown", internal_state)
           [] internal_state = "HardShutdown" -> R("HardShutdown", internal_state)
           [] internal_state = "RequestFIN" -> R("RequestFIN", internal_state)
           [] OTHER -> R("NoIo", internal_state)

\* mutant: notify_next_task counts untracked IO as well
NotifiedInflightUntracked(t) == inflight_bytes + t.len

(* notify_next_task: only tracked IO counts as bytes in flight.            *)
NotifiedInflight(t) == IF t.track THEN inflight_bytes + t.len ELSE inflight_bytes

(* get_remaining_transfer (its FAIL_FAST is checked where it is called).   *)
RemainingTransfer == MaxTransfer - (confirmed_bytes + inflight_bytes)

(* The IO task the pattern builds for a protocol task (ctsIOPattern is not *)
(* in src: spec 4.3). MoreIo moves data in the pattern's direction (Push:  *)
(* the client sends); the connection id and status are fixed-size and not  *)
(* tracked; the shutdowns move no bytes; the FIN receive posts a buffer.   *)
TasksFor(pt) ==
    LET moreIoSends == ~is_listening
    IN CASE pt = "MoreIo" ->
              {[ptask |-> pt, len |-> n, track |-> TRUE, send |-> moreIoSends] :
                  n \in 1..Min({BufferSize, RemainingTransfer})}
         [] pt \in {"SendConnectionId", "RecvConnectionId"} ->
              {[ptask |-> pt, len |-> ConnectionIdLength, track |-> FALSE,
                send |-> pt = "SendConnectionId"]}
         [] pt \in {"SendCompletion", "RecvCompletion"} ->
              {[ptask |-> pt, len |-> StatusLength, track |-> FALSE,
                send |-> pt = "SendCompletion"]}
         [] pt \in {"GracefulShutdown", "HardShutdown"} ->
              {[ptask |-> pt, len |-> 0, track |-> FALSE, send |-> TRUE]}
         [] pt = "RequestFIN" ->
              {[ptask |-> pt, len |-> 1, track |-> FALSE, send |-> FALSE]}

(* update_error: the state left behind and the error returned.             *)
UpdateError(code) ==
    LET R(s, e) == [state |-> s, result |-> e]
        completed == internal_state \in {"CompletedTransfer", "ErrorIOFailed"}
    IN
    IF internal_state = "ErrorIOFailed" THEN R(internal_state, "ErrorIOFailed")
    ELSE IF Protocol = "UDP"
         THEN IF code # "NO_ERROR" THEN R("ErrorIOFailed", "ErrorIOFailed")
                                   ELSE R(internal_state, "NoError")
    ELSE IF code # "NO_ERROR" /\ ~completed
         THEN IF is_listening /\ internal_state = "RequestFIN"
                 /\ code \in {"WSAETIMEDOUT", "WSAECONNRESET", "WSAECONNABORTED"}
              THEN R(internal_state, "NoError")
              ELSE R("ErrorIOFailed", "ErrorIOFailed")
    ELSE R(internal_state, "NoError")

\* mutant: the server skips sending its status after the last byte
ServerPhaseStepSkipStatus(bytes, keep) ==
    LET R(s, p, e) == [state |-> s, pended |-> p, result |-> e]
    IN CASE internal_state = "MoreIo" -> R("RequestFIN", FALSE, "NoError")
         [] internal_state = "ServerSendCompletion" -> R("RequestFIN", FALSE, "NoError")
         [] internal_state = "RequestFIN" ->
              IF bytes # 0 THEN R("ErrorIOFailed", keep, "TooManyBytes")
                           ELSE R("CompletedTransfer", keep, "SuccessfullyCompleted")
         [] OTHER -> R(FailFast, keep, "ErrorIOFailed")

\* mutant: the client's switch has no HardShutdown case
ClientPhaseStepNoHard(bytes, keep) ==
    LET R(s, p, e) == [state |-> s, pended |-> p, result |-> e]
    IN CASE internal_state = "MoreIo" -> R("ClientRecvCompletion", FALSE, "NoError")
         [] internal_state = "ClientRecvCompletion" ->
              IF bytes # StatusLength THEN R("ErrorIOFailed", keep, "TooFewBytes")
              ELSE IF tcp_shutdown = "GracefulShutdown"
                   THEN R("GracefulShutdown", FALSE, "NoError")
                   ELSE R("HardShutdown", FALSE, "NoError")
         [] internal_state = "GracefulShutdown" -> R("RequestFIN", FALSE, "NoError")
         [] internal_state = "RequestFIN" ->
              IF bytes # 0 THEN R("ErrorIOFailed", keep, "TooManyBytes")
                           ELSE R("CompletedTransfer", keep, "SuccessfullyCompleted")
         [] OTHER -> R(FailFast, keep, "ErrorIOFailed")

(* The TCP phase change once every byte is transferred and none is in      *)
(* flight: the server's switch in completed_task.                          *)
ServerPhaseStep(bytes, keep) ==
    LET R(s, p, e) == [state |-> s, pended |-> p, result |-> e]
    IN CASE internal_state = "MoreIo" -> R("ServerSendCompletion", FALSE, "NoError")
         [] internal_state = "ServerSendCompletion" -> R("RequestFIN", FALSE, "NoError")
         [] internal_state = "RequestFIN" ->
              IF bytes # 0 THEN R("ErrorIOFailed", keep, "TooManyBytes")
                           ELSE R("CompletedTransfer", keep, "SuccessfullyCompleted")
         [] OTHER -> R(FailFast, keep, "ErrorIOFailed")

(* ... and the client's switch.                                            *)
ClientPhaseStep(bytes, keep) ==
    LET R(s, p, e) == [state |-> s, pended |-> p, result |-> e]
    IN CASE internal_state = "MoreIo" -> R("ClientRecvCompletion", FALSE, "NoError")
         [] internal_state = "ClientRecvCompletion" ->
              IF bytes # StatusLength THEN R("ErrorIOFailed", keep, "TooFewBytes")
              ELSE IF tcp_shutdown = "GracefulShutdown"
                   THEN R("GracefulShutdown", FALSE, "NoError")
                   ELSE R("HardShutdown", FALSE, "NoError")
         [] internal_state = "GracefulShutdown" -> R("RequestFIN", FALSE, "NoError")
         [] internal_state = "RequestFIN" ->
              IF bytes # 0 THEN R("ErrorIOFailed", keep, "TooManyBytes")
                           ELSE R("CompletedTransfer", keep, "SuccessfullyCompleted")
         [] internal_state = "HardShutdown" ->
              R("CompletedTransfer", keep, "SuccessfullyCompleted")
         [] OTHER -> R(FailFast, keep, "ErrorIOFailed")

(* completed_task's update of the in-flight count for a tracked task.      *)
InflightAfter(t, bytes) == IF t.track THEN inflight_bytes - t.len ELSE inflight_bytes

(* completed_task: the new state, flag, counters and the error returned.   *)
CompletedTask(t, bytes) ==
    LET R(s, p, c, i, e) == [state |-> s, pended |-> p, confirmed |-> c,
                             inflight |-> i, result |-> e]
        idPhase == internal_state \in {"ServerSendConnectionId", "ClientRecvConnectionId"}
        pended1 == IF idPhase THEN FALSE ELSE pended_state
        broken == t.track /\ (bytes > inflight_bytes \/ t.len > inflight_bytes \/ bytes > t.len)
        inflight1 == InflightAfter(t, bytes)
        confirmed1 == IF t.track THEN confirmed_bytes + bytes ELSE confirmed_bytes
        already == confirmed1 + inflight1
        phase == IF is_listening THEN ServerPhaseStep(bytes, pended1)
                                 ELSE ClientPhaseStep(bytes, pended1)
    IN
    IF internal_state = "ErrorIOFailed"
    THEN R(internal_state, pended_state, confirmed_bytes, inflight_bytes, "ErrorIOFailed")
    ELSE IF idPhase /\ bytes # ConnectionIdLength
    THEN R("ErrorIOFailed", pended_state, confirmed_bytes, inflight_bytes, "TooFewBytes")
    ELSE IF broken
    THEN R(FailFast, pended1, confirmed_bytes, inflight_bytes, "ErrorIOFailed")
    ELSE IF Protocol = "UDP"
    THEN R(internal_state, pended1, confirmed1, inflight1,
           IF already = MaxTransfer THEN "SuccessfullyCompleted" ELSE "NoError")
    ELSE IF already < MaxTransfer
    THEN IF bytes = 0
         THEN R("ErrorIOFailed", pended1, confirmed1, inflight1, "TooFewBytes")
         ELSE R(internal_state, pended1, confirmed1, inflight1, "NoError")
    ELSE IF already = MaxTransfer
    THEN IF inflight1 = 0
         THEN R(phase.state, phase.pended, confirmed1, inflight1, phase.result)
         ELSE R(internal_state, pended1, confirmed1, inflight1, "NoError")
    ELSE R("ErrorIOFailed", pended1, confirmed1, inflight1, "TooManyBytes")

-----------------------------------------------------------------------------
\* record a change of internal state in the history
Entered(s) == IF s = internal_state THEN trajectory ELSE Append(trajectory, s)

Init ==
    /\ is_listening \in BOOLEAN
    /\ tcp_shutdown \in {"GracefulShutdown", "HardShutdown"}
    /\ internal_state = IF Protocol = "UDP" THEN "MoreIo" ELSE "Initialized"
    /\ pended_state = FALSE
    /\ confirmed_bytes = 0
    /\ inflight_bytes = 0
    /\ outstanding = EmptyBag
    /\ last_result = "NoError"
    /\ trajectory = <<internal_state>>

(* initiate_io returns a task: the state is not failed, get_next_task has *)
(* one, and the pattern has a buffer for it (MaxOutstanding).              *)
CanInitiate ==
    /\ internal_state \notin {FailFast}
    /\ NextTask.task # "NoIo"
    /\ BagCardinality(outstanding) < MaxOutstanding

(* initiate_io returning task t: get_next_task, then notify_next_task.     *)
InitiateTask(t) ==
    LET r == NextTask
    IN /\ outstanding' = BagAdd(outstanding, t)
       /\ inflight_bytes' = NotifiedInflight(t)
       /\ internal_state' = r.state
       /\ pended_state' = PendsOn(r.task)
       /\ trajectory' = Entered(r.state)
       /\ UNCHANGED <<confirmed_bytes, is_listening, tcp_shutdown, last_result>>

InitiateIo == CanInitiate /\ \E t \in TasksFor(NextTask.task) : InitiateTask(t)

(* the byte counts the network can complete task t with, given its code    *)
Transferred(t, code) ==
    IF code # "NO_ERROR" THEN {0}
    ELSE IF t.send THEN {t.len}
    ELSE 0..t.len

(* complete_io: update_error, then completed_task unless the error stands. *)
CompleteIo(t, bytes, code) ==
    LET u == UpdateError(code)
        c == CompletedTask(t, bytes)
    IN /\ internal_state \notin {FailFast}
       /\ outstanding' = BagRemove(outstanding, t)
       /\ IF u.result = "NoError"
          THEN /\ internal_state' = c.state
               /\ pended_state' = c.pended
               /\ confirmed_bytes' = c.confirmed
               /\ inflight_bytes' = c.inflight
               /\ last_result' = c.result
               /\ trajectory' = Entered(c.state)
          ELSE /\ internal_state' = u.state
               /\ last_result' = u.result
               /\ trajectory' = Entered(u.state)
               /\ UNCHANGED <<pended_state, confirmed_bytes, inflight_bytes>>
       /\ UNCHANGED <<is_listening, tcp_shutdown>>

(* the ctsIOStatus complete_io returns for the protocol error it got      *)
IoStatus(result) ==
    CASE result = "NoError" -> "ContinueIo"
      [] result = "SuccessfullyCompleted" -> "CompletedIo"
      [] OTHER -> "FailedIo"

Complete ==
    \E t \in BagToSet(outstanding), code \in ErrorCodes :
        \E bytes \in Transferred(t, code) : CompleteIo(t, bytes, code)

Next == InitiateIo \/ Complete

Fairness == WF_vars(InitiateIo) /\ WF_vars(Complete)

Spec == Init /\ [][Next]_vars /\ Fairness

-----------------------------------------------------------------------------
TypeOK ==
    /\ internal_state \in InternalPatternState \cup {FailFast}
    /\ pended_state \in BOOLEAN
    /\ confirmed_bytes \in Nat /\ inflight_bytes \in Nat
    /\ is_listening \in BOOLEAN
    /\ tcp_shutdown \in {"GracefulShutdown", "HardShutdown"}
    /\ IsABag(outstanding) /\ BagToSet(outstanding) \subseteq Task
    /\ last_result \in ProtocolError
    /\ trajectory \in Seq(InternalPatternState \cup {FailFast})

(* The protocol phase of Connection that an internal state is in: the     *)
(* connection-id states open the connection, MoreIo moves data, the status *)
(* states confirm it, the shutdown and FIN states close it.                 *)
AbstractPhase ==
    CASE internal_state \in {"Initialized", "ServerSendConnectionId", "ClientRecvConnectionId"} -> "Opening"
      [] internal_state = "MoreIo" -> "Transferring"
      [] internal_state \in {"ServerSendCompletion", "ClientRecvCompletion"} -> "Confirming"
      [] internal_state \in {"GracefulShutdown", "HardShutdown", "RequestFIN"} -> "ShuttingDown"
      [] internal_state = "CompletedTransfer" -> "Completed"
      [] internal_state = "ErrorIOFailed" -> "Failed"
      [] OTHER -> "Aborted"

\* the TCP connection end as Connection sees it
Abstract == INSTANCE Connection WITH phase <- AbstractPhase, confirmed <- confirmed_bytes

\* is_completed()
IsCompleted == internal_state \in {"CompletedTransfer", "ErrorIOFailed"}

\* the phases a TCP connection end passes through when it succeeds
ExpectedTrajectory ==
    IF Protocol = "UDP" THEN <<"MoreIo">>
    ELSE IF is_listening
    THEN <<"Initialized", "ServerSendConnectionId", "MoreIo", "ServerSendCompletion",
           "RequestFIN", "CompletedTransfer">>
    ELSE IF tcp_shutdown = "GracefulShutdown"
    THEN <<"Initialized", "ClientRecvConnectionId", "MoreIo", "ClientRecvCompletion",
           "GracefulShutdown", "RequestFIN", "CompletedTransfer">>
    ELSE <<"Initialized", "ClientRecvConnectionId", "MoreIo", "ClientRecvCompletion",
           "HardShutdown", "CompletedTransfer">>

\* the bytes of the tracked tasks still posted
TrackedInflight ==
    MapThenSumSet(LAMBDA t : outstanding[t] * t.len,
                  {t \in BagToSet(outstanding) : t.track})

(* No FAIL_FAST of ctsIOPatternState (completed_task's byte checks and its *)
(* "invalid internal_status" defaults) is reached, whatever order and byte *)
(* counts the completions of the posted IO arrive with.                    *)
NoFailFast == internal_state # FailFast

(* notify_next_task and completed_task keep inflight_bytes equal to the    *)
(* bytes of the tracked IO still posted, and confirmed + inflight never    *)
(* exceeds max_transfer (the invariant get_remaining_transfer asserts).    *)
InflightAccounting ==
    IsCompleted \/
        /\ inflight_bytes = TrackedInflight
        /\ confirmed_bytes + inflight_bytes <= MaxTransfer

(* The pended flag of get_next_task: a connection-id, status, shutdown or  *)
(* FIN task is never posted twice nor alongside any other IO.              *)
OneProtocolTaskAtATime ==
    \A t \in BagToSet(outstanding) :
        t.ptask # "MoreIo" => BagCardinality(outstanding) = 1

(* completed_task reports SuccessfullyCompleted only when exactly          *)
(* max_transfer bytes were confirmed, nothing is in flight, and (TCP) the  *)
(* connection went through every phase of its role in order.              *)
CompletionContract ==
    last_result = "SuccessfullyCompleted" =>
        /\ confirmed_bytes = MaxTransfer
        /\ inflight_bytes = 0
        /\ Protocol = "TCP" => trajectory = ExpectedTrajectory

(* Every TCP connection end eventually completes or fails: no pended flag  *)
(* or phase leaves it waiting for IO that is never posted.                 *)
EventuallyCompleted == <>IsCompleted

=============================================================================
