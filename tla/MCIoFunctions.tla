--------------------------- MODULE MCIoFunctions ---------------------------
(* One TCP socket in its IO phase, driven by the IO function the settings  *)
(* select: ctsSendRecvIocp (SendRecvIocp) or ctsReadWriteIocp              *)
(* (ReadWriteIocp). ctsConfig fixes g_configSettings->IoFunction before    *)
(* any socket exists, so the choice is made in Init; both drive the same   *)
(* IOPatternState, and the variables only one of them has (the timers and  *)
(* the refcount FAIL_FAST of the first, socket_closed of the second) keep  *)
(* their initial value under the other.                                    *)
EXTENDS Naturals, Bags

CONSTANTS
    MaxTransfer, BufferSize, ConnectionIdLength, MaxOutstanding, ErrorCodes,
    ThreadCount, RateLimited, HandleInlineIocp

VARIABLES
    io_function,
    internal_state, pended_state, confirmed_bytes, inflight_bytes,
    is_listening, tcp_shutdown, outstanding, last_result, trajectory,
    io_count, os_queue, timers, socket_closed, thr, lock_owner,
    state_calls, reported, refcount_ff

SR == INSTANCE SendRecvIocp
RW == INSTANCE ReadWriteIocp

vars == <<io_function, SR!vars, socket_closed>>

MCErrorCodes == {"NO_ERROR", "WSAECONNRESET"}

IoFunctions == {"ctsSendRecvIocp", "ctsReadWriteIocp"}

SendRecv == io_function = "ctsSendRecvIocp"

Init ==
    /\ io_function \in IoFunctions
    /\ IF SendRecv
       THEN SR!Init /\ socket_closed = FALSE
       ELSE RW!Init /\ timers = EmptyBag /\ refcount_ff = FALSE

\* a step of thread t under the selected IO function
SendRecvStep(t) == SendRecv /\ SR!ThreadStep(t) /\ UNCHANGED <<io_function, socket_closed>>

ReadWriteStep(t) == ~SendRecv /\ RW!ThreadStep(t) /\ UNCHANGED <<io_function, timers, refcount_ff>>

Next == \E t \in SR!Threads : SendRecvStep(t) \/ ReadWriteStep(t)

(* The fairness of the selected IO function: every thread runs on, the OS  *)
(* completes every pended IO and the timer fires for every scheduled send. *)
Fairness ==
    /\ \A t \in SR!Threads : WF_vars(SendRecvStep(t)) /\ WF_vars(ReadWriteStep(t))
    /\ WF_vars(\E t \in SR!Threads :
                  SendRecv /\ SR!CallbackComplete(t) /\ UNCHANGED <<io_function, socket_closed>>)
    /\ WF_vars(\E t \in SR!Threads :
                  SendRecv /\ SR!TimerFire(t) /\ UNCHANGED <<io_function, socket_closed>>)
    /\ WF_vars(\E t \in SR!Threads :
                  ~SendRecv /\ RW!CallbackRead(t) /\ UNCHANGED <<io_function, timers, refcount_ff>>)

Spec == Init /\ [][Next]_vars /\ Fairness

-----------------------------------------------------------------------------
\* the selected IO function keeps its types
TypeOK ==
    /\ io_function \in IoFunctions
    /\ IF SendRecv THEN SR!TypeOK ELSE RW!TypeOK

(* Neither "refcount fell to zero" FAIL_FAST of ctsSendRecvIocp fires: the *)
(* loop and the timer callback always hold a count when they give back an *)
(* unstarted IO's.                                                          *)
NoRefcountFailFast == SR!NoRefcountFailFast

(* complete_state is called at most once for the IO phase, whichever of    *)
(* the loop, the callbacks and the timers drops the last IO count, under   *)
(* either IO function.                                                      *)
CompleteStateOnce == IF SendRecv THEN SR!CompleteStateOnce ELSE RW!CompleteStateOnce

(* complete_state is called only after every IO the pattern started has    *)
(* completed: none is pended with the OS, waiting on a timer, or posted.   *)
CompleteStateAfterLastIo ==
    IF SendRecv THEN SR!CompleteStateAfterLastIo ELSE RW!CompleteStateAfterLastIo

(* A connection whose pattern completed its transfer is reported to        *)
(* complete_state with NO_ERROR, whichever thread reports it.              *)
SuccessReported == IF SendRecv THEN SR!SuccessReported ELSE RW!SuccessReported

(* The IO phase always ends: complete_state is eventually called.          *)
EventuallyStateCompleted == <>(state_calls > 0)

(* The IO pattern driven by either IO function keeps its own contract: no  *)
(* FAIL_FAST of ctsIOPatternState, inflight_bytes equal to the tracked IO   *)
(* still posted, one protocol task at a time, and SuccessfullyCompleted     *)
(* only after exactly max_transfer bytes and every phase of the role.       *)
PatternNoFailFast == SR!PatternNoFailFast

PatternInflightAccounting == SR!PatternInflightAccounting

PatternOneProtocolTaskAtATime == SR!PatternOneProtocolTaskAtATime

PatternCompletionContract == SR!PatternCompletionContract

(* The TCP connection end implements Connection under either IO function:  *)
(* its internal states pass through the protocol phases in order, confirmed *)
(* bytes only grow and reach MaxTransfer before the status word, Completed  *)
(* and Failed are final, and the connection always ends, whichever threads  *)
(* complete its IO and in whatever order.                                   *)
ConnectionRefinement == SR!P!Abstract!Spec

=============================================================================
