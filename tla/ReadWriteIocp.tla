---------------------------- MODULE ReadWriteIocp ----------------------------
(***************************************************************************)
(* The ReadFile/WriteFile IO function (ctsReadWriteIocp.cpp) of one TCP    *)
(* socket, composed with the connection's IOPatternState. io_fn runs the   *)
(* IO loop; each overlapped IO the OS completes runs a completion callback *)
(* on a threadpool thread, which may run the loop again. The threads share *)
(* the socket's IO count. Unlike ctsSendRecvIocp the loop takes no count   *)
(* of its own: it keeps the value of its last increment_io or decrement_io *)
(* (io_count, -1 if it took none) and calls complete_state only if that    *)
(* snapshot is zero when it ends; a callback calls it when its own         *)
(* decrement_io reaches zero.                                              *)
(*                                                                         *)
(* The loop holds the socket lock (socket_reference) for its whole run; a  *)
(* callback takes it only to read the overlapped result.                   *)
(***************************************************************************)
EXTENDS Integers, Bags, BagsExt

CONSTANTS
    MaxTransfer, BufferSize, ConnectionIdLength, MaxOutstanding, ErrorCodes,
    ThreadCount       \* threads that can run the IO function and callbacks at once

\* thread 1 runs io_fn; the others run threadpool callbacks
Threads == 1..ThreadCount

VARIABLES
    internal_state, pended_state, confirmed_bytes, inflight_bytes,
    is_listening, tcp_shutdown, outstanding, last_result, trajectory,
    io_count,       \* the ctsSocket IO reference count
    os_queue,       \* bag of the overlapped IOs pended with the OS
    socket_closed,  \* close_socket has run: the socket is INVALID_SOCKET
    thr,            \* thr[t]: what thread t is running
    lock_owner,     \* the thread holding the socket lock, or 0
    state_calls,    \* the number of complete_state calls
    reported        \* the error passed to the last complete_state

pattern_vars == <<internal_state, pended_state, confirmed_bytes, inflight_bytes,
                  is_listening, tcp_shutdown, outstanding, last_result, trajectory>>
vars == <<pattern_vars, io_count, os_queue, socket_closed, thr, lock_owner,
          state_calls, reported>>

P == INSTANCE IOPatternState WITH Protocol <- "TCP"

\* the error get_last_error returns once the pattern has failed
PatternError == "PATTERN_ERROR"
Aborted == "WSAECONNABORTED"
Codes == ErrorCodes \cup {PatternError, Aborted}

IoStatuses == {"ContinueIo", "CompletedIo", "FailedIo"}

\* the loop's locals: io_count (its snapshot), io_error and io_done
InitialLoop == [count |-> -1, err |-> "NO_ERROR", done |-> FALSE]

Idle == [kind |-> "idle", pc |-> "idle", task |-> "none", code |-> "NO_ERROR",
         bytes |-> 0, status |-> "NO_ERROR", loop |-> InitialLoop]

-----------------------------------------------------------------------------
(* complete_io as an IO function sees it: the pattern's step and the       *)
(* ctsIOStatus it returns.                                                 *)
CompleteIoStatus(t, bytes, code, st) ==
    /\ P!CompleteIo(t, bytes, code)
    /\ st = P!IoStatus(last_result')

(* The switch after a post that failed at once: ContinueIo clears the      *)
(* error and goes on, CompletedIo ends the loop, FailedIo ends it with     *)
(* get_last_error.                                                          *)
FailedPostLoop(loop, st) ==
    CASE st = "ContinueIo" -> [loop EXCEPT !.err = "NO_ERROR", !.done = FALSE]
      [] st = "CompletedIo" -> [loop EXCEPT !.err = "NO_ERROR", !.done = TRUE]
      [] st = "FailedIo" -> [loop EXCEPT !.err = PatternError, !.done = TRUE]

\* mutant: the callback reports the completion's own error whatever complete_io says
CallbackStatusKeepError(st, code) == code

(* The completion callback's switch: readwrite_status is NO_ERROR unless   *)
(* complete_io failed the pattern, then get_last_error.                    *)
CallbackStatus(st, code) == IF st = "FailedIo" THEN PatternError ELSE "NO_ERROR"

\* mutant: the loop completes the state whenever it took no count of its own
LoopCompletesNoCount(count) == count <= 0

\* the loop's closing test "if (0 == io_count)"
LoopCompletes(count) == count = 0

\* mutant: increment_io returns the count from before the increment
IncrementedStale(c) == c

\* increment_io: the new count, which the loop keeps as its snapshot
Incremented(c) == c + 1

\* mutant: decrement_io's caller tests the count before the decrement
LastIoOffByOne(c) == c = 0

\* "if (0 == ref_count)" after a callback's decrement_io from c
LastIo(c) == c - 1 = 0

\* complete_state(err)
CompleteState(err) == state_calls' = state_calls + 1 /\ reported' = err

-----------------------------------------------------------------------------
Init ==
    /\ P!Init
    /\ io_count = 0
    /\ os_queue = EmptyBag
    /\ socket_closed = FALSE
    /\ thr = [t \in Threads |->
                IF t = 1 THEN [Idle EXCEPT !.kind = "io", !.pc = "loop_start"] ELSE Idle]
    /\ lock_owner = 0
    /\ state_calls = 0
    /\ reported = "NO_ERROR"

\* thread self moves on to record r
Set(self, r) == thr' = [thr EXCEPT ![self] = r]

(* ctsReadWriteIocp entry: take the socket lock; an INVALID_SOCKET skips   *)
(* the loop with WSAECONNABORTED.                                           *)
LoopStart(self) ==
    /\ thr[self].pc = "loop_start"
    /\ lock_owner = 0
    /\ lock_owner' = self
    /\ Set(self, [thr[self] EXCEPT !.pc = IF socket_closed THEN "loop_end" ELSE "loop",
                  !.loop = [InitialLoop EXCEPT !.err = IF socket_closed THEN Aborted
                                                        ELSE "NO_ERROR"]])
    /\ UNCHANGED <<pattern_vars, io_count, os_queue, socket_closed, state_calls, reported>>

(* The loop runs while not done and without error; initiate_io returning   *)
(* None sets io_done.                                                       *)
LoopInitiate(self) ==
    LET loop == thr[self].loop
    IN /\ thr[self].pc = "loop"
       /\ \/ /\ loop.done \/ loop.err # "NO_ERROR"
             /\ Set(self, [thr[self] EXCEPT !.pc = "loop_end"])
             /\ UNCHANGED pattern_vars
          \/ /\ ~loop.done /\ loop.err = "NO_ERROR"
             /\ ~P!CanInitiate
             /\ Set(self, [thr[self] EXCEPT !.pc = "loop_end", !.loop.done = TRUE])
             /\ UNCHANGED pattern_vars
          \/ /\ ~loop.done /\ loop.err = "NO_ERROR"
             /\ P!CanInitiate
             /\ \E t \in P!TasksFor(P!NextTask.task) :
                   /\ P!InitiateTask(t)
                   /\ Set(self, [thr[self] EXCEPT !.pc = "process", !.task = t])
       /\ UNCHANGED <<io_count, os_queue, socket_closed, lock_owner, state_calls, reported>>

(* The loop runs the task. A graceful shutdown calls shutdown(SD_SEND), a  *)
(* hard one close_socket, and complete_io gets their error. A send or recv *)
(* takes increment_io and posts WriteFile or ReadFile: it pends, or fails  *)
(* at once, when the IOCP request is cancelled, decrement_io taken, and    *)
(* complete_io called with the error.                                       *)
LoopProcess(self) ==
    LET t == thr[self].task
        loop == thr[self].loop
    IN /\ thr[self].pc = "process"
       /\ IF t.ptask \in {"GracefulShutdown", "HardShutdown"}
          THEN \E code \in ErrorCodes, st \in IoStatuses :
                 /\ CompleteIoStatus(t, 0, code, st)
                 /\ socket_closed' = (socket_closed \/ t.ptask = "HardShutdown")
                 /\ Set(self, [thr[self] EXCEPT !.pc = "loop",
                               !.loop = [loop EXCEPT !.err = code, !.done = st # "ContinueIo"]])
                 /\ UNCHANGED <<io_count, os_queue>>
          ELSE \/ /\ os_queue' = BagAdd(os_queue, t)
                  /\ io_count' = Incremented(io_count)
                  /\ Set(self, [thr[self] EXCEPT !.pc = "loop", !.loop.count = io_count'])
                  /\ UNCHANGED <<pattern_vars, socket_closed>>
               \/ \E code \in ErrorCodes \ {"NO_ERROR"}, st \in IoStatuses :
                  /\ CompleteIoStatus(t, 0, code, st)
                  /\ Set(self, [thr[self] EXCEPT !.pc = "loop",
                                !.loop = [FailedPostLoop(loop, st) EXCEPT !.count = io_count]])
                  /\ UNCHANGED <<io_count, os_queue, socket_closed>>
       /\ UNCHANGED <<lock_owner, state_calls, reported>>

(* The loop ends: complete_state(io_error) if its io_count snapshot is     *)
(* zero; the lock is released. io_fn returns; a callback goes on to its    *)
(* own decrement.                                                           *)
LoopEnd(self) ==
    /\ thr[self].pc = "loop_end"
    /\ IF LoopCompletes(thr[self].loop.count)
       THEN CompleteState(thr[self].loop.err)
       ELSE UNCHANGED <<state_calls, reported>>
    /\ lock_owner' = 0
    /\ Set(self, IF thr[self].kind = "io" THEN Idle ELSE [thr[self] EXCEPT !.pc = "decrement"])
    /\ UNCHANGED <<pattern_vars, io_count, os_queue, socket_closed>>

(* ctsReadWriteIocpIoCompletionCallback on an idle thread for an IO the OS *)
(* completed: under the socket lock, WSAGetOverlappedResult, or            *)
(* WSAECONNABORTED if the socket was closed.                               *)
CallbackRead(self) ==
    /\ thr[self].kind = "idle"
    /\ lock_owner = 0
    /\ \E t \in BagToSet(os_queue), code \in ErrorCodes :
         \E bytes \in P!Transferred(t, code) :
           /\ os_queue' = BagRemove(os_queue, t)
           /\ Set(self, [Idle EXCEPT !.kind = "callback", !.pc = "complete", !.task = t,
                         !.code = IF socket_closed THEN Aborted ELSE code,
                         !.bytes = IF socket_closed THEN 0 ELSE bytes])
    /\ UNCHANGED <<pattern_vars, io_count, socket_closed, lock_owner, state_calls, reported>>

(* The callback's complete_io, outside the lock; ContinueIo runs the loop. *)
CallbackComplete(self) ==
    LET me == thr[self]
    IN /\ me.pc = "complete"
       /\ \E st \in IoStatuses :
            /\ CompleteIoStatus(me.task, me.bytes, me.code, st)
            /\ Set(self, [me EXCEPT !.pc = IF st = "ContinueIo" THEN "loop_start" ELSE "decrement",
                          !.status = CallbackStatus(st, me.code)])
       /\ UNCHANGED <<io_count, os_queue, socket_closed, lock_owner, state_calls, reported>>

(* The callback's decrement_io: at zero, complete_state(readwrite_status). *)
CallbackDecrement(self) ==
    /\ thr[self].pc = "decrement"
    /\ io_count' = io_count - 1
    /\ IF LastIo(io_count)
       THEN CompleteState(thr[self].status)
       ELSE UNCHANGED <<state_calls, reported>>
    /\ Set(self, Idle)
    /\ UNCHANGED <<pattern_vars, os_queue, socket_closed, lock_owner>>

ThreadStep(self) ==
    \/ LoopStart(self) \/ LoopInitiate(self) \/ LoopProcess(self) \/ LoopEnd(self)
    \/ CallbackRead(self) \/ CallbackComplete(self) \/ CallbackDecrement(self)

Next == \E self \in Threads : ThreadStep(self)

(* Every thread runs on, and the OS completes every pended IO on some idle *)
(* threadpool thread.                                                       *)
Fairness ==
    /\ \A self \in Threads : WF_vars(ThreadStep(self))
    /\ WF_vars(\E self \in Threads : CallbackRead(self))

Spec == Init /\ [][Next]_vars /\ Fairness


-----------------------------------------------------------------------------
TypeOK ==
    /\ P!TypeOK
    /\ io_count \in Nat
    /\ IsABag(os_queue)
    /\ socket_closed \in BOOLEAN
    /\ lock_owner \in Threads \cup {0}
    /\ state_calls \in Nat /\ reported \in Codes

\* complete_state has been called
StateCompleted == state_calls > 0

(* complete_state is called at most once, although the loop decides on a   *)
(* snapshot of io_count taken before its last posts could complete, while  *)
(* the callbacks decide on their own decrement_io.                          *)
CompleteStateOnce == state_calls <= 1

(* complete_state is called only after every IO the pattern started has    *)
(* completed: none is pended with the OS or posted.                        *)
CompleteStateAfterLastIo ==
    StateCompleted => os_queue = EmptyBag /\ outstanding = EmptyBag

(* A connection whose pattern completed its transfer is reported to       *)
(* complete_state with NO_ERROR, whichever thread reports it.              *)
SuccessReported ==
    StateCompleted /\ internal_state = "CompletedTransfer" => reported = "NO_ERROR"

(* A connection whose pattern failed is reported to complete_state with    *)
(* an error (spec 7: error codes travel upward through complete_state).     *)
FailureReported ==
    StateCompleted /\ internal_state = "ErrorIOFailed" => reported # "NO_ERROR"

(* The IO phase always ends: complete_state is eventually called.          *)
EventuallyStateCompleted == <>StateCompleted

=============================================================================
