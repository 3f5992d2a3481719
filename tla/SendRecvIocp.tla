---------------------------- MODULE SendRecvIocp ----------------------------
(***************************************************************************)
(* The IOCP send/recv IO function (ctsSendRecvIocp.cpp) of one TCP socket, *)
(* composed with the connection's IOPatternState. Several threads drive    *)
(* the socket at once: the io_fn call that starts IO, one completion       *)
(* callback per overlapped IO the OS completes (each may run the IO loop   *)
(* again), and one timer callback per rate-limited send. They share the    *)
(* socket's IO count (increment_io / decrement_io); whoever brings it to   *)
(* zero calls complete_state with the error it holds.                      *)
(*                                                                         *)
(* The IO loop holds the socket lock (socket_reference) for its whole run; *)
(* a completion callback takes it only to read the overlapped result, and  *)
(* a timer callback holds it throughout (re-entered by its nested loop).   *)
(* One loop iteration (initiate_io and the post of its task) is one step.  *)
(***************************************************************************)
EXTENDS Integers, Bags, BagsExt

CONSTANTS
    MaxTransfer, BufferSize, ConnectionIdLength, MaxOutstanding, ErrorCodes,
    ThreadCount,      \* threads that can run the IO function and callbacks at once
    RateLimited,      \* sends may carry time_offset_milliseconds > 0
    HandleInlineIocp  \* ctsConfig::OptionType::HANDLE_INLINE_IOCP

\* thread 1 runs io_fn; the others run threadpool callbacks
Threads == 1..ThreadCount

ASSUME RateLimited \in BOOLEAN /\ HandleInlineIocp \in BOOLEAN

VARIABLES
    internal_state, pended_state, confirmed_bytes, inflight_bytes,
    is_listening, tcp_shutdown, outstanding, last_result, trajectory,
    io_count,       \* the ctsSocket IO reference count
    os_queue,       \* bag of the overlapped IOs pended with the OS
    timers,         \* bag of the tasks scheduled through set_timer
    thr,            \* thr[t]: what thread t is running
    lock_owner,     \* the thread holding the socket lock, or 0
    state_calls,    \* the number of complete_state calls
    reported,       \* the error passed to the last complete_state
    refcount_ff     \* a "refcount fell to zero" FAIL_FAST fired

pattern_vars == <<internal_state, pended_state, confirmed_bytes, inflight_bytes,
                  is_listening, tcp_shutdown, outstanding, last_result, trajectory>>
vars == <<pattern_vars, io_count, os_queue, timers, thr, lock_owner,
          state_calls, reported, refcount_ff>>

P == INSTANCE IOPatternState WITH Protocol <- "TCP"

\* the error get_last_error returns once the pattern has failed
PatternError == "PATTERN_ERROR"
Codes == ErrorCodes \cup {PatternError}

\* ctsSendRecvStatus: ioErrorcode, ioDone, ioStarted
Status == [err : Codes, done : BOOLEAN, started : BOOLEAN]
InitialStatus == [err |-> "NO_ERROR", done |-> FALSE, started |-> FALSE]

\* what a thread runs: its kind, where it is, the error it will report (gle),
\* the task it serves and the status of the IO loop it is in
Idle == [kind |-> "idle", pc |-> "idle", gle |-> "NO_ERROR", task |-> "none",
         loop |-> InitialStatus]

-----------------------------------------------------------------------------
(* complete_io as an IO function sees it: the pattern's step and the       *)
(* ctsIOStatus it returns.                                                 *)
CompleteIoStatus(t, bytes, code, st) ==
    /\ P!CompleteIo(t, bytes, code)
    /\ st = P!IoStatus(last_result')

\* the inline completion switch of ctsProcessIOTask
InlineStatus(io) ==
    CASE io = "ContinueIo" -> [err |-> "NO_ERROR", done |-> FALSE, started |-> FALSE]
      [] io = "CompletedIo" -> [err |-> "NO_ERROR", done |-> TRUE, started |-> FALSE]
      [] io = "FailedIo" -> [err |-> PatternError, done |-> TRUE, started |-> FALSE]

(* ctsProcessIOTask(t) leaving status st: a shutdown is done inline and    *)
(* complete_io gets its raw error; a send or recv pends with the OS, fails *)
(* at once, or (HANDLE_INLINE_IOCP) succeeds inline; a failed or inline    *)
(* IO is completed here and its IOCP request cancelled.                    *)
ProcessIoTask(t, st) ==
    IF t.ptask \in {"GracefulShutdown", "HardShutdown"}
    THEN \E code \in ErrorCodes, io \in {"ContinueIo", "CompletedIo", "FailedIo"} :
            /\ CompleteIoStatus(t, 0, code, io)
            /\ st = [err |-> code, done |-> io # "ContinueIo", started |-> FALSE]
            /\ UNCHANGED os_queue
    ELSE \/ /\ os_queue' = BagAdd(os_queue, t)
            /\ st = [err |-> "NO_ERROR", done |-> FALSE, started |-> TRUE]
            /\ UNCHANGED pattern_vars
         \/ \E code \in ErrorCodes \ {"NO_ERROR"}, io \in {"ContinueIo", "CompletedIo", "FailedIo"} :
            /\ CompleteIoStatus(t, 0, code, io)
            /\ st = InlineStatus(io)
            /\ UNCHANGED os_queue
         \/ /\ HandleInlineIocp
            /\ \E bytes \in P!Transferred(t, "NO_ERROR"), io \in {"ContinueIo", "CompletedIo", "FailedIo"} :
                 /\ CompleteIoStatus(t, bytes, "NO_ERROR", io)
                 /\ st = InlineStatus(io)
            /\ UNCHANGED os_queue

\* a send the rate limit policy delays: initiate_io set time_offset_milliseconds
Delayed(t) == RateLimited /\ t.ptask = "MoreIo" /\ t.send

\* decrement_io and, at zero, complete_state(err)
DecrementIo(err) ==
    /\ io_count' = io_count - 1
    /\ IF io_count - 1 = 0
       THEN state_calls' = state_calls + 1 /\ reported' = err
       ELSE UNCHANGED <<state_calls, reported>>

\* a decrement the code asserts cannot reach zero (FAIL_FAST if it does)
DecrementHeld ==
    /\ io_count' = io_count - 1
    /\ refcount_ff' = (io_count - 1 = 0)

\* mutant: the unstarted-IO test dropped: every task's count is given back
GiveBackAlways(st) == DecrementHeld

\* "if no IO was started, decrement the IO counter" (the IO is not pended)
GiveBack(st) == IF st.started THEN UNCHANGED <<io_count, refcount_ff>> ELSE DecrementHeld

\* mutant: the timer callback forgets its increment_io
TimerIoCountNoIncrement(st) ==
    /\ io_count' = IF st.started THEN io_count ELSE io_count - 1
    /\ refcount_ff' = (~st.started /\ io_count - 1 = 0)

\* the timer callback's increment_io, and its decrement if the IO did not start
TimerIoCount(st) ==
    /\ io_count' = IF st.started THEN io_count + 1 ELSE io_count
    /\ refcount_ff' = (~st.started /\ io_count = 0)

\* mutant: CompletedIo keeps the completion's own error
CallbackGleKeepError(io, code) ==
    CASE io = "ContinueIo" -> code
      [] io = "CompletedIo" -> code
      [] io = "FailedIo" -> PatternError

\* the completion callback's switch on complete_io: the error it holds
CallbackGle(io, code) ==
    CASE io = "ContinueIo" -> code
      [] io = "CompletedIo" -> "NO_ERROR"
      [] io = "FailedIo" -> PatternError

-----------------------------------------------------------------------------
Init ==
    /\ P!Init
    /\ io_count = 0
    /\ os_queue = EmptyBag
    /\ timers = EmptyBag
    /\ thr = [t \in Threads |->
                IF t = 1 THEN [Idle EXCEPT !.kind = "io", !.pc = "loop_start"]
                ELSE Idle]
    /\ lock_owner = 0
    /\ state_calls = 0
    /\ reported = "NO_ERROR"
    /\ refcount_ff = FALSE

\* thread self moves on to record r
Set(self, r) == thr' = [thr EXCEPT ![self] = r]

\* mutant: the loop takes no count of its own
LoopStartNoIncrement(self) ==
    /\ thr[self].pc = "loop_start"
    /\ lock_owner \in {0, self}
    /\ lock_owner' = self
    /\ Set(self, [thr[self] EXCEPT !.pc = "loop", !.loop = InitialStatus])
    /\ UNCHANGED <<pattern_vars, io_count, os_queue, timers, state_calls, reported, refcount_ff>>

(* ctsSendRecvIocp entry: take the socket lock (a timer callback already  *)
(* holds it), increment_io for the loop itself.                            *)
LoopStart(self) ==
    /\ thr[self].pc = "loop_start"
    /\ lock_owner \in {0, self}
    /\ lock_owner' = self
    /\ io_count' = io_count + 1
    /\ Set(self, [thr[self] EXCEPT !.pc = "loop", !.loop = InitialStatus])
    /\ UNCHANGED <<pattern_vars, os_queue, timers, state_calls, reported, refcount_ff>>

(* The loop asks initiate_io: None ends the loop; a task gets its own     *)
(* increment_io.                                                           *)
LoopInitiate(self) ==
    /\ thr[self].pc = "loop"
    /\ \/ /\ ~P!CanInitiate
          /\ Set(self, [thr[self] EXCEPT !.pc = "loop_end"])
          /\ UNCHANGED <<pattern_vars, io_count>>
       \/ /\ P!CanInitiate
          /\ \E t \in P!TasksFor(P!NextTask.task) :
                /\ P!InitiateTask(t)
                /\ Set(self, [thr[self] EXCEPT !.pc = "process", !.task = t])
          /\ io_count' = io_count + 1
    /\ UNCHANGED <<os_queue, timers, lock_owner, state_calls, reported, refcount_ff>>

(* The loop runs the task: a delayed send goes to set_timer and ends the  *)
(* loop; any other goes through ctsProcessIOTask, and an IO not started   *)
(* gives its count back. The loop goes on while the status is not done.    *)
LoopProcess(self) ==
    LET t == thr[self].task
    IN /\ thr[self].pc = "process"
       /\ IF Delayed(t)
          THEN /\ timers' = BagAdd(timers, t)
               /\ Set(self, [thr[self] EXCEPT !.pc = "loop_end",
                             !.loop = [@ EXCEPT !.done = TRUE, !.started = TRUE]])
               /\ UNCHANGED <<pattern_vars, os_queue, io_count, refcount_ff>>
          ELSE \E st \in Status :
                 /\ ProcessIoTask(t, st)
                 /\ GiveBack(st)
                 /\ Set(self, [thr[self] EXCEPT !.pc = IF st.done THEN "loop_end" ELSE "loop",
                               !.loop = st])
                 /\ UNCHANGED timers
       /\ UNCHANGED <<lock_owner, state_calls, reported>>

\* mutant: the socket lock is kept after the loop
LoopEndKeepLock(self) ==
    /\ thr[self].pc = "loop_end"
    /\ DecrementIo(thr[self].loop.err)
    /\ UNCHANGED lock_owner
    /\ Set(self, IF thr[self].kind = "io" THEN Idle
                 ELSE [thr[self] EXCEPT !.pc = "decrement"])
    /\ UNCHANGED <<pattern_vars, os_queue, timers, refcount_ff>>

\* mutant: a loop whose status is done completes the state whatever the count
LoopEndCompleteOnDone(self) ==
    /\ thr[self].pc = "loop_end"
    /\ io_count' = io_count - 1
    /\ IF io_count - 1 = 0 \/ thr[self].loop.done
       THEN state_calls' = state_calls + 1 /\ reported' = thr[self].loop.err
       ELSE UNCHANGED <<state_calls, reported>>
    /\ lock_owner' = IF thr[self].kind = "timer" THEN self ELSE 0
    /\ Set(self, IF thr[self].kind = "io" THEN Idle
                 ELSE [thr[self] EXCEPT !.pc = "decrement"])
    /\ UNCHANGED <<pattern_vars, os_queue, timers, refcount_ff>>

(* The loop's closing decrement_io: at zero, complete_state(ioErrorcode). *)
(* io_fn returns; a callback goes on to its own decrement.                 *)
LoopEnd(self) ==
    /\ thr[self].pc = "loop_end"
    /\ DecrementIo(thr[self].loop.err)
    /\ lock_owner' = IF thr[self].kind = "timer" THEN self ELSE 0
    /\ Set(self, IF thr[self].kind = "io" THEN Idle
                 ELSE [thr[self] EXCEPT !.pc = "decrement"])
    /\ UNCHANGED <<pattern_vars, os_queue, timers, refcount_ff>>

(* ctsIoCompletionCallback on an idle thread for an IO the OS completed:  *)
(* read its result under the socket lock, then complete_io; ContinueIo    *)
(* runs the IO loop again and keeps the completion's own error in gle.     *)
CallbackComplete(self) ==
    /\ thr[self].kind = "idle"
    /\ lock_owner = 0
    /\ \E t \in BagToSet(os_queue), code \in ErrorCodes, io \in {"ContinueIo", "CompletedIo", "FailedIo"} :
         \E bytes \in P!Transferred(t, code) :
           /\ os_queue' = BagRemove(os_queue, t)
           /\ CompleteIoStatus(t, bytes, code, io)
           /\ Set(self, [Idle EXCEPT !.kind = "callback", !.task = t,
                         !.pc = IF io = "ContinueIo" THEN "loop_start" ELSE "decrement",
                         !.gle = CallbackGle(io, code)])
    /\ UNCHANGED <<io_count, timers, lock_owner, state_calls, reported, refcount_ff>>

(* The callback's last decrement_io: at zero, complete_state(gle).         *)
CallbackDecrement(self) ==
    /\ thr[self].pc = "decrement"
    /\ DecrementIo(thr[self].gle)
    /\ lock_owner' = IF thr[self].kind = "timer" THEN 0 ELSE lock_owner
    /\ Set(self, Idle)
    /\ UNCHANGED <<pattern_vars, os_queue, timers, refcount_ff>>

(* ctsProcessIOTaskCallback on an idle thread when a send's timer fires:  *)
(* take the socket lock for the whole callback, increment_io, run the     *)
(* task, give the count back if it did not start, and run the IO loop if  *)
(* the status is not done.                                                 *)
TimerFire(self) ==
    /\ thr[self].kind = "idle"
    /\ lock_owner = 0
    /\ \E t \in BagToSet(timers), st \in Status :
         /\ timers' = BagRemove(timers, t)
         /\ ProcessIoTask(t, st)
         /\ TimerIoCount(st)
         /\ Set(self, [Idle EXCEPT !.kind = "timer", !.task = t, !.gle = st.err,
                       !.pc = IF st.done THEN "decrement" ELSE "loop_start"])
    /\ lock_owner' = self
    /\ UNCHANGED <<state_calls, reported>>

ThreadStep(self) ==
    \/ LoopStart(self) \/ LoopInitiate(self) \/ LoopProcess(self) \/ LoopEnd(self)
    \/ CallbackComplete(self) \/ CallbackDecrement(self) \/ TimerFire(self)

Next == \E self \in Threads : ThreadStep(self)

(* Every thread runs on; the OS completes every pended IO and the timer   *)
(* fires for every scheduled send (both on some idle threadpool thread).   *)
Fairness ==
    /\ \A self \in Threads : WF_vars(ThreadStep(self))
    /\ WF_vars(\E self \in Threads : CallbackComplete(self))
    /\ WF_vars(\E self \in Threads : TimerFire(self))

Spec == Init /\ [][Next]_vars /\ Fairness

-----------------------------------------------------------------------------
TypeOK ==
    /\ P!TypeOK
    /\ io_count \in Nat
    /\ IsABag(os_queue) /\ IsABag(timers)
    /\ lock_owner \in Threads \cup {0}
    /\ state_calls \in Nat /\ reported \in Codes
    /\ refcount_ff \in BOOLEAN

\* complete_state has been called
StateCompleted == state_calls > 0

(* Neither "refcount fell to zero" FAIL_FAST fires: the loop and the timer *)
(* callback always hold a count when they give back an unstarted IO's.     *)
NoRefcountFailFast == ~refcount_ff

(* complete_state is called at most once for the IO phase, whichever of   *)
(* the loop, the callbacks and the timers drops the last IO count.         *)
CompleteStateOnce == state_calls <= 1

(* complete_state is called only after every IO the pattern started has   *)
(* completed: none is pended with the OS, waiting on a timer, or posted.   *)
CompleteStateAfterLastIo ==
    StateCompleted =>
        /\ os_queue = EmptyBag /\ timers = EmptyBag /\ outstanding = EmptyBag

(* A connection whose pattern completed its transfer is reported to      *)
(* complete_state with NO_ERROR.                                           *)
SuccessReported ==
    StateCompleted /\ internal_state = "CompletedTransfer" => reported = "NO_ERROR"

(* A connection whose pattern failed is reported to complete_state with   *)
(* an error (spec 7: error codes travel upward through complete_state).    *)
FailureReported ==
    StateCompleted /\ internal_state = "ErrorIOFailed" => reported # "NO_ERROR"

(* The IO phase always ends: complete_state is eventually called.         *)
EventuallyStateCompleted == <>StateCompleted


(* The IO pattern driven by this IO function keeps its own contract: no    *)
(* FAIL_FAST of ctsIOPatternState, inflight_bytes equal to the tracked IO   *)
(* still posted, one protocol task at a time, and SuccessfullyCompleted     *)
(* only after exactly max_transfer bytes and every phase of the role, as    *)
(* IOPatternState states them, whatever order the threads run in.          *)
PatternNoFailFast == P!NoFailFast

PatternInflightAccounting == P!InflightAccounting

PatternOneProtocolTaskAtATime == P!OneProtocolTaskAtATime

PatternCompletionContract == P!CompletionContract

====
