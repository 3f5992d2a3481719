---------------------------- MODULE SocketBroker ----------------------------
(***************************************************************************)
(* The population controller ctsSocketBroker (ctsSocketBroker.cpp): its    *)
(* counters, Start, the 333 ms TimerCallback that reaps Closed sockets and *)
(* tops the pool up, and the InitiatingIo / Closing notifications, composed *)
(* with the lifecycle of every ctsSocketState it creates (ctsSocketState   *)
(* is not in src: spec 4.5) and with main's Wait and teardown.             *)
(* Every broker method runs under m_lock, so each is one atomic step; a    *)
(* TimerCallback whose try_lock fails returns at once and is a stutter.    *)
(***************************************************************************)
EXTENDS Integers, FiniteSets, FiniteSetsExt

CONSTANTS
    Iterations,              \* client: connections per slot
    ConnectionLimit,         \* client: concurrent connections
    ConnectionThrottleLimit, \* client: concurrent connect attempts
    ServerExitLimit,         \* server: connections to accept before exiting
    AcceptLimit              \* server: concurrent pended accepts

ASSUME \A c \in {Iterations, ConnectionLimit, ConnectionThrottleLimit,
                 ServerExitLimit, AcceptLimit} : c \in Nat

VARIABLE
    accept_function    \* g_configSettings->AcceptFunction is set: a server (fixed for the process)

AcceptFunction == accept_function

\* the ctor's m_totalConnectionsRemaining (Iterations is never MAXULONGLONG here)
InitialTotal ==
    IF AcceptFunction THEN ServerExitLimit ELSE Iterations * ConnectionLimit

\* the ctor's m_pendingLimit, capped by the total
PendingLimit ==
    Min({IF AcceptFunction THEN AcceptLimit ELSE ConnectionLimit, InitialTotal})

\* the sockets the broker of either role can ever create, numbered in creation order
Sockets == 1..Max({ServerExitLimit, Iterations * ConnectionLimit})

\* the sockets this run's broker creates
RunSockets == 1..InitialTotal

\* ctsSocketState::InternalState, plus "None" (not yet created) and
\* "Reaped" (erased from m_socketPool by the timer)
SocketPhase == {"None", "Creating", "Connecting", "InitiatingIo", "Closing",
                "Closed", "Reaped"}

VARIABLES
    total_remaining,   \* m_totalConnectionsRemaining
    pending_sockets,   \* m_pendingSockets
    active_sockets,    \* m_activeSockets
    done,              \* m_doneEvent is set
    fail_fast,         \* a FAIL_FAST_IF_MSG of the broker fired
    started,           \* Start has run and the timer is scheduled
    interrupted,       \* the CtrlCHandle event is set
    exited,            \* Wait returned and main tore the broker down
    phase              \* phase[s]: the state of socket s

vars == <<accept_function, total_remaining, pending_sockets, active_sockets, done, fail_fast,
          started, interrupted, exited, phase>>

-----------------------------------------------------------------------------
\* the next socket to be created: make_shared<ctsSocketState> then Start()
NextSocket == InitialTotal - total_remaining + 1

\* create n sockets in a row, as the loops of Start and TimerCallback do:
\* each is started, ++m_pendingSockets, --m_totalConnectionsRemaining
CreateSockets(pool, n) ==
    /\ phase' = [s \in Sockets |->
                   IF s >= NextSocket /\ s < NextSocket + n THEN "Creating" ELSE pool[s]]
    /\ pending_sockets' = pending_sockets + n
    /\ total_remaining' = total_remaining - n

(* The number of iterations of Start's while loop: it runs while sockets   *)
(* remain and fewer than pending_limit are pending, and a client breaks at *)
(* the throttle limit.                                                     *)
StartCreateCount ==
    Max({0, Min({total_remaining, PendingLimit - pending_sockets,
                 IF AcceptFunction THEN PendingLimit - pending_sockets
                 ELSE ConnectionThrottleLimit - pending_sockets})})

\* mutant: the client's loop without its ConnectionLimit break
TimerCreateCountNoLimit ==
    Max({0, Min({total_remaining, PendingLimit - pending_sockets,
                 IF AcceptFunction THEN total_remaining
                 ELSE ConnectionThrottleLimit - pending_sockets})})

\* mutant: the catch-up loop without its total > 0 condition
TimerCreateCountNoTotal ==
    Max({0, Min({PendingLimit - pending_sockets,
                 IF AcceptFunction THEN PendingLimit - pending_sockets
                 ELSE Min({ConnectionLimit - (pending_sockets + active_sockets),
                           ConnectionThrottleLimit - pending_sockets})})})

(* The number of iterations of TimerCallback's catch-up loop: as Start's,  *)
(* and a client also breaks once pending + active reaches ConnectionLimit. *)
TimerCreateCount ==
    Max({0, Min({total_remaining, PendingLimit - pending_sockets,
                 IF AcceptFunction THEN total_remaining
                 ELSE Min({ConnectionLimit - (pending_sockets + active_sockets),
                           ConnectionThrottleLimit - pending_sockets})})})

\* mutant: the shutdown test inverted (WAIT_OBJECT_0 == WaitForSingleObject)
MayCreateInverted == done

\* TimerCallback's "don't spin up more if the user asked to shutdown" test:
\* it waits on m_doneEvent, not on the CtrlCHandle
MayCreate == ~done

\* mutant: the done test forgets the active sockets
DrainedNoActive == total_remaining = 0 /\ pending_sockets = 0

\* TimerCallback's test for setting m_doneEvent
Drained == total_remaining = 0 /\ pending_sockets = 0 /\ active_sockets = 0

\* mutant: InitiatingIo forgets --m_pendingSockets
InitiatingIoCountersNoDecrement ==
    [pending |-> pending_sockets, active |-> active_sockets + 1,
     fail |-> pending_sockets = 0]

\* InitiatingIo: the counters after it, and whether its FAIL_FAST fires
InitiatingIoCounters ==
    [pending |-> pending_sockets - 1, active |-> active_sockets + 1,
     fail |-> pending_sockets = 0]

\* mutant: Closing decrements the counter of the other branch
ClosingCountersSwapped(wasActive) ==
    IF ~wasActive
    THEN [pending |-> pending_sockets, active |-> active_sockets - 1,
          fail |-> active_sockets = 0]
    ELSE [pending |-> pending_sockets - 1, active |-> active_sockets,
          fail |-> pending_sockets = 0]

\* Closing(wasActive): the counters after it, and whether its FAIL_FAST fires
ClosingCounters(wasActive) ==
    IF wasActive
    THEN [pending |-> pending_sockets, active |-> active_sockets - 1,
          fail |-> active_sockets = 0]
    ELSE [pending |-> pending_sockets - 1, active |-> active_sockets,
          fail |-> pending_sockets = 0]

-----------------------------------------------------------------------------
Init ==
    /\ accept_function \in BOOLEAN
    /\ total_remaining = InitialTotal
    /\ pending_sockets = 0
    /\ active_sockets = 0
    /\ done = FALSE
    /\ fail_fast = FALSE
    /\ started = FALSE
    /\ interrupted = FALSE
    /\ exited = FALSE
    /\ phase = [s \in Sockets |-> "None"]

\* the broker and its children run until main tears it down or a FAIL_FAST
Running == ~exited /\ ~fail_fast

(* ctsSocketBroker::Start: create the first sockets, schedule the timer.   *)
Start ==
    /\ Running /\ ~started
    /\ CreateSockets(phase, StartCreateCount)
    /\ started' = TRUE
    /\ UNCHANGED <<accept_function, active_sockets, done, fail_fast, interrupted, exited>>

(* TimerCallback with the lock taken: reap the Closed sockets; set done    *)
(* when nothing is left, else (done not set) catch up on pended sockets.   *)
TimerCallback ==
    /\ Running /\ started
    /\ LET reaped == [s \in Sockets |-> IF phase[s] = "Closed" THEN "Reaped" ELSE phase[s]]
       IN IF Drained
          THEN /\ done' = TRUE
               /\ phase' = reaped
               /\ UNCHANGED <<total_remaining, pending_sockets>>
          ELSE /\ CreateSockets(reaped, IF MayCreate THEN TimerCreateCount ELSE 0)
               /\ UNCHANGED done
    /\ UNCHANGED <<accept_function, active_sockets, fail_fast, started, interrupted, exited>>

(* create_fn or connect_fn (accept_fn) calls complete_state(0).           *)
SocketAdvance(s) ==
    /\ Running
    /\ phase[s] = "Creating"
    /\ phase' = [phase EXCEPT ![s] = "Connecting"]
    /\ UNCHANGED <<accept_function, total_remaining, pending_sockets, active_sockets, done,
                   fail_fast, started, interrupted, exited>>

(* connect_fn calls complete_state(0): the socket enters InitiatingIo and *)
(* notifies the broker's InitiatingIo.                                     *)
SocketInitiatingIo(s) ==
    LET c == InitiatingIoCounters
    IN /\ Running
       /\ phase[s] = "Connecting"
       /\ phase' = [phase EXCEPT ![s] = "InitiatingIo"]
       /\ pending_sockets' = c.pending
       /\ active_sockets' = c.active
       /\ fail_fast' = c.fail
       /\ UNCHANGED <<accept_function, total_remaining, done, started, interrupted, exited>>

(* complete_state from any step (an error, or io_fn's end): the socket    *)
(* enters Closing and notifies Closing(wasActive).                         *)
SocketClosing(s) ==
    LET c == ClosingCounters(phase[s] = "InitiatingIo")
    IN /\ Running
       /\ phase[s] \in {"Creating", "Connecting", "InitiatingIo"}
       /\ phase' = [phase EXCEPT ![s] = "Closing"]
       /\ pending_sockets' = c.pending
       /\ active_sockets' = c.active
       /\ fail_fast' = c.fail
       /\ UNCHANGED <<accept_function, total_remaining, done, started, interrupted, exited>>

(* the socket leaves Closing for Closed after notifying the broker         *)
SocketClosed(s) ==
    /\ Running
    /\ phase[s] = "Closing"
    /\ phase' = [phase EXCEPT ![s] = "Closed"]
    /\ UNCHANGED <<accept_function, total_remaining, pending_sockets, active_sockets, done,
                   fail_fast, started, interrupted, exited>>

(* The operator hits Ctrl-C: CtrlBreakHandlerRoutine sets CtrlCHandle.     *)
CtrlC ==
    /\ Running /\ ~interrupted
    /\ interrupted' = TRUE
    /\ UNCHANGED <<accept_function, total_remaining, pending_sockets, active_sockets, done,
                   fail_fast, started, phase, exited>>

(* Wait returns TRUE on m_doneEvent or CtrlCHandle; main then leaves the   *)
(* scope that owns the broker, whose dtor stops the timer and clears the   *)
(* pool.                                                                   *)
Exit ==
    /\ Running /\ started
    /\ done \/ interrupted
    /\ exited' = TRUE
    /\ UNCHANGED <<accept_function, total_remaining, pending_sockets, active_sockets, done,
                   fail_fast, started, interrupted, phase>>

SocketStep ==
    \E s \in Sockets :
        SocketAdvance(s) \/ SocketInitiatingIo(s) \/ SocketClosing(s) \/ SocketClosed(s)

Next == Start \/ TimerCallback \/ SocketStep \/ CtrlC \/ Exit

(* The timer re-fires every 333 ms forever; each injected function must   *)
(* eventually call complete_state (spec 6); Wait returns once its event is *)
(* set. Ctrl-C is the operator's choice and is not fair.                   *)
Fairness ==
    /\ WF_vars(Start) /\ WF_vars(TimerCallback) /\ WF_vars(Exit)
    /\ \A s \in Sockets : WF_vars(SocketAdvance(s) \/ SocketInitiatingIo(s) \/ SocketClosing(s))
    /\ \A s \in Sockets : WF_vars(SocketClosed(s))

Spec == Init /\ [][Next]_vars /\ Fairness

-----------------------------------------------------------------------------
TypeOK ==
    /\ accept_function \in BOOLEAN
    /\ total_remaining \in 0..InitialTotal
    /\ pending_sockets \in Int /\ active_sockets \in Int
    /\ done \in BOOLEAN /\ fail_fast \in BOOLEAN /\ started \in BOOLEAN
    /\ interrupted \in BOOLEAN /\ exited \in BOOLEAN
    /\ phase \in [Sockets -> SocketPhase]

\* the sockets in each phase
InPhase(S) == {s \in RunSockets : phase[s] \in S}

(* No FAIL_FAST_IF_MSG of InitiatingIo or Closing fires: no SocketState   *)
(* notifies a counter that is already zero.                                *)
NoCounterUnderflow == ~fail_fast

(* The broker's counters agree with its sockets: m_pendingSockets counts  *)
(* the sockets creating or connecting, m_activeSockets those in IO, and    *)
(* m_totalConnectionsRemaining those not yet created.                      *)
CountersMatchSockets ==
    /\ pending_sockets = Cardinality(InPhase({"Creating", "Connecting"}))
    /\ active_sockets = Cardinality(InPhase({"InitiatingIo"}))
    /\ total_remaining = Cardinality(InPhase({"None"}))

(* A client never has more than ConnectionLimit sockets pending or active *)
(* (spec 3, BrokerCounters), whatever order sockets connect and close in.  *)
ConnectionLimitRespected ==
    ~AcceptFunction =>
        Cardinality(InPhase({"Creating", "Connecting", "InitiatingIo"})) <= ConnectionLimit

(* m_doneEvent is set only when every connection the run asked for has    *)
(* been created and has left IO: none is still pending or transferring.    *)
DoneMeansAllFinished ==
    done => \A s \in RunSockets : phase[s] \in {"Closing", "Closed", "Reaped"}

(* Wait eventually returns and main tears the broker down: the timer      *)
(* keeps the pool topped up until every connection is made and closed.     *)
EventuallyExits == <>exited

(* Once the broker has started, a TimerCallback that runs after Ctrl-C    *)
(* creates no new socket ("don't spin up more if the user asked to         *)
(* shutdown", line 236; spec 7: the broker stops creating on interrupt).   *)
(* Start's own loop is left out: only a step of an already started broker  *)
(* counts, and of those only TimerCallback creates sockets.                *)
NoTimerCreateAfterInterrupt ==
    [][interrupted /\ started => total_remaining' = total_remaining]_vars

=============================================================================
