------------------------------- MODULE AcceptEx -------------------------------
(***************************************************************************)
(* The server's accept engine (ctsAcceptEx.cpp) on one listening address.  *)
(* Start posts one AcceptEx per accept slot (ctsAcceptSocketInfo). Clients  *)
(* connect: an armed AcceptEx completes, or the connection waits in the     *)
(* listen backlog, from which the next AcceptEx completes at once. The      *)
(* completion callback (ctsAcceptExIoCompletionCallback) takes the result   *)
(* (GetAcceptedSocket) and, under the impl lock, hands it to the oldest     *)
(* pended request or queues it in accepted_connections, then re-arms its    *)
(* slot (InitatiateAcceptEx). A SocketState asking for a connection         *)
(* (ctsAcceptEx) takes a queued one or pends its request. ~ctsAcceptExImpl  *)
(* aborts pended requests and drops queued connections. Start may throw    *)
(* (the listener's socket, bind or listen, or an accept socket's options):  *)
(* the InitOnce is then left incomplete, the caller fails, and the next     *)
(* caller runs Start again.                                                 *)
(***************************************************************************)
EXTENDS Integers, Sequences, SequencesExt, FiniteSets, FiniteSetsExt

CONSTANTS
    Slots,          \* the ctsAcceptSocketInfo of the listener (PendedAcceptRequests, scaled)
    Requesters,     \* the SocketStates that ask for an accepted connection
    HandleInline,   \* the HANDLE_INLINE_IOCP option
    AcceptMayFail,  \* whether posting AcceptEx may fail other than with ERROR_IO_PENDING
    StartMayThrow,  \* whether Start may throw (socket creation, bind, listen or a socket option)
    PushMayThrow,   \* whether pended_accept_requests.push may throw bad_alloc
    BacklogLimit,   \* the listen backlog
    MaxReady        \* bound on accepted_connections: clients stop connecting beyond it

VARIABLES
    slot,       \* per slot: phase (Idle, Armed, Completed), result, accept_socket held
    backlog,    \* the client connections waiting in the listen backlog (their outcome)
    pended,     \* pended_accept_requests
    accepted,   \* accepted_connections (the gle of each: Ok or Err)
    req,        \* per requester: Init, Pended, or the complete_state it got
    started,    \* s_ctsAcceptExImplInitOnce has run Start
    shutting_down,
    fail_fast,
    clients_ok, \* history: the client connections that succeeded
    closed_ok   \* history: the successful ones the engine closed (shutdown)

vars == <<slot, backlog, pended, accepted, req, started, shutting_down, fail_fast,
          clients_ok, closed_ok>>

Outcomes == {"Ok", "Err"}   \* a connection accepted, or one reset before the accept finished

\* the successful connections in a sequence of outcomes
OkCount(q) == Len(SelectSeq(q, LAMBDA x : x = "Ok"))

IdleSlot == [phase |-> "Idle", result |-> "None", sock |-> FALSE]

-----------------------------------------------------------------------------
\* what posting AcceptEx may do: pend, complete at once from the backlog, or fail
AcceptExResults(bl) ==
    (IF bl = <<>> THEN {"Pending"} ELSE {"Inline"}) \cup (IF AcceptMayFail THEN {"Fail"} ELSE {})

(* InitatiateAcceptEx: nothing if the slot still holds a socket; else a new *)
(* accept socket and AcceptEx. A real failure cancels the request and       *)
(* returns without storing the socket. An inline completion under           *)
(* HANDLE_INLINE_IOCP runs the callback before accept_socket is stored, so  *)
(* GetAcceptedSocket's setsockopt(SO_UPDATE_ACCEPT_CONTEXT) gets            *)
(* INVALID_SOCKET and fails fast; otherwise the completion is queued to the *)
(* IOCP like a pended one. Returns [slot, backlog, ff].                    *)
InitatiateAcceptEx(sl, bl, r) ==
    CASE sl.sock -> [slot |-> sl, backlog |-> bl, ff |-> FALSE]
      [] r = "Fail" -> [slot |-> IdleSlot, backlog |-> bl, ff |-> FALSE]
      [] r = "Pending" ->
            [slot |-> [phase |-> "Armed", result |-> "None", sock |-> TRUE], backlog |-> bl, ff |-> FALSE]
      [] r = "Inline" /\ HandleInline -> [slot |-> sl, backlog |-> bl, ff |-> TRUE]
      [] r = "Inline" ->
            [slot |-> [phase |-> "Completed", result |-> Head(bl), sock |-> TRUE],
             backlog |-> Tail(bl), ff |-> FALSE]

(* Start: one InitatiateAcceptEx per slot, in order, each seeing the       *)
(* backlog the previous one left; rs says whose AcceptEx fails.            *)
RECURSIVE StartSlots(_, _, _, _)
StartSlots(todo, sl, bl, rs) ==
    IF todo = {} THEN [slot |-> sl, backlog |-> bl, ff |-> FALSE]
    ELSE LET s == CHOOSE x \in todo : \A y \in todo : x <= y
             r == IF rs[s] = "Fail" THEN "Fail" ELSE IF bl = <<>> THEN "Pending" ELSE "Inline"
             i == InitatiateAcceptEx(sl[s], bl, r)
         IN IF i.ff THEN i
            ELSE StartSlots(todo \ {s}, [sl EXCEPT ![s] = i.slot], i.backlog, rs)

(* GetAcceptedSocket after an IOCP completion (pov set): WSAECONNABORTED   *)
(* if the listener is gone, else the overlapped result; accept_socket is    *)
(* moved out on success and reset on failure.                               *)
GetAcceptedSocket(sl, listening) ==
    [gle |-> IF listening THEN sl.result ELSE "Err", slot |-> IdleSlot]

(* The completions of the slots a destroyed listener had posted: each      *)
(* callback finds the listener gone, queues WSAECONNABORTED (no request is  *)
(* pended before Start has succeeded) and re-arms nothing.                  *)
AbortedGles(sl) ==
    FoldSet(LAMBDA s, acc : Append(acc, GetAcceptedSocket(sl[s], FALSE).gle),
            <<>>, {s \in Slots : sl[s].sock})

\* whether Start throws
StartThrows == IF StartMayThrow THEN BOOLEAN ELSE {FALSE}

\* where it throws: 0 is the listener itself, s the options of slot s's accept socket
ThrowPoints == {0} \cup Slots

(* s_ctsAcceptExImplInitFn: Start, or Start throwing at k. The slots       *)
(* before k were posted; ~ctsListenSocketInfo closes the listen socket,    *)
(* drops its backlog and waits for their completions. Returns [slot,        *)
(* backlog, ff, threw, aborted].                                            *)
StartOnce(throws, k, rs) ==
    LET p == StartSlots(IF throws THEN {s \in Slots : s < k} ELSE Slots, slot, backlog, rs)
    IN IF ~throws \/ p.ff
       THEN [slot |-> p.slot, backlog |-> p.backlog, ff |-> p.ff, threw |-> FALSE, aborted |-> <<>>]
       ELSE [slot |-> [s \in Slots |-> IdleSlot], backlog |-> <<>>, ff |-> FALSE,
             threw |-> TRUE, aborted |-> AbortedGles(p.slot)]

\* mutant: the queued connection is handed out but left in the queue
PopAcceptedNoPop(q) == [c |-> Head(q), rest |-> q]

\* accepted_connections.front() then pop()
PopAccepted(q) == [c |-> Head(q), rest |-> Tail(q)]

\* mutant: the callback re-arms only when it handed the connection to a request (spec 4.7)
RearmsOnHandOff(handedOff) == handedOff

(* The callback always attempts another AcceptEx.                          *)
Rearms(handedOff) == TRUE

-----------------------------------------------------------------------------
Init ==
    /\ slot = [s \in Slots |-> IdleSlot]
    /\ backlog = <<>>
    /\ pended = <<>>
    /\ accepted = <<>>
    /\ req = [r \in Requesters |-> "Init"]
    /\ started = FALSE
    /\ shutting_down = FALSE
    /\ fail_fast = FALSE
    /\ clients_ok = 0
    /\ closed_ok = 0

(* A client connects: an armed AcceptEx completes with it (the OS picks     *)
(* which), or it waits in the backlog of the listener Start opened.        *)
(* Clients stop at MaxReady queued.                                         *)
ClientConnect ==
    \E o \in Outcomes :
        /\ ~fail_fast /\ started /\ ~shutting_down
        /\ Len(accepted) < MaxReady
        /\ IF \E s \in Slots : slot[s].phase = "Armed"
           THEN \E s \in {x \in Slots : slot[x].phase = "Armed"} :
                    /\ slot' = [slot EXCEPT ![s].phase = "Completed", ![s].result = o]
                    /\ UNCHANGED backlog
           ELSE /\ Len(backlog) < BacklogLimit
                /\ backlog' = Append(backlog, o)
                /\ UNCHANGED slot
        /\ clients_ok' = clients_ok + IF o = "Ok" THEN 1 ELSE 0
        /\ UNCHANGED <<pended, accepted, req, started, shutting_down, fail_fast, closed_ok>>

(* ctsAcceptEx: run Start unless an earlier run succeeded; a Start that    *)
(* throws fails this caller with its error. Then, under the lock, pend the *)
(* request if no connection is queued (a push that throws fails it with     *)
(* WSAENOBUFS), else take the oldest and complete_state with its gle.       *)
Request(r) ==
    \E rs \in [Slots -> AcceptExResults(<<>>)], throws \in StartThrows, k \in ThrowPoints :
        LET st == IF started
                  THEN [slot |-> slot, backlog |-> backlog, ff |-> FALSE, threw |-> FALSE,
                        aborted |-> <<>>]
                  ELSE StartOnce(throws, k, rs)
            a == PopAccepted(accepted)
        IN /\ ~fail_fast /\ ~shutting_down
           /\ req[r] = "Init"
           /\ started' = ~st.threw
           /\ slot' = st.slot /\ backlog' = st.backlog /\ fail_fast' = st.ff
           /\ CASE st.ff -> UNCHANGED <<pended, accepted, req>>
                [] st.threw ->
                     /\ accepted' = accepted \o st.aborted
                     /\ req' = [req EXCEPT ![r] = "Err"]
                     /\ UNCHANGED pended
                [] accepted = <<>> ->
                     \/ /\ pended' = Append(pended, r)
                        /\ req' = [req EXCEPT ![r] = "Pended"]
                        /\ UNCHANGED accepted
                     \/ /\ PushMayThrow
                        /\ req' = [req EXCEPT ![r] = "Err"]
                        /\ UNCHANGED <<pended, accepted>>
                [] OTHER ->
                     /\ accepted' = a.rest
                     /\ req' = [req EXCEPT ![r] = a.c]
                     /\ UNCHANGED pended
           /\ UNCHANGED <<shutting_down, clients_ok, closed_ok>>

\* mutant: the oldest request is answered but left in the queue
PopRequestNoPop(q) == [r |-> Head(q), rest |-> q]

\* mutant: the callback queues every connection without looking for a pended request
HandsOffNever(q) == FALSE

\* the callback hands the connection off when a request is pended
HandsOff(q) == q # <<>>

\* pended_accept_requests.front() then pop()
PopRequest(q) == [r |-> Head(q), rest |-> Tail(q)]

(* ctsAcceptExIoCompletionCallback for a slot whose AcceptEx completed.    *)
Callback(s) ==
    \E r \in AcceptExResults(backlog) :
        LET got == GetAcceptedSocket(slot[s], TRUE)
            handOff == HandsOff(pended)
            i == InitatiateAcceptEx(got.slot, backlog, r)
        IN /\ ~fail_fast
           /\ slot[s].phase = "Completed"
           /\ IF shutting_down
              THEN /\ slot' = [slot EXCEPT ![s] = got.slot]
                   /\ closed_ok' = closed_ok + IF got.gle = "Ok" THEN 1 ELSE 0
                   /\ UNCHANGED <<backlog, pended, accepted, req, fail_fast>>
              ELSE /\ IF handOff
                      THEN LET p == PopRequest(pended)
                           IN /\ pended' = p.rest
                              /\ req' = [req EXCEPT ![p.r] = got.gle]
                              /\ UNCHANGED accepted
                      ELSE /\ accepted' = Append(accepted, got.gle)
                           /\ UNCHANGED <<pended, req>>
                   /\ IF Rearms(handOff)
                      THEN /\ slot' = [slot EXCEPT ![s] = i.slot]
                           /\ backlog' = i.backlog /\ fail_fast' = i.ff
                      ELSE /\ slot' = [slot EXCEPT ![s] = got.slot]
                           /\ UNCHANGED <<backlog, fail_fast>>
                   /\ UNCHANGED closed_ok
           /\ UNCHANGED <<started, shutting_down, clients_ok>>

(* ~ctsAcceptExImpl: under the lock, abort every pended request with       *)
(* WSAECONNABORTED and drop every queued connection.                       *)
Shutdown ==
    /\ ~fail_fast /\ ~shutting_down
    /\ shutting_down' = TRUE
    /\ req' = [r \in Requesters |-> IF req[r] = "Pended" THEN "Aborted" ELSE req[r]]
    /\ pended' = <<>>
    /\ accepted' = <<>>
    /\ closed_ok' = closed_ok + OkCount(accepted)
    /\ UNCHANGED <<slot, backlog, started, fail_fast, clients_ok>>

Next ==
    \/ ClientConnect
    \/ \E r \in Requesters : Request(r)
    \/ \E s \in Slots : Callback(s)
    \/ Shutdown

(* The IOCP delivers every completion, each SocketState in Accepting calls *)
(* its accept function, and clients keep connecting while there is room.   *)
(* The shutdown is the process exiting and is never forced.                *)
Fairness ==
    /\ WF_vars(ClientConnect)
    /\ \A r \in Requesters : WF_vars(Request(r))
    /\ \A s \in Slots : WF_vars(Callback(s))

Spec == Init /\ [][Next]_vars /\ Fairness

-----------------------------------------------------------------------------
Answers == {"Ok", "Err", "Aborted"}

TypeOK ==
    /\ slot \in [Slots -> [phase : {"Idle", "Armed", "Completed"},
                           result : Outcomes \cup {"None"}, sock : BOOLEAN]]
    /\ backlog \in Seq(Outcomes) /\ Len(backlog) <= BacklogLimit
    /\ pended \in Seq(Requesters)
    /\ accepted \in Seq(Outcomes)
    /\ req \in [Requesters -> {"Init", "Pended"} \cup Answers]
    /\ {started, shutting_down, fail_fast} \subseteq BOOLEAN
    /\ clients_ok \in Nat /\ closed_ok \in Nat

(* A connection is never left queued while a request waits: the callback  *)
(* and ctsAcceptEx, racing under the impl lock, never leave both           *)
(* pended_accept_requests and accepted_connections non-empty.              *)
QueuesExclusive == pended = <<>> \/ accepted = <<>>

(* The pended queue holds each waiting SocketState once and nothing else:  *)
(* a request leaves it exactly when complete_state answers it, so no       *)
(* SocketState is answered twice or forgotten.                              *)
PendedMatchesWaiting ==
    /\ IsInjective(pended)
    /\ ToSet(pended) = {r \in Requesters : req[r] = "Pended"}

(* Spec 4.7: every SocketState that asked for a connection is eventually   *)
(* answered by complete_state, while clients keep connecting.              *)
EveryRequestAnswered == \A r \in Requesters : req[r] = "Pended" ~> req[r] \in Answers

(* Every client connection that succeeded is, exactly once, waiting in the *)
(* listen backlog, in a completed AcceptEx slot, in accepted_connections   *)
(* or handed to a SocketState, unless the shutdown closed it: the          *)
(* completion callbacks, ctsAcceptEx and a Start that throws and is run    *)
(* again neither drop nor duplicate one.                                    *)
AcceptedConnectionsConserved ==
    ~fail_fast =>
        clients_ok - closed_ok =
            OkCount(backlog) + OkCount(accepted)
            + Cardinality({s \in Slots : slot[s].phase = "Completed" /\ slot[s].result = "Ok"})
            + Cardinality({r \in Requesters : req[r] = "Ok"})

(* HANDLE_INLINE_IOCP: an AcceptEx that completes inline is handled        *)
(* without failing fast.                                                     *)
NoAcceptFailFast == ~fail_fast

=============================================================================
