# TLA+ models of the ctsTraffic traffic engine

This directory holds TLA+ models of the ctsTraffic core (`src/ctsTraffic`), the
TLC configurations that check them, and `PROJECT.json`. That file lists the
components, runs, mutants, the map from each definition to source lines, the
findings and the hazards.

## 1. Inventory

| Component | Source | State it keeps | Operations |
|---|---|---|---|
| IoPatternState | `ctsIOPatternState.hpp` | `internal_state` (11 values), `pended_state`, `confirmed_bytes`, `inflight_bytes`, `max_transfer`, `isb` | `get_next_task`, `notify_next_task`, `completed_task`, `update_error`, `get_remaining_transfer`, `is_completed` |
| IoPattern (driver of the state) | `ctsIOPattern.cpp` is not in `src/`: modelled from spec §4.3 | the posted IO tasks, last error | `initiate_io`, `complete_io` |
| Socket IO functions | `ctsSendRecvIocp.cpp`, `ctsReadWriteIocp.cpp` | the per-socket IO reference count (`increment_io`/`decrement_io`), the socket lock | `ctsSendRecvIocp`, `ctsProcessIOTask`, `ctsProcessIOTaskCallback`, `ctsIoCompletionCallback`, `ctsReadWriteIocp` and its callback |
| SocketState | `ctsSocketState.cpp` is not in `src/`: modelled from spec §4.5 and the unit test `ctsSocketStateUnitTest.cpp` | Creating, Connecting, InitiatingIo, Closing, Closed | `Start`, `complete_state` |
| SocketBroker | `ctsSocketBroker.cpp` | `m_totalConnectionsRemaining`, `m_pendingSockets`, `m_activeSockets`, `m_pendingLimit`, `m_socketPool`, `m_doneEvent` | `ctor`, `Start`, `InitiatingIo`, `Closing`, `TimerCallback`, `Wait` |
| AcceptEx engine | `ctsAcceptEx.cpp` | `pended_accept_requests` queue, `accepted_connections` queue, `shutting_down`, and per accept slot `accept_socket` and `pov` | `ctsAcceptEx` (a consumer request), `ctsAcceptExIoCompletionCallback`, `InitatiateAcceptEx`, `GetAcceptedSocket`, `~ctsAcceptExImpl` |
| ConnectionIdPool | `ctsIOBuffers.hpp` | `ConnectionIdVector` (the free list), `CurrentAllocatedConnectionCount` | `NewConnectionIdBuffer`, `ReleaseConnectionIdBuffer`, `GrowConnectionIdBuffer`, `SetConnectionId` |
| RateLimitPolicy | `ctsIOPatternRateLimitPolicy.hpp` | `bytes_sent_this_quantum`, `quantum_start_time_ms` | ctor, `update_time_offset`, `newQuantumStartTime` |
| MediaStream framing | `ctsMediaStreamProtocol.hpp` | per send request: `bytes_to_send`, the 5 WSABUF lengths | the iterator (`update_buffer_length`, `++`), `ValidateBufferLengthFromTask`, the `Get*FromTask` decoders, `Extract` |
| MediaStream settings | `ctsConfig.h` `CalculateTransferSize` | `FrameSizeBytes`, `StreamLengthFrames`, `BufferedFrames` | `CalculateTransferSize` |
| Main / status printing | `ctsTraffic.cpp`, `ctsPrintStatus.hpp` | wmain's progress, the `ConnectionStatusDetails` counters, the exit code; the status text buffers | `wmain` (modelled); the status printer (not modelled: formatting and console output) |

### How the parts interact

- **Broker to SocketState.** The broker creates SocketStates under `m_lock`. A SocketState calls back `InitiatingIo()` when it enters IO and `Closing(wasActive)` when it closes. The broker's 333 ms timer reaps Closed sockets and tops the pool up.
- **SocketState to injected functions.** Create, connect or accept, and IO are injected functions. Each one ends by calling `complete_state(error)` on the socket.
- **IO function to IoPattern to IoPatternState.** The IO function loops on `initiate_io` and posts overlapped IO. Each completion callback calls `complete_io`. That returns ContinueIo, CompletedIo or FailedIo, and the callback then either posts more IO or calls `complete_state`. A per-socket IO counter decides who calls `complete_state`: the caller whose decrement reaches zero.
- **AcceptEx to SocketState.** On the server, the accept function is `ctsAcceptEx`. It either hands over an already accepted connection or queues the socket's weak reference. Later an AcceptEx completion callback serves that queued request.
- **ConnectionIdPool.** The TCP patterns check out a 32-byte slot per connection and return it at teardown.
- **RateLimitPolicy.** It sets a time offset on send tasks. The IO function then posts the send through a timer (`ctsProcessIOTaskCallback`).

### What is hard

- Concurrent completions of several posted IOs on one connection. They arrive in any order and with any byte count. The byte accounting of IoPatternState and its fail-fast checks depend on them.
- The multi-phase TCP ending. First comes the connection ID. Then the server sends a 4-byte status, the client shuts down gracefully or hard, and the FIN or RST is received. Each phase is one pended task.
- The IO reference count across the IO loop, timer-deferred sends and completion callbacks. `complete_state` must be called exactly once, after the last IO.
- Broker counters updated by many SocketStates, and a timer tick that skips when the lock is contended.
- AcceptEx completions racing consumer requests, inline completions, and shutdown.
- Arithmetic at boundaries: datagram splitting at 64000 bytes, quantum arithmetic, and `Iterations * ConnectionLimit`.

### Correctness, per component

- **IoPatternState.**
  - No FAIL_FAST is reachable.
  - `inflight_bytes` equals the bytes of the posted tracked tasks, and `confirmed + inflight <= max_transfer`.
  - A handshake task is never posted twice.
  - Success is reported only after exactly `max_transfer` bytes and the full phase sequence.
  - Every connection eventually completes or fails.
- **Broker.**
  - The counters never underflow.
  - `pending + active <= ConnectionLimit` for clients.
  - `done` is signalled only when nothing is left, and eventually it is.
  - No socket is created after the interrupt.
- **IO functions.** `complete_state` is called once per IO phase, never while IO is posted.
- **AcceptEx.**
  - Every consumer request is eventually answered, and answered once.
  - A connection is never left queued while a request waits.
- **ConnectionIdPool.** Live slots are distinct, and checkout never fails while fewer than the limit are live.
- **RateLimit.** Sends stay in order, and a quantum is charged only while it is under budget.
- **MediaStream framing.**
  - Datagrams sum to the request.
  - Each datagram is between header+1 and 64000 bytes.
  - decode(encode(x)) = x.

## 2. Plan

In order of importance. Steps 1-8 and the first half of step 9 are done.

1. `IOPatternState.tla`: the protocol state machine of one TCP or UDP connection end. A spec-modelled pattern driver posts tasks, and an arbitrary peer and network complete them.
2. `SocketBroker.tla`: the broker counters and timer, composed with an abstract SocketState lifecycle per slot.
3. `SendRecvIocp.tla`: the IO reference count of `ctsSendRecvIocp`, composed with `IOPatternState` by `INSTANCE`. It checks that `complete_state` is called exactly once, after the last IO. `ReadWriteIocp.tla` does the same for `ctsReadWriteIocp` and its `io_count` snapshot.
4. `AcceptEx.tla`: the request and ready queues, the accept slots, inline completion, and shutdown.
5. `MediaStreamSend.tla` and `MediaStreamMessage.tla`: the datagram split, and the wire format with its decoders.
6. `RateLimitPolicy.tla`: `update_time_offset` over a bounded clock, checked against the quantum budget.
7. `ConnectionIdPool.tla`: the free list with server growth.
8. `MediaStreamSettings.tla` and `Main.tla`: `CalculateTransferSize`, and `wmain` composed with the broker, with the exit code it returns.
9. An abstract `Connection` specification ("a connection ends Completed iff max bytes were transferred"), with `IOPatternState` shown to refine it (done, checked in run `iocp`). After that, a two-endpoint composition of a client and a server `IOPatternState` over a byte stream per direction.

New components should replace shallow properties rather than add to them. The client and server variants of the broker and of the pool are one run each: the role (`accept_function`, `is_listening`) is chosen in Init.

## 3. Modules and runs

Each module `M` has an `MCM.tla` that fixes model-value sets and symmetry. The `.cfg` files set the constants. The exception is `MCMediaStream.tla`, which instantiates both MediaStream modules for one endpoint.

### IOPatternState.tla (ctsIOPatternState.hpp)

State:
- `internal_state`, `pended_state`, `confirmed_bytes`, `inflight_bytes`. These are the class members; `max_transfer` is the constant `MaxTransfer`.
- `is_listening` and `tcp_shutdown`: the configuration, chosen in Init.
- `outstanding`: a bag of the posted IO tasks.
- `last_result`: the last protocol error returned.
- `trajectory`: the internal states visited, a history variable.

Actions:
- `InitiateIo` is `get_next_task` followed by the pattern building the task and calling `notify_next_task`.
- `CompleteIo(t, bytes, err)` is `complete_io`: `update_error`, then `completed_task` if the error was forgiven or absent.

`NextTask` and `CompletedTask` are translated branch by branch. A `FAIL_FAST` is the sentinel state `"FailFast"`.

The peer is arbitrary:
- a receive completes with any byte count up to its length, where 0 is a FIN;
- a send completes in full;
- any IO may fail.

Runs:
- The pattern's own TCP contract (`NoFailFast`, `InflightAccounting`, `OneProtocolTaskAtATime`, `CompletionContract`) is checked through `SendRecvIocp`, as `Pattern*` in run `iocp`. There the pattern is driven by real IO threads rather than an arbitrary driver, with both roles and both shutdown types, MaxTransfer 3, buffers of up to 2 bytes and 2 posted IOs. Two concurrent partial completions can cross `max_transfer` in either order.
- `iops_udp_success` (violation): `CompletionContract` for UDP.

### SocketBroker.tla (ctsSocketBroker.cpp)

State: the broker counters, `done`, `interrupted` (Ctrl-C), and per socket slot its SocketState phase (spec-modelled).

`accept_function` (client or server) is chosen in Init, as `ctsConfig` sets it before the broker starts.

Actions:
- `Start`;
- `TimerCallback`: reap, done test, catch-up loop;
- the SocketState steps, which call `InitiatingIo` and `Closing`;
- `CtrlC`, and `Exit` (main's `Wait` and teardown).

Runs:
- The broker's properties (`NoCounterUnderflow`, `CountersMatchSockets`, `ConnectionLimitRespected` for the client, `DoneMeansAllFinished`) are checked inside `Main`, run `main` below. The server's total (3) exceeds its pending limit (2), so the timer must re-create accepts.
- `broker_ctrlc` (violation, `MCSocketBroker`): `NoTimerCreateAfterInterrupt`. The property is about steps of a started broker, so `start()` creating after an early Ctrl-C is not counted (`start()` does not test Ctrl-C either). The trace is Ctrl-C, `Start`, a socket closing, and a `TimerCallback` that creates another socket.

### SendRecvIocp.tla (ctsSendRecvIocp.cpp)

Threads run three kinds of work over one shared IO count and the socket lock:
- the `ctsSendRecvIocp` loop (`LoopStart`, `LoopInitiate`, `LoopProcess`, `LoopEnd`);
- completion callbacks (`CallbackComplete`, `CallbackDecrement`);
- rate-limit timer callbacks (`TimerFire`).

The pattern is an `INSTANCE` of `IOPatternState`.

Runs:
- `iocp` (pass, `MCIoFunctions`, 151306 states; 3 threads, MaxTransfer 3 in IOs of up to 2, rate limiting and inline completion on). `MCIoFunctions` chooses the IO function in Init, as `ctsConfig` fixes `IoFunction` before any socket exists, and composes this module or `ReadWriteIocp`. Under either it checks:
  - `complete_state` is called once (`CompleteStateOnce`);
  - after the last IO (`CompleteStateAfterLastIo`);
  - with NO_ERROR on success (`SuccessReported`);
  - eventually (`EventuallyStateCompleted`);
  - the IO count never fails fast (`NoRefcountFailFast`);
  - the pattern's contract under these threads (`PatternNoFailFast`, `PatternInflightAccounting`, `PatternOneProtocolTaskAtATime`, `PatternCompletionContract`);
  - the pattern implements the abstract `Connection` (`ConnectionRefinement`, below).
- `iocp_lost_error` (violation): `FailureReported`.

### Connection.tla (abstract) and the refinement

`Connection` states what one TCP connection end promises (spec §4.2 and §6). It has two variables: `phase` (Opening, Transferring, Confirming, ShuttingDown, Completed, Failed) and `confirmed`.
- Data moves only while Transferring, and never past `MaxTransfer`.
- It may move on to Confirming in the step that confirms the last byte.
- The status word leads to the shutdown, and the shutdown leads to Completed.
- Any live phase may fail, and keeps its bytes when it does.
- Completed and Failed are final. `WF_vars(Next)` makes the connection always end.

`IOPatternState` defines the refinement mapping. `AbstractPhase` translates `internal_state`:
- Initialized and the connection-id states map to Opening;
- MoreIo maps to Transferring;
- the status states map to Confirming;
- the shutdown and FIN states map to ShuttingDown;
- a FAIL_FAST maps to a phase the abstract spec does not have.

`confirmed` is `confirmed_bytes`. `MCIoFunctions` checks `ConnectionRefinement == SR!P!Abstract!Spec` as a property of run `iocp`, so the pattern implements `Connection` under either IO function, all their threads, and both roles and shutdown types. This adds to the pattern's invariants:
- phases only move forward, on the failure paths as well;
- confirmed bytes never decrease;
- a failure keeps the bytes already confirmed;
- every connection ends, which is liveness under the IO functions' fairness.

The `ServerPhaseStepSkipStatus` mutant goes from MoreIo straight to RequestFIN, skipping the status word, and TLC reports it as a step `Connection` does not allow.

### ReadWriteIocp.tla (ctsReadWriteIocp.cpp)

The same composition for the ReadFile/WriteFile IO function. Its counting differs from `ctsSendRecvIocp`, and so does its locking:
- The loop takes no count of its own. It keeps `io_count`, the value its last `increment_io` or `decrement_io` returned, or -1 if it took none. It calls `complete_state(io_error)` at the end only if that snapshot is zero.
- The loop holds the socket lock for its whole run. A callback takes the lock only to read the overlapped result (`CallbackRead`). It then calls `complete_io` without the lock (`CallbackComplete`), runs the loop again on ContinueIo, and finally decrements (`CallbackDecrement`).
- A hard shutdown closes the socket. A later loop sees INVALID_SOCKET and ends with WSAECONNABORTED. A later callback reads WSAECONNABORTED.

Run `iocp` checks `CompleteStateOnce`, `CompleteStateAfterLastIo`, `SuccessReported` and `EventuallyStateCompleted` of this module when `io_function` is `ctsReadWriteIocp`. The snapshot is safe because callbacks cannot read a result while a loop holds the lock. Also, a callback's nested loop never sees zero, since the callback still holds its count. The same second fact loses errors: with this module, `FailureReported` fails exactly as in `iocp_lost_error` (hazard at `ctsReadWriteIocp.cpp:98`).

### AcceptEx.tla (ctsAcceptEx.cpp)

One listener with `Slots` accept slots (`ctsAcceptSocketInfo`). State:
- `slot`: each slot's phase (Idle, Armed, Completed), its result, and whether `accept_socket` is held;
- `backlog`: the listen backlog;
- `pended`: `pended_accept_requests`;
- `accepted`: `accepted_connections`;
- `req`: each requesting SocketState's answer;
- `started`, `shutting_down`, and `fail_fast`;
- `clients_ok` and `closed_ok`: history counters of connections accepted by clients and of accepted sockets closed by the server (in the callback at shutdown, or by `~ctsAcceptExImpl`).

Actions:
- `Request(r)` is `ctsAcceptEx`. It runs Start once through `InitOnceExecuteOnce` (`StartOnce`). Start arms each slot in order (`StartSlots`: `InitatiateAcceptEx`). When `StartMayThrow`, Start may throw while making the listener or at any slot's socket options (`ThrowPoints`). The `ctsListenSocketInfo` is then destroyed: its armed slots complete with WSAECONNABORTED and are queued as accepted connections (`AbortedGles`), the caller is answered with the error, and `started` stays FALSE so the next caller runs Start again. After Start, the request takes a queued connection (`PopAccepted`) or pends. When `PushMayThrow`, pending may fail (`push_back` throws) and the request is answered with an error.
- `ClientConnect` completes an armed AcceptEx, or fills the backlog.
- `Callback(s)` is the completion callback: `GetAcceptedSocket`, hand-off or queueing under the lock, then the re-arm.
- `Shutdown` is `~ctsAcceptExImpl`.

Runs:
- `accept_server` (pass, 35218 states; 2 slots, 4 requesters, backlog 1, at most 2 queued connections; Start and the push may throw). It checks:
  - `QueuesExclusive`;
  - `PendedMatchesWaiting`;
  - `AcceptedConnectionsConserved`: every connection a client saw accepted is, until the server closes it, in exactly one place: the backlog, the accepted queue, a completed slot, or a requester's answer. A lost or duplicated hand-off, or a queued connection not popped, breaks it;
  - `EveryRequestAnswered`, under weak fairness of connects, requests and completions.
- `accept_inline` (violation): `NoAcceptFailFast` with HANDLE_INLINE_IOCP.

### MediaStreamSend.tla (ctsMediaStreamSendRequests and its iterator)

- `Init` is the ctor, with its FAIL_FAST, followed by `begin()`.
- `SendDatagram` is one dereference and `++`.
- `BufferLength` is `update_buffer_length`.
- `MaxDatagrams` bounds the datagrams sent.

Run `mediastream` (pass, 11187 states) checks one UDP media-stream endpoint. `MCMediaStream` instantiates this module and `MediaStreamMessage`. The role is chosen in Init: the server sends, the client receives. The half a role does not use keeps one initial value.
- Sender setup: every request size from 20 to 300. The header keeps its real 26 bytes, and the maximum datagram is scaled from 64000 to 60. This covers requests at and below the header, and remainders on both sides of the header length.
- Sender checks: `DatagramsWellFormed`, `RequestSentExactly` (sum and minimal count), `EventuallyEnd`.

### MediaStreamMessage.tla (the wire format and ctsMediaStreamMessage)

- A byte is `<<value, index>>`.
- `Receive` lands any datagram the protocol can build into the connection's reused receive buffer. Those are data, connection-ID and START frames, plus runts whose header was cut short.
- `Receive` then validates the datagram and calls the readers at the offsets the code uses.

Runs:
- `mediastream`, receiver role (see above): `AcceptsExactlyProtocolFrames`, `ReadsWithinDatagram`, `SequenceAndIdRoundTrip`.
- `msm_timestamps` (violation): `TimestampRoundTrip`.

### ConnectionIdPool.tla (ctsIOBuffers.hpp)

- The free vector is a sequence; a slot is a number.
- `NewConnectionIdBuffer` includes:
  - the once-only init;
  - the server growth, with commits that may fail;
  - the client FAIL_FAST, the server `bad_alloc`, and a failed `VirtualAlloc` of the init (FAIL_FAST).
- `CopyConnectionId` is the `memcpy_s` of the ID into `next_buffer`, which the code runs after the unlock. It is a step of its own, so other connections' pops, copies and releases interleave between the pop and the copy (`to_copy`).
- `ReleaseConnectionIdBuffer` pushes the slot back.

Run `pool` (pass, 278094 states; connections symmetric; `is_listening` chosen in Init):
- The client has limit 5 and 5 connections.
- The server grows 2 slots at a time up to 4, also with 5 connections, so its reservation runs out.
- Checks: `TypeOK`, `SlotsDistinct`, `SlotsConserved`, `OwnIdIntact`.
- `OwnIdIntact` says each held slot whose copy has run holds its own connection's ID. Its mutant (`CopyTargetReread`) aims the copy at `*rbegin()` of the shared vector read again after the unlock. That keeps the slots distinct but writes another slot, so only `OwnIdIntact` catches it.

### RateLimitPolicy.tla (ctsIOPatternRateLimitPolicy.hpp)

State:
- `bytes_sent_this_quantum` and `quantum_start_time_ms`;
- `now_ms`, the QPC clock in milliseconds, which only moves forward (`Tick`);
- `releases`, a history: per send, the time it is posted (now + time offset) and the quantum start it was charged to.

Calls are sequential, since the pattern calls the policy under its own lock. `UpdateTimeOffset` translates every branch of `update_time_offset`, and `Send(b)` applies it to a send of `b` bytes.

Run `rate` (pass, 375845 states):
- Setup: a budget of 4 bytes per 3 ms; sends of 1, 3 and 9 bytes, so that a quantum can be topped up past its budget or skip several periods; 5 sends over 10 ms.
- `ReleasesInOrder`: time offsets never post a send before an earlier one.
- `QuantaPaceSends`: each send is posted inside its quantum, and quanta are at least a period apart. A quantum is charged a further send only while it is under budget.

The division in `newQuantumStartTime` rounds down. The bytes a quantum holds beyond a whole budget are therefore forgiven. With this configuration, TLC finds four 3-byte sends posted at 0, 0, 3 and 3 ms: 12 bytes in two periods whose budget is 8. Spec §4.4 says the next quantum "accommodates accumulated bytes". The overshoot is recorded as a hazard: `QuantaPaceSends` states the weaker bound the code does keep.

### MediaStreamSettings.tla (ctsConfig.h, CalculateTransferSize)

`CalculateTransferSize(s, isListening)` is an operator that returns the struct after the call: the settings, `BufferedFrames`, `FrameSizeBytes`, `StreamLengthFrames`, the total, and how the call ended. Its `CASE` follows the code's checks in order: the argument FAIL_FASTs, the client's buffer depth, the two `ctsUnsignedLong` products, the frame-size bounds, and the alignment FAIL_FAST.
- The fields are `ctsSafeInt` types, whose header is not in `src/`. The model assumes that a product that overflows its type throws `ctsSafeIntException` (`SafeUlongOverflows`), which `wmain` catches. Under that assumption the `BufferedFrames < ...` test (line 273) and the `> MAXULONG32` frame-count test (line 280) can never fire; they stay in the `CASE`, in order.
- The byte total (line 286) is computed from `static_cast`s to built-in types, so it wraps modulo 2^64 (`UllModulus`).
- Widths are scaled: `unsigned long` has `UlongBits` = 7 bits, and the 64-bit types twice as many. The 40-byte minimum frame is kept, since it is below the scaled `MAXULONG32`.

### Main.tla (ctsTraffic.cpp, wmain)

`wmain` composes the broker (`INSTANCE SocketBroker`) and `CalculateTransferSize` (`INSTANCE MediaStreamSettings`). `main_pc` follows `wmain`:
- `WSAStartupStep` fails with its error code or goes on;
- `ctsConfig::Startup` may return false (`StartupHelp`, ERROR_INVALID_DATA), succeed for a TCP run (`StartupTcp`), or compute a media-stream transfer size (`StartupMediaStream`) whose exceptions reach the catch blocks and whose FAIL_FASTs end the process (`crashed`);
- `CtrlHandlerFails` returns the HRESULT; `InstallCtrlHandler` installs the handler; `StartBroker` starts the broker and blocks in `wait`;
- `CtrlC` (`CtrlBreakHandlerRoutine`) may come at any time after the handler is installed, also before the broker starts;
- while `wmain` waits, the broker and its sockets step (`BrokerStep`). A socket that closes records its outcome in the success, connection-error or protocol-error counter (`Counted`; the counting is in `ctsConfig.cpp`, not in `src/`, so it is modelled from spec §4.5);
- `wait` returns on done or Ctrl-C (`ReturnOnEvent`) or on the time limit (`ReturnOnTimeLimit`). `Finish` returns the error count capped at `MAXINT` (`ExitCode`). `int` is scaled to `IntBits` = 2 bits (`MAXINT` = 1), so the cap is reached after two errors.

Runs (`MCMain`, with the `MCSocketBroker` broker bounds and settings `bps` ∈ {0, 12, 320, 8000, 8080}, `fps` ∈ {0, 1, 9}, `depth` ∈ {0, 15}, `secs` ∈ {0, 2, 17}; these values reach every outcome of `CalculateTransferSize`, including the wrap):
- `main` (pass, 250899 states, both roles, time limit set or not). It checks:
  - the broker's invariants;
  - `ExitCodeReportsErrors`: the exit code is 0 exactly when the broker ran and no connection failed, and then every connection succeeded;
  - `TransferSizeConsistent`: a returned transfer is whole frames of at least 40 bytes and no more than the scaled `MAXULONG32`;
  - `EventuallyReturns`: `wmain` returns or fails fast.
- `transfer_wrap` (violation): `FrameSizeMatchesRate`. `spec.md` line 109 says the frame size is bits/s ÷ 8 ÷ frames/s. TLC finds 8080 bps, 1 frame/s and 17 s: 17170 bytes wrap to 786, which round to 782, and the call returns a 46-byte frame instead of throwing invalid_argument for a 1010-byte frame.

### Mutants

`PROJECT.json` lists one mutant for every property of every passing run. Each is a plausible bug in a mapped definition, for example:
- `<` for `<=` in `update_buffer_length`;
- a missing `pop_back`;
- the client vector one slot short;
- a dropped IO-count increment.

TLC finds each one violating its property.

## 4. Findings

1. **UDP success with datagrams in flight** (`ctsIOPatternState.hpp:348`, run `iops_udp_success`).
   - The code: UDP reports SuccessfullyCompleted when confirmed + inflight reaches `max_transfer`.
   - The spec (§4.2) says confirmed must reach it.
2. **The broker keeps creating sockets after Ctrl-C** (`ctsSocketBroker.cpp:237`, run `broker_ctrlc`).
   - The code: `TimerCallback`'s shutdown test waits on the done event, not on Ctrl-C. After Ctrl-C a started broker's timer creates more sockets until main tears it down.
   - The spec (§7) says creation stops on interrupt.
3. **An error is lost in the ContinueIo path** (`ctsSendRecvIocp.cpp:98`, run `iocp_lost_error`).
   - The code: the completion callback reports its own NO_ERROR after the nested IO loop failed the pattern.
   - `ctsReadWriteIocp.cpp:98` has the same defect (`FailureReported` of `ReadWriteIocp` fails the same way).
4. **QPC and QPF decode as the sequence number** (`ctsMediaStreamProtocol.hpp:378` and `:390`, run `msm_timestamps`).
   - The code: both readers copy from the sequence number's offset.
   - The spec (§8) requires a bit-exact round trip.
5. **An inline AcceptEx completion fails fast** (`ctsAcceptEx.cpp:354`, run `accept_inline`).
   - The code: with HANDLE_INLINE_IOCP, the callback runs before `accept_socket` is stored. `setsockopt(SO_UPDATE_ACCEPT_CONTEXT)` then gets INVALID_SOCKET and fails fast.
6. **A queued connection still re-arms its slot** (`ctsAcceptEx.cpp:518`, run `accept_server`).
   - The code: the callback always calls `InitatiateAcceptEx`.
   - The header comment (line 60) and spec §4.7 say a slot whose connection was queued is not reposted.
   - Following the comment starves requests: the `RearmsOnHandOff` mutant violates `EveryRequestAnswered`. So the code is right and the comment is wrong.
7. **The media-stream byte total wraps** (`ctsConfig.h:286`, run `transfer_wrap`).
   - The code: `BitsPerSecond / 8 * StreamLengthSeconds` is computed outside `ctsSafeInt` and wraps modulo 2^64. The wrapped total then passes the frame-size checks. At full width, 8680820740569201568 bps, 1 frame/s and 17 s give a 100-byte frame.
   - The spec (`spec.md` line 109) says the frame size is the byte rate divided by the frame rate; such a rate should be refused as a frame over 2^32 bytes.

One further observation has no run of its own. When Start throws after posting some AcceptEx calls (`ctsAcceptEx.cpp:317` and `:322`), the destroyed listener's completions are queued as WSAECONNABORTED connections. The next SocketStates that ask for a socket receive these errors (`accept_server` reaches such states, and `AcceptedConnectionsConserved` tracks them). The spec (§7) says error codes never cross SocketState boundaries. Here an error from one caller's Start reaches other SocketStates.

## 5. Fairness

Weak fairness is assumed only for these steps:
- steps the code keeps retrying: the IO loop, and the 333 ms timer, which re-fires forever;
- completions the OS guarantees: every posted overlapped IO completes;
- the caller's send loop over the media-stream iterator;
- AcceptEx: every SocketState in Accepting calls its accept function, and clients keep connecting while fewer than `MaxReady` connections are queued. Shutdown, the process exit, is not fair.

Operator actions, such as Ctrl-C, are never fair. `wmain`'s own steps are weakly fair (it is one thread that runs on), and so is the time limit's expiry when a limit is set. The injected create, connect and IO functions are weakly fair because the collaborator contract (spec §6) says each of them eventually calls `complete_state`. The pool and the decoder have no liveness property.

## 6. Not modelled

- Command-line parsing (`ctsConfig.cpp`, not in `src/`).
- Status and summary printing (`ctsPrintStatus.hpp`, and the summaries `wmain` prints): formatting and console output, which change no state. `wmain` itself is modelled by `Main`. The one hazard found in them is listed in PROJECT.json without a property: from a cumulative runtime of 1000000 s the TimeSlice text is wider than its column's offset, so `right_justify_output` writes outside `OutputBuffer` (console) and `append_csvoutput` fails fast (CSV). The runtime it prints is kept by `ctsConfig.cpp`, which is not under src.
- RIO buffer registration.
- Byte contents of data buffers.
- Socket options.
- A zero rate budget (`BytesSendingPerQuantum` is `rate * period / 1000`): `RateLimitPolicy` assumes it is positive, since the settings parser is not in `src/`.
- In the IO functions: `new_request` or `set_timer` throwing (`bad_alloc`), and a socket or pattern already destroyed when a callback runs. These only happen at teardown.
- In AcceptEx: several listen addresses (independent copies of one listener), and a SocketState that goes away while pended.
- In the media-stream client: a receive task with a nonzero `buffer_offset`. No code under `src/` builds one, so the length check at `ctsMediaStreamProtocol.hpp:343` is never reached with an offset.

The first five change no state that a property here distinguishes.
