--------------------------- MODULE RateLimitPolicy ---------------------------
(***************************************************************************)
(* The TCP send throttle ctsIOPatternRateLimitPolicy<Throttle>             *)
(* (ctsIOPatternRateLimitPolicy.hpp). The pattern calls update_time_offset *)
(* for each send task it builds, under its own lock, so calls are          *)
(* sequential; the task is then posted time_offset ms later (by the IO     *)
(* function's timer). A quantum starts at quantum_start_time_ms and is     *)
(* charged sends while bytes_sent_this_quantum is below the budget; a full *)
(* quantum pushes the next send to newQuantumStartTime(). Other tasks      *)
(* return at once and change nothing. The QPC clock is a millisecond       *)
(* counter that only moves forward.                                        *)
(***************************************************************************)
EXTENDS Integers, Sequences, SequencesExt

CONSTANTS
    BytesSendingPerQuantum,  \* GetTcpBytesPerSecond() * TcpBytesPerSecondPeriod / 1000
    QuantumPeriodMs,         \* TcpBytesPerSecondPeriod
    BufferSizes,             \* the send sizes the pattern may ask for
    MaxTimeMs,               \* bound on the clock
    MaxSends                 \* bound on the sends

ASSUME BytesSendingPerQuantum > 0 /\ QuantumPeriodMs > 0

VARIABLES
    bytes_sent_this_quantum,
    quantum_start_time_ms,
    now_ms,       \* ctTimer::SnapQpcInMillis()
    releases      \* history: per send, when it is posted and the quantum it was charged to

vars == <<bytes_sent_this_quantum, quantum_start_time_ms, now_ms, releases>>

-----------------------------------------------------------------------------
(* newQuantumStartTime(): skips one period per whole budget charged.       *)
NewQuantumStartTime(start, bytes) ==
    start + (bytes \div BytesSendingPerQuantum) * QuantumPeriodMs

\* mutant: the delay's operands swapped
DelayToQuantumSwapped(start, bytes, now) == now - NewQuantumStartTime(start, bytes)

\* mutant: a send arriving before its quantum starts is not delayed
DelayToQuantumNone(start, bytes, now) == 0

\* the delay of a send that arrives before the quantum it is charged to
DelayToQuantum(start, bytes, now) == NewQuantumStartTime(start, bytes) - now

\* mutant: a quantum is charged sends until it holds the budget or more
UnderBudgetOrAt(bytes) == bytes <= BytesSendingPerQuantum

\* "bytes_sent_this_quantum < BytesSendingPerQuantum"
UnderBudget(bytes) == bytes < BytesSendingPerQuantum

\* "quantum_start_time_ms += (current_time_ms - quantum_start_time_ms)"
StartOver(start, now) == start + (now - start)

(* update_time_offset for a send of b bytes at time now: the task's        *)
(* time offset and the new bytes_sent_this_quantum and                      *)
(* quantum_start_time_ms.                                                   *)
UpdateTimeOffset(bytes, start, b, now) ==
    LET next == NewQuantumStartTime(start, bytes)
    IN CASE UnderBudget(bytes) /\ now < start + QuantumPeriodMs /\ now > start ->
              [offset |-> 0, bytes |-> bytes + b, start |-> start]
         [] UnderBudget(bytes) /\ now < start + QuantumPeriodMs ->
              [offset |-> DelayToQuantum(start, bytes, now), bytes |-> bytes + b, start |-> start]
         [] UnderBudget(bytes) ->
              [offset |-> 0, bytes |-> b, start |-> StartOver(start, now)]
         [] now < next ->
              [offset |-> next - now, bytes |-> b, start |-> next]
         [] OTHER ->
              [offset |-> 0, bytes |-> b, start |-> StartOver(start, now)]

-----------------------------------------------------------------------------
(* The ctor: nothing charged, the quantum starting now.                    *)
Init ==
    /\ bytes_sent_this_quantum = 0
    /\ quantum_start_time_ms = 0
    /\ now_ms = 0
    /\ releases = <<>>

(* The pattern builds a send of b bytes and update_time_offset sets its    *)
(* time offset.                                                             *)
Send(b) ==
    LET u == UpdateTimeOffset(bytes_sent_this_quantum, quantum_start_time_ms, b, now_ms)
    IN /\ Len(releases) < MaxSends
       /\ bytes_sent_this_quantum' = u.bytes
       /\ quantum_start_time_ms' = u.start
       /\ releases' = Append(releases, [at |-> now_ms + u.offset, bytes |-> b, quantum |-> u.start])
       /\ UNCHANGED now_ms

\* a millisecond passes
Tick ==
    /\ now_ms < MaxTimeMs
    /\ now_ms' = now_ms + 1
    /\ UNCHANGED <<bytes_sent_this_quantum, quantum_start_time_ms, releases>>

Next == (\E b \in BufferSizes : Send(b)) \/ Tick

Spec == Init /\ [][Next]_vars

-----------------------------------------------------------------------------
TypeOK ==
    /\ bytes_sent_this_quantum \in Nat
    /\ quantum_start_time_ms \in Nat /\ now_ms \in 0..MaxTimeMs
    /\ releases \in Seq([at : Nat, bytes : BufferSizes, quantum : Nat])

(* Sends are posted in the order the pattern built them: no send's time    *)
(* offset puts it before an earlier send, so the byte stream the timers    *)
(* post stays in order however the quanta were charged.                    *)
ReleasesInOrder ==
    \A i \in 1..Len(releases) - 1 : releases[i].at <= releases[i + 1].at

\* the sends charged to the quantum starting at q, in order
ChargedTo(q) == SelectSeq(releases, LAMBDA r : r.quantum = q)

\* the bytes of a sequence of sends
SentBytes(s) == FoldSeq(LAMBDA r, acc : acc + r.bytes, 0, s)

(* The quanta pace the sends: every send is posted inside the quantum it   *)
(* was charged to, a later quantum starts at least a period after an       *)
(* earlier one, and a quantum is charged another send only while it holds  *)
(* less than BytesSendingPerQuantum, so no period posts more than the       *)
(* budget plus one send.                                                    *)
QuantaPaceSends ==
    /\ \A i \in 1..Len(releases) :
          releases[i].at \in releases[i].quantum .. releases[i].quantum + QuantumPeriodMs - 1
    /\ \A i \in 1..Len(releases) - 1 :
          releases[i + 1].quantum = releases[i].quantum
          \/ releases[i + 1].quantum >= releases[i].quantum + QuantumPeriodMs
    /\ \A i \in 1..Len(releases) :
          SentBytes(Front(ChargedTo(releases[i].quantum))) < BytesSendingPerQuantum

=============================================================================
