--------------------------- MODULE ConnectionIdPool ---------------------------
(***************************************************************************)
(* The connection-ID buffer pool of ctsIOBuffers.hpp. One process-wide      *)
(* region is cut into ConnectionIdLength-byte slots; ConnectionIdVector is  *)
(* the free list (a LIFO: rbegin/pop_back, push_back). The first checkout   *)
(* initialises the pool once (InitOnceIOPatternCallback): a client commits *)
(* exactly ConnectionLimit slots, a server commits GrowthRate slots and     *)
(* grows by GrowthRate whenever the free list runs dry, up to the          *)
(* ServerMaxConnections slots it reserved. Connections check a slot out    *)
(* (NewConnectionIdBuffer) under ConnectionIdLock, copy their ID into it    *)
(* outside the lock (its own step), read it back (SetConnectionId) and     *)
(* return it                                                                 *)
(* (ReleaseConnectionIdBuffer). A slot is a number: its offset divided by   *)
(* ConnectionIdLength.                                                     *)
(***************************************************************************)
EXTENDS Integers, Sequences, SequencesExt, FiniteSets

CONSTANTS
    ConnectionLimit,      \* Settings->ConnectionLimit (client pool size)
    GrowthRate,           \* ServerConnectionGrowthRate (2500, scaled)
    ServerMaxConnections, \* ServerMaxConnections (1000000, scaled)
    Connections,          \* the connections that check slots out
    CommitMayFail         \* whether VirtualAlloc MEM_COMMIT may fail

None == -1

VARIABLES
    is_listening, \* ctsConfig::IsListening(): server or client, fixed for the process
    inited,     \* ConnectionIdInitOnce has run
    vector,     \* ConnectionIdVector: the free slots, the next one last
    allocated,  \* CurrentAllocatedConnectionCount
    held,       \* per connection: the slot its task refers to, or None
    content,    \* per slot: the connection whose ID it holds, or None
    threw,      \* per connection: its last checkout threw bad_alloc
    to_copy,    \* per connection: it has popped a slot and its memcpy_s is still to run
    fail_fast   \* a FAIL_FAST of the pool was hit

vars == <<is_listening, inited, vector, allocated, held, content, threw, to_copy, fail_fast>>

\* the slots of either role: a server reserves ServerMaxConnections, a client ConnectionLimit
Slots == 0..Max({ServerMaxConnections, ConnectionLimit}) - 1

-----------------------------------------------------------------------------
\* mutant: the new slots are pushed from the start of the region again
GrowNewSlotsFromZero(original, increased) == [i \in 1..increased - original |-> i - 1]

(* GrowConnectionIdBuffer's loop: the slots from original_connections up   *)
(* to the new count, pushed in address order.                               *)
GrowNewSlots(original, increased) == [i \in 1..increased - original |-> original + i - 1]

(* GrowConnectionIdBuffer: commit room for GrowthRate more slots, then     *)
(* raise the count and append the new slots; false when the commit fails,  *)
(* always so past the reserved region. Returns [ok, vector, allocated].    *)
Grow(vec, count, commitOk) ==
    LET increased == count + GrowthRate
    IN IF commitOk /\ increased <= ServerMaxConnections
       THEN [ok |-> TRUE, vector |-> vec \o GrowNewSlots(count, increased),
             allocated |-> increased]
       ELSE [ok |-> FALSE, vector |-> vec, allocated |-> count]

\* the outcomes a commit can have
CommitOutcomes == IF CommitMayFail THEN BOOLEAN ELSE {TRUE}

\* mutant: the client vector is sized one slot short
ClientVectorShort == [i \in 1..ConnectionLimit - 1 |-> i - 1]

\* mutant: entry i is set to slot i + 1
ClientVectorOffByOne == [i \in 1..ConnectionLimit |-> i]

(* InitOnceIOPatternCallback, client: a vector of ConnectionLimit entries, *)
(* entry i set to slot i.                                                    *)
ClientVector == [i \in 1..ConnectionLimit |-> i - 1]

(* The pool after InitOnceIOPatternCallback has run: the client commits   *)
(* its whole region and builds its fixed vector; the server reserves its   *)
(* region and grows once. A failed VirtualAlloc or first growth is a       *)
(* FAIL_FAST.                                                               *)
Initialised(allocOk, commitOk) ==
    IF is_listening
    THEN LET g == Grow(<<>>, 0, commitOk)
         IN [vector |-> g.vector, allocated |-> g.allocated, ff |-> ~allocOk \/ ~g.ok]
    ELSE [vector |-> ClientVector, allocated |-> 0, ff |-> ~allocOk]

(* *rbegin() then pop_back(): the slot taken and the vector left.          *)
PopSlot(vec) == [slot |-> Last(vec), rest |-> Front(vec)]

\* mutant: the copy re-reads *rbegin() of the shared vector after the unlock
CopyTargetReread(c) == IF vector = <<>> THEN held[c] ELSE Last(vector)

(* memcpy_s's destination: next_buffer, taken under the lock.              *)
CopyTarget(c) == held[c]

-----------------------------------------------------------------------------
Init ==
    /\ is_listening \in BOOLEAN
    /\ inited = FALSE
    /\ vector = <<>>
    /\ allocated = 0
    /\ held = [c \in Connections |-> None]
    /\ content = [s \in Slots |-> None]
    /\ threw = [c \in Connections |-> FALSE]
    /\ to_copy = [c \in Connections |-> FALSE]
    /\ fail_fast = FALSE

(* NewConnectionIdBuffer up to the unlock: run the init once; under the   *)
(* lock, grow an empty server vector (FAIL_FAST for a client; bad_alloc if *)
(* growing fails) and pop the last slot into next_buffer.                   *)
NewConnectionIdBuffer(c) ==
    \E allocOk, initOk, growOk \in CommitOutcomes :
        LET pool == IF inited THEN [vector |-> vector, allocated |-> allocated, ff |-> FALSE]
                    ELSE Initialised(allocOk, initOk)
            g == Grow(pool.vector, pool.allocated, growOk)
            empty == pool.vector = <<>>
            vec == IF empty THEN g.vector ELSE pool.vector
        IN /\ ~fail_fast
           /\ held[c] = None
           /\ inited' = TRUE
           /\ allocated' = IF empty THEN g.allocated ELSE pool.allocated
           /\ UNCHANGED <<is_listening, content>>
           /\ CASE pool.ff \/ (empty /\ ~is_listening) ->
                     /\ fail_fast' = TRUE
                     /\ UNCHANGED <<vector, held, threw, to_copy>>
                [] empty /\ ~g.ok ->
                     /\ vector' = vec
                     /\ threw' = [threw EXCEPT ![c] = TRUE]
                     /\ UNCHANGED <<held, to_copy, fail_fast>>
                [] OTHER ->
                     /\ vector' = PopSlot(vec).rest
                     /\ held' = [held EXCEPT ![c] = PopSlot(vec).slot]
                     /\ to_copy' = [to_copy EXCEPT ![c] = TRUE]
                     /\ threw' = [threw EXCEPT ![c] = FALSE]
                     /\ UNCHANGED fail_fast

(* The rest of NewConnectionIdBuffer, outside the lock: memcpy_s copies    *)
(* the connection's ID into next_buffer and the task is returned.           *)
CopyConnectionId(c) ==
    /\ to_copy[c]
    /\ content' = [content EXCEPT ![CopyTarget(c)] = c]
    /\ to_copy' = [to_copy EXCEPT ![c] = FALSE]
    /\ UNCHANGED <<is_listening, inited, vector, allocated, held, threw, fail_fast>>

(* ReleaseConnectionIdBuffer: under the lock push the task's slot (its     *)
(* buffer, or ConnectionIdBuffer + buffer_offset under RIO) back.           *)
ReleaseConnectionIdBuffer(c) ==
    /\ held[c] # None /\ ~to_copy[c]
    /\ vector' = Append(vector, held[c])
    /\ held' = [held EXCEPT ![c] = None]
    /\ UNCHANGED <<is_listening, inited, allocated, content, threw, to_copy, fail_fast>>

Next ==
    \E c \in Connections :
        \/ NewConnectionIdBuffer(c)
        \/ CopyConnectionId(c)
        \/ ReleaseConnectionIdBuffer(c)

Spec == Init /\ [][Next]_vars

-----------------------------------------------------------------------------
TypeOK ==
    /\ is_listening \in BOOLEAN /\ inited \in BOOLEAN /\ fail_fast \in BOOLEAN
    /\ vector \in Seq(Slots)
    /\ allocated \in 0..ServerMaxConnections
    /\ held \in [Connections -> Slots \cup {None}]
    /\ content \in [Slots -> Connections \cup {None}]
    /\ threw \in [Connections -> BOOLEAN]
    /\ to_copy \in [Connections -> BOOLEAN]

\* the slots checked out
HeldSlots == {held[c] : c \in {x \in Connections : held[x] # None}}

(* Spec 4.1: every live slot is distinct. No slot is held by two           *)
(* connections, held and free at once, or free twice.                       *)
SlotsDistinct ==
    /\ \A c, d \in Connections : c # d /\ held[c] # None => held[c] # held[d]
    /\ HeldSlots \cap ToSet(vector) = {}
    /\ IsInjective(vector)

(* No slot is lost or invented: after init the free and held slots are     *)
(* exactly the committed ones (the client's ConnectionLimit, the server's  *)
(* CurrentAllocatedConnectionCount).                                        *)
SlotsConserved ==
    inited /\ ~fail_fast =>
        ToSet(vector) \cup HeldSlots =
            0..(IF is_listening THEN allocated ELSE ConnectionLimit) - 1

(* Every checked-out slot whose ID copy has run holds the ID of its own    *)
(* connection until that connection releases it: the memcpy_s outside the *)
(* lock wrote into the slot popped under the lock, and no other            *)
(* connection's copy, racing it between the unlock and the release, wrote  *)
(* into it.                                                                 *)
OwnIdIntact ==
    \A c \in Connections : held[c] # None /\ ~to_copy[c] => content[held[c]] = c

(* A client whose connections never exceed ConnectionLimit never hits the  *)
(* "vector should never be empty for clients" FAIL_FAST, and a server's    *)
(* checkout fails only when growth fails.                                   *)
NoPoolFailFast == ~fail_fast

=============================================================================
