--------------------------- MODULE MediaStreamSend ---------------------------
(***************************************************************************)
(* ctsMediaStreamSendRequests and its iterator (ctsMediaStreamProtocol.hpp) *)
(* split one send of bytes_to_send bytes into UDP datagrams: five WSABUFs   *)
(* (flag, sequence number, QPC, QPF, payload), at most                      *)
(* UdpDatagramMaximumSizeBytes each, and never leaving a remainder too      *)
(* small to carry the header and one byte. The caller dereferences the      *)
(* iterator and sends one datagram per step until it equals end().          *)
(***************************************************************************)
EXTENDS Integers, Sequences, SequencesExt

CONSTANTS
    FlagLength,       \* UdpDatagramProtocolHeaderFlagLength (2)
    FieldLength,      \* sequence number, QPC and QPF lengths (8 each)
    MaximumSizeBytes, \* UdpDatagramMaximumSizeBytes (64000, scaled)
    Requests,         \* the bytes_to_send values a send request is built with
    MaxDatagrams      \* bound on the datagrams one request may yield

\* UdpDatagramDataHeaderLength
DataHeaderLength == FlagLength + 3 * FieldLength

ASSUME MaximumSizeBytes > 2 * DataHeaderLength + 1
ASSUME Requests \subseteq Nat

VARIABLES
    request,        \* the ctor's _bytes_to_send
    bytes_to_send,  \* the iterator's bytes_to_send
    payload_len,    \* wsa_buf_array[4].len
    at_end,         \* qpc_address == nullptr: the iterator equals end()
    ctor_ff,        \* the ctor's FAIL_FAST (request not above the header)
    sent            \* the datagram lengths sent so far

vars == <<request, bytes_to_send, payload_len, at_end, ctor_ff, sent>>

-----------------------------------------------------------------------------
\* mutant: the short-remainder adjustment tests < instead of <=
BufferLengthNoEqual(bytes) ==
    LET payload == IF bytes > MaximumSizeBytes THEN MaximumSizeBytes - DataHeaderLength
                   ELSE bytes - DataHeaderLength
        remaining == bytes - (DataHeaderLength + payload)
        delta == IF remaining > 0 /\ remaining < DataHeaderLength
                 THEN DataHeaderLength + 1 - remaining ELSE 0
    IN [payload |-> payload - delta, total |-> DataHeaderLength + payload - delta]

\* mutant: the short-remainder adjustment shortens the payload, not the total
BufferLengthKeepTotal(bytes) ==
    LET payload == IF bytes > MaximumSizeBytes THEN MaximumSizeBytes - DataHeaderLength
                   ELSE bytes - DataHeaderLength
        remaining == bytes - (DataHeaderLength + payload)
        delta == IF remaining > 0 /\ remaining <= DataHeaderLength
                 THEN DataHeaderLength + 1 - remaining ELSE 0
    IN [payload |-> payload - delta, total |-> DataHeaderLength + payload]

\* mutant: the total leaves out the four header WSABUFs
BufferLengthNoHeader(bytes) ==
    LET payload == IF bytes > MaximumSizeBytes THEN MaximumSizeBytes - DataHeaderLength
                   ELSE bytes - DataHeaderLength
        remaining == bytes - (DataHeaderLength + payload)
        delta == IF remaining > 0 /\ remaining <= DataHeaderLength
                 THEN DataHeaderLength + 1 - remaining ELSE 0
    IN [payload |-> payload - delta, total |-> payload - delta]

(* update_buffer_length: the payload length of the next datagram and the  *)
(* datagram's total length, shortened when the bytes left after it would *)
(* be positive but no more than a header.                                  *)
BufferLength(bytes) ==
    LET payload == IF bytes > MaximumSizeBytes THEN MaximumSizeBytes - DataHeaderLength
                   ELSE bytes - DataHeaderLength
        remaining == bytes - (DataHeaderLength + payload)
        delta == IF remaining > 0 /\ remaining <= DataHeaderLength
                 THEN DataHeaderLength + 1 - remaining ELSE 0
    IN [payload |-> payload - delta, total |-> DataHeaderLength + payload - delta]

(* The ctor and begin(): FAIL_FAST unless the request exceeds the header; *)
(* the begin() iterator sizes its first datagram.                          *)
Init ==
    /\ request \in Requests
    /\ ctor_ff = (request <= DataHeaderLength)
    /\ LET first == BufferLength(request)
       IN /\ payload_len = IF ctor_ff THEN 0 ELSE first.payload
          /\ bytes_to_send = IF ctor_ff THEN request ELSE request - first.total
    /\ at_end = ctor_ff
    /\ sent = <<>>

(* The caller sends *it (the five WSABUFs) and applies ++: at zero bytes  *)
(* left the iterator becomes end(), else it sizes the next datagram.       *)
SendDatagram ==
    /\ ~at_end
    /\ Len(sent) < MaxDatagrams
    /\ sent' = Append(sent, DataHeaderLength + payload_len)
    /\ IF bytes_to_send = 0
       THEN /\ at_end' = TRUE
            /\ UNCHANGED <<bytes_to_send, payload_len>>
       ELSE LET next == BufferLength(bytes_to_send)
            IN /\ payload_len' = next.payload
               /\ bytes_to_send' = bytes_to_send - next.total
               /\ UNCHANGED at_end
    /\ UNCHANGED <<request, ctor_ff>>

Next == SendDatagram

Spec == Init /\ [][Next]_vars /\ WF_vars(SendDatagram)

-----------------------------------------------------------------------------
(* The unsigned lengths never wrap: bytes_to_send and the payload WSABUF  *)
(* length stay natural numbers, the payload within a datagram.             *)
TypeOK ==
    /\ request \in Requests
    /\ bytes_to_send \in Nat /\ payload_len \in 0..MaximumSizeBytes
    /\ at_end \in BOOLEAN /\ ctor_ff \in BOOLEAN
    /\ sent \in Seq(Nat)

\* the sum of the datagram lengths sent
SentBytes == FoldSeq(LAMBDA a, b : a + b, 0, sent)

\* the fewest datagrams of at most MaximumSizeBytes that hold n bytes
MinDatagrams(n) == (n + MaximumSizeBytes - 1) \div MaximumSizeBytes

(* Every datagram the iterator yields carries the full header and at     *)
(* least one payload byte, and fits UdpDatagramMaximumSizeBytes (spec 3,  *)
(* 4.3), whatever the request size.                                       *)
DatagramsWellFormed ==
    \A i \in 1..Len(sent) : sent[i] \in (DataHeaderLength + 1)..MaximumSizeBytes

(* A request the ctor accepts is sent in full, in as few datagrams as the *)
(* maximum size allows: the iterator reaches end() exactly when the       *)
(* datagrams add up to the request.                                       *)
RequestSentExactly ==
    ~ctor_ff /\ at_end =>
        /\ SentBytes = request
        /\ Len(sent) = MinDatagrams(request)

(* Every accepted request reaches end().                                  *)
EventuallyEnd == ~ctor_ff => <>at_end

=============================================================================
