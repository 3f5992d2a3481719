-------------------------- MODULE MediaStreamMessage --------------------------
(***************************************************************************)
(* The UDP media-stream wire format of ctsMediaStreamProtocol.hpp, at byte *)
(* granularity. Senders put on the network the datagrams the code builds:   *)
(* data datagrams laid out by ctsMediaStreamSendRequests (flag, sequence    *)
(* number, QPC, QPF, payload), connection-ID datagrams (MakeConnectionIdTask)*)
(* and START requests (Construct); a misbehaving peer adds runts, a flag    *)
(* followed by too few bytes. A receive lands one datagram in a task buffer *)
(* at its buffer_offset, then ctsMediaStreamMessage validates it            *)
(* (ValidateBufferLengthFromTask) and decodes its fields with the Get*/Set* *)
(* FromTask readers, exactly at the offsets the code reads.                  *)
(*                                                                         *)
(* A byte is the pair <<v, i>>: byte i of the field holding value v. Bytes  *)
(* of the buffer no datagram wrote are <<"Stale", i>>. A reader decodes v   *)
(* only when it finds bytes 0..len-1 of one field in order.                *)
(***************************************************************************)
EXTENDS Integers, Sequences, SequencesExt, FiniteSets

CONSTANTS
    FlagLength,          \* UdpDatagramProtocolHeaderFlagLength (2)
    FieldLength,         \* sequence number, QPC and QPF lengths (8 each)
    ConnectionIdLength,  \* ctsStatistics::ConnectionIdLength
    StartLength,         \* UdpDatagramStartStringLength (5)
    Values,              \* the sequence numbers, QPC and QPF values sent
    ConnectionIds,       \* the connection IDs sent
    PayloadLengths,      \* the payload lengths of data datagrams
    Offsets,             \* the buffer_offset of a receive task
    RecvBufferLength     \* the bytes of a receive task's buffer

\* UdpDatagramDataHeaderLength and UdpDatagramConnectionIdHeaderLength
DataHeaderLength == FlagLength + 3 * FieldLength
ConnectionIdHeaderLength == FlagLength + ConnectionIdLength

VARIABLES
    buf,       \* the receive task's buffer, reused from one receive to the next
    last       \* what the last receive validated and decoded

vars == <<buf, last>>

-----------------------------------------------------------------------------
\* the len bytes of one field holding v
FieldBytes(v, len) == [i \in 1..len |-> <<v, i - 1>>]

\* the value the bytes hold, or "Garbled" when they are not one whole field
DecodeField(bytes) ==
    IF bytes # <<>> /\ bytes = FieldBytes(bytes[1][1], Len(bytes))
    THEN bytes[1][1] ELSE "Garbled"

\* the field of len bytes a reader finds at byte offset off of the buffer
ReadField(task, off, len) == DecodeField(SubSeq(task, off + 1, off + len))

(* The buffers of ctsMediaStreamSendRequests: the data flag, the sequence *)
(* number, the QPC, the QPF, then the payload bytes of the send buffer.    *)
DataDatagram(seq, qpc, qpf, plen) ==
    FieldBytes("FlagData", FlagLength) \o FieldBytes(seq, FieldLength)
        \o FieldBytes(qpc, FieldLength) \o FieldBytes(qpf, FieldLength)
        \o FieldBytes("Payload", plen)

(* MakeConnectionIdTask: the ID flag, then the connection ID.              *)
ConnectionIdDatagram(cid) ==
    FieldBytes("FlagId", FlagLength) \o FieldBytes(cid, ConnectionIdLength)

(* Construct(START): the five bytes of UdpDatagramStartString.             *)
StartDatagram == FieldBytes("Start", StartLength)

\* the receive buffer after a datagram lands at offset off
Landed(old, d, off) ==
    [i \in 1..RecvBufferLength |-> IF i > off /\ i <= off + Len(d) THEN d[i - off] ELSE old[i]]

GetProtocolHeaderFromTask(task, off) == ReadField(task, 0, FlagLength)

\* mutant: the data case checks only that the flag is present
ValidateBufferLengthFromTaskNoData(task, off, completed) ==
    /\ completed >= FlagLength
    /\ \/ /\ GetProtocolHeaderFromTask(task, off) = "FlagData"
       \/ /\ GetProtocolHeaderFromTask(task, off) = "FlagId"
          /\ completed >= ConnectionIdHeaderLength

\* mutant: an unknown flag falls through the switch and is accepted
ValidateBufferLengthFromTaskAnyFlag(task, off, completed) ==
    /\ completed >= FlagLength
    /\ \/ /\ GetProtocolHeaderFromTask(task, off) = "FlagData"
          /\ completed >= DataHeaderLength
       \/ /\ GetProtocolHeaderFromTask(task, off) = "FlagId"
          /\ completed >= ConnectionIdHeaderLength
       \/ GetProtocolHeaderFromTask(task, off) \notin {"FlagData", "FlagId"}

(* ValidateBufferLengthFromTask: at least a flag, and at least the header *)
(* of the frame type the flag names; an unknown flag is rejected.          *)
ValidateBufferLengthFromTask(task, off, completed) ==
    /\ completed >= FlagLength
    /\ \/ /\ GetProtocolHeaderFromTask(task, off) = "FlagData"
          /\ completed >= DataHeaderLength
       \/ /\ GetProtocolHeaderFromTask(task, off) = "FlagId"
          /\ completed >= ConnectionIdHeaderLength

SetConnectionIdFromTask(task, off) == ReadField(task, off + FlagLength, ConnectionIdLength)

\* mutant: the sequence number is read from the start of the datagram
GetSequenceNumberFromTaskNoFlag(task, off) == ReadField(task, off, FieldLength)

GetSequenceNumberFromTask(task, off) == ReadField(task, off + FlagLength, FieldLength)

(* Both readers copy UdpDatagramSequenceNumberLength bytes from           *)
(* buffer_offset + UdpDatagramProtocolHeaderFlagLength, as the code does.   *)
GetQueryPerfCounterFromTask(task, off) == ReadField(task, off + FlagLength, FieldLength)

GetQueryPerfFrequencyFromTask(task, off) == ReadField(task, off + FlagLength, FieldLength)

(* Extract: START only for a datagram of exactly the START string's length *)
(* and bytes; anything else throws ERROR_INVALID_DATA.                      *)
Extract(task, off, completed) ==
    IF completed = StartLength /\ SubSeq(task, off + 1, off + completed) = StartDatagram
    THEN "START" ELSE "InvalidData"

\* the byte ranges each decoder of a frame type reads
ReadRanges(flag, off) ==
    CASE flag = "FlagData" ->
            {[from |-> 0, len |-> FlagLength],
             [from |-> off + FlagLength, len |-> FieldLength]}
      [] flag = "FlagId" ->
            {[from |-> 0, len |-> FlagLength],
             [from |-> off + FlagLength, len |-> ConnectionIdLength]}
      [] OTHER -> {[from |-> 0, len |-> FlagLength]}

-----------------------------------------------------------------------------
\* the frames of a flag whose header of hlen bytes a peer cut short
Runts(flag, hlen) ==
    {[kind |-> "Runt", fields |-> <<>>,
      bytes |-> FieldBytes(flag, FlagLength) \o FieldBytes("Payload", n)] :
        n \in 0..(hlen - FlagLength - 1)}

(* Every datagram a receive may complete with: the frames the protocol   *)
(* builds, START requests, and runts whose header a peer cut short.       *)
Frames ==
    {[kind |-> "Data", fields |-> <<seq, qpc, qpf>>, bytes |-> DataDatagram(seq, qpc, qpf, plen)] :
        seq \in Values, qpc \in Values, qpf \in Values, plen \in PayloadLengths}
    \cup {[kind |-> "Id", fields |-> <<cid>>, bytes |-> ConnectionIdDatagram(cid)] :
            cid \in ConnectionIds}
    \cup {[kind |-> "Start", fields |-> <<>>, bytes |-> StartDatagram]}
    \cup Runts("FlagData", DataHeaderLength) \cup Runts("FlagId", ConnectionIdHeaderLength)

NoReceive == [kind |-> "None"]

Init ==
    /\ buf = [i \in 1..RecvBufferLength |-> <<"Stale", i - 1>>]
    /\ last = NoReceive

(* A media-stream receive into the connection's reused buffer completes    *)
(* with one datagram, which overwrites only the bytes it carries. The      *)
(* client validates it and, if valid, decodes the fields of its frame type; *)
(* the server parses it with Extract.                                        *)
Receive ==
    \E d \in Frames, off \in Offsets :
        /\ off + Len(d.bytes) <= RecvBufferLength
        /\ LET nbuf == Landed(buf, d.bytes, off)
               completed == Len(d.bytes)
               valid == ValidateBufferLengthFromTask(nbuf, off, completed)
               flag == GetProtocolHeaderFromTask(nbuf, off)
               data == valid /\ flag = "FlagData"
               id == valid /\ flag = "FlagId"
           IN /\ buf' = nbuf
              /\ last' = [kind |-> "Received", sent |-> d, offset |-> off,
                          valid |-> valid, flag |-> flag,
                          reads |-> IF valid THEN ReadRanges(flag, off) ELSE {},
                          seq |-> IF data THEN GetSequenceNumberFromTask(nbuf, off) ELSE "None",
                          qpc |-> IF data THEN GetQueryPerfCounterFromTask(nbuf, off) ELSE "None",
                          qpf |-> IF data THEN GetQueryPerfFrequencyFromTask(nbuf, off) ELSE "None",
                          cid |-> IF id THEN SetConnectionIdFromTask(nbuf, off) ELSE "None",
                          extracted |-> Extract(nbuf, off, completed)]

Next == Receive

Spec == Init /\ [][Next]_vars

-----------------------------------------------------------------------------
Tags == {"FlagData", "FlagId", "Payload", "Start", "Stale"}

Decoded == Values \cup ConnectionIds \cup Tags \cup {"Garbled", "None"}

TypeOK ==
    /\ buf \in [1..RecvBufferLength -> (Values \cup ConnectionIds \cup Tags) \X Nat]
    /\ \/ last = NoReceive
       \/ /\ last.sent \in Frames /\ last.offset \in Offsets
          /\ last.valid \in BOOLEAN
          /\ last.valid => last.flag \in {"FlagData", "FlagId"}
          /\ {last.flag, last.seq, last.qpc, last.qpf, last.cid} \subseteq Decoded
          /\ last.extracted \in {"START", "InvalidData"}

\* a received datagram that validated
Validated == last.kind = "Received" /\ last.valid

(* ValidateBufferLengthFromTask accepts exactly the datagrams the protocol *)
(* builds, data and connection-ID frames, and rejects START requests and   *)
(* runts; the server's Extract accepts exactly the START requests.         *)
AcceptsExactlyProtocolFrames ==
    last.kind = "Received" =>
        /\ last.valid <=> last.sent.kind \in {"Data", "Id"}
        /\ (last.extracted = "START") <=> last.sent.kind = "Start"

(* Once a datagram validates, every reader its frame type calls stays      *)
(* within the bytes the receive completed.                                  *)
ReadsWithinDatagram ==
    Validated =>
        \A r \in last.reads :
            r.from >= last.offset /\ r.from + r.len <= last.offset + Len(last.sent.bytes)

(* A validated data frame decodes to the sequence number it was sent with, *)
(* and a validated ID frame to its connection ID.                           *)
SequenceAndIdRoundTrip ==
    Validated =>
        /\ last.sent.kind = "Data" => last.seq = last.sent.fields[1]
        /\ last.sent.kind = "Id" => last.cid = last.sent.fields[1]

(* Spec 8: decode(encode(seq, qpc, qpf, payload)) yields the fields        *)
(* bit-exactly, the QPC and QPF included.                                    *)
TimestampRoundTrip ==
    Validated /\ last.sent.kind = "Data" =>
        /\ last.qpc = last.sent.fields[2]
        /\ last.qpf = last.sent.fields[3]

=============================================================================
