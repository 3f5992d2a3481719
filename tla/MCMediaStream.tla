----------------------------- MODULE MCMediaStream -----------------------------
(* One UDP media-stream endpoint. The server splits each frame into        *)
(* datagrams with ctsMediaStreamSendRequests (MediaStreamSend); the client *)
(* validates and decodes the datagrams it receives (MediaStreamMessage).   *)
(* The role is chosen in Init, as ctsConfig fixes it before any IO: the    *)
(* sender never receives data frames and the receiver holds no send        *)
(* request, so the other half's variables keep one initial value.          *)
(*                                                                         *)
(* Header fields keep their real lengths (2-byte flag, 8-byte fields, a    *)
(* 26-byte data header, 5-byte START). The maximum datagram is scaled from *)
(* 64000 to 60 so that every request of up to five datagrams, and every    *)
(* remainder next to the header length, is enumerated; the connection ID   *)
(* is scaled from 32 bytes to 4, and two values per field tell a QPC from  *)
(* a sequence number.                                                      *)
EXTENDS Naturals, FiniteSets

CONSTANTS
    FlagLength, FieldLength, MaximumSizeBytes, Requests, MaxDatagrams,
    ConnectionIdLength, StartLength, Values, ConnectionIds, PayloadLengths,
    Offsets, RecvBufferLength

VARIABLES
    role,
    request, bytes_to_send, payload_len, at_end, ctor_ff, sent,
    buf, last

send_vars == <<request, bytes_to_send, payload_len, at_end, ctor_ff, sent>>
recv_vars == <<buf, last>>
vars == <<role, send_vars, recv_vars>>

Snd == INSTANCE MediaStreamSend
Rcv == INSTANCE MediaStreamMessage

MCRequests == 20..300
MCPayloadLengths == {1}
MCRecvBufferLength == FlagLength + 3 * FieldLength + 1

Init ==
    /\ role \in {"sender", "receiver"}
    /\ Rcv!Init
    /\ Snd!Init
    /\ role = "receiver" => request = CHOOSE r \in Requests : TRUE

SenderStep == role = "sender" /\ Snd!SendDatagram /\ UNCHANGED <<role, recv_vars>>

ReceiverStep == role = "receiver" /\ Rcv!Receive /\ UNCHANGED <<role, send_vars>>

Next == SenderStep \/ ReceiverStep

(* The server's send loop applies ++ until end().                          *)
Spec == Init /\ [][Next]_vars /\ WF_vars(SenderStep)

-----------------------------------------------------------------------------
\* both halves keep their types
TypeOK == role \in {"sender", "receiver"} /\ Snd!TypeOK /\ Rcv!TypeOK

(* Sender: every datagram the iterator yields carries the full header and  *)
(* at least one payload byte and fits UdpDatagramMaximumSizeBytes.         *)
DatagramsWellFormed == Snd!DatagramsWellFormed

(* Sender: a request the ctor accepts is sent in full, in as few           *)
(* datagrams as the maximum size allows.                                   *)
RequestSentExactly == Snd!RequestSentExactly

(* Sender: the send loop over an accepted request reaches end().           *)
EventuallyEnd == role = "sender" => Snd!EventuallyEnd

(* Receiver: ValidateBufferLengthFromTask accepts exactly the frames the    *)
(* protocol builds, whatever stale bytes the reused buffer holds.           *)
AcceptsExactlyProtocolFrames == Rcv!AcceptsExactlyProtocolFrames

(* Receiver: every field read after a successful validation lies inside    *)
(* the datagram just received.                                              *)
ReadsWithinDatagram == Rcv!ReadsWithinDatagram

(* Receiver: the sequence number and connection ID decode to what was sent. *)
SequenceAndIdRoundTrip == Rcv!SequenceAndIdRoundTrip

=============================================================================
