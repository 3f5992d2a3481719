------------------------- MODULE MCMediaStreamMessage -------------------------
(* Field lengths are the code's (2-byte flag, 8-byte fields, 5-byte START); *)
(* the connection ID is scaled from 32 bytes to 4. Two values per field are *)
(* enough to tell a QPC from a sequence number.                             *)
EXTENDS MediaStreamMessage

MCPayloadLengths == {1}
MCRecvBufferLength == DataHeaderLength + 1
=============================================================================
