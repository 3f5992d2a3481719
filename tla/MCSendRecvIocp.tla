--------------------------- MODULE MCSendRecvIocp ---------------------------
(* Model values for the SendRecvIocp runs.                                 *)
EXTENDS SendRecvIocp

MCErrorCodes == {"NO_ERROR", "WSAECONNRESET"}
=============================================================================
