-------------------------- MODULE MCIOPatternState --------------------------
(* Model-checking instance of IOPatternState: a 3-byte transfer in buffers *)
(* of up to 2 bytes with up to 2 IOs posted, so that two partial          *)
(* completions can cross max_transfer in either order.                    *)
EXTENDS IOPatternState

MCErrorCodes == {"NO_ERROR", "WSAECONNRESET", "WSAENOBUFS"}
=============================================================================
