------------------------------ MODULE Connection ------------------------------
(***************************************************************************)
(* What one end of a TCP connection promises, whatever the IO function and *)
(* threads that drive it (spec 4.2 and 6, "TCP connection-start protocol"  *)
(* and "TCP completion protocol"): it opens with the connection id, moves  *)
(* data until exactly MaxTransfer bytes are confirmed, exchanges the       *)
(* status word, shuts down, and ends Completed; or it fails at any point   *)
(* before the end, keeping the bytes it had. Completed and Failed are      *)
(* final, confirmed bytes never go back, and the connection always ends.   *)
(***************************************************************************)
EXTENDS Naturals

CONSTANT MaxTransfer

VARIABLES
    phase,       \* where the connection is in the protocol
    confirmed    \* the data bytes confirmed so far

vars == <<phase, confirmed>>

Live == {"Opening", "Transferring", "Confirming", "ShuttingDown"}
Ended == {"Completed", "Failed"}

Init == phase = "Opening" /\ confirmed = 0

\* the connection id is exchanged: data may flow
Open == phase = "Opening" /\ phase' = "Transferring" /\ UNCHANGED confirmed

(* n more bytes are confirmed; once all of them are, the connection may    *)
(* move on to the status word in the same step.                            *)
Transfer ==
    /\ phase = "Transferring"
    /\ \E n \in 1..(MaxTransfer - confirmed) :
          /\ confirmed' = confirmed + n
          /\ phase' \in IF confirmed' = MaxTransfer THEN {"Transferring", "Confirming"}
                        ELSE {"Transferring"}

\* the status word is sent or received: the shutdown starts
Confirm == phase = "Confirming" /\ phase' = "ShuttingDown" /\ UNCHANGED confirmed

\* the shutdown ends the connection successfully
Succeed == phase = "ShuttingDown" /\ phase' = "Completed" /\ UNCHANGED confirmed

\* any live connection may fail
Fail == phase \in Live /\ phase' = "Failed" /\ UNCHANGED confirmed

Next == Open \/ Transfer \/ Confirm \/ Succeed \/ Fail

Spec == Init /\ [][Next]_vars /\ WF_vars(Next)


=============================================================================
