-------------------------------- MODULE MCMain --------------------------------
(* The settings the runs of Main enumerate: every media-stream setting     *)
(* built from a few values per field, chosen so that each check of        *)
(* CalculateTransferSize fails for some of them, and some are accepted     *)
(* with and without the 64-bit total wrapping (scaled: 7-bit unsigned      *)
(* long, 14-bit unsigned long long).                                       *)
EXTENDS Main

MCMediaStreamInputs ==
    [bps : {0, 12, 320, 8000, 8080}, fps : {0, 1, 9}, depth : {0, 15}, secs : {0, 2, 17}]
=============================================================================
