--------------------------- MODULE MCMessageFiles ---------------------------
EXTENDS MessageFiles, TLC

CONSTANTS p1, p2

(* Messages with two files and with none.                                  *)
FileCounts == p1 :> 2 @@ p2 :> 0
=============================================================================
