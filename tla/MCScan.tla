------------------------------- MODULE MCScan -------------------------------
(* Values for the constants of Scan. *)
EXTENDS Scan, TLC

CONSTANTS w1, w2

TwoWorkers == {w1, w2}
OneWorker  == {w1}
=============================================================================
