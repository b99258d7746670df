----------------------------- MODULE MCSupervisedRun -----------------------------
(* A run with a preflight that is paused twice and restarted once, while    *)
(* two calls fail.                                                          *)
EXTENDS SupervisedRun
================================================================================
