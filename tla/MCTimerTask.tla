----------------------------- MODULE MCTimerTask -----------------------------
(* Two tasks of a worker: the policy instances before and after a reload.  *)
EXTENDS TimerTask
CONSTANTS t1, t2
=============================================================================
