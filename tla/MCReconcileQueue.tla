--------------------------- MODULE MCReconcileQueue ---------------------------
(***************************************************************************)
(* Small queues: a scan takes one or two operations instead of 20.         *)
(***************************************************************************)
EXTENDS ReconcileQueue

\* 30 seconds are two or three scans: the operation is put off when its answer
\* comes, a little after the scan it was picked by.
MCRegular == {2, 3}
=============================================================================
