----------------------------- MODULE MCServerJobs -----------------------------
(* Small instances of ServerJobs for TLC.                                  *)
EXTENDS ServerJobs

CONSTANTS t1, t2
=============================================================================
