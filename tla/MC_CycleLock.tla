---------------------------- MODULE MC_CycleLock ----------------------------
(* CycleLock with the four cycles the scheduler can really start.          *)
EXTENDS CycleLock

CONSTANTS watch, recheck, startup_watch, startup_recheck

=============================================================================
