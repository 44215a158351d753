---------------------------- MODULE MCEventStore ----------------------------
(* Small instances of EventStore for TLC: the constants are all in the cfg   *)
(* files.                                                                    *)
EXTENDS EventStore
=============================================================================
