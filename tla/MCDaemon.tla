----------------------------- MODULE MCDaemon -----------------------------
(***************************************************************************)
(* Instances of the daemon for TLC.                                        *)
(***************************************************************************)
EXTENDS DaemonProperties, TLC

Command == [None EXCEPT !.command = TRUE]
Background == [None EXCEPT !.daemon = TRUE]
Kill == [None EXCEPT !.kill = TRUE]

MCInvocations == {None, Command, Background, Kill}
=============================================================================
