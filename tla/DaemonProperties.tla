------------------------- MODULE DaemonProperties -------------------------
(***************************************************************************)
(* What must be true of the daemons and their pid file.                    *)
(***************************************************************************)
EXTENDS Daemon

Places == {"unused", "gone", "other"} \cup Starting \cup Serving \cup Killing

(***************************************************************************)
(* The type invariant.                                                     *)
(***************************************************************************)
TypeOK == /\ file \in Pids \cup {NoFile, Empty}
          /\ at \in [Pids -> Places]
          /\ opt \in [Pids -> Option]
          /\ got \in [Pids -> Pids \cup {Group, Dead}]
          /\ term \subseteq Pids
          /\ reused \in 0..MaxReuse
          /\ overlap \in BOOLEAN /\ torn \in BOOLEAN /\ stray \in BOOLEAN

(***************************************************************************)
(* "%s alredy run with pid" (smsf-daemon.c:51): a daemon is always the one *)
(* the pid file names, so there are never two on one modem and -K finds    *)
(* the one there is - unless two starts were between their look at the     *)
(* file and the end of its writing at the same time.  Crashes in the       *)
(* middle of a start, an empty file with its uninitialized pid, kills and  *)
(* reused pids do not make two.                                            *)
(***************************************************************************)
DaemonIsRegistered == ~ overlap => \A p \in Daemons : file = p

(***************************************************************************)
(* "kill running daemon" (smsf-main.c:52): SIGTERM goes to a process that  *)
(* is not the program only after the pid in the file, which is never       *)
(* removed, was given to that process, or when the file was read between   *)
(* its truncation and its writing.                                         *)
(***************************************************************************)
KillsTheDaemon == stray => reused > 0 \/ torn

(***************************************************************************)
(* The loop of kill_running() that sends SIGTERM until kill() fails ends,  *)
(* unless the number it sends it to is or becomes that of an unrelated     *)
(* process, which may ignore the signal: also when the daemon crashes, is  *)
(* killed by another -K, or is itself about to kill.                       *)
(***************************************************************************)
KillEnds ==
  \A p \in Pids : at[p] = "signal" ~> at[p] # "signal" \/ at[got[p]] = "other"
=============================================================================
