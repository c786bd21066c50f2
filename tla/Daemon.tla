------------------------------ MODULE Daemon ------------------------------
(***************************************************************************)
(* The program on Linux, from its start to the main loop: the options of   *)
(* main-linux/smsf-main.c and daemonize() and kill_running() of            *)
(* smsf-daemon.c.  Several invocations share one pid file, which none of   *)
(* them removes, and one modem.  A pid is used by the program once; when   *)
(* its process is gone the system may give it to an unrelated one.  The    *)
(* user may signal and write to all of them (pid files are in /var/run).   *)
(***************************************************************************)
EXTENDS Integers

CONSTANTS Pids,          \* the processes
          Invocations,   \* the options they may be started with
          NoFile, Empty, \* the pid file before its creation, and truncated
          Group,         \* pid 0 or -1: kill() finds a process, not a daemon
          Dead,          \* a number that is no process's
          MaxReuse       \* bound on the pids given to others

Option == [kill : BOOLEAN, daemon : BOOLEAN, command : BOOLEAN]

ASSUME DaemonAssumption ==
  /\ Invocations \subseteq Option
  /\ {NoFile, Empty, Group, Dead} \cap Pids = {}
  /\ NoFile # Empty /\ Group # Dead
  /\ MaxReuse \in Nat

VARIABLES file,     \* PID_PATH/s3smsf.pid
          at,       \* where each process is
          opt,      \* its options
          got,      \* pid, in write_pid_file() and kill_running()
          term,     \* processes that have SIGTERM pending
          reused,   \* pids given to unrelated processes so far
          overlap,  \* history: two starts were in write_pid_file() together
          torn,     \* history: pid was read from an empty file
          stray     \* history: SIGTERM went to an unrelated process

locals == <<opt, got>>
history == <<overlap, torn, stray>>
vars == <<file, at, locals, term, reused, history>>

Starting == {"access", "read", "check", "create", "write"}
Serving == {"open", "run"}
Killing == {"find", "probe", "signal", "verify"}

None == [kill |-> FALSE, daemon |-> FALSE, command |-> FALSE]

Alive(p) == p = Group \/ (p \in Pids /\ at[p] \notin {"unused", "gone"})

\* The daemons: in the background and registered in the pid file.
Daemons == {p \in Pids : opt[p].daemon /\ at[p] \in Serving}

Init == /\ file = NoFile
        /\ at \in [Pids -> {"unused", "other"}]
        /\ opt = [p \in Pids |-> None]
        /\ got = [p \in Pids |-> Dead]
        /\ term = {} /\ reused = 0
        /\ overlap = FALSE /\ torn = FALSE /\ stray = FALSE

Go(p, place) == at' = [at EXCEPT ![p] = place]

Exit(p) == /\ Go(p, "gone")
           /\ opt' = [opt EXCEPT ![p] = None]
           /\ got' = [got EXCEPT ![p] = Dead]
           /\ term' = term \ {p}

-----------------------------------------------------------------------------
(***************************************************************************)
(* main(): the options.  -c with -D is refused; -K comes before -D.  When  *)
(* fork() fails daemonize() returns, and the process goes on in the        *)
(* foreground.                                                             *)
(***************************************************************************)
Invoke(p, o) ==
  /\ at[p] = "unused"
  /\ ~ (o.daemon /\ o.command)
  /\ opt' = [opt EXCEPT ![p] = o]
  /\ \/ o.kill /\ Go(p, "find") /\ UNCHANGED overlap
     \/ /\ ~ o.kill /\ o.daemon
        /\ Go(p, "access")
        /\ overlap' = (overlap \/ \E q \in Pids : at[q] \in Starting)
     \/ ~ o.kill /\ ~ o.daemon /\ Go(p, "open") /\ UNCHANGED overlap
  /\ UNCHANGED <<file, got, term, reused, torn, stray>>

ForkFails(p, o) == o.daemon /\ Invoke(p, [o EXCEPT !.daemon = FALSE])

(***************************************************************************)
(* write_pid_file().                                                       *)
(***************************************************************************)
Access(p) == /\ at[p] = "access"
             /\ Go(p, IF file = NoFile THEN "create" ELSE "read")
             /\ UNCHANGED <<file, locals, term, reused, history>>

\* Mutant: the number is not stored.
ScanNothing(p, next) ==
  /\ \E g \in Pids \cup {Group, Dead} : got' = [got EXCEPT ![p] = g]
  /\ torn' = (torn \/ file = Empty)
  /\ Go(p, next)
  /\ UNCHANGED <<file, opt, term, reused, overlap, stray>>

\* fscanf() of an empty file leaves pid as it was: uninitialized.
Scan(p, next) ==
  /\ IF file = Empty THEN \E g \in Pids \cup {Group, Dead} :
                            got' = [got EXCEPT ![p] = g]
                     ELSE got' = [got EXCEPT ![p] = file]
  /\ torn' = (torn \/ file = Empty)
  /\ Go(p, next)
  /\ UNCHANGED <<file, opt, term, reused, overlap, stray>>

ReadPid(p) == at[p] = "read" /\ Scan(p, "check")

\* Mutant: the process in the file is not looked for.
CheckPidNever(p) == /\ at[p] = "check"
                    /\ Go(p, "create")
                    /\ UNCHANGED <<file, locals, term, reused, history>>

CheckPid(p) == /\ at[p] = "check"
               /\ IF Alive(got[p])
                    THEN Exit(p)
                    ELSE Go(p, "create") /\ UNCHANGED <<locals, term>>
               /\ UNCHANGED <<file, reused, history>>

\* fopen() with "w" truncates; the number is written by fclose().
Create(p) == /\ at[p] = "create"
             /\ file' = Empty
             /\ Go(p, "write")
             /\ UNCHANGED <<locals, term, reused, history>>

Write(p) == /\ at[p] = "write"
            /\ file' = p
            /\ Go(p, "open")
            /\ UNCHANGED <<locals, term, reused, history>>

CannotOpenFile(p) == /\ at[p] \in {"read", "create", "find"}
                     /\ Exit(p)
                     /\ UNCHANGED <<file, reused, history>>

\* From now on, in the background or not, the process serves its modem.
com_open(p) == /\ at[p] = "open"
               /\ Go(p, "run")
               /\ UNCHANGED <<file, locals, term, reused, history>>

\* No modem; or the one command of -c was executed.
Ends(p) == /\ \/ at[p] = "open"
              \/ at[p] = "run" /\ opt[p].command
           /\ Exit(p)
           /\ UNCHANGED <<file, reused, history>>

-----------------------------------------------------------------------------
(***************************************************************************)
(* kill_running().                                                         *)
(***************************************************************************)
\* Mutant: the pid file may be missing.
FindUnchecked(p) == /\ at[p] = "find"
                    /\ Scan(p, "probe")

Find(p) == /\ at[p] = "find"
           /\ file # NoFile
           /\ Scan(p, "probe")

Probe(p) == /\ at[p] = "probe"
            /\ IF ~ Alive(got[p])
                 THEN Exit(p)
                 ELSE /\ Go(p, IF got[p] = Group THEN "verify" ELSE "signal")
                      /\ UNCHANGED <<locals, term>>
            /\ UNCHANGED <<file, reused, history>>

\* while(kill(pid, SIGTERM) != -1)
Signal(p) ==
  /\ at[p] = "signal"
  /\ IF Alive(got[p])
       THEN /\ term' = term \cup {got[p]}
            /\ stray' = (stray \/ at[got[p]] = "other")
            /\ UNCHANGED at
       ELSE Go(p, "verify") /\ UNCHANGED <<term, stray>>
  /\ UNCHANGED <<file, locals, reused, overlap, torn>>

\* The exit code says whether the process is gone.
Verify(p) == /\ at[p] = "verify"
             /\ Exit(p)
             /\ UNCHANGED <<file, reused, history>>

-----------------------------------------------------------------------------
\* Mutant: SIGTERM is ignored as the terminal's signals are.
TerminateOnlyKillers(p) == /\ p \in term
                           /\ at[p] \notin Serving
                           /\ Exit(p)
                           /\ UNCHANGED <<file, reused, history>>

\* SIGINT_hdl(), or the default action before set_signal().
Terminate(p) == /\ p \in term
                /\ Exit(p)
                /\ UNCHANGED <<file, reused, history>>

\* CRASH_hdl(), kill -9: the process ends where it is.
Crash(p) == /\ at[p] \in Starting \cup Serving
            /\ Exit(p)
            /\ UNCHANGED <<file, reused, history>>

\* The system gives the pid to a process that is not the program.
Reuse(p) == /\ at[p] = "gone"
            /\ reused < MaxReuse
            /\ reused' = reused + 1
            /\ Go(p, "other")
            /\ UNCHANGED <<file, locals, term, history>>

-----------------------------------------------------------------------------
write_pid_file(p) == \/ Access(p) \/ ReadPid(p) \/ CheckPid(p) \/ Create(p)
                     \/ Write(p)

kill_running(p) == Find(p) \/ Probe(p) \/ Signal(p) \/ Verify(p)

main(p) == \/ \E o \in Invocations : Invoke(p, o) \/ ForkFails(p, o)
           \/ write_pid_file(p) \/ kill_running(p)
           \/ CannotOpenFile(p) \/ com_open(p) \/ Ends(p)

Next == \E p \in Pids : main(p) \/ Terminate(p) \/ Crash(p) \/ Reuse(p)

Spec == Init /\ [][Next]_vars

(***************************************************************************)
(* The program dies of SIGTERM wherever it is: set_signal() installs a     *)
(* handler that exits.  Of unrelated processes nothing is known.           *)
(***************************************************************************)
FairSpec ==
  /\ Spec
  /\ \A p \in Pids : /\ WF_vars(kill_running(p))
                     /\ WF_vars(at[p] # "other" /\ Terminate(p))
=============================================================================
