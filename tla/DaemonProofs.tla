--------------------------- MODULE DaemonProofs ---------------------------
(***************************************************************************)
(* There is one daemon, the pid file names it, and -K hits it: for any     *)
(* number of processes, options and reused pids.                           *)
(***************************************************************************)
EXTENDS DaemonProperties, TLAPS

(***************************************************************************)
(* A process reads a pid file it found, and signals a single process.      *)
(***************************************************************************)
FileFound == \A p \in Pids : /\ at[p] = "read" => file # NoFile
                             /\ at[p] = "signal" => got[p] # Group

TypeInv == TypeOK /\ FileFound

LEMMA NoneIsOption == None \in Option
  BY DEF None, Option

LEMMA PlacesAre ==
  Places = {"unused", "gone", "other", "access", "read", "check", "create",
            "write", "open", "run", "find", "probe", "signal", "verify"}
  BY DEF Places, Starting, Serving, Killing

\* A process that ends leaves everything well typed.
LEMMA ExitTypes ==
  ASSUME TypeInv, NEW p \in Pids, Exit(p), UNCHANGED <<file, reused, history>>
  PROVE  TypeInv'
<1>1. at' = [at EXCEPT ![p] = "gone"]
  BY DEF Exit, Go
<1>2. at' \in [Pids -> Places]
  BY <1>1, PlacesAre DEF TypeInv, TypeOK
<1>3. opt' \in [Pids -> Option]
  BY NoneIsOption DEF Exit, TypeInv, TypeOK
<1>4. got' \in [Pids -> Pids \cup {Group, Dead}]
  BY DEF Exit, TypeInv, TypeOK
<1>5. term' \subseteq Pids
  BY DEF Exit, TypeInv, TypeOK
<1>6. FileFound'
  BY <1>1 DEF FileFound, TypeInv, TypeOK, history, Exit
<1> QED
  BY <1>2, <1>3, <1>4, <1>5, <1>6 DEF TypeInv, TypeOK, history

\* A process that goes on, with its locals and the file as they are.
LEMMA GoTypes ==
  ASSUME TypeInv, NEW p \in Pids, NEW place \in Places, Go(p, place),
         place = "read" => file # NoFile,
         place = "signal" => got[p] # Group,
         UNCHANGED <<file, locals, reused>>,
         term' \subseteq Pids,
         overlap' \in BOOLEAN, torn' \in BOOLEAN, stray' \in BOOLEAN
  PROVE  TypeInv'
<1>1. at' = [at EXCEPT ![p] = place]
  BY DEF Go
<1>2. at' \in [Pids -> Places]
  BY <1>1 DEF TypeInv, TypeOK
<1>3. FileFound'
  BY <1>1 DEF FileFound, TypeInv, TypeOK, locals
<1> QED
  BY <1>2, <1>3 DEF TypeInv, TypeOK, locals

LEMMA InvokeTypes ==
  ASSUME TypeInv, NEW p \in Pids, NEW o \in Option, Invoke(p, o)
  PROVE  TypeInv'
<1>1. opt' \in [Pids -> Option]
  BY DEF Invoke, TypeInv, TypeOK
<1>2. overlap' \in BOOLEAN
  BY DEF Invoke, TypeInv, TypeOK
<1>3. PICK place \in {"find", "access", "open"} : at' = [at EXCEPT ![p] = place]
  BY DEF Invoke, Go
<1>4. at' \in [Pids -> Places]
  BY <1>3, PlacesAre DEF TypeInv, TypeOK
<1>5. FileFound'
  BY <1>3 DEF FileFound, TypeInv, TypeOK, Invoke
<1> QED
  BY <1>1, <1>2, <1>4, <1>5 DEF TypeInv, TypeOK, Invoke

LEMMA ScanTypes ==
  ASSUME TypeInv, NEW p \in Pids, NEW next \in {"check", "probe"}, Scan(p, next),
         file # NoFile
  PROVE  TypeInv'
<1>1. at' = [at EXCEPT ![p] = next]
  BY DEF Scan, Go
<1>2. at' \in [Pids -> Places]
  BY <1>1, PlacesAre DEF TypeInv, TypeOK
<1>3. FileFound'
  BY <1>1 DEF FileFound, TypeInv, TypeOK, Scan
<1>4. \E g \in Pids \cup {Group, Dead} : got' = [got EXCEPT ![p] = g]
  BY DEF Scan, TypeInv, TypeOK
<1>5. got' \in [Pids -> Pids \cup {Group, Dead}]
  BY <1>4 DEF TypeInv, TypeOK
<1>6. torn' \in BOOLEAN
  BY DEF Scan
<1> QED
  BY <1>2, <1>3, <1>5, <1>6 DEF TypeInv, TypeOK, Scan

LEMMA InitTypes == Init => TypeInv
<1> SUFFICES ASSUME Init PROVE TypeInv
  OBVIOUS
<1>1. at \in [Pids -> Places]
  BY PlacesAre DEF Init
<1>2. opt \in [Pids -> Option]
  BY NoneIsOption DEF Init
<1>3. FileFound
  BY DEF Init, FileFound
<1>4. got \in [Pids -> Pids \cup {Group, Dead}]
  BY DEF Init
<1>5. reused \in 0..MaxReuse
  BY DaemonAssumption DEF Init
<1>6. file \in Pids \cup {NoFile, Empty} /\ term \subseteq Pids
  BY DEF Init
<1> QED
  BY <1>1, <1>2, <1>3, <1>4, <1>5, <1>6 DEF Init, TypeInv, TypeOK

LEMMA StepTypes == TypeInv /\ [Next]_vars => TypeInv'
<1> SUFFICES ASSUME TypeInv, [Next]_vars PROVE TypeInv'
  OBVIOUS
<1>1. CASE UNCHANGED vars
  BY <1>1 DEF TypeInv, TypeOK, FileFound, vars, locals, history
<1>2. ASSUME NEW p \in Pids, NEW o \in Invocations, Invoke(p, o) \/ ForkFails(p, o)
      PROVE  TypeInv'
  <2>1. o \in Option
    BY DaemonAssumption
  <2>2. [o EXCEPT !.daemon = FALSE] \in Option
    BY <2>1 DEF Option
  <2> QED
    BY <1>2, <2>1, <2>2, InvokeTypes DEF ForkFails
<1>3. ASSUME NEW p \in Pids, Access(p)
      PROVE  TypeInv'
  <2>1. CASE file = NoFile
    BY <1>3, <2>1, GoTypes, PlacesAre DEF Access, TypeInv, TypeOK, history
  <2>2. CASE file # NoFile
    BY <1>3, <2>2, GoTypes, PlacesAre DEF Access, TypeInv, TypeOK, history
  <2> QED
    BY <2>1, <2>2
<1>4. ASSUME NEW p \in Pids, ReadPid(p)
      PROVE  TypeInv'
  BY <1>4, ScanTypes DEF ReadPid, TypeInv, FileFound
<1>5. ASSUME NEW p \in Pids, CheckPid(p)
      PROVE  TypeInv'
  <2>1. CASE Alive(got[p])
    BY <1>5, <2>1, ExitTypes DEF CheckPid
  <2>2. CASE ~ Alive(got[p])
    BY <1>5, <2>2, GoTypes, PlacesAre DEF CheckPid, TypeInv, TypeOK, history
  <2> QED
    BY <2>1, <2>2
<1>6. ASSUME NEW p \in Pids, Create(p)
      PROVE  TypeInv'
  <2>1. at' = [at EXCEPT ![p] = "write"] /\ file' = Empty
    BY <1>6 DEF Create, Go
  <2>2. at' \in [Pids -> Places]
    BY <2>1, PlacesAre DEF TypeInv, TypeOK
  <2>3. FileFound'
    BY <1>6, <2>1, DaemonAssumption DEF FileFound, TypeInv, TypeOK, Create, locals
  <2> QED
    BY <1>6, <2>1, <2>2, <2>3 DEF Create, TypeInv, TypeOK, locals, history
<1>7. ASSUME NEW p \in Pids, Write(p)
      PROVE  TypeInv'
  <2>1. at' = [at EXCEPT ![p] = "open"] /\ file' = p
    BY <1>7 DEF Write, Go
  <2>2. at' \in [Pids -> Places]
    BY <2>1, PlacesAre DEF TypeInv, TypeOK
  <2>3. FileFound'
    BY <1>7, <2>1, DaemonAssumption DEF FileFound, TypeInv, TypeOK, Write, locals
  <2> QED
    BY <1>7, <2>1, <2>2, <2>3 DEF Write, TypeInv, TypeOK, locals, history
<1>8. ASSUME NEW p \in Pids,
             \/ CannotOpenFile(p) \/ Ends(p) \/ Verify(p) \/ Terminate(p) \/ Crash(p)
      PROVE  TypeInv'
  BY <1>8, ExitTypes DEF CannotOpenFile, Ends, Verify, Terminate, Crash
<1>9. ASSUME NEW p \in Pids, com_open(p)
      PROVE  TypeInv'
  BY <1>9, GoTypes, PlacesAre DEF com_open, TypeInv, TypeOK, history
<1>10. ASSUME NEW p \in Pids, Find(p)
       PROVE  TypeInv'
  BY <1>10, ScanTypes DEF Find
<1>11. ASSUME NEW p \in Pids, Probe(p)
       PROVE  TypeInv'
  <2>1. CASE ~ Alive(got[p])
    BY <1>11, <2>1, ExitTypes DEF Probe
  <2>2. CASE Alive(got[p]) /\ got[p] = Group
    BY <1>11, <2>2, GoTypes, PlacesAre DEF Probe, TypeInv, TypeOK, history
  <2>3. CASE Alive(got[p]) /\ got[p] # Group
    BY <1>11, <2>3, GoTypes, PlacesAre DEF Probe, TypeInv, TypeOK, history
  <2> QED
    BY <2>1, <2>2, <2>3
<1>12. ASSUME NEW p \in Pids, Signal(p)
       PROVE  TypeInv'
  <2>1. CASE Alive(got[p])
    <3>1. UNCHANGED <<at, file, locals, reused, overlap, torn>>
      BY <1>12, <2>1 DEF Signal
    <3>2. got[p] \in Pids
      BY <1>12, <2>1 DEF Signal, TypeInv, FileFound, Alive
    <3>3. term' \subseteq Pids /\ stray' \in BOOLEAN
      BY <1>12, <2>1, <3>2 DEF Signal, TypeInv, TypeOK
    <3> QED
      BY <3>1, <3>2, <3>3 DEF TypeInv, TypeOK, FileFound, locals
  <2>2. CASE ~ Alive(got[p])
    BY <1>12, <2>2, GoTypes, PlacesAre DEF Signal, TypeInv, TypeOK, history
  <2> QED
    BY <2>1, <2>2
<1>13. ASSUME NEW p \in Pids, Reuse(p)
       PROVE  TypeInv'
  <2>1. at' = [at EXCEPT ![p] = "other"]
    BY <1>13 DEF Reuse, Go
  <2>2. at' \in [Pids -> Places]
    BY <2>1, PlacesAre DEF TypeInv, TypeOK
  <2>3. FileFound'
    BY <1>13, <2>1 DEF FileFound, TypeInv, TypeOK, Reuse, locals
  <2>4. reused' \in 0..MaxReuse
    BY <1>13, DaemonAssumption DEF Reuse, TypeInv, TypeOK
  <2> QED
    BY <1>13, <2>2, <2>3, <2>4 DEF Reuse, TypeInv, TypeOK, locals, history
<1> QED
  BY <1>1, <1>2, <1>3, <1>4, <1>5, <1>6, <1>7, <1>8, <1>9, <1>10, <1>11, <1>12, <1>13
     DEF Next, main, write_pid_file, kill_running

(***************************************************************************)
(* TypeOK holds for any number of processes: what is read from the pid     *)
(* file is a process number, and signals are pending for processes only.   *)
(***************************************************************************)
THEOREM TypesKept == Spec => []TypeOK
<1>1. TypeInv => TypeOK
  BY DEF TypeInv
<1> QED
  BY <1>1, InitTypes, StepTypes, PTL DEF Spec

-----------------------------------------------------------------------------
(***************************************************************************)
(* The argument.  As long as no two starts overlap, one process at most is *)
(* in write_pid_file().  If there is a daemon, the file names it; so the   *)
(* process that is about to check the pid it read has the daemon's, finds  *)
(* it alive and gives up; and the file is truncated and written only when  *)
(* there is no daemon.                                                     *)
(***************************************************************************)
OneStarts == \A p, q \in Pids : at[p] \in Starting /\ at[q] \in Starting => p = q

FileNames == \A p \in Daemons : file = p

WritesAlone == \A p \in Pids : at[p] \in {"create", "write"} => Daemons = {}

ChecksDaemon == \A p \in Pids, q \in Daemons : at[p] = "check" => got[p] = q

Registered == ~ overlap => OneStarts /\ FileNames /\ WritesAlone /\ ChecksDaemon

\* Nothing is lost when the others stay where they are and p does not go on
\* in write_pid_file() or become a daemon.
LEMMA Aside ==
  ASSUME TypeInv, Registered, NEW p \in Pids, NEW place,
         at' = [at EXCEPT ![p] = place],
         place \notin Starting,
         Daemons' \subseteq Daemons,
         file' = file, overlap' = overlap,
         \A q \in Pids \ {p} : got'[q] = got[q]
  PROVE  Registered'
<1> SUFFICES ASSUME ~ overlap PROVE (OneStarts /\ FileNames /\ WritesAlone /\ ChecksDaemon)'
  BY DEF Registered
<1>1. OneStarts /\ FileNames /\ WritesAlone /\ ChecksDaemon
  BY DEF Registered
<1>2. \A q \in Pids : at'[q] \in Starting => q # p /\ at'[q] = at[q]
  BY DEF TypeInv, TypeOK
<1>3. \A q \in Pids : at'[q] \in {"create", "write", "check"} => at'[q] \in Starting
  BY DEF Starting
<1>4. OneStarts'
  BY <1>1, <1>2 DEF OneStarts
<1>5. FileNames'
  BY <1>1 DEF FileNames
<1>6. WritesAlone'
  BY <1>1, <1>2, <1>3 DEF WritesAlone
<1>7. ChecksDaemon'
  BY <1>1, <1>2, <1>3 DEF ChecksDaemon
<1> QED
  BY <1>4, <1>5, <1>6, <1>7

\* Where p goes, it is a daemon only if it was one.
LEMMA NoNewDaemon ==
  ASSUME TypeInv, NEW p \in Pids, NEW place,
         at' = [at EXCEPT ![p] = place],
         \A q \in Pids \ {p} : opt'[q] = opt[q],
         place \in Serving => at[p] \in Serving /\ opt'[p] = opt[p]
  PROVE  Daemons' \subseteq Daemons
<1>1. \A q \in Pids \ {p} : at'[q] = at[q]
  BY DEF TypeInv, TypeOK
<1>2. at'[p] = place
  BY DEF TypeInv, TypeOK
<1> QED
  BY <1>1, <1>2 DEF Daemons

LEMMA ExitAside ==
  ASSUME TypeInv, Registered, NEW p \in Pids, Exit(p),
         file' = file, overlap' = overlap
  PROVE  Registered'
<1>1. at' = [at EXCEPT ![p] = "gone"] /\ "gone" \notin Starting \cup Serving
  BY DEF Exit, Go, Starting, Serving
<1>2. \A q \in Pids \ {p} : opt'[q] = opt[q] /\ got'[q] = got[q]
  BY DEF Exit, TypeInv, TypeOK
<1>3. Daemons' \subseteq Daemons
  BY <1>1, <1>2, NoNewDaemon
<1> QED
  BY <1>1, <1>2, <1>3, Aside

LEMMA InvokeRegisters ==
  ASSUME TypeInv, Registered, NEW p \in Pids, NEW o \in Option, Invoke(p, o)
  PROVE  Registered'
<1> SUFFICES ASSUME ~ overlap'
             PROVE  (OneStarts /\ FileNames /\ WritesAlone /\ ChecksDaemon)'
  BY DEF Registered
<1>1. \A q \in Pids \ {p} : opt'[q] = opt[q] /\ got'[q] = got[q]
  BY DEF Invoke, TypeInv, TypeOK
<1>2. opt'[p] = o /\ file' = file /\ got' = got /\ ~ overlap
  BY DEF Invoke, TypeInv, TypeOK
<1>3. CASE o.kill \/ ~ o.daemon
  <2>1. PICK place \in {"find", "open"} :
          at' = [at EXCEPT ![p] = place] /\ (place = "open" => ~ o.daemon)
    BY <1>3 DEF Invoke, Go
  <2>2. \A q \in Pids \ {p} : at'[q] = at[q]
    BY <2>1 DEF TypeInv, TypeOK
  <2>3. at'[p] = place
    BY <2>1 DEF TypeInv, TypeOK
  <2>4. p \notin Daemons'
    BY <1>2, <2>1, <2>3 DEF Daemons, Serving
  <2>5. Daemons' \subseteq Daemons
    BY <1>1, <2>2, <2>4 DEF Daemons
  <2>6. place \notin Starting
    BY <2>1 DEF Starting
  <2>7. overlap' = overlap
    BY <1>3 DEF Invoke
  <2>8. Registered'
    BY <1>1, <1>2, <2>1, <2>5, <2>6, <2>7, Aside
  <2> QED
    BY <2>8 DEF Registered
<1>4. CASE ~ o.kill /\ o.daemon
  <2>1. at' = [at EXCEPT ![p] = "access"] /\ \A q \in Pids : at[q] \notin Starting
    BY <1>4 DEF Invoke, Go
  <2>2. \A q \in Pids : at'[q] \in Starting => q = p
    BY <2>1 DEF TypeInv, TypeOK
  <2>3. \A q \in Pids : at'[q] \notin {"create", "write", "check"}
    BY <2>1 DEF TypeInv, TypeOK, Starting
  <2>4. "access" \notin Serving
    BY DEF Serving
  <2>5. Daemons' \subseteq Daemons
    BY <1>1, <2>1, <2>4, NoNewDaemon
  <2>6. FileNames
    BY <1>2 DEF Registered
  <2> QED
    BY <1>2, <2>2, <2>3, <2>5, <2>6 DEF OneStarts, FileNames, WritesAlone, ChecksDaemon
<1> QED
  BY <1>3, <1>4

\* A step within write_pid_file().
LEMMA StartRegisters ==
  ASSUME TypeInv, Registered, NEW p \in Pids, NEW place \in Starting,
         at[p] \in Starting, at' = [at EXCEPT ![p] = place],
         opt' = opt, overlap' = overlap,
         ~ overlap /\ file' # file => Daemons = {},
         \A q \in Pids \ {p} : got'[q] = got[q],
         ~ overlap /\ place \in {"create", "write"} => Daemons = {},
         ~ overlap /\ place = "check" => \A q \in Daemons : got'[p] = q
  PROVE  Registered'
<1> SUFFICES ASSUME ~ overlap PROVE (OneStarts /\ FileNames /\ WritesAlone /\ ChecksDaemon)'
  BY DEF Registered
<1>1. OneStarts /\ FileNames /\ WritesAlone /\ ChecksDaemon
  BY DEF Registered
<1>2. \A q \in Pids \ {p} : at'[q] = at[q]
  BY DEF TypeInv, TypeOK
<1>3. at'[p] = place
  BY DEF TypeInv, TypeOK
<1>4. \A q \in Pids : at'[q] \in Starting => q = p
  BY <1>1, <1>2 DEF OneStarts
<1>5. place \notin Serving
  BY DEF Starting, Serving
<1>6. Daemons' \subseteq Daemons
  BY <1>5, NoNewDaemon
<1>7. \A q \in Pids : at'[q] \in {"create", "write", "check"} => q = p
  BY <1>4 DEF Starting
<1>8. OneStarts'
  BY <1>4 DEF OneStarts
<1>9. FileNames'
  BY <1>1, <1>6 DEF FileNames
<1>10. WritesAlone'
  BY <1>3, <1>6, <1>7 DEF WritesAlone
<1>11. ChecksDaemon'
  BY <1>3, <1>6, <1>7 DEF ChecksDaemon
<1> QED
  BY <1>8, <1>9, <1>10, <1>11

LEMMA ScanRegisters ==
  ASSUME TypeInv, Registered, NEW p \in Pids, NEW next \in {"check", "probe"},
         Scan(p, next), next = "check" => at[p] \in Starting
  PROVE  Registered'
<1>1. at' = [at EXCEPT ![p] = next] /\ opt' = opt /\ file' = file /\ overlap' = overlap
  BY DEF Scan, Go
<1>2. \A q \in Pids \ {p} : got'[q] = got[q]
  BY DEF Scan, TypeInv, TypeOK
<1>3. CASE next = "probe"
  <2>1. next \notin Starting /\ next \notin Serving
    BY <1>3 DEF Starting, Serving
  <2>2. Daemons' \subseteq Daemons
    BY <1>1, <2>1, NoNewDaemon
  <2> QED
    BY <1>1, <1>2, <2>1, <2>2, Aside
<1>4. CASE next = "check"
  <2>1. next \in Starting
    BY <1>4 DEF Starting
  <2>2. ASSUME ~ overlap, NEW q \in Daemons PROVE got'[p] = q
    <3>1. file = q /\ q \in Pids
      BY <2>2 DEF Registered, FileNames, Daemons
    <3>2. file # Empty
      BY <3>1, DaemonAssumption
    <3> QED
      BY <3>1, <3>2 DEF Scan, TypeInv, TypeOK
  <2> QED
    BY <1>1, <1>2, <1>4, <2>1, <2>2, StartRegisters
<1> QED
  BY <1>3, <1>4

\* p becomes the daemon.
LEMMA WriteRegisters ==
  ASSUME TypeInv, Registered, NEW p \in Pids, Write(p)
  PROVE  Registered'
<1> SUFFICES ASSUME ~ overlap PROVE (OneStarts /\ FileNames /\ WritesAlone /\ ChecksDaemon)'
  BY DEF Registered, Write, history
<1>1. OneStarts /\ WritesAlone
  BY DEF Registered
<1>2. at[p] = "write" /\ at' = [at EXCEPT ![p] = "open"] /\ file' = p /\ opt' = opt
  BY DEF Write, Go, locals
<1>3. \A q \in Pids \ {p} : at'[q] = at[q] /\ at[q] \notin Starting
  BY <1>1, <1>2 DEF OneStarts, Starting, TypeInv, TypeOK
<1>4. \A q \in Pids : at'[q] \notin Starting
  BY <1>2, <1>3 DEF Starting, TypeInv, TypeOK
<1>5. Daemons' \subseteq {p}
  BY <1>1, <1>2, <1>3 DEF WritesAlone, Daemons
<1>6. \A q \in Pids : at'[q] \notin {"create", "write", "check"}
  BY <1>4 DEF Starting
<1> QED
  BY <1>2, <1>4, <1>5, <1>6 DEF OneStarts, FileNames, WritesAlone, ChecksDaemon

LEMMA InitRegisters == Init => Registered
<1> SUFFICES ASSUME Init PROVE OneStarts /\ FileNames /\ WritesAlone /\ ChecksDaemon
  BY DEF Registered
<1>1. \A p \in Pids : at[p] \in {"unused", "other"}
  BY DEF Init
<1>2. \A p \in Pids : at[p] \notin Starting \cup Serving \cup {"create", "write", "check"}
  BY <1>1 DEF Starting, Serving
<1>3. Daemons = {}
  BY <1>2 DEF Daemons
<1> QED
  BY <1>2, <1>3 DEF OneStarts, FileNames, WritesAlone, ChecksDaemon

LEMMA StepRegisters == TypeInv /\ Registered /\ [Next]_vars => Registered'
<1> SUFFICES ASSUME TypeInv, Registered, [Next]_vars PROVE Registered'
  OBVIOUS
<1>1. CASE UNCHANGED vars
  BY <1>1 DEF Registered, OneStarts, FileNames, WritesAlone, ChecksDaemon, Daemons,
              vars, locals, history
<1>2. ASSUME NEW p \in Pids, NEW o \in Invocations, Invoke(p, o) \/ ForkFails(p, o)
      PROVE  Registered'
  <2>1. o \in Option
    BY DaemonAssumption
  <2>2. [o EXCEPT !.daemon = FALSE] \in Option
    BY <2>1 DEF Option
  <2> QED
    BY <1>2, <2>1, <2>2, InvokeRegisters DEF ForkFails
<1>3. ASSUME NEW p \in Pids, Access(p)
      PROVE  Registered'
  <2>1. UNCHANGED <<file, opt, got, overlap>> /\ at[p] \in Starting
    BY <1>3 DEF Access, locals, history, Starting
  <2>2. CASE file = NoFile
    <3>1. at' = [at EXCEPT ![p] = "create"] /\ "create" \in Starting
      BY <1>3, <2>2 DEF Access, Go, Starting
    <3>2. ~ overlap => Daemons = {}
      BY <2>2, DaemonAssumption DEF Registered, FileNames, Daemons
    <3> QED
      BY <2>1, <3>1, <3>2, StartRegisters
  <2>3. CASE file # NoFile
    <3>1. at' = [at EXCEPT ![p] = "read"] /\ "read" \in Starting
      BY <1>3, <2>3 DEF Access, Go, Starting
    <3> QED
      BY <2>1, <3>1, StartRegisters
  <2> QED
    BY <2>2, <2>3
<1>4. ASSUME NEW p \in Pids, ReadPid(p)
      PROVE  Registered'
  BY <1>4, ScanRegisters DEF ReadPid, Starting
<1>5. ASSUME NEW p \in Pids, CheckPid(p)
      PROVE  Registered'
  <2>1. CASE Alive(got[p])
    BY <1>5, <2>1, ExitAside DEF CheckPid, history
  <2>2. CASE ~ Alive(got[p])
    <3>1. UNCHANGED <<file, opt, got, overlap>> /\ at[p] \in Starting
      BY <1>5, <2>2 DEF CheckPid, locals, history, Starting
    <3>2. at' = [at EXCEPT ![p] = "create"] /\ "create" \in Starting
      BY <1>5, <2>2 DEF CheckPid, Go, Starting
    <3>3. ASSUME ~ overlap, NEW q \in Daemons PROVE FALSE
      <4>1. got[p] = q /\ q \in Pids
        BY <1>5, <3>3 DEF Registered, ChecksDaemon, CheckPid, Daemons
      <4>2. at[q] \notin {"unused", "gone"}
        BY <3>3 DEF Daemons, Serving
      <4> QED
        BY <2>2, <4>1, <4>2 DEF Alive
    <3> QED
      BY <3>1, <3>2, <3>3, StartRegisters
  <2> QED
    BY <2>1, <2>2
<1>6. ASSUME NEW p \in Pids, Create(p)
      PROVE  Registered'
  <2>1. UNCHANGED <<opt, got, overlap>> /\ at[p] = "create"
    BY <1>6 DEF Create, locals, history
  <2>2. at' = [at EXCEPT ![p] = "write"] /\ "write" \in Starting /\ "create" \in Starting
    BY <1>6 DEF Create, Go, Starting
  <2>3. ~ overlap => Daemons = {}
    BY <2>1 DEF Registered, WritesAlone
  <2> QED
    BY <2>1, <2>2, <2>3, StartRegisters
<1>7. ASSUME NEW p \in Pids,
             \/ CannotOpenFile(p) \/ Ends(p) \/ Verify(p) \/ Terminate(p) \/ Crash(p)
      PROVE  Registered'
  BY <1>7, ExitAside DEF CannotOpenFile, Ends, Verify, Terminate, Crash, history
<1>8. ASSUME NEW p \in Pids, com_open(p)
      PROVE  Registered'
  <2>1. UNCHANGED <<file, opt, got, overlap>> /\ at[p] \in Serving
    BY <1>8 DEF com_open, locals, history, Serving
  <2>2. at' = [at EXCEPT ![p] = "run"] /\ "run" \notin Starting
    BY <1>8 DEF com_open, Go, Starting
  <2>3. Daemons' \subseteq Daemons
    BY <2>1, <2>2, NoNewDaemon
  <2> QED
    BY <2>1, <2>2, <2>3, Aside
<1>9. ASSUME NEW p \in Pids, Find(p)
      PROVE  Registered'
  BY <1>9, ScanRegisters DEF Find
<1>10. ASSUME NEW p \in Pids, Probe(p)
       PROVE  Registered'
  <2>1. CASE ~ Alive(got[p])
    BY <1>10, <2>1, ExitAside DEF Probe, history
  <2>2. CASE Alive(got[p])
    <3>1. UNCHANGED <<file, opt, got, overlap>>
      BY <1>10, <2>2 DEF Probe, locals, history
    <3>2. PICK place \in {"verify", "signal"} : at' = [at EXCEPT ![p] = place]
      BY <1>10, <2>2 DEF Probe, Go
    <3>3. place \notin Starting /\ place \notin Serving
      BY <3>2 DEF Starting, Serving
    <3>4. Daemons' \subseteq Daemons
      BY <3>1, <3>2, <3>3, NoNewDaemon
    <3> QED
      BY <3>1, <3>2, <3>3, <3>4, Aside
  <2> QED
    BY <2>1, <2>2
<1>11. ASSUME NEW p \in Pids, Signal(p)
       PROVE  Registered'
  <2>1. UNCHANGED <<file, opt, got, overlap>>
    BY <1>11 DEF Signal, locals
  <2>2. CASE Alive(got[p])
    BY <1>11, <2>1, <2>2
       DEF Signal, Registered, OneStarts, FileNames, WritesAlone, ChecksDaemon, Daemons
  <2>3. CASE ~ Alive(got[p])
    <3>1. at' = [at EXCEPT ![p] = "verify"] /\ "verify" \notin Starting \cup Serving
      BY <1>11, <2>3 DEF Signal, Go, Starting, Serving
    <3>2. Daemons' \subseteq Daemons
      BY <2>1, <3>1, NoNewDaemon
    <3> QED
      BY <2>1, <3>1, <3>2, Aside
  <2> QED
    BY <2>2, <2>3
<1>12. ASSUME NEW p \in Pids, Reuse(p)
       PROVE  Registered'
  <2>1. UNCHANGED <<file, opt, got, overlap>>
    BY <1>12 DEF Reuse, locals, history
  <2>2. at' = [at EXCEPT ![p] = "other"] /\ "other" \notin Starting \cup Serving
    BY <1>12 DEF Reuse, Go, Starting, Serving
  <2>3. Daemons' \subseteq Daemons
    BY <2>1, <2>2, NoNewDaemon
  <2> QED
    BY <2>1, <2>2, <2>3, Aside
<1> QED
  BY <1>1, <1>2, <1>3, <1>4, <1>5, <1>6, <1>7, <1>8, <1>9, <1>10, <1>11, <1>12,
     WriteRegisters DEF Next, main, write_pid_file, kill_running

(***************************************************************************)
(* "alredy run with pid" (smsf-daemon.c:51): unless two starts overlap, a  *)
(* daemon is the one the pid file names, so there is one at most.          *)
(***************************************************************************)
THEOREM OneDaemon == Spec => []DaemonIsRegistered
<1>1. Registered => DaemonIsRegistered
  BY DEF Registered, FileNames, DaemonIsRegistered
<1> QED
  BY <1>1, InitTypes, StepTypes, InitRegisters, StepRegisters, PTL DEF Spec

-----------------------------------------------------------------------------
(***************************************************************************)
(* Whom SIGTERM hits.  As long as no pid was given to another process and  *)
(* none was read from an empty file, the pid in the file and those read    *)
(* from it were the program's, and are no other process's now.             *)
(***************************************************************************)
Own(p) == p \in Pids => at[p] \notin {"unused", "other"}

OwnPids == reused = 0 /\ ~ torn => /\ Own(file)
                                   /\ \A p \in Pids : Own(got[p])
                                   /\ ~ stray

LEMMA StepOwns == TypeInv /\ OwnPids /\ [Next]_vars => OwnPids'
<1> SUFFICES ASSUME TypeInv, OwnPids, [Next]_vars, reused' = 0, ~ torn'
             PROVE  Own(file)' /\ (\A q \in Pids : Own(got[q])') /\ ~ stray'
  BY DEF OwnPids
<1>1. /\ at \in [Pids -> Places] /\ got \in [Pids -> Pids \cup {Group, Dead}]
      /\ file \in Pids \cup {NoFile, Empty} /\ reused \in Nat
      /\ NoFile \notin Pids /\ Empty \notin Pids
      /\ Dead \notin Pids /\ Group \notin Pids
  BY DaemonAssumption DEF TypeInv, TypeOK
<1>2. CASE UNCHANGED vars
  BY <1>2 DEF OwnPids, Own, vars, locals, history
<1>3. ASSUME NEW p \in Pids, main(p) \/ Terminate(p) \/ Crash(p) \/ Reuse(p)
      PROVE  Own(file)' /\ (\A q \in Pids : Own(got[q])') /\ ~ stray'
  <2>1. CASE Reuse(p)
    BY <1>1, <2>1 DEF Reuse
  <2>2. reused' = reused \/ Reuse(p)
    BY <1>3 DEF main, Invoke, ForkFails, write_pid_file, Access, ReadPid, CheckPid,
                Create, Write, Scan, kill_running, Find, Probe, Signal, Verify,
                CannotOpenFile, com_open, Ends, Terminate, Crash, Exit
  <2>3. torn => torn'
    BY <1>3 DEF main, Invoke, ForkFails, write_pid_file, Access, ReadPid, CheckPid,
                Create, Write, Scan, kill_running, Find, Probe, Signal, Verify,
                CannotOpenFile, com_open, Ends, Terminate, Crash, Reuse, Exit, history
  <2> SUFFICES ASSUME ~ Reuse(p)
               PROVE  Own(file)' /\ (\A q \in Pids : Own(got[q])') /\ ~ stray'
    BY <2>1
  <2>4. Own(file) /\ (\A q \in Pids : Own(got[q])) /\ ~ stray
    BY <2>2, <2>3 DEF OwnPids
  <2>5. ASSUME NEW place \in Places \ {"unused", "other"}, Go(p, place)
        PROVE  \A x : Own(x) => (x \in Pids => at'[x] \notin {"unused", "other"})
    BY <1>1, <2>5 DEF Go, Own
  <2>6. CASE Exit(p) /\ file' = file /\ stray' = stray
    BY <1>1, <2>4, <2>5, <2>6, PlacesAre DEF Exit, Own, Go
  <2>7. CASE UNCHANGED <<file, got, stray>>
             /\ (at' = at \/ \E place \in Places \ {"unused", "other"} : Go(p, place))
    BY <2>4, <2>5, <2>7 DEF Own
  <2>8. CASE Write(p)
    BY <1>1, <2>4, <2>5, <2>8, PlacesAre DEF Write, Go, Own, locals, history
  <2>9. CASE Create(p)
    BY <1>1, <2>4, <2>5, <2>9, PlacesAre DEF Create, Go, Own, locals, history
  <2>10. CASE \E next \in {"check", "probe"} : Scan(p, next)
    <3>1. PICK next \in {"check", "probe"} : Scan(p, next)
      BY <2>10
    <3>2. got' = [got EXCEPT ![p] = file] /\ UNCHANGED <<file, stray>>
      BY <3>1 DEF Scan
    <3>3. \A q \in Pids : got'[q] \in {got[q], file}
      BY <1>1, <3>2
    <3> QED
      BY <2>4, <2>5, <3>1, <3>2, <3>3, PlacesAre DEF Scan, Own
  <2>11. CASE Signal(p)
    <3>1. UNCHANGED <<file, got>>
      BY <2>11 DEF Signal, locals
    <3>2. ~ stray'
      <4>1. CASE Alive(got[p])
        <5>1. got[p] \in Pids
          BY <1>1, <2>11, <4>1 DEF Signal, Alive, TypeInv, FileFound
        <5> QED
          BY <2>4, <2>11, <4>1, <5>1 DEF Signal, Own
      <4>2. CASE ~ Alive(got[p])
        BY <2>4, <2>11, <4>2 DEF Signal
      <4> QED
        BY <4>1, <4>2
    <3>3. at' = at \/ Go(p, "verify")
      BY <2>11 DEF Signal
    <3> QED
      BY <2>4, <2>5, <3>1, <3>2, <3>3, PlacesAre DEF Own
  <2>12. CASE \E o : Invoke(p, o)
    <3>1. UNCHANGED <<file, got, stray>>
          /\ \E place \in {"find", "access", "open"} : Go(p, place)
      BY <2>12 DEF Invoke
    <3> QED
      BY <2>7, <3>1, PlacesAre
  <2>13. CASE Access(p) \/ com_open(p)
    <3>1. UNCHANGED <<file, got, stray>>
          /\ \E place \in {"create", "read", "run"} : Go(p, place)
      BY <2>13 DEF Access, com_open, locals, history
    <3> QED
      BY <2>7, <3>1, PlacesAre
  <2>14. CASE CheckPid(p) \/ Probe(p)
    <3>1. CASE Exit(p)
      BY <2>6, <2>14, <3>1 DEF CheckPid, Probe, history
    <3>2. CASE UNCHANGED <<file, got, stray>>
               /\ \E place \in {"create", "verify", "signal"} : Go(p, place)
      BY <2>7, <3>2, PlacesAre
    <3> QED
      BY <2>14, <3>1, <3>2 DEF CheckPid, Probe, locals, history
  <2>15. CASE CannotOpenFile(p) \/ Ends(p) \/ Verify(p) \/ Terminate(p) \/ Crash(p)
    BY <2>6, <2>15 DEF CannotOpenFile, Ends, Verify, Terminate, Crash, history
  <2> QED
    BY <1>3, <2>8, <2>9, <2>10, <2>11, <2>12, <2>13, <2>14, <2>15
       DEF main, ForkFails, write_pid_file, ReadPid, kill_running, Find
<1> QED
  BY <1>2, <1>3 DEF Next

(***************************************************************************)
(* -K signals the program and nothing else, unless the pid in the file was *)
(* given to another process or was read from an empty file.                *)
(***************************************************************************)
THEOREM KillHitsTheDaemon == Spec => []KillsTheDaemon
<1>1. Init => OwnPids
  BY DaemonAssumption DEF Init, OwnPids, Own
<1>2. TypeInv /\ OwnPids => KillsTheDaemon
  BY DEF TypeInv, TypeOK, OwnPids, KillsTheDaemon
<1> QED
  BY <1>1, <1>2, InitTypes, StepTypes, StepOwns, PTL DEF Spec

=============================================================================
