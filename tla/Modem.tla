------------------------------ MODULE Modem ------------------------------
(***************************************************************************)
(* The GSM modem and the serial line, as smsf-ata.c and smsf-hal.c use     *)
(* them.  Neither is part of the repository; the module says what the code *)
(* can meet.                                                               *)
(*                                                                         *)
(* One exchange is a line written by the program (or the PDU and its ^Z)   *)
(* and one com_read().  com_read() does not stop at OK: it collects what   *)
(* arrives until the line is silent, so it returns every reply that is     *)
(* pending; an answer that comes after the silence stays pending for the   *)
(* read of the next command.                                               *)
(***************************************************************************)
EXTENDS SavedMessages

CONSTANTS SimSize,         \* message places of the SIM
          PhoneBook,       \* the SIM's contacts, a sequence
          Faults,          \* the kinds of fault that may happen
          MaxFaults        \* how many of them, together

VARIABLES incoming,        \* messages the network still has to deliver
          sim,             \* SIM index |-> message, NULL in an empty place
          mode,            \* what the modem takes the next characters for
          link,            \* replies sent by the modem and not read yet
          io,              \* the program's half of the exchange
          faults           \* faults so far

modemVars == <<incoming, sim, mode, link, io, faults>>

ASSUME SimAssumption == SimSize \in Nat \ {0}

ASSUME PhoneBookAssumption ==
  PhoneBook \in Seq([primary : BOOLEAN, number : Nat])

FaultKinds ==
  {"refuse",        \* a line other than CMGS is answered ERROR, no effect
   "noprompt",      \* CMGS is answered ERROR, no text entry
   "netfail",       \* the PDU is taken and the network refuses it
   "silent",        \* a line other than CMGS is lost: no effect, no answer
   "unanswered",    \* the same for CMGS or for the PDU
   "unregistered",  \* COPS names no operator
   "late",          \* part of the answer comes after com_read() gave up
   "read",          \* com_read() fails; what it had read by then is gone
   "write",         \* the last com_write() of the exchange fails
   "crash"}         \* power loss, reset or abort of the program

ASSUME FaultsAssumption == Faults \subseteq FaultKinds /\ MaxFaults \in Nat

Fault(kind) == /\ kind \in Faults
               /\ faults < MaxFaults
               /\ faults' = faults + 1

(***************************************************************************)
(* command: the next line is a command.  text: a CMGS was accepted, what   *)
(* follows up to ^Z is the PDU.  spoiled: something that is no PDU was     *)
(* typed there.  dirty: characters of an unfinished line are waiting, the  *)
(* next line is garbled or, on a modem that looks for its AT, is not.      *)
(***************************************************************************)
Modes == {"command", "text", "spoiled", "dirty"}

Indexes == 1..SimSize
Taken == {x \in Indexes : sim[x] # NULL}
Stored == {sim[x] : x \in Taken}
EmptySim == [x \in Indexes |-> NULL]

(***************************************************************************)
(* A reply: its first line and what the code takes from it (the number of  *)
(* messages, whether an operator is named, the message, the phone book     *)
(* row), and the OK that ends every reply but an error and the > prompt.   *)
(***************************************************************************)
Reply(kind, val) == [kind |-> kind, val |-> val]

Replies == UNION {[kind : {"ok", "error", "prompt"}, val : {0}],
                  [kind : {"cpms"}, val : 0..SimSize],
                  [kind : {"cops"}, val : {0, 1}],
                  [kind : {"cmgr"}, val : Msgs],
                  [kind : {"cpbr"}, val : 1..Len(PhoneBook)]}

AnswerTo(c) ==
  CASE c.at = "CPMS" -> Reply("cpms", Cardinality(Taken))
    [] c.at = "COPS" -> Reply("cops", 1)
    [] c.at = "CMGR" /\ sim[c.arg] # NULL -> Reply("cmgr", sim[c.arg])
    [] c.at = "CPBR" /\ c.arg <= Len(PhoneBook) -> Reply("cpbr", c.arg)
    [] c.at = "CPBR" /\ c.arg > Len(PhoneBook) -> Reply("error", 0)
    [] c.at = "CMGS" -> Reply("prompt", 0)
    [] OTHER -> Reply("ok", 0)

SimAfter(c) == CASE c.at = "CMGD" -> [sim EXCEPT ![c.arg] = NULL]
                 [] c.at = "CMGDALL" -> EmptySim
                 [] OTHER -> sim

ModemInit == /\ incoming = Msgs
             /\ sim = EmptySim
             /\ mode = "command"
             /\ link = <<>>
             /\ io = "write"
             /\ faults = 0

\* The network stores a message in the lowest free place of the SIM.
Arrive(m) == /\ m \in incoming
             /\ Taken # Indexes
             /\ incoming' = incoming \ {m}
             /\ sim' = [sim EXCEPT ![Min(Indexes \ Taken)] = m]
             /\ UNCHANGED <<mode, link, io, faults>>

\* The line is executed and answered.
Execute(c) == /\ mode \in {"command", "dirty"}
              /\ sim' = SimAfter(c)
              /\ link' = Append(link, AnswerTo(c))
              /\ mode' = IF c.at = "CMGS" THEN "text" ELSE "command"
              /\ io' = "read"
              /\ UNCHANGED faults

\* The line is answered ERROR; after an unfinished line that is no fault.
Refuse(c) == /\ \/ mode = "command"
                   /\ Fault(IF c.at = "CMGS" THEN "noprompt" ELSE "refuse")
                \/ mode = "dirty" /\ UNCHANGED faults
             /\ link' = Append(link, Reply("error", 0))
             /\ mode' = "command"
             /\ io' = "read"
             /\ UNCHANGED sim

NoOperator(c) == /\ mode = "command" /\ c.at = "COPS"
                 /\ Fault("unregistered")
                 /\ link' = Append(link, Reply("cops", 0))
                 /\ io' = "read"
                 /\ UNCHANGED <<sim, mode>>

\* A line typed where a PDU is expected: no answer.
Swallow == /\ mode \in {"text", "spoiled"}
           /\ mode' = "spoiled"
           /\ io' = "read"
           /\ UNCHANGED <<sim, link, faults>>

Lose(kind) == /\ Fault(kind)
              /\ io' = "read"
              /\ UNCHANGED <<sim, link, mode>>

\* The end of the line, or the ^Z, cannot be written.
BreakOff == /\ Fault("write")
            /\ mode' = IF mode \in {"text", "spoiled"} THEN "spoiled" ELSE "dirty"
            /\ io' = "failed"
            /\ UNCHANGED <<sim, link>>

Type(c) == /\ io = "write"
           /\ \/ Execute(c) \/ Refuse(c) \/ NoOperator(c) \/ Swallow \/ BreakOff
              \/ Lose(IF c.at = "CMGS" THEN "unanswered" ELSE "silent")
           /\ UNCHANGED incoming

\* A PDU and ^Z: accepted by the network.
SubmitAccepted == /\ io = "write" /\ mode = "text"
                  /\ link' = Append(link, Reply("ok", 0))
                  /\ mode' = "command"
                  /\ io' = "read"
                  /\ UNCHANGED <<incoming, sim, faults>>

\* A PDU and ^Z: answered +CMS ERROR.
SubmitRefused == /\ io = "write"
                 /\ \/ mode = "text" /\ Fault("netfail")
                    \/ mode = "spoiled" /\ UNCHANGED faults
                 /\ link' = Append(link, Reply("error", 0))
                 /\ mode' = "command"
                 /\ io' = "read"
                 /\ UNCHANGED <<incoming, sim>>

\* A PDU and ^Z: not answered, or not written to the end.
SubmitIgnored == /\ io = "write"
                 /\ \/ /\ mode \in {"command", "dirty"}
                       /\ mode' = "dirty"
                       /\ io' = "read"
                       /\ UNCHANGED <<sim, link, faults>>
                    \/ Lose("unanswered")
                    \/ BreakOff
                 /\ UNCHANGED incoming

(***************************************************************************)
(* What com_read() may return: all that is pending; with "late", only the  *)
(* beginning of it; or -1, at once when the command could not be written.  *)
(* With "read" it fails on the way (select() and read() are broken off by  *)
(* a signal): the caller gets nothing of the replies read by then, and the *)
(* rest of the line waits for the next call.                               *)
(***************************************************************************)
Reading(err, got, rest, cost) ==
  [err |-> err, got |-> got, rest |-> rest, cost |-> cost]

After(k) == SubSeq(link, k + 1, Len(link))
Late(k) == Reading(FALSE, SubSeq(link, 1, k), After(k), 1)
Broken(k) == Reading(TRUE, <<>>, After(k), 1)

\* Mutant: com_read() gives up before the modem has had the time to answer,
\* within the bound on the faults.
ReadingsImpatient ==
  IF io = "failed" THEN {Reading(TRUE, <<>>, link, 0)}
  ELSE {Reading(FALSE, link, <<>>, 0)}
       \cup (IF faults < MaxFaults THEN {Late(k) : k \in 0..(Len(link) - 1)} ELSE {})

Readings ==
  IF io = "failed" THEN {Reading(TRUE, <<>>, link, 0)}
  ELSE {Reading(FALSE, link, <<>>, 0)}
       \cup (IF "late" \in Faults /\ faults < MaxFaults
               THEN {Late(k) : k \in 0..(Len(link) - 1)} ELSE {})
       \cup (IF "read" \in Faults /\ faults < MaxFaults
               THEN {Broken(k) : k \in 0..Len(link)} ELSE {})

Take(r) == /\ io # "write"
           /\ r \in Readings
           /\ link' = r.rest
           /\ faults' = faults + r.cost
           /\ io' = "write"
           /\ UNCHANGED <<incoming, sim, mode>>

(***************************************************************************)
(* What smsf-ata.c finds in the text it has read.  A reply of one kind is  *)
(* looked for, whatever command it answers; OK ends every reply but an     *)
(* error and the > prompt.                                                 *)
(***************************************************************************)
Kind(got, kind) == {k \in DOMAIN got : got[k].kind = kind}

FoundOK(got) == \E k \in DOMAIN got : got[k].kind \notin {"error", "prompt"}
FoundError(got) == Kind(got, "error") # {}
FoundKind(got, kind) == Kind(got, kind) # {}
FirstOf(got, kind) == got[Min(Kind(got, kind))].val
LastOf(got, kind) == got[Max(Kind(got, kind))].val

ModemTypeOK == /\ incoming \subseteq Msgs
               /\ sim \in [Indexes -> Msgs \cup {NULL}]
               /\ mode \in Modes
               /\ link \in Seq(Replies)
               /\ io \in {"write", "read", "failed"}
               /\ faults \in 0..MaxFaults
=============================================================================
