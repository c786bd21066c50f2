------------------------------- MODULE Flow -------------------------------
(***************************************************************************)
(* The forwarder: flow_setup(), flow() and what they call in smsf-flow.c   *)
(* and smsf-ata.c, run by the main loop of main/smsf-main.c (uart_task)    *)
(* and main-linux/smsf-main.c (main).                                      *)
(*                                                                         *)
(* pc names the AT command the program is about to exchange with the modem *)
(* or is exchanging.  Ask and Submit write it; the action named for the    *)
(* exchange reads the answer and takes everything the code does up to its  *)
(* next command.  The local variables of a function are reset when it      *)
(* returns.                                                                *)
(***************************************************************************)
EXTENDS Modem

CONSTANTS ContactsSearched,   \* rows flow_setup() looks at (9 in the code)
          ContactsListed,     \* rows ++CONTACTS prints (24 in the code)
          DaOverride          \* the -a option, NoNumber when not given

VARIABLES pc,        \* the exchange the program is at
          i, n,      \* flow(): SIM index and number of messages
          row,       \* index in the two loops over the phone book
          msg,       \* flow(): the message just read
          job,       \* the arguments and locals of the call in progress
          saved,     \* _saved_msgs
          latest,    \* _latest_msg_time
          opts,      \* _opts
          dest,      \* _dest_addr
          delivered, \* history: times a message reached dest whole
          obeyed     \* history: times a message was obeyed as a command

localVars == <<i, n, row, msg, job>>
flowVars == <<saved, latest, opts, dest>>
history == <<delivered, obeyed>>
vars == <<modemVars, pc, localVars, flowVars, history>>

ASSUME FlowAssumption == /\ ContactsSearched \in Nat \ {0}
                         /\ ContactsListed \in Nat \ {0}
                         /\ DaOverride \in Nat

\* The AT command of each exchange.
CommandAt ==
  [echo |-> "ATE0", power |-> "CBC", network |-> "CREG", pdumode |-> "CMGF",
   operator |-> "COPS", contact |-> "CPBR", count |-> "CPMS",
   status |-> "COPS", read |-> "CMGR", clear |-> "CMGDALL", cset |-> "CSCS",
   book |-> "CPBR", dump |-> "CMGL", prompt |-> "CMGS", submit |-> "PDU",
   delete |-> "CMGD"]

PCs == DOMAIN CommandAt

Line == [at |-> CommandAt[pc],
         arg |-> IF pc \in {"contact", "book"} THEN row ELSE i]

(***************************************************************************)
(* The call in progress: forward_message() of the messages `text' (several *)
(* when a split message is put together) for one of its three callers, or  *)
(* delete_message().  slots are the cache entries the call will touch;     *)
(* PDU `part' of `parts' is on its way; whole says that the network took   *)
(* all the PDUs before it.                                                 *)
(***************************************************************************)
Idle == [for |-> "none", text |-> <<>>, slots |-> {}, parts |-> 0, part |-> 0,
         whole |-> FALSE]

Bump(count, S) ==
  [m \in Msgs |-> IF m \in S /\ count[m] < 2 THEN count[m] + 1 ELSE count[m]]

Members == {job.text[k] : k \in DOMAIN job.text}

Init == /\ ModemInit
        /\ pc = "echo" /\ i = 0 /\ n = 0 /\ row = 0 /\ msg = NULL /\ job = Idle
        /\ saved = EmptyCache /\ latest = 0 /\ opts = Defaults /\ dest = NoNumber
        /\ delivered = [m \in Msgs |-> 0]
        /\ obeyed = [m \in Msgs |-> 0]

-----------------------------------------------------------------------------
(***************************************************************************)
(* Writing.                                                                *)
(***************************************************************************)
Ask == /\ pc # "submit"
       /\ Type(Line)
       /\ UNCHANGED <<pc, localVars, flowVars, history>>

\* The last PDU makes the message whole, if all the others were taken.
Accepted == /\ SubmitAccepted
            /\ delivered' = IF job.whole /\ job.part = job.parts
                              THEN Bump(delivered, Members) ELSE delivered
            /\ UNCHANGED job

NotAccepted == /\ SubmitRefused \/ SubmitIgnored
               /\ job' = [job EXCEPT !.whole = FALSE]
               /\ UNCHANGED delivered

Submit == /\ pc = "submit"
          /\ Accepted \/ NotAccepted
          /\ UNCHANGED <<pc, i, n, row, msg, flowVars, obeyed>>

-----------------------------------------------------------------------------
(***************************************************************************)
(* flow_setup().                                                           *)
(***************************************************************************)
Echo == /\ pc = "echo"
        /\ \E r \in Readings :
             /\ Take(r)
             /\ pc' = IF ~ FoundOK(r.got) THEN "echo"
                      ELSE IF opts["verbosity"] >= LOG_DEBUG THEN "power"
                      ELSE "pdumode"
        /\ latest' = 0
        /\ UNCHANGED <<localVars, saved, opts, dest, history>>

\* Exchanges whose outcome is only logged.
Logged(here, next) == /\ pc = here
                      /\ \E r \in Readings : Take(r)
                      /\ pc' = next
                      /\ UNCHANGED <<localVars, flowVars, history>>

PowerStatus == Logged("power", "network")
NetworkStatus == Logged("network", "pdumode")
PduMode == Logged("pdumode", "operator")

Operator ==
  /\ pc = "operator"
  /\ \E r \in Readings :
       /\ Take(r)
       /\ IF FoundKind(r.got, "cops") /\ FirstOf(r.got, "cops") # 0
            THEN /\ dest' = DaOverride
                 /\ pc' = IF DaOverride = NoNumber THEN "contact" ELSE "count"
                 /\ row' = IF DaOverride = NoNumber THEN 1 ELSE 0
            ELSE /\ pc' = "echo"
                 /\ UNCHANGED <<dest, row>>
  /\ UNCHANGED <<i, n, msg, job, saved, latest, opts, history>>

Contact ==
  /\ pc = "contact"
  /\ \E r \in Readings :
       /\ Take(r)
       /\ IF ~ FoundKind(r.got, "cpbr")
            THEN pc' = "echo" /\ row' = 0 /\ UNCHANGED dest
          ELSE LET c == PhoneBook[FirstOf(r.got, "cpbr")]
               IN  IF c.primary
                     THEN /\ dest' = c.number
                          /\ pc' = IF c.number = NoNumber THEN "echo" ELSE "count"
                          /\ row' = 0
                   ELSE IF row < ContactsSearched
                     THEN row' = row + 1 /\ UNCHANGED <<pc, dest>>
                   ELSE pc' = "echo" /\ row' = 0 /\ UNCHANGED dest
  /\ UNCHANGED <<i, n, msg, job, saved, latest, opts, history>>

-----------------------------------------------------------------------------
(***************************************************************************)
(* flow(): the number of messages, the connection, the loop over 1..n.     *)
(***************************************************************************)
Count ==
  /\ pc = "count"
  /\ \E r \in Readings :
       /\ Take(r)
       /\ IF FoundOK(r.got)
            THEN /\ n' = IF FoundKind(r.got, "cpms") THEN LastOf(r.got, "cpms")
                                                     ELSE 0
                 /\ pc' = "status"
            ELSE UNCHANGED <<n, pc>>
  /\ UNCHANGED <<i, row, msg, job, flowVars, history>>

Status ==
  /\ pc = "status"
  /\ \E r \in Readings :
       /\ Take(r)
       /\ IF FoundKind(r.got, "cops") /\ n > 0
            THEN pc' = "read" /\ i' = 1 /\ UNCHANGED n
          ELSE /\ pc' = IF FoundKind(r.got, "cops") THEN "count" ELSE "echo"
               /\ n' = 0
               /\ UNCHANGED i
  /\ UNCHANGED <<row, msg, job, flowVars, history>>

\* Mutant: the loop runs to n + 1.
AdvancePastEnd == /\ pc' = IF i <= n THEN "read" ELSE "count"
                  /\ i' = IF i <= n THEN i + 1 ELSE 0
                  /\ n' = IF i <= n THEN n ELSE 0
                  /\ row' = 0 /\ msg' = NULL /\ job' = Idle

\* The next round of the loop, or the next call of flow().
Advance == /\ pc' = IF i < n THEN "read" ELSE "count"
           /\ i' = IF i < n THEN i + 1 ELSE 0
           /\ n' = IF i < n THEN n ELSE 0
           /\ row' = 0 /\ msg' = NULL /\ job' = Idle

GoTo(next, m, j) == pc' = next /\ msg' = m /\ job' = j /\ UNCHANGED <<i, n, row>>

\* Mutant: the flag is set whatever forward_message() returned.
ForwardedAnyway(for, m, slots, ok) ==
  /\ saved' = IF for = "new" THEN add_saved_message(saved, m, 1)
              ELSE MarkForwarded(saved, slots)
  /\ Advance

(***************************************************************************)
(* The result of forward_message() reaches its caller: a new message       *)
(* enters the cache with it, a seen one (all the parts of a split one) is  *)
(* marked when it is 0.                                                    *)
(***************************************************************************)
Forwarded(for, m, slots, ok) ==
  /\ saved' = IF for = "new" THEN add_saved_message(saved, m, IF ok THEN 1 ELSE 0)
              ELSE IF ok THEN MarkForwarded(saved, slots) ELSE saved
  /\ Advance

(***************************************************************************)
(* forward_message(): nothing is sent when forwarding is switched off;     *)
(* otherwise the text goes out in one truncated PDU or in as many as it    *)
(* needs.                                                                  *)
(***************************************************************************)
forward_message(for, m, text, slots) ==
  IF opts["forward"] = 0 THEN Forwarded(for, m, slots, FALSE)
  ELSE /\ GoTo("prompt", m,
               [for |-> for, text |-> text, slots |-> slots,
                parts |-> IF opts["multipart"] = 0 THEN 1
                          ELSE IF text[1] = NULL THEN 1 ELSE Sms[text[1]].pdus,
                part |-> 1, whole |-> TRUE])
       /\ UNCHANGED saved

Deletion(s) == [for |-> "delete", text |-> <<>>, slots |-> {s}, parts |-> 0,
                part |-> 0, whole |-> FALSE]

\* Mutant: the may_delete test is inverted.
DeleteInverted(m, s) ==
  /\ IF opts["may_delete"] = 1 THEN Advance
     ELSE GoTo("delete", m, Deletion(s))
  /\ UNCHANGED saved

delete_message(m, s) ==
  /\ IF opts["may_delete"] = 0 THEN Advance
     ELSE GoTo("delete", m, Deletion(s))
  /\ UNCHANGED saved

(***************************************************************************)
(* process_multipart_message(): the cached parts with the reference and    *)
(* the number of parts of m, whoever sent them; the last one found in the  *)
(* cache for each number.  When there are as many as needed but one number *)
(* is missing, msgs_as has an element nothing was stored in: the program   *)
(* crashes on it or sends whatever it points to (NULL here).               *)
(***************************************************************************)
\* Mutant: the reference is not compared.
PartSlotsAnyRef(m) == {s \in Slots : /\ slot_taken(saved, s)
                                     /\ Sms[saved[s].msg].parts = Sms[m].parts}

PartSlots(m) == {s \in Slots : /\ slot_taken(saved, s)
                               /\ Sms[saved[s].msg].ref = Sms[m].ref
                               /\ Sms[saved[s].msg].parts = Sms[m].parts}

PartAt(m, k) ==
  LET at == {s \in PartSlots(m) : Sms[saved[s].msg].no = k}
  IN  IF at = {} THEN -1 ELSE Max(at)

Assembled(m) == [k \in 1..Sms[m].parts |->
                   IF PartAt(m, k) = -1 THEN NULL ELSE saved[PartAt(m, k)].msg]

PartsToMark(m) == {PartAt(m, k) : k \in 1..Sms[m].parts} \ {-1}

process_multipart_message(m) ==
  IF Cardinality(PartSlots(m)) # Sms[m].parts THEN Advance /\ UNCHANGED saved
  ELSE forward_message("multi", m, Assembled(m), PartsToMark(m))

Undefined(m) == /\ Cardinality(PartSlots(m)) = Sms[m].parts
                /\ \E k \in 1..Sms[m].parts : PartAt(m, k) = -1

\* The program starts again with empty memory; the modem keeps its state.
Restart == /\ pc' = "echo"
           /\ i' = 0 /\ n' = 0 /\ row' = 0 /\ msg' = NULL /\ job' = Idle
           /\ saved' = EmptyCache /\ latest' = 0 /\ opts' = Defaults
           /\ dest' = NoNumber

(***************************************************************************)
(* process_command_message(), from a message of the destination number.    *)
(* CLEAR, CONTACTS and DUMP talk to the modem and come back to flow()      *)
(* later; an option is set at once; SAVED prints every slot of the cache   *)
(* and crashes on the first empty one.                                     *)
(***************************************************************************)
IsCommand(m) == Sms[m].sender = dest /\ Sms[m].cmd # "none"

CommandPC == [CLEAR |-> "clear", CONTACTS |-> "cset", DUMP |-> "dump"]

process_command_message(m) ==
  LET cmd == Sms[m].cmd
  IN  /\ obeyed' = Bump(obeyed, {m})
      /\ \/ /\ cmd \in DOMAIN CommandPC
            /\ GoTo(CommandPC[cmd], m, Idle)
            /\ UNCHANGED <<saved, latest, opts, dest>>
         \/ /\ cmd \in OptionNames
            /\ opts' = set_option(opts, cmd, Sms[m].val)
            /\ Forwarded("new", m, {}, TRUE)
            /\ UNCHANGED <<latest, dest>>
         \/ /\ cmd = "SAVED"
            /\ FreeSlots(saved) = {}
            /\ Forwarded("new", m, {}, TRUE)
            /\ UNCHANGED <<latest, opts, dest>>
         \/ /\ cmd = "SAVED"
            /\ FreeSlots(saved) # {}
            /\ Restart

\* 1. Message was not seen before.
NewMessage(m) ==
  \/ IsCommand(m) /\ process_command_message(m)
  \/ /\ ~ IsCommand(m)
     /\ IF Sms[m].no = 0 THEN forward_message("new", m, <<m>>, {})
                         ELSE Forwarded("new", m, {}, FALSE)
     /\ UNCHANGED <<latest, opts, dest, obeyed>>

Later(a, b) == IF a < b THEN b ELSE a

\* Mutant: every message older than the latest is too old.
ExpiredIfOlder(c) == latest > Sms[c].ts

message_expired(c) == latest - Sms[c].ts > EXPIRE

\* 2. Message was seen before, and is in slot s of the cache.
SeenMessage(m, s) ==
  LET c == saved[s].msg
  IN  /\ latest' = Later(latest, Sms[c].ts)
      /\ UNCHANGED <<opts, dest, obeyed>>
      /\ IF message_expired(c) THEN delete_message(m, s)
         ELSE IF saved[s].fwd = 0 /\ Sms[c].no = 0
           THEN forward_message("seen", m, <<m>>, {s})
         ELSE IF saved[s].fwd = 1 THEN delete_message(m, s)
         ELSE IF Sms[c].no = Sms[c].parts THEN process_multipart_message(c)
         ELSE Advance /\ UNCHANGED saved

CrashOnParts(s) == /\ saved[s].fwd = 0 /\ Sms[saved[s].msg].no > 0
                   /\ Sms[saved[s].msg].no = Sms[saved[s].msg].parts
                   /\ ~ message_expired(saved[s].msg)
                   /\ Undefined(saved[s].msg)
                   /\ Restart /\ UNCHANGED obeyed

Message(m) == LET s == find_saved_message(saved, m)
              IN  IF s = -1 THEN NewMessage(m)
                  ELSE SeenMessage(m, s) \/ CrashOnParts(s)

Read ==
  /\ pc = "read"
  /\ \E r \in Readings :
       /\ Take(r)
       /\ IF FoundKind(r.got, "cmgr") /\ Sms[FirstOf(r.got, "cmgr")].good
            THEN Message(FirstOf(r.got, "cmgr"))
            ELSE Advance /\ UNCHANGED <<flowVars, obeyed>>
  /\ UNCHANGED delivered

-----------------------------------------------------------------------------
(***************************************************************************)
(* The commands that talk to the modem, and then enter the cache as        *)
(* forwarded.                                                              *)
(***************************************************************************)
\* Mutant: the command is not marked as handled.
RememberUnmarked == /\ Forwarded("new", msg, {}, FALSE)
                    /\ UNCHANGED <<latest, opts, dest>>

Remember == /\ Forwarded("new", msg, {}, TRUE)
            /\ UNCHANGED <<latest, opts, dest>>

ClearOrDump == /\ pc \in {"clear", "dump"}
               /\ \E r \in Readings : Take(r)
               /\ Remember
               /\ UNCHANGED history

CharacterSet == /\ pc = "cset"
                /\ \E r \in Readings : Take(r)
                /\ pc' = "book" /\ row' = 1
                /\ UNCHANGED <<i, n, msg, job, flowVars, history>>

Book == /\ pc = "book"
        /\ \E r \in Readings :
             /\ Take(r)
             /\ IF FoundKind(r.got, "cpbr") /\ row < ContactsListed
                  THEN /\ row' = row + 1
                       /\ UNCHANGED <<pc, i, n, msg, job, flowVars>>
                  ELSE Remember
        /\ UNCHANGED history

-----------------------------------------------------------------------------
(***************************************************************************)
(* ata_send_message_impl(), once for each PDU.  The answer to CMGS is read *)
(* and not looked at; the one to the PDU is searched for an error.  In the *)
(* loop of ata_send_message_multipart() the result of each PDU replaces    *)
(* the result of the one before.                                           *)
(***************************************************************************)
PduResult(ok, whole) ==
  IF job.part < job.parts
    THEN /\ GoTo("prompt", msg, [job EXCEPT !.part = job.part + 1, !.whole = whole])
         /\ UNCHANGED saved
    ELSE Forwarded(job.for, msg, job.slots, ok)

Prompt == /\ pc = "prompt"
          /\ \E r \in Readings :
               /\ Take(r)
               /\ IF r.err THEN PduResult(FALSE, FALSE)
                           ELSE GoTo("submit", msg, job) /\ UNCHANGED saved
          /\ UNCHANGED <<latest, opts, dest, history>>

SubmitAnswer ==
  /\ pc = "submit"
  /\ \E r \in Readings :
       /\ Take(r)
       /\ PduResult(~ r.err /\ ~ FoundError(r.got), job.whole)
  /\ UNCHANGED <<latest, opts, dest, history>>

Delete == /\ pc = "delete"
          /\ \E r \in Readings :
               /\ Take(r)
               /\ saved' = IF FoundOK(r.got)
                             THEN remove_saved_message(saved, job.slots) ELSE saved
          /\ Advance
          /\ UNCHANGED <<latest, opts, dest, history>>

-----------------------------------------------------------------------------
Crash == /\ Fault("crash")
         /\ Restart
         /\ link' = <<>> /\ io' = "write"
         /\ UNCHANGED <<incoming, sim, mode, history>>

Deliver == /\ \E m \in incoming : Arrive(m)
           /\ UNCHANGED <<pc, localVars, flowVars, history>>

Setup == Echo \/ PowerStatus \/ NetworkStatus \/ PduMode \/ Operator \/ Contact

Pass == \/ Count \/ Status \/ Read \/ ClearOrDump \/ CharacterSet \/ Book
        \/ Prompt \/ SubmitAnswer \/ Delete

Step == Ask \/ Submit \/ Setup \/ Pass

Next == Step \/ Deliver \/ Crash

Spec == Init /\ [][Next]_vars

FairSpec == Spec /\ WF_vars(Step)
=============================================================================
