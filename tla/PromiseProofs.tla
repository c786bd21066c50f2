--------------------------- MODULE PromiseProofs ---------------------------
(***************************************************************************)
(* First: a deletion erases the message that was read and judged, whatever *)
(* the network stores meanwhile and whatever else fails, as long as each   *)
(* com_read() reads the line to the end.  (It does not when the answer     *)
(* comes late, nor when it fails: both leave characters for the next call.)*)
(*                                                                         *)
(* Then, from it: the forwarder implements its promise (module             *)
(* Forwarding), for any messages, SIM, cache and phone book, and through   *)
(* refused and lost commands, a failing network, failed writes and crashes.*)
(***************************************************************************)
EXTENDS FlowProofs

InTime == Faults \cap {"late", "read"} = {}

(***************************************************************************)
(* The program and the modem are in step: nothing is pending before a line *)
(* is written, and the answer to CMGR tells what is at index i.            *)
(***************************************************************************)
InStep == /\ io # "read" => link = <<>>
          /\ io = "read" /\ pc = "read" =>
               \A k \in DOMAIN link : link[k].kind = "cmgr" => link[k].val = sim[i]
          /\ DeletesWhatItRead

\* A delivery leaves alone the places that are taken.
LEMMA ArriveLeaves ==
  ASSUME ModemTypeOK, NEW m, Arrive(m), NEW x \in Indexes, sim[x] # NULL
  PROVE  sim'[x] = sim[x]
<1>1. Indexes \ Taken \in SUBSET Nat /\ Indexes \ Taken # {}
  BY SimAssumption DEF Arrive, Indexes, Taken
<1>2. Min(Indexes \ Taken) \in Indexes \ Taken
  BY <1>1, MinIsElement
<1>3. x # Min(Indexes \ Taken)
  BY <1>2 DEF Taken
<1> QED
  BY <1>3 DEF Arrive, ModemTypeOK

LEMMA TakeDrains ==
  ASSUME InTime, ModemTypeOK, InStep, NEW r \in Readings, Take(r)
  PROVE  /\ link' = <<>> /\ io' = "write" /\ sim' = sim
         /\ r.got = <<>> \/ (io = "read" /\ r.got = link)
<1>1. CASE io = "failed"
  <2>1. r = Reading(TRUE, <<>>, link, 0)
    BY <1>1 DEF Readings
  <2> QED
    BY <1>1, <2>1 DEF Take, Reading, InStep
<1>2. CASE io # "failed"
  <2>1. r = Reading(FALSE, link, <<>>, 0)
    BY <1>2 DEF Readings, InTime
  <2>2. r.rest = <<>> /\ r.got = link
    BY <2>1 DEF Reading
  <2>3. link' = r.rest /\ io' = "write" /\ sim' = sim /\ io # "write"
    BY DEF Take
  <2>4. io = "read"
    BY <1>2, <2>3 DEF ModemTypeOK
  <2>5. r.got = <<>> \/ r.got = link
    BY <2>2
  <2> QED
    BY <2>2, <2>3, <2>4, <2>5
<1> QED BY <1>1, <1>2

\* An exchange that does not lead to a deletion ends in step.
LEMMA TakeInStep ==
  ASSUME InTime, ModemTypeOK, InStep, NEW r \in Readings, Take(r), pc' # "delete"
  PROVE  InStep'
  BY TakeDrains DEF InStep, DeletesWhatItRead

\* What the line holds after a command: at most its answer.
LEMMA TypeLink ==
  ASSUME ModemTypeOK, InStep, NEW c, Type(c)
  PROVE  /\ io' \in {"read", "failed"}
         /\ io' = "failed" => link' = <<>>
         /\ \/ link' = <<>>
            \/ link' = <<AnswerTo(c)>> /\ sim' = SimAfter(c)
            \/ link' = <<Reply("error", 0)>>
            \/ link' = <<Reply("cops", 0)>> /\ c.at = "COPS"
<1>1. link = <<>>
  BY DEF Type, InStep
<1>2. \A r : Append(link, r) = <<r>>
  BY <1>1
<1> QED
  BY <1>1, <1>2 DEF Type, Execute, Refuse, NoOperator, Swallow, BreakOff, Lose

LEMMA AskInStep == TypeInv /\ InStep /\ Ask => InStep'
<1> SUFFICES ASSUME TypeInv, InStep, Ask PROVE InStep'
  OBVIOUS
<1>1. /\ io' \in {"read", "failed"}
      /\ io' = "failed" => link' = <<>>
      /\ \/ link' = <<>>
         \/ link' = <<AnswerTo(Line)>> /\ sim' = SimAfter(Line)
         \/ link' = <<Reply("error", 0)>>
         \/ link' = <<Reply("cops", 0)>> /\ Line.at = "COPS"
  BY TypeLink DEF Ask, TypeInv
<1>2. pc' = pc /\ i' = i
  BY DEF Ask, localVars
<1>3. ASSUME io' = "read", pc = "read", NEW k \in DOMAIN link',
             link'[k].kind = "cmgr"
      PROVE  link'[k].val = sim'[i]
  <2>1. Line.at = "CMGR" /\ Line.arg = i
    BY <1>3 DEF Line, CommandAt
  <2>2. link' = <<AnswerTo(Line)>> /\ sim' = sim /\ k = 1
    BY <1>1, <1>3, <2>1 DEF Reply, SimAfter
  <2>3. AnswerTo(Line) \in {Reply("cmgr", sim[i]), Reply("ok", 0)}
    BY <2>1 DEF AnswerTo
  <2> QED
    BY <1>3, <2>2, <2>3 DEF Reply
<1> QED
  BY <1>1, <1>2, <1>3 DEF InStep, DeletesWhatItRead

LEMMA SubmitInStep == TypeInv /\ InStep /\ Submit => InStep'
<1> SUFFICES ASSUME TypeInv, InStep, Submit PROVE InStep'
  OBVIOUS
<1>1. pc' = "submit" /\ io' \in {"read", "failed"} /\ (io' = "failed" => link' = link)
  BY DEF Submit, Accepted, NotAccepted, SubmitAccepted, SubmitRefused,
         SubmitIgnored, Lose, BreakOff
<1>2. link = <<>>
  BY DEF InStep, Submit, Accepted, NotAccepted, SubmitAccepted, SubmitRefused,
         SubmitIgnored, Lose, BreakOff
<1> QED
  BY <1>1, <1>2 DEF InStep, DeletesWhatItRead

\* Where the calls of flow() go, when they go on to a deletion.
LEMMA MessageDeletes ==
  ASSUME NEW m \in Msgs, Message(m), pc' = "delete"
  PROVE  msg' = m /\ i' = i
<1>1. Advance => pc' # "delete"
  BY DEF Advance
<1>2. \A for, mm, text, slots : forward_message(for, mm, text, slots) => pc' # "delete"
  BY <1>1 DEF forward_message, Forwarded, GoTo
<1>3. Restart => pc' # "delete"
  BY DEF Restart
<1>4. \A c : process_multipart_message(c) => pc' # "delete"
  BY <1>1, <1>2 DEF process_multipart_message
<1>5. process_command_message(m) => pc' # "delete"
  BY <1>1, <1>3 DEF process_command_message, CommandPC, GoTo, Forwarded
<1>6. NewMessage(m) => pc' # "delete"
  BY <1>1, <1>2, <1>5 DEF NewMessage, Forwarded
<1>7. PICK s : SeenMessage(m, s) \/ CrashOnParts(s)
  BY <1>6 DEF Message
<1>8. delete_message(m, s)
  BY <1>1, <1>2, <1>3, <1>4, <1>7 DEF SeenMessage, CrashOnParts
<1> QED
  BY <1>1, <1>8 DEF delete_message, GoTo

LEMMA ReadInStep == InTime /\ TypeInv /\ InStep /\ Read => InStep'
<1> SUFFICES ASSUME InTime, TypeInv, InStep, Read PROVE InStep'
  OBVIOUS
<1>1. PICK r \in Readings :
        /\ Take(r)
        /\ IF FoundKind(r.got, "cmgr") /\ Sms[FirstOf(r.got, "cmgr")].good
             THEN Message(FirstOf(r.got, "cmgr"))
             ELSE Advance /\ UNCHANGED <<flowVars, obeyed>>
  BY DEF Read
<1>2. /\ link' = <<>> /\ io' = "write" /\ sim' = sim
      /\ r.got = <<>> \/ (io = "read" /\ r.got = link)
  BY <1>1, TakeDrains DEF TypeInv
<1>3. CASE pc' # "delete"
  BY <1>2, <1>3 DEF InStep, DeletesWhatItRead
<1>4. CASE pc' = "delete"
  <2> DEFINE m == FirstOf(r.got, "cmgr")
  <2>1. FoundKind(r.got, "cmgr") /\ Message(m)
    BY <1>1, <1>4 DEF Advance
  <2>2. r.got \in Seq(Replies)
    BY <1>1, TakeType DEF TypeInv
  <2>3. m \in Msgs
    BY <2>1, <2>2, FirstOfFacts, ReplyFields
  <2>4. m = sim[i]
    <3>1. Kind(r.got, "cmgr") \in SUBSET Nat /\ Kind(r.got, "cmgr") # {}
      BY <2>1, <2>2 DEF Kind, FoundKind
    <3>2. Min(Kind(r.got, "cmgr")) \in Kind(r.got, "cmgr")
      BY <3>1, MinIsElement
    <3>3. io = "read" /\ r.got = link
      BY <1>2, <3>1 DEF Kind
    <3> QED
      BY <3>2, <3>3 DEF Kind, FirstOf, InStep, Read
  <2> HIDE DEF m
  <2>5. msg' = m /\ i' = i
    BY <1>4, <2>1, <2>3, MessageDeletes
  <2> QED
    BY <1>2, <1>4, <2>4, <2>5 DEF InStep, DeletesWhatItRead
<1> QED BY <1>3, <1>4

LEMMA DeliverInStep == TypeInv /\ InStep /\ Deliver => InStep'
<1> SUFFICES ASSUME TypeInv, InStep, Deliver PROVE InStep'
  OBVIOUS
<1>1. PICK m : Arrive(m)
  BY DEF Deliver
<1>2. UNCHANGED <<pc, i, msg, link, io>>
  BY <1>1 DEF Deliver, localVars, Arrive
<1>3. ModemTypeOK /\ (pc \in {"read", "delete"} => i \in Indexes)
  BY DEF TypeInv, Control, Placed, InCall
<1>4. ASSUME io = "read", pc = "read", NEW k \in DOMAIN link, link[k].kind = "cmgr"
      PROVE  link[k].val = sim'[i]
  <2>1. link[k].val = sim[i]
    BY <1>4 DEF InStep
  <2>2. link[k] \in Replies
    BY <1>3 DEF ModemTypeOK
  <2>3. sim[i] # NULL /\ i \in Indexes
    BY <1>3, <1>4, <2>1, <2>2, ReplyFields DEF Msgs, NULL
  <2>4. sim'[i] = sim[i]
    BY <1>1, <1>3, <2>3, ArriveLeaves
  <2> QED
    BY <2>1, <2>4
<1>5. ASSUME io = "write", pc = "delete"
      PROVE  sim'[i] = msg
  <2>1. msg \in Msgs
    BY <1>5 DEF TypeInv, Control, Placed, InCall
  <2>2. sim[i] = msg /\ sim[i] # NULL /\ i \in Indexes
    BY <1>3, <1>5, <2>1 DEF InStep, DeletesWhatItRead, Msgs, NULL
  <2>3. sim'[i] = sim[i]
    BY <1>1, <1>3, <2>2, ArriveLeaves
  <2> QED
    BY <2>2, <2>3
<1> QED
  BY <1>2, <1>4, <1>5 DEF InStep, DeletesWhatItRead

LEMMA OtherInStep ==
  ASSUME InTime, TypeInv, InStep, Setup \/ Count \/ Status \/ ClearOrDump \/
         CharacterSet \/ Book \/ Prompt \/ SubmitAnswer \/ Delete
  PROVE  InStep'
<1>1. Advance => pc' # "delete"
  BY DEF Advance
<1>2. Remember => pc' # "delete"
  BY <1>1 DEF Remember, Forwarded
<1>3. \A ok, whole : PduResult(ok, whole) => pc' # "delete"
  BY <1>1 DEF PduResult, Forwarded, GoTo
<1>4. pc' # "delete"
  BY <1>1, <1>2, <1>3
     DEF Setup, Echo, PowerStatus, NetworkStatus, PduMode, Logged, Operator, Contact,
         Count, Status, ClearOrDump, CharacterSet, Book, Prompt, SubmitAnswer, Delete,
         GoTo
<1>5. \E r \in Readings : Take(r)
  BY DEF Setup, Echo, PowerStatus, NetworkStatus, PduMode, Logged, Operator, Contact,
         Count, Status, ClearOrDump, CharacterSet, Book, Prompt, SubmitAnswer, Delete
<1> QED
  BY <1>4, <1>5, TakeInStep DEF TypeInv

LEMMA NextInStep == InTime /\ TypeInv /\ InStep /\ [Next]_vars => InStep'
<1> SUFFICES ASSUME InTime, TypeInv, InStep, [Next]_vars PROVE InStep'
  OBVIOUS
<1>1. CASE Crash
  BY <1>1 DEF Crash, Restart, InStep, DeletesWhatItRead
<1>2. CASE UNCHANGED vars
  BY <1>2 DEF vars, modemVars, localVars, InStep, DeletesWhatItRead
<1> QED
  BY <1>1, <1>2, AskInStep, SubmitInStep, ReadInStep, DeliverInStep, OtherInStep
     DEF Next, Step, Pass

(***************************************************************************)
(* Whatever else fails, AT+CMGD is issued for a place of the SIM that      *)
(* holds the message flow() has just read there, provided that no answer   *)
(* comes after com_read() gave up and no com_read() fails: an answer left  *)
(* on the line would be taken for that of the next place.                  *)
(***************************************************************************)
THEOREM DeletesTheRightMessage ==
  ASSUME InTime
  PROVE  Spec => []DeletesWhatItRead
<1>1. Init => InStep
  BY DEF Init, ModemInit, InStep, DeletesWhatItRead
<1>2. TypeInv /\ InStep /\ [Next]_vars => InStep'
  BY NextInStep
<1>3. Spec => [](TypeInv /\ InStep)
  BY <1>1, <1>2, InitType, NextType, PTL DEF Spec
<1>4. InStep => DeletesWhatItRead
  BY DEF InStep
<1> QED
  BY <1>3, <1>4, PTL

-----------------------------------------------------------------------------
(***************************************************************************)
(* What it takes: no answer comes late and no read fails, a CMGS line gets *)
(* its prompt and a PDU its answer, each text goes out in one PDU, and no  *)
(* two messages are equal to compare_messages().  A run or a hazard shows  *)
(* each to be needed.                                                      *)
(***************************************************************************)
Reliable == /\ Faults \cap {"late", "read", "noprompt", "unanswered"} = {}
            /\ \A m \in Msgs : Sms[m].pdus = 1
            /\ \A a, b \in Msgs : compare_messages(a, b) => a = b

Came == Msgs \ incoming

\* A message is on the SIM once, after it came.
SimKept == /\ \A x \in Taken : sim[x] \in Came
           /\ \A x, y \in Taken : sim[x] = sim[y] => x = y

\* Whatever the program deals with came.
CameKept ==
  /\ \A s \in Slots : saved[s].msg \notin incoming
  /\ pc \in InCall => msg \notin incoming
  /\ pc \in {"prompt", "submit"} => \A k \in DOMAIN job.text : job.text[k] \notin incoming
  /\ Handled \subseteq Came
  /\ latest = 0 \/ \E m \in Came : Sms[m].ts = latest

(***************************************************************************)
(* A forward under way: what will be marked is what is sent, the modem is  *)
(* ready for the line that is written next, and an answer without an error *)
(* says that the network took the text.                                    *)
(***************************************************************************)
SendKept ==
  pc \in {"prompt", "submit"} =>
    /\ job.part = 1 /\ job.parts = 1
    /\ job.for = "new" => msg \in Members
    /\ job.for # "new" => \A s \in job.slots : saved[s].msg \in Members \cap Msgs
    /\ io = "write" => job.whole
    /\ io = "write" /\ pc = "prompt" => mode = "command"
    /\ io = "write" /\ pc = "submit" => mode = "text"
    /\ io = "read" /\ pc = "prompt" => mode = "text" /\ job.whole
    /\ io = "read" /\ pc = "submit" => \/ FoundError(link)
                                       \/ Members \cap Msgs \subseteq Handled

ReadKept == pc = "read" /\ io = "read" /\ FoundKind(link, "cmgr") => mode = "command"

\* The calls that end without a forward.
CallKept ==
  /\ pc \in {"clear", "dump", "cset", "book"} => obeyed[msg] > 0
  /\ pc = "clear" => Sms[msg].cmd = "CLEAR"
  /\ pc = "delete" => msg \in Handled \/ Promise!TooOld(msg)

PromiseInv == /\ SimKept /\ CameKept /\ SendKept /\ ReadKept /\ CallKept
              /\ ForwardedIsHandled

-----------------------------------------------------------------------------
\* The abstract specification in the words of this module.
LEMMA TooOldIs ==
  \A m : Promise!TooOld(m) <=> \E x \in Came : Sms[x].ts - Sms[m].ts > EXPIRE
  BY DEF Promise!TooOld, Promise!Received, Promise!Msgs, Came, Msgs

LEMMA NullIsNoMessage == NULL \notin Msgs
  BY SmsAssumption DEF NULL, Msgs

LEMMA HandledIs ==
  \A m : m \in Handled <=> m \in Msgs /\ (delivered[m] > 0 \/ obeyed[m] > 0)
  BY DEF Handled

LEMMA BumpFacts ==
  ASSUME NEW count \in [Msgs -> 0..2], NEW S, NEW m \in Msgs
  PROVE  /\ count[m] > 0 => Bump(count, S)[m] > 0
         /\ m \in S => Bump(count, S)[m] > 0
         /\ m \notin S => Bump(count, S)[m] = count[m]
  BY DEF Bump

\* What is handled stays handled.
LEMMA HandledGrows == TypeInv /\ [Next]_vars => Handled \subseteq Handled'
<1> SUFFICES ASSUME TypeInv, [Next]_vars PROVE Handled \subseteq Handled'
  OBVIOUS
<1>1. /\ \/ delivered' = delivered
         \/ \E S : delivered' = Bump(delivered, S)
      /\ \/ obeyed' = obeyed
         \/ \E S : obeyed' = Bump(obeyed, S)
  <2>1. CASE Ask \/ Setup \/ Count \/ Status \/ ClearOrDump \/ CharacterSet \/ Book
             \/ Prompt \/ SubmitAnswer \/ Delete \/ Deliver \/ Crash
    BY <2>1 DEF Ask, Setup, Echo, PowerStatus, NetworkStatus, PduMode, Logged,
                Operator, Contact, Count, Status, ClearOrDump, CharacterSet, Book,
                Prompt, SubmitAnswer, Delete, Deliver, Crash, history
  <2>2. CASE Submit
    BY <2>2 DEF Submit, Accepted, NotAccepted
  <2>3. CASE Read
    <3>1. PICK m : Message(m) \/ UNCHANGED obeyed
      BY <2>3 DEF Read
    <3>2. obeyed' = obeyed \/ obeyed' = Bump(obeyed, {m})
      BY <3>1 DEF Message, NewMessage, process_command_message, SeenMessage,
                  CrashOnParts
    <3> QED
      BY <2>3, <3>2 DEF Read
  <2>4. CASE UNCHANGED vars
    BY <2>4 DEF vars, history
  <2> QED
    BY <2>1, <2>2, <2>3, <2>4 DEF Next, Step, Pass
<1>2. \A m \in Msgs : /\ delivered[m] > 0 => delivered'[m] > 0
                      /\ obeyed[m] > 0 => obeyed'[m] > 0
  BY <1>1, BumpFacts DEF TypeInv, Counters
<1> QED
  BY <1>2 DEF Handled

-----------------------------------------------------------------------------
(***************************************************************************)
(* The result of forward_message() reaches the cache.                      *)
(***************************************************************************)
LEMMA ForwardedCame ==
  ASSUME saved \in Caches, \A s \in Slots : saved[s].msg \notin incoming,
         NEW for, NEW m \in Msgs, m \notin incoming, NEW slots,
         NEW ok \in BOOLEAN, Forwarded(for, m, slots, ok), incoming' = incoming
  PROVE  \A s \in Slots : saved'[s].msg \notin incoming'
<1>1. CASE for = "new"
  <2>1. (IF ok THEN 1 ELSE 0) \in {0, 1}
    OBVIOUS
  <2>2. saved' = add_saved_message(saved, m, IF ok THEN 1 ELSE 0)
    BY <1>1 DEF Forwarded
  <2>3. \A s \in Slots : \/ saved'[s] = saved[s]
                         \/ saved'[s] = [msg |-> m, fwd |-> IF ok THEN 1 ELSE 0]
    BY <2>1, <2>2, AddEffect
  <2> QED
    BY <2>3
<1>2. CASE for # "new"
  <2>1. saved' \in {saved, MarkForwarded(saved, slots)}
    BY <1>2 DEF Forwarded
  <2>2. \A s \in Slots : MarkForwarded(saved, slots)[s].msg = saved[s].msg
    BY MarkEntry
  <2> QED
    BY <2>1, <2>2
<1> QED
  BY <1>1, <1>2

LEMMA ForwardedFlags ==
  ASSUME saved \in Caches, ForwardedIsHandled, Handled \subseteq Handled',
         NEW for, NEW m \in Msgs, NEW slots, NEW ok \in BOOLEAN,
         Forwarded(for, m, slots, ok),
         ok /\ for = "new" => m \in Handled',
         ok /\ for # "new" =>
           \A s \in slots \cap Slots : saved[s].msg \in Handled'
  PROVE  ForwardedIsHandled'
<1>1. CASE for = "new"
  <2>1. (IF ok THEN 1 ELSE 0) \in {0, 1}
    OBVIOUS
  <2>2. saved' = add_saved_message(saved, m, IF ok THEN 1 ELSE 0)
    BY <1>1 DEF Forwarded
  <2>3. \A s \in Slots : \/ saved'[s] = saved[s]
                         \/ saved'[s] = [msg |-> m, fwd |-> IF ok THEN 1 ELSE 0]
    BY <2>1, <2>2, AddEffect
  <2> QED
    BY <1>1, <2>3 DEF ForwardedIsHandled
<1>2. CASE for # "new" /\ ok
  <2>1. saved' = MarkForwarded(saved, slots)
    BY <1>2 DEF Forwarded
  <2>2. \A s \in Slots : /\ saved'[s].msg = saved[s].msg
                         /\ s \notin slots => saved'[s] = saved[s]
    BY <2>1, MarkEntry DEF MarkForwarded
  <2> QED
    BY <1>2, <2>2 DEF ForwardedIsHandled
<1>3. CASE for # "new" /\ ~ ok
  BY <1>3 DEF Forwarded, ForwardedIsHandled
<1> QED
  BY <1>1, <1>2, <1>3

(***************************************************************************)
(* Out of the calls of flow() the cache and the counters are left.         *)
(***************************************************************************)
LEMMA OutsideKeeps ==
  ASSUME SimKept, CameKept, UNCHANGED <<incoming, sim>>, pc' \notin InCall,
         io' = "write", Handled' \subseteq Came,
         latest' = 0 \/ \E m \in Came : Sms[m].ts = latest',
         \A s \in Slots : saved'[s].msg \notin incoming,
         ForwardedIsHandled'
  PROVE  PromiseInv'
<1>1. Came' = Came /\ Taken' = Taken
  BY DEF Came, Taken
<1>2. SimKept'
  BY <1>1 DEF SimKept
<1>3. CameKept'
  BY <1>1 DEF CameKept, InCall
<1>4. SendKept' /\ ReadKept' /\ CallKept'
  BY DEF SendKept, ReadKept, CallKept, InCall
<1> QED
  BY <1>2, <1>3, <1>4 DEF PromiseInv
\* An exchange is over, and nothing that is kept is disturbed.
Quiet == /\ io' = "write"
         /\ UNCHANGED <<incoming, sim, mode>>
         /\ Handled \subseteq Handled' /\ Handled' \subseteq Came
         /\ latest' = 0 \/ \E m \in Came : Sms[m].ts = latest'

LEMMA ResultKeeps ==
  ASSUME saved \in Caches, PromiseInv, Quiet,
         NEW for, NEW m \in Msgs, m \notin incoming, NEW slots, NEW ok \in BOOLEAN,
         Forwarded(for, m, slots, ok),
         ok /\ for = "new" => m \in Handled',
         ok /\ for # "new" => \A s \in slots \cap Slots : saved[s].msg \in Handled'
  PROVE  PromiseInv'
<1>1. \A s \in Slots : saved[s].msg \notin incoming
  BY DEF PromiseInv, CameKept
<1>2. incoming' = incoming /\ Handled \subseteq Handled'
  BY DEF Quiet
<1>3. \A s \in Slots : saved'[s].msg \notin incoming
  BY <1>1, <1>2, ForwardedCame
<1>4. ForwardedIsHandled'
  BY <1>2, ForwardedFlags DEF PromiseInv
<1>5. pc' \notin InCall
  BY DEF Forwarded, Advance, InCall
<1> QED
  BY <1>3, <1>4, <1>5, OutsideKeeps DEF PromiseInv, Quiet

LEMMA AdvanceKeeps ==
  ASSUME PromiseInv, Quiet, Advance,
         \A s \in Slots : /\ saved'[s].msg \in {saved[s].msg, NULL}
                          /\ saved'[s].fwd = 1 => saved'[s] = saved[s],
         incoming \subseteq Msgs
  PROVE  PromiseInv'
<1>1. \A s \in Slots : saved'[s].msg \notin incoming
  BY NullIsNoMessage DEF PromiseInv, CameKept
<1>2. ForwardedIsHandled'
  BY DEF PromiseInv, ForwardedIsHandled, Quiet
<1>3. pc' \notin InCall
  BY DEF Advance, InCall
<1> QED
  BY <1>1, <1>2, <1>3, OutsideKeeps DEF PromiseInv, Quiet

LEMMA RestartKeepsPromise ==
  ASSUME PromiseInv, Restart, io' = "write", UNCHANGED <<incoming, sim>>,
         incoming \subseteq Msgs, Handled' \subseteq Came
  PROVE  PromiseInv'
<1>1. \A s \in Slots : saved'[s] = Free
  BY DEF Restart, EmptyCache
<1>2. \A s \in Slots : saved'[s].msg \notin incoming
  BY <1>1, NullIsNoMessage DEF Free
<1>3. ForwardedIsHandled'
  BY <1>1 DEF ForwardedIsHandled, Free
<1>4. pc' \notin InCall /\ latest' = 0
  BY DEF Restart, InCall
<1> QED
  BY <1>2, <1>3, <1>4, OutsideKeeps DEF PromiseInv

\* What does not change the cache keeps what is said of its entries.
LEMMA CacheStays ==
  ASSUME PromiseInv, Quiet, saved' = saved
  PROVE  /\ SimKept'
         /\ \A s \in Slots : saved'[s].msg \notin incoming'
         /\ Handled' \subseteq Came'
         /\ latest' = 0 \/ \E m \in Came' : Sms[m].ts = latest'
         /\ ForwardedIsHandled'
<1>1. Came' = Came /\ Taken' = Taken
  BY DEF Quiet, Came, Taken
<1>2. SimKept'
  BY <1>1 DEF PromiseInv, SimKept, Quiet
<1> QED
  BY <1>1, <1>2 DEF PromiseInv, CameKept, ForwardedIsHandled, Quiet

(***************************************************************************)
(* forward_message() begins, after an exchange that left the modem ready.  *)
(***************************************************************************)
LEMMA ForwardKeepsPromise ==
  ASSUME Reliable, saved \in Caches, PromiseInv, Quiet, mode = "command",
         NEW for, NEW m \in Msgs, m \notin incoming,
         NEW text \in Seq(Msgs \cup {NULL}), text # <<>>,
         \A k \in DOMAIN text : text[k] \notin incoming,
         NEW slots \in SUBSET Slots,
         for = "new" => \E k \in DOMAIN text : text[k] = m,
         for # "new" => \A s \in slots : /\ saved[s].msg \in Msgs
                                         /\ \E k \in DOMAIN text : text[k] = saved[s].msg,
         forward_message(for, m, text, slots)
  PROVE  PromiseInv'
<1>1. CASE opts["forward"] = 0
  BY <1>1, ResultKeeps DEF forward_message
<1>2. CASE opts["forward"] # 0
  <2> DEFINE count == IF opts["multipart"] = 0 THEN 1
                      ELSE IF text[1] = NULL THEN 1 ELSE Sms[text[1]].pdus
             j == [for |-> for, text |-> text, slots |-> slots,
                   parts |-> count, part |-> 1, whole |-> TRUE]
  <2>1. text[1] \in Msgs \cup {NULL}
    OBVIOUS
  <2>2. count = 1
    BY <2>1 DEF Reliable
  <2>3. pc' = "prompt" /\ msg' = m /\ job' = j /\ saved' = saved
    BY <1>2 DEF forward_message, GoTo
  <2> HIDE DEF count
  <2>4. /\ job'.for = for /\ job'.text = text /\ job'.slots = slots
        /\ job'.parts = 1 /\ job'.part = 1 /\ job'.whole = TRUE
    BY <2>2, <2>3
  <2> HIDE DEF j
  <2>5. Members' = {text[k] : k \in DOMAIN text}
    BY <2>4 DEF Members
  <2>6. SendKept'
    BY <2>3, <2>4, <2>5 DEF SendKept, Quiet
  <2>7. CameKept'
    BY <2>3, <2>4, CacheStays DEF CameKept, Quiet
  <2>8. ReadKept' /\ CallKept'
    BY <2>3 DEF ReadKept, CallKept
  <2> QED
    BY <2>3, <2>6, <2>7, <2>8, CacheStays DEF PromiseInv
<1> QED
  BY <1>1, <1>2

\* The calls that are no forward begin.
LEMMA CallKeepsPromise ==
  ASSUME PromiseInv, Quiet, saved' = saved,
         NEW next \in InCall \ {"prompt", "submit"}, NEW m \in Msgs,
         m \notin incoming, NEW j, GoTo(next, m, j),
         next \in {"clear", "dump", "cset", "book"} => obeyed'[m] > 0,
         next = "clear" => Sms[m].cmd = "CLEAR",
         next = "delete" => m \in Handled' \/ Promise!TooOld(m)
  PROVE  PromiseInv'
<1>1. pc' = next /\ msg' = m
  BY DEF GoTo
<1>2. CameKept'
  BY <1>1, CacheStays DEF CameKept, Quiet, InCall
<1>3. SendKept' /\ ReadKept'
  BY <1>1 DEF SendKept, ReadKept, InCall
<1>4. Promise!TooOld(m) => Promise!TooOld(m)'
  BY DEF Promise!TooOld, Promise!Received, Promise!Msgs, Quiet
<1>5. CallKept'
  BY <1>1, <1>4 DEF CallKept
<1> QED
  BY <1>2, <1>3, <1>5, CacheStays DEF PromiseInv
-----------------------------------------------------------------------------
\* What an exchange found was an answer to it.
LEMMA TakeFinds ==
  ASSUME InTime, ModemTypeOK, InStep, NEW r \in Readings, Take(r)
  PROVE  /\ io' = "write" /\ UNCHANGED <<incoming, sim, mode>>
         /\ r.got \in Seq(Replies)
         /\ r.got = <<>> \/ (io = "read" /\ r.got = link)
         /\ ~ r.err => io = "read" /\ r.got = link
<1>1. /\ io' = "write" /\ UNCHANGED <<incoming, sim, mode>>
      /\ io # "write"
  BY DEF Take
<1>2. /\ r.got = <<>> \/ (io = "read" /\ r.got = link)
      /\ r.got \in Seq(Replies)
  BY TakeDrains, ReadingType
<1>3. ~ r.err => r = Reading(FALSE, link, <<>>, 0) /\ io # "failed"
  BY DEF Readings, Reading, InTime
<1>4. ~ r.err => io = "read" /\ r.got = link
  BY <1>1, <1>3 DEF Reading, ModemTypeOK
<1> QED
  BY <1>1, <1>2, <1>4

LEMMA InTimeIs == Reliable => InTime
  BY DEF Reliable, InTime

(***************************************************************************)
(* A message that was not seen before.                                     *)
(***************************************************************************)
LEMMA CommandKeepsPromise ==
  ASSUME saved \in Caches, incoming \subseteq Msgs, PromiseInv, Quiet,
         obeyed \in [Msgs -> 0..2], NEW m \in Msgs, m \notin incoming,
         process_command_message(m)
  PROVE  PromiseInv'
<1>1. obeyed'[m] > 0
  BY BumpFacts DEF process_command_message
<1>2. m \in Handled'
  BY <1>1 DEF Handled
<1>3. CASE /\ Sms[m].cmd \in DOMAIN CommandPC
           /\ GoTo(CommandPC[Sms[m].cmd], m, Idle)
           /\ UNCHANGED <<saved, latest, opts, dest>>
  <2> DEFINE next == CommandPC[Sms[m].cmd]
  <2>1. /\ next \in {"clear", "cset", "dump"}
        /\ next = "clear" => Sms[m].cmd = "CLEAR"
    BY <1>3 DEF CommandPC
  <2>2. next \in InCall \ {"prompt", "submit"} /\ next # "delete"
    BY <2>1 DEF InCall
  <2>3. GoTo(next, m, Idle) /\ saved' = saved
    BY <1>3
  <2> HIDE DEF next
  <2> QED
    BY <1>1, <2>1, <2>2, <2>3, CallKeepsPromise
<1>4. CASE Forwarded("new", m, {}, TRUE)
  BY <1>2, <1>4, ResultKeeps
<1>5. CASE Restart
  BY <1>5, RestartKeepsPromise DEF Quiet
<1> QED
  BY <1>3, <1>4, <1>5 DEF process_command_message

LEMMA NewKeepsPromise ==
  ASSUME Reliable, saved \in Caches, incoming \subseteq Msgs, PromiseInv, Quiet,
         mode = "command", obeyed \in [Msgs -> 0..2], NEW m \in Msgs,
         m \notin incoming, NewMessage(m)
  PROVE  PromiseInv'
<1>1. CASE process_command_message(m)
  BY <1>1, CommandKeepsPromise
<1>2. CASE forward_message("new", m, <<m>>, {})
  <2>1. /\ <<m>> \in Seq(Msgs \cup {NULL}) /\ <<m>> # <<>>
        /\ \A k \in DOMAIN <<m>> : <<m>>[k] = m
        /\ \E k \in DOMAIN <<m>> : <<m>>[k] = m
    OBVIOUS
  <2>2. \A k \in DOMAIN <<m>> : <<m>>[k] \notin incoming
    BY <2>1
  <2>3. {} \in SUBSET Slots
    OBVIOUS
  <2> QED
    BY <1>2, <2>1, <2>2, <2>3, ForwardKeepsPromise
<1>3. CASE Forwarded("new", m, {}, FALSE)
  BY <1>3, ResultKeeps
<1> QED
  BY <1>1, <1>2, <1>3 DEF NewMessage

(***************************************************************************)
(* A message that was seen before.  The cached copy is the message read,   *)
(* because no two messages are equal to compare_messages().                *)
(***************************************************************************)
LEMMA ExpiredIsTooOld ==
  ASSUME PromiseInv, latest \in Nat, NEW m \in Msgs, message_expired(m)
  PROVE  Promise!TooOld(m)
<1>1. latest - Sms[m].ts > EXPIRE /\ Sms[m].ts \in Nat /\ EXPIRE \in Nat
  BY MessageFields, ExpireAssumption DEF message_expired, SmsRecord
<1>2. latest # 0
  BY <1>1
<1>3. PICK x \in Came : Sms[x].ts = latest
  BY <1>2 DEF PromiseInv, CameKept
<1> QED
  BY <1>1, <1>3, TooOldIs

LEMMA PartsKeepPromise ==
  ASSUME Reliable, saved \in Caches, incoming \subseteq Msgs, PromiseInv, Quiet,
         mode = "command", NEW m \in Msgs, m \notin incoming, Sms[m].no > 0,
         process_multipart_message(m)
  PROVE  PromiseInv'
<1>1. CASE Advance /\ UNCHANGED saved
  BY <1>1, AdvanceKeeps
<1>2. CASE forward_message("multi", m, Assembled(m), PartsToMark(m))
  <2>1. Sms[m].parts \in Nat \ {0}
    BY MessageFields DEF SmsRecord, WellSplit
  <2>2. \A k \in 1..Sms[m].parts : PartAt(m, k) \in {-1} \cup Slots
    BY PartAtType DEF PartSlots
  <2>3. \A k \in 1..Sms[m].parts :
          LET x == IF PartAt(m, k) = -1 THEN NULL ELSE saved[PartAt(m, k)].msg
          IN  x \in Msgs \cup {NULL} /\ x \notin incoming
    BY <2>2, NullIsNoMessage DEF Caches, Entry, PromiseInv, CameKept
  <2>4. /\ Assembled(m) \in [1..Sms[m].parts -> Msgs \cup {NULL}]
        /\ \A k \in 1..Sms[m].parts : Assembled(m)[k] \notin incoming
    BY <2>3 DEF Assembled
  <2>5. /\ Assembled(m) \in Seq(Msgs \cup {NULL}) /\ Assembled(m) # <<>>
        /\ DOMAIN Assembled(m) = 1..Sms[m].parts
    BY <2>1, <2>4
  <2>6. PartsToMark(m) \in SUBSET Slots
    BY <2>2 DEF PartsToMark
  <2>7. ASSUME NEW s \in PartsToMark(m)
        PROVE  /\ saved[s].msg \in Msgs
               /\ \E k \in DOMAIN Assembled(m) : Assembled(m)[k] = saved[s].msg
    <3>1. PICK k \in 1..Sms[m].parts : s = PartAt(m, k) /\ s # -1
      BY <2>7 DEF PartsToMark
    <3>2. Assembled(m)[k] = saved[s].msg
      BY <3>1 DEF Assembled
    <3>3. s \in PartSlots(m)
      BY <3>1, PartAtType
    <3>4. saved[s].msg \in Msgs
      BY <3>3 DEF PartSlots, slot_taken, Caches, Entry
    <3> QED
      BY <2>5, <3>1, <3>2, <3>4
  <2> QED
    BY <1>2, <2>4, <2>5, <2>6, <2>7, ForwardKeepsPromise
<1> QED
  BY <1>1, <1>2 DEF process_multipart_message

LEMMA SeenKeepsPromise ==
  ASSUME Reliable, saved \in Caches, incoming \subseteq Msgs, PromiseInv, Quiet,
         mode = "command", latest \in Nat, NEW m \in Msgs, m \notin incoming,
         NEW s \in Slots, saved[s].msg = m, SeenMessage(m, s)
  PROVE  PromiseInv'
<1>1. Sms[m].no \in Nat /\ saved[s].fwd \in {0, 1}
  BY MessageFields DEF SmsRecord, Caches, Entry
<1>2. CASE message_expired(m) /\ delete_message(m, s)
  <2>1. Promise!TooOld(m)
    BY <1>2, ExpiredIsTooOld
  <2>2. CASE Advance
    BY <1>2, <2>2, AdvanceKeeps DEF delete_message
  <2>3. CASE GoTo("delete", m, Deletion(s))
    BY <1>2, <2>1, <2>3, CallKeepsPromise DEF delete_message, InCall
  <2> QED
    BY <1>2, <2>2, <2>3 DEF delete_message
<1>3. CASE saved[s].fwd = 1 /\ delete_message(m, s)
  <2>1. m \in Handled'
    BY <1>3 DEF PromiseInv, ForwardedIsHandled, Quiet
  <2>2. CASE Advance
    BY <1>3, <2>2, AdvanceKeeps DEF delete_message
  <2>3. CASE GoTo("delete", m, Deletion(s))
    BY <1>3, <2>1, <2>3, CallKeepsPromise DEF delete_message, InCall
  <2> QED
    BY <1>3, <2>2, <2>3 DEF delete_message
<1>4. CASE forward_message("seen", m, <<m>>, {s})
  <2>1. /\ <<m>> \in Seq(Msgs \cup {NULL}) /\ <<m>> # <<>>
        /\ \A k \in DOMAIN <<m>> : <<m>>[k] = m
        /\ \E k \in DOMAIN <<m>> : <<m>>[k] = m
    OBVIOUS
  <2>2. \A k \in DOMAIN <<m>> : <<m>>[k] \notin incoming
    BY <2>1
  <2>3. {s} \in SUBSET Slots
    OBVIOUS
  <2>4. \A t \in {s} : /\ saved[t].msg \in Msgs
                       /\ \E k \in DOMAIN <<m>> : <<m>>[k] = saved[t].msg
    BY <2>1
  <2> QED
    BY <1>4, <2>1, <2>2, <2>3, <2>4, ForwardKeepsPromise
<1>5. CASE process_multipart_message(m) /\ Sms[m].no > 0
  BY <1>5, PartsKeepPromise
<1>6. CASE Advance /\ UNCHANGED saved
  BY <1>6, AdvanceKeeps
<1> QED
  BY <1>1, <1>2, <1>3, <1>4, <1>5, <1>6 DEF SeenMessage

LEMMA MessageKeepsPromise ==
  ASSUME Reliable, TypeInv, PromiseInv, Quiet, mode = "command",
         NEW m \in Msgs, m \notin incoming, Message(m)
  PROVE  PromiseInv'
<1>1. /\ saved \in Caches /\ incoming \subseteq Msgs /\ latest \in Nat
      /\ obeyed \in [Msgs -> 0..2]
  BY DEF TypeInv, ModemTypeOK, Settings, Counters
<1>2. PICK s : s = find_saved_message(saved, m)
  OBVIOUS
<1>3. CASE s = -1
  BY <1>1, <1>2, <1>3, NewKeepsPromise DEF Message
<1>4. CASE s # -1
  <2>1. s \in Matches(saved, m)
    BY <1>1, <1>2, <1>4, FindIsMatch
  <2>2. s \in Slots /\ saved[s].msg \in Msgs /\ compare_messages(m, saved[s].msg)
    BY <1>1, <2>1 DEF Matches, slot_taken, Caches, Entry
  <2>3. saved[s].msg = m
    BY <2>2 DEF Reliable
  <2>4. CASE SeenMessage(m, s)
    BY <1>1, <2>2, <2>3, <2>4, SeenKeepsPromise
  <2>5. CASE CrashOnParts(s)
    BY <1>1, <2>5, RestartKeepsPromise DEF CrashOnParts, Quiet
  <2> QED
    BY <1>2, <1>4, <2>4, <2>5 DEF Message
<1> QED
  BY <1>3, <1>4

-----------------------------------------------------------------------------
\* An exchange that does not touch the history.
LEMMA TakeIsQuiet ==
  ASSUME Reliable, TypeInv, InStep, PromiseInv, NEW r \in Readings, Take(r),
         UNCHANGED history, latest' = latest
  PROVE  Quiet
<1>1. io' = "write" /\ UNCHANGED <<incoming, sim, mode>>
  BY TakeFinds, InTimeIs DEF TypeInv
<1>2. Handled' = Handled
  BY DEF history, Handled
<1> QED
  BY <1>1, <1>2 DEF Quiet, PromiseInv, CameKept

LEMMA OutsideCallsKeepPromise ==
  ASSUME Reliable, TypeInv, InStep, PromiseInv, Setup \/ Count \/ Status
  PROVE  PromiseInv'
<1>1. /\ \E r \in Readings : Take(r)
      /\ UNCHANGED history /\ saved' = saved /\ (latest' = latest \/ latest' = 0)
      /\ pc' \notin InCall
  BY DEF Setup, Echo, PowerStatus, NetworkStatus, PduMode, Logged, Operator, Contact,
         Count, Status, InCall, flowVars
<1>2. PICK r \in Readings : Take(r)
  BY <1>1
<1>3. io' = "write" /\ UNCHANGED <<incoming, sim, mode>>
  BY <1>2, TakeFinds, InTimeIs DEF TypeInv
<1>4. Handled' = Handled
  BY <1>1 DEF history, Handled
<1>5. ForwardedIsHandled'
  BY <1>1, <1>4 DEF PromiseInv, ForwardedIsHandled
<1> QED
  BY <1>1, <1>3, <1>4, <1>5, OutsideKeeps DEF PromiseInv, CameKept

LEMMA ReadKeepsPromise ==
  ASSUME Reliable, TypeInv, InStep, PromiseInv, Read
  PROVE  PromiseInv'
<1>1. PICK r \in Readings :
        /\ Take(r)
        /\ IF FoundKind(r.got, "cmgr") /\ Sms[FirstOf(r.got, "cmgr")].good
             THEN Message(FirstOf(r.got, "cmgr"))
             ELSE Advance /\ UNCHANGED <<flowVars, obeyed>>
  BY DEF Read
<1>2. /\ io' = "write" /\ UNCHANGED <<incoming, sim, mode>>
      /\ r.got \in Seq(Replies)
      /\ r.got = <<>> \/ (io = "read" /\ r.got = link)
  BY <1>1, TakeFinds, InTimeIs DEF TypeInv
<1>3. delivered' = delivered
  BY DEF Read
<1>4. CASE FoundKind(r.got, "cmgr") /\ Sms[FirstOf(r.got, "cmgr")].good
  <2> DEFINE m == FirstOf(r.got, "cmgr")
  <2>1. m \in Msgs
    BY <1>2, <1>4, FirstOfFacts, ReplyFields
  <2>2. m = sim[i] /\ io = "read" /\ r.got = link
    <3>1. Kind(r.got, "cmgr") \in SUBSET Nat /\ Kind(r.got, "cmgr") # {}
      BY <1>2, <1>4 DEF Kind, FoundKind
    <3>2. Min(Kind(r.got, "cmgr")) \in Kind(r.got, "cmgr")
      BY <3>1, MinIsElement
    <3>3. io = "read" /\ r.got = link
      BY <1>2, <3>1 DEF Kind
    <3> QED
      BY <3>2, <3>3 DEF Kind, FirstOf, InStep, Read
  <2>3. mode = "command"
    BY <1>4, <2>2 DEF PromiseInv, ReadKept, Read
  <2>4. Message(m)
    BY <1>1, <1>4
  <2> HIDE DEF m
  <2>5. i \in Indexes
    BY DEF TypeInv, Control, Placed, Read
  <2>6. m \notin incoming
    BY <2>1, <2>2, <2>5, NullIsNoMessage DEF PromiseInv, SimKept, Taken, Came
  <2>7. obeyed' = obeyed \/ obeyed' = Bump(obeyed, {m})
    BY <2>4 DEF Message, NewMessage, process_command_message, SeenMessage,
                CrashOnParts
  <2>8. \A x \in Msgs : /\ obeyed[x] > 0 => obeyed'[x] > 0
                        /\ x # m => obeyed'[x] = obeyed[x]
    BY <2>1, <2>7, BumpFacts DEF TypeInv, Counters
  <2>9. Handled \subseteq Handled' /\ Handled' \subseteq Came
    BY <1>3, <2>1, <2>6, <2>8 DEF Handled, Came, PromiseInv, CameKept
  <2>10. latest' = 0 \/ \E x \in Came : Sms[x].ts = latest'
    <3>1. \/ latest' = latest \/ latest' = 0
          \/ \E s : s = find_saved_message(saved, m) /\ s # -1
                    /\ latest' = Later(latest, Sms[saved[s].msg].ts)
      BY <2>4 DEF Message, NewMessage, process_command_message, SeenMessage,
                  CrashOnParts, Restart
    <3>2. ASSUME NEW s, s = find_saved_message(saved, m), s # -1,
                 latest' = Later(latest, Sms[saved[s].msg].ts)
          PROVE  latest' = latest \/ \E x \in Came : Sms[x].ts = latest'
      <4>1. saved \in Caches
        BY DEF TypeInv
      <4>2. s \in Matches(saved, m)
        BY <2>1, <3>2, <4>1, FindIsMatch
      <4>3. s \in Slots /\ saved[s].msg \in Msgs
        BY <4>1, <4>2 DEF Matches, slot_taken, Caches, Entry
      <4>4. saved[s].msg \in Came
        BY <4>3 DEF PromiseInv, CameKept, Came
      <4> QED
        BY <3>2, <4>4 DEF Later
    <3> QED
      BY <3>1, <3>2 DEF PromiseInv, CameKept
  <2>11. Quiet
    BY <1>2, <2>9, <2>10 DEF Quiet
  <2> QED
    BY <2>1, <2>3, <2>4, <2>6, <2>11, MessageKeepsPromise
<1>5. CASE ~ (FoundKind(r.got, "cmgr") /\ Sms[FirstOf(r.got, "cmgr")].good)
  <2>1. Advance /\ saved' = saved /\ latest' = latest /\ obeyed' = obeyed
    BY <1>1, <1>5 DEF flowVars
  <2>2. Quiet
    BY <1>1, <1>3, <2>1, TakeIsQuiet DEF history
  <2>3. incoming \subseteq Msgs
    BY DEF TypeInv, ModemTypeOK
  <2> QED
    BY <2>1, <2>2, <2>3, AdvanceKeeps
<1> QED
  BY <1>4, <1>5

\* A command that was obeyed enters the cache as forwarded.
LEMMA RememberKeepsPromise ==
  ASSUME TypeInv, PromiseInv, Quiet, Remember, UNCHANGED history,
         pc \in {"clear", "dump", "book"}
  PROVE  PromiseInv'
<1>1. msg \in Msgs /\ msg \notin incoming
  BY DEF TypeInv, Control, Placed, InCall, PromiseInv, CameKept
<1>2. msg \in Handled'
  BY <1>1 DEF PromiseInv, CallKept, Handled, history
<1>3. Forwarded("new", msg, {}, TRUE)
  BY DEF Remember
<1>4. saved \in Caches
  BY DEF TypeInv
<1> QED
  BY <1>1, <1>2, <1>3, <1>4, ResultKeeps

LEMMA CommandsKeepPromise ==
  ASSUME Reliable, TypeInv, InStep, PromiseInv, ClearOrDump \/ CharacterSet \/ Book
  PROVE  PromiseInv'
<1>1. /\ \E r \in Readings : Take(r)
      /\ UNCHANGED history /\ latest' = latest
  BY DEF ClearOrDump, CharacterSet, Book, Remember, flowVars
<1>2. Quiet
  BY <1>1, TakeIsQuiet
<1>3. CASE Remember /\ pc \in {"clear", "dump", "book"}
  BY <1>1, <1>2, <1>3, RememberKeepsPromise
<1>4. CASE pc' = "book" /\ pc \in {"cset", "book"} /\ msg' = msg /\ saved' = saved
  <2>1. CameKept'
    BY <1>2, <1>4, CacheStays DEF CameKept, Quiet, InCall, PromiseInv
  <2>2. SendKept' /\ ReadKept'
    BY <1>4 DEF SendKept, ReadKept
  <2>3. CallKept'
    BY <1>1, <1>4 DEF CallKept, PromiseInv, history
  <2> QED
    BY <1>2, <1>4, <2>1, <2>2, <2>3, CacheStays DEF PromiseInv
<1> QED
  BY <1>3, <1>4 DEF ClearOrDump, CharacterSet, Book, flowVars

-----------------------------------------------------------------------------
(***************************************************************************)
(* The exchanges of forward_message().  Every text has one PDU.            *)
(***************************************************************************)
LEMMA PromptKeepsPromise ==
  ASSUME Reliable, TypeInv, InStep, PromiseInv, Prompt
  PROVE  PromiseInv'
<1>1. PICK r \in Readings :
        /\ Take(r)
        /\ IF r.err THEN PduResult(FALSE, FALSE)
                    ELSE GoTo("submit", msg, job) /\ UNCHANGED saved
  BY DEF Prompt
<1>2. Quiet
  BY <1>1, TakeIsQuiet DEF Prompt
<1>3. job.part = 1 /\ job.parts = 1 /\ msg \in Msgs /\ msg \notin incoming
  BY DEF Prompt, PromiseInv, SendKept, CameKept, TypeInv, Control, Placed, InCall
<1>4. CASE r.err
  <2>1. Forwarded(job.for, msg, job.slots, FALSE)
    BY <1>1, <1>3, <1>4 DEF PduResult, Forwarded
  <2>2. saved \in Caches
    BY DEF TypeInv
  <2> QED
    BY <1>2, <1>3, <2>1, <2>2, ResultKeeps
<1>5. CASE ~ r.err
  <2>1. pc' = "submit" /\ msg' = msg /\ job' = job /\ saved' = saved
    BY <1>1, <1>5 DEF GoTo
  <2>2. io = "read"
    BY <1>1, <1>5, TakeFinds, InTimeIs DEF TypeInv
  <2>3. mode = "text" /\ job.whole
    BY <2>2 DEF Prompt, PromiseInv, SendKept
  <2>4. Members' = Members
    BY <2>1 DEF Members
  <2>5. SendKept'
    BY <1>2, <1>3, <2>1, <2>3, <2>4 DEF SendKept, Prompt, PromiseInv, Quiet
  <2>6. CameKept'
    BY <1>2, <2>1, CacheStays DEF CameKept, Prompt, PromiseInv, Quiet, InCall
  <2>7. ReadKept' /\ CallKept'
    BY <2>1 DEF ReadKept, CallKept
  <2> QED
    BY <1>2, <2>1, <2>5, <2>6, <2>7, CacheStays DEF PromiseInv
<1>6. r.err \in BOOLEAN
  BY ReadingType DEF TypeInv
<1> QED
  BY <1>4, <1>5, <1>6

LEMMA SubmitAnswerKeepsPromise ==
  ASSUME Reliable, TypeInv, InStep, PromiseInv, SubmitAnswer
  PROVE  PromiseInv'
<1>1. PICK r \in Readings :
        /\ Take(r)
        /\ PduResult(~ r.err /\ ~ FoundError(r.got), job.whole)
  BY DEF SubmitAnswer
<1>2. Quiet
  BY <1>1, TakeIsQuiet DEF SubmitAnswer
<1>3. PICK ok \in BOOLEAN : ok <=> ~ r.err /\ ~ FoundError(r.got)
  OBVIOUS
<1>4. /\ job.part = 1 /\ job.parts = 1 /\ msg \in Msgs /\ msg \notin incoming
      /\ job.slots \in SUBSET Slots /\ saved \in Caches
  BY DEF SubmitAnswer, PromiseInv, SendKept, CameKept, TypeInv, Control, Placed,
         InCall, Jobs
<1>5. Forwarded(job.for, msg, job.slots, ok)
  BY <1>1, <1>3, <1>4 DEF PduResult, Forwarded
<1>6. ASSUME ok PROVE Members \cap Msgs \subseteq Handled
  <2>1. io = "read" /\ r.got = link
    BY <1>1, <1>3, <1>6, TakeFinds, InTimeIs DEF TypeInv
  <2>2. ~ FoundError(link)
    BY <1>3, <1>6, <2>1
  <2> QED
    BY <2>1, <2>2 DEF SubmitAnswer, PromiseInv, SendKept
<1>7. ok /\ job.for = "new" => msg \in Handled'
  BY <1>2, <1>4, <1>6 DEF SubmitAnswer, PromiseInv, SendKept, Quiet
<1>8. ASSUME ok, job.for # "new", NEW s \in job.slots \cap Slots
      PROVE  saved[s].msg \in Handled'
  <2>1. saved[s].msg \in Members \cap Msgs
    BY <1>8 DEF SubmitAnswer, PromiseInv, SendKept
  <2> QED
    BY <1>2, <1>6, <1>8, <2>1 DEF Quiet
<1> QED
  BY <1>2, <1>4, <1>5, <1>7, <1>8, ResultKeeps

-----------------------------------------------------------------------------
\* The answer to CMGD; the end of the program; the network; the writes.
LEMMA DeleteKeepsPromise ==
  ASSUME Reliable, TypeInv, InStep, PromiseInv, Delete
  PROVE  PromiseInv'
<1>1. PICK r \in Readings : Take(r)
  BY DEF Delete
<1>2. Quiet
  BY <1>1, TakeIsQuiet DEF Delete
<1>3. /\ saved' \in {saved, remove_saved_message(saved, job.slots)}
      /\ Advance
  BY DEF Delete
<1>4. \A s \in Slots : saved'[s] \in {saved[s], Free}
  BY <1>3 DEF remove_saved_message
<1>5. \A s \in Slots : /\ saved'[s].msg \in {saved[s].msg, NULL}
                       /\ saved'[s].fwd = 1 => saved'[s] = saved[s]
  BY <1>4 DEF Free
<1>6. incoming \subseteq Msgs
  BY DEF TypeInv, ModemTypeOK
<1> QED
  BY <1>2, <1>3, <1>5, <1>6, AdvanceKeeps

LEMMA CrashKeepsPromise ==
  ASSUME TypeInv, PromiseInv, Crash
  PROVE  PromiseInv'
<1>1. Restart /\ io' = "write" /\ UNCHANGED <<incoming, sim>>
  BY DEF Crash
<1>2. Handled' \subseteq Came
  BY DEF Crash, history, Handled, PromiseInv, CameKept
<1> QED
  BY <1>1, <1>2, RestartKeepsPromise DEF TypeInv, ModemTypeOK

LEMMA ArriveFacts ==
  ASSUME ModemTypeOK, NEW m, Arrive(m)
  PROVE  \E x \in Indexes \ Taken :
           /\ sim' = [sim EXCEPT ![x] = m]
           /\ Taken' = Taken \cup {x}
           /\ Came' = Came \cup {m}
           /\ m \in Msgs \ Came
           /\ incoming' \subseteq incoming
<1>1. Indexes \ Taken \in SUBSET Nat /\ Indexes \ Taken # {}
  BY SimAssumption DEF Arrive, Indexes, Taken
<1>2. Min(Indexes \ Taken) \in Indexes \ Taken
  BY <1>1, MinIsElement
<1>3. PICK x \in Indexes \ Taken : sim' = [sim EXCEPT ![x] = m]
  BY <1>2 DEF Arrive
<1>4. m \in incoming /\ incoming' = incoming \ {m} /\ incoming \subseteq Msgs
  BY DEF Arrive, ModemTypeOK
<1>5. m # NULL
  BY <1>4, NullIsNoMessage
<1>6. Taken' = Taken \cup {x}
  BY <1>3, <1>5 DEF Taken, ModemTypeOK
<1>7. Came' = Came \cup {m} /\ m \in Msgs \ Came /\ incoming' \subseteq incoming
  BY <1>4 DEF Came
<1> QED
  BY <1>3, <1>6, <1>7

LEMMA DeliverKeepsPromise ==
  ASSUME TypeInv, PromiseInv, Deliver
  PROVE  PromiseInv'
<1>1. PICK m \in incoming : Arrive(m)
  BY DEF Deliver
<1>2. PICK x \in Indexes \ Taken :
        /\ sim' = [sim EXCEPT ![x] = m]
        /\ Taken' = Taken \cup {x}
        /\ Came' = Came \cup {m}
        /\ m \in Msgs \ Came
        /\ incoming' \subseteq incoming
  BY <1>1, ArriveFacts DEF TypeInv
<1>3. SimKept'
  <2>1. sim'[x] = m /\ \A y \in Taken : sim'[y] = sim[y]
    BY <1>2 DEF TypeInv, ModemTypeOK, Taken
  <2> QED
    BY <1>2, <2>1 DEF PromiseInv, SimKept
<1>4. UNCHANGED <<mode, link, io, pc, msg, job, saved, latest, delivered, obeyed>>
  BY <1>1 DEF Arrive, Deliver, localVars, flowVars, history
<1>5. Handled' = Handled /\ Members' = Members
  BY <1>4 DEF Handled, Members
<1>6. CameKept'
  BY <1>2, <1>4, <1>5 DEF PromiseInv, CameKept
<1>7. SendKept' /\ ReadKept' /\ ForwardedIsHandled'
  BY <1>4, <1>5 DEF PromiseInv, SendKept, ReadKept, ForwardedIsHandled
<1>8. Promise!TooOld(msg) => Promise!TooOld(msg)'
  BY <1>2, <1>4 DEF Promise!TooOld, Promise!Received, Promise!Msgs
<1>9. CallKept'
  BY <1>4, <1>5, <1>8 DEF PromiseInv, CallKept
<1> QED
  BY <1>3, <1>6, <1>7, <1>9 DEF PromiseInv

LEMMA AskKeepsPromise ==
  ASSUME Reliable, TypeInv, InStep, PromiseInv, Ask
  PROVE  PromiseInv'
<1>1. /\ UNCHANGED <<incoming, pc, msg, job, saved, latest, delivered, obeyed>>
      /\ Type(Line) /\ pc # "submit"
  BY DEF Ask, Type, localVars, flowVars, history
<1>2. Came' = Came /\ Handled' = Handled /\ Members' = Members
  BY <1>1 DEF Came, Handled, Members
<1>3. \A y \in Indexes : sim'[y] \in {sim[y], NULL}
  BY <1>1 DEF Type, Execute, Refuse, NoOperator, Swallow, BreakOff, Lose, SimAfter,
              EmptySim, TypeInv, ModemTypeOK
<1>4. SimKept'
  BY <1>2, <1>3 DEF PromiseInv, SimKept, Taken
<1>5. CameKept'
  BY <1>1, <1>2 DEF PromiseInv, CameKept
<1>6. SendKept'
  <2>1. SUFFICES ASSUME pc = "prompt"
                 PROVE  /\ io' # "write"
                        /\ io' = "read" => mode' = "text" /\ job.whole
    BY <1>1, <1>2, <2>1 DEF PromiseInv, SendKept
  <2>2. io = "write" /\ mode = "command" /\ job.whole
    BY <1>1, <2>1 DEF Type, PromiseInv, SendKept
  <2>3. Line.at = "CMGS"
    BY <2>1 DEF Line, CommandAt
  <2> QED
    BY <1>1, <2>2, <2>3 DEF Type, Execute, Refuse, NoOperator, Swallow, BreakOff, Lose,
                            Fault, Reliable
<1>7. ReadKept'
  <2>1. SUFFICES ASSUME pc = "read", io' = "read", FoundKind(link', "cmgr")
                 PROVE  mode' = "command"
    BY <1>1 DEF ReadKept
  <2>2. io = "write" /\ link = <<>>
    BY <1>1 DEF Type, InStep
  <2>3. \A r : Append(link, r) = <<r>>
    BY <2>2
  <2>4. Line.at = "CMGR"
    BY <2>1 DEF Line, CommandAt
  <2>5. ~ FoundKind(<<>>, "cmgr") /\ ~ FoundKind(<<Reply("error", 0)>>, "cmgr")
    BY DEF FoundKind, Kind, Reply
  <2> QED
    BY <1>1, <2>1, <2>2, <2>3, <2>4, <2>5
       DEF Type, Execute, Refuse, NoOperator, Swallow, BreakOff, Lose
<1>8. CallKept' /\ ForwardedIsHandled'
  BY <1>1, <1>2 DEF PromiseInv, CallKept, ForwardedIsHandled, Promise!TooOld,
                    Promise!Received, Promise!Msgs
<1> QED
  BY <1>4, <1>5, <1>6, <1>7, <1>8 DEF PromiseInv

LEMMA SubmitKeepsPromise ==
  ASSUME Reliable, TypeInv, InStep, PromiseInv, Submit
  PROVE  PromiseInv'
<1>1. /\ UNCHANGED <<incoming, sim, pc, msg, saved, latest, obeyed>>
      /\ pc = "submit" /\ io = "write" /\ io' \in {"read", "failed"}
      /\ job' = job \/ job' = [job EXCEPT !.whole = FALSE]
  BY DEF Submit, Accepted, NotAccepted, SubmitAccepted, SubmitRefused, SubmitIgnored,
         Lose, BreakOff, flowVars
<1>2. /\ job'.for = job.for /\ job'.text = job.text /\ job'.slots = job.slots
      /\ job'.part = 1 /\ job'.parts = 1 /\ job.part = 1 /\ job.parts = 1
      /\ job.whole /\ mode = "text" /\ link = <<>>
  BY <1>1 DEF TypeInv, Control, Jobs, PromiseInv, SendKept, InStep
<1>3. Came' = Came /\ Members' = Members /\ Taken' = Taken
  BY <1>1, <1>2 DEF Came, Members, Taken
<1>4. Members \cap Msgs \subseteq Came
  BY <1>1 DEF PromiseInv, CameKept, Members, Came
<1>5. \/ /\ delivered' = Bump(delivered, Members) /\ io' = "read"
      \/ /\ delivered' = delivered
         /\ io' = "read" => link' = <<Reply("error", 0)>>
  <2>1. Append(link, Reply("error", 0)) = <<Reply("error", 0)>>
    BY <1>2
  <2> QED
    BY <1>2, <2>1 DEF Submit, Accepted, NotAccepted, SubmitAccepted, SubmitRefused,
                      SubmitIgnored, Lose, BreakOff, Fault, Reliable
<1>6. FoundError(<<Reply("error", 0)>>)
  BY DEF FoundError, Kind, Reply
<1>7. /\ Handled \subseteq Handled' /\ Handled' \subseteq Came
      /\ io' = "read" => FoundError(link') \/ Members \cap Msgs \subseteq Handled'
  <2>1. CASE delivered' = delivered /\ (io' = "read" => link' = <<Reply("error", 0)>>)
    BY <1>1, <1>6, <2>1 DEF Handled, PromiseInv, CameKept
  <2>2. CASE delivered' = Bump(delivered, Members)
    <3>1. ASSUME NEW m \in Msgs
          PROVE  /\ delivered[m] > 0 => delivered'[m] > 0
                 /\ m \in Members => delivered'[m] > 0
                 /\ m \notin Members => delivered'[m] = delivered[m]
      BY <2>2, BumpFacts DEF TypeInv, Counters
    <3>2. \A m \in Msgs : m \in Handled' <=> m \in Handled \/ m \in Members
      BY <1>1, <3>1 DEF Handled
    <3> QED
      BY <1>4, <3>2 DEF Handled, PromiseInv, CameKept
  <2> QED
    BY <1>5, <2>1, <2>2
<1>8. SimKept'
  BY <1>1, <1>3 DEF PromiseInv, SimKept
<1>9. CameKept'
  BY <1>1, <1>2, <1>3, <1>7 DEF PromiseInv, CameKept
<1>10. SendKept'
  BY <1>1, <1>2, <1>3, <1>7 DEF PromiseInv, SendKept
<1>11. ReadKept' /\ CallKept' /\ ForwardedIsHandled'
  BY <1>1, <1>7 DEF PromiseInv, ReadKept, CallKept, ForwardedIsHandled
<1> QED
  BY <1>8, <1>9, <1>10, <1>11 DEF PromiseInv

LEMMA StutterKeepsPromise ==
  ASSUME PromiseInv, UNCHANGED vars
  PROVE  PromiseInv'
<1>1. /\ UNCHANGED <<incoming, sim, mode, link, io, pc, msg, job, saved, latest>>
      /\ UNCHANGED <<delivered, obeyed>>
  BY DEF vars, modemVars, localVars, flowVars, history
<1>2. Came' = Came /\ Taken' = Taken /\ Handled' = Handled /\ Members' = Members
  BY <1>1 DEF Came, Taken, Handled, Members
<1>3. SimKept' /\ CameKept'
  BY <1>1, <1>2 DEF PromiseInv, SimKept, CameKept
<1>4. SendKept' /\ ReadKept' /\ ForwardedIsHandled'
  BY <1>1, <1>2 DEF PromiseInv, SendKept, ReadKept, ForwardedIsHandled
<1>5. CallKept'
  BY <1>1, <1>2 DEF PromiseInv, CallKept, Promise!TooOld, Promise!Received,
                    Promise!Msgs
<1> QED
  BY <1>3, <1>4, <1>5 DEF PromiseInv

LEMMA NextKeepsPromise ==
  ASSUME Reliable
  PROVE  TypeInv /\ InStep /\ PromiseInv /\ [Next]_vars => PromiseInv'
<1> SUFFICES ASSUME TypeInv, InStep, PromiseInv, [Next]_vars
             PROVE  PromiseInv'
  OBVIOUS
<1>1. CASE Ask
  BY <1>1, AskKeepsPromise
<1>2. CASE Submit
  BY <1>2, SubmitKeepsPromise
<1>3. CASE Setup \/ Count \/ Status
  BY <1>3, OutsideCallsKeepPromise
<1>4. CASE Read
  BY <1>4, ReadKeepsPromise
<1>5. CASE ClearOrDump \/ CharacterSet \/ Book
  BY <1>5, CommandsKeepPromise
<1>6. CASE Prompt
  BY <1>6, PromptKeepsPromise
<1>7. CASE SubmitAnswer
  BY <1>7, SubmitAnswerKeepsPromise
<1>8. CASE Delete
  BY <1>8, DeleteKeepsPromise
<1>9. CASE Deliver
  BY <1>9, DeliverKeepsPromise
<1>10. CASE Crash
  BY <1>10, CrashKeepsPromise
<1>11. CASE UNCHANGED vars
  BY <1>11, StutterKeepsPromise
<1> QED
  BY <1>1, <1>2, <1>3, <1>4, <1>5, <1>6, <1>7, <1>8, <1>9, <1>10, <1>11
     DEF Next, Step, Pass

LEMMA InitPromise == Init => PromiseInv
<1> SUFFICES ASSUME Init PROVE PromiseInv
  OBVIOUS
<1>1. /\ incoming = Msgs /\ sim = EmptySim /\ io = "write" /\ pc = "echo"
      /\ saved = EmptyCache /\ latest = 0
      /\ delivered = [m \in Msgs |-> 0] /\ obeyed = [m \in Msgs |-> 0]
  BY DEF Init, ModemInit
<1>2. Taken = {}
  BY <1>1 DEF Taken, EmptySim
<1>3. Handled = {}
  BY <1>1 DEF Handled
<1>4. \A s \in Slots : saved[s].msg = NULL /\ saved[s].fwd = 0
  BY <1>1 DEF EmptyCache, Free
<1>5. SimKept
  BY <1>2 DEF SimKept
<1>6. CameKept
  BY <1>1, <1>3, <1>4, NullIsNoMessage DEF CameKept, InCall
<1>7. SendKept /\ ReadKept /\ CallKept
  BY <1>1 DEF SendKept, ReadKept, CallKept
<1>8. ForwardedIsHandled
  BY <1>4 DEF ForwardedIsHandled
<1> QED
  BY <1>5, <1>6, <1>7, <1>8 DEF PromiseInv

LEMMA PromiseHolds ==
  ASSUME Reliable
  PROVE  Spec => [](TypeInv /\ InStep /\ PromiseInv)
<1>1. Init => InStep
  BY DEF Init, ModemInit, InStep, DeletesWhatItRead
<1>2. TypeInv /\ InStep /\ [Next]_vars => InStep'
  BY NextInStep, InTimeIs
<1> QED
  BY <1>1, <1>2, InitType, NextType, InitPromise, NextKeepsPromise, PTL DEF Spec

(***************************************************************************)
(* When the modem answers every line in time and the texts are short, the  *)
(* `forwarded' flag of a cached message, which is all that flow() looks at *)
(* before it deletes, is set only after the network took the whole text or *)
(* the command in it was obeyed.                                           *)
(***************************************************************************)
THEOREM FlagMeansHandled ==
  ASSUME Reliable
  PROVE  Spec => []ForwardedIsHandled
<1>1. PromiseInv => ForwardedIsHandled
  BY DEF PromiseInv
<1> QED
  BY <1>1, PromiseHolds, PTL

-----------------------------------------------------------------------------
(***************************************************************************)
(* Each step of the forwarder is a step of the promise, or none.           *)
(***************************************************************************)
LEMMA DeliverReceives ==
  ASSUME TypeInv, Deliver
  PROVE  Promise!Receive
<1>1. PICK m \in incoming : Arrive(m)
  BY DEF Deliver
<1>2. PICK x \in Indexes \ Taken :
        /\ sim' = [sim EXCEPT ![x] = m]
        /\ Taken' = Taken \cup {x}
  BY <1>1, ArriveFacts DEF TypeInv
<1>3. sim'[x] = m /\ \A y \in Taken : sim'[y] = sim[y]
  BY <1>2 DEF TypeInv, ModemTypeOK, Taken
<1>4. Stored' = Stored \cup {m}
  BY <1>2, <1>3 DEF Stored
<1>5. Handled' = Handled /\ incoming' = incoming \ {m}
  BY <1>1 DEF Deliver, history, Handled, Arrive
<1> QED
  BY <1>4, <1>5 DEF Promise!Receive

LEMMA AskErases ==
  ASSUME TypeInv, InStep, PromiseInv, Ask
  PROVE  Promise!Erase \/ Promise!EraseAll \/ UNCHANGED <<incoming, Stored, Handled>>
<1>1. /\ UNCHANGED <<incoming, history>>
      /\ Type(Line) /\ io = "write"
  BY DEF Ask, Type
<1>2. Handled' = Handled
  BY <1>1 DEF history, Handled
<1>3. CASE sim' = sim
  BY <1>1, <1>2, <1>3 DEF Stored, Taken
<1>4. CASE sim' = [sim EXCEPT ![i] = NULL] /\ pc = "delete"
  <2>1. i \in Indexes /\ msg \in Msgs /\ msg # NULL
    BY <1>4, NullIsNoMessage DEF TypeInv, Control, Placed, InCall
  <2>2. sim[i] = msg /\ i \in Taken
    BY <1>1, <1>4, <2>1 DEF InStep, DeletesWhatItRead, Taken
  <2>3. /\ Taken' = Taken \ {i}
        /\ \A y \in Taken \ {i} : sim'[y] = sim[y] /\ sim[y] # msg
    BY <1>4, <2>1, <2>2 DEF Taken, TypeInv, ModemTypeOK, PromiseInv, SimKept
  <2>4. Stored' = Stored \ {msg} /\ msg \in Stored
    BY <2>2, <2>3 DEF Stored
  <2>5. msg \in Handled \/ Promise!TooOld(msg)
    BY <1>4 DEF PromiseInv, CallKept
  <2> QED
    BY <1>1, <1>2, <2>4, <2>5 DEF Promise!Erase
<1>5. CASE sim' = EmptySim /\ pc = "clear"
  <2>1. Stored' = {}
    BY <1>5 DEF Stored, Taken, EmptySim
  <2>2. msg \in Handled /\ Sms[msg].cmd = "CLEAR"
    BY <1>5 DEF PromiseInv, CallKept, Handled, TypeInv, Control, Placed, InCall
  <2> QED
    BY <1>1, <1>2, <2>1, <2>2 DEF Promise!EraseAll
<1>6. sim' = sim \/ sim' = SimAfter(Line)
  BY <1>1 DEF Type, Execute, Refuse, NoOperator, Swallow, BreakOff, Lose
<1>7. /\ Line.at = CommandAt[pc] /\ pc \in PCs
      /\ pc = "delete" => Line.arg = i
  BY DEF Line, TypeInv, Control
<1>8. Line.at = "CMGD" => pc = "delete"
  BY <1>7, PCsAre DEF CommandAt
<1>9. Line.at = "CMGDALL" => pc = "clear"
  BY <1>7, PCsAre DEF CommandAt
<1> QED
  BY <1>3, <1>4, <1>5, <1>6, <1>7, <1>8, <1>9 DEF SimAfter

LEMMA OtherHandles ==
  ASSUME TypeInv, PromiseInv, PromiseInv', [Next]_vars, UNCHANGED <<incoming, sim>>
  PROVE  Promise!Handle
<1>1. Handled \subseteq Handled'
  BY HandledGrows
<1>2. Came' = Came /\ Stored' = Stored
  BY DEF Came, Stored, Taken
<1>3. Handled' \subseteq Came
  BY <1>2 DEF PromiseInv, CameKept
<1> QED
  BY <1>1, <1>2, <1>3 DEF Promise!Handle, Promise!Received, Promise!Msgs, Came, Msgs

LEMMA StepKeepsPromise ==
  ASSUME Reliable
  PROVE  TypeInv /\ InStep /\ PromiseInv /\ PromiseInv' /\ [Next]_vars
         => [Promise!PromiseNext]_(Promise!promiseVars)
<1> SUFFICES ASSUME TypeInv, InStep, PromiseInv, PromiseInv', [Next]_vars
             PROVE  [Promise!PromiseNext]_(Promise!promiseVars)
  OBVIOUS
<1>1. CASE Deliver
  BY <1>1, DeliverReceives DEF Promise!PromiseNext
<1>2. CASE Ask
  BY <1>2, AskErases DEF Promise!PromiseNext, Promise!promiseVars
<1>3. ASSUME ~ Deliver, ~ Ask
      PROVE  UNCHANGED <<incoming, sim>>
  <2>1. \A r \in Readings : Take(r) => UNCHANGED <<incoming, sim>>
    BY DEF Take
  <2>2. CASE Setup \/ Pass
    BY <2>1, <2>2
       DEF Setup, Echo, PowerStatus, NetworkStatus, PduMode, Logged, Operator, Contact,
           Pass, Count, Status, Read, ClearOrDump, CharacterSet, Book, Prompt,
           SubmitAnswer, Delete
  <2>3. CASE Submit
    BY <2>3 DEF Submit, Accepted, NotAccepted, SubmitAccepted, SubmitRefused,
                SubmitIgnored, Lose, BreakOff
  <2>4. CASE Crash \/ UNCHANGED vars
    BY <2>4 DEF Crash, vars, modemVars
  <2> QED
    BY <1>3, <2>2, <2>3, <2>4 DEF Next, Step
<1>4. CASE ~ Deliver /\ ~ Ask
  BY <1>3, <1>4, OtherHandles DEF Promise!PromiseNext
<1> QED
  BY <1>1, <1>2, <1>4

LEMMA InitPromises == Init => Promise!PromiseInit
<1> SUFFICES ASSUME Init PROVE Promise!PromiseInit
  OBVIOUS
<1>1. incoming = Msgs /\ Stored = {} /\ Handled = {}
  BY DEF Init, ModemInit, Stored, Taken, EmptySim, Handled
<1> QED
  BY <1>1 DEF Promise!PromiseInit, Promise!Msgs, Msgs

(***************************************************************************)
(* The forwarder implements its promise: whatever lines are refused, lost  *)
(* or broken off, whatever the network refuses, whenever the program is    *)
(* killed and started again, no message leaves the SIM before it was       *)
(* forwarded whole or obeyed, unless it is too old or a ++CLEAR was        *)
(* obeyed; provided that each answer is read in time and to the end.       *)
(***************************************************************************)
THEOREM ImplementsPromise ==
  ASSUME Reliable
  PROVE  Spec => KeepsPromise
<1>1. TypeInv /\ InStep /\ PromiseInv /\ PromiseInv' /\ [Next]_vars
      => [Promise!PromiseNext]_(Promise!promiseVars)
  BY StepKeepsPromise
<1> QED
  BY <1>1, InitPromises, PromiseHolds, PTL DEF Spec, KeepsPromise, Promise!PromiseSpec

(***************************************************************************)
(* The promise keeps the messages: a step of it moves none out of what     *)
(* NothingLost allows.  (What was received, handled or too old stays so.)  *)
(***************************************************************************)
LEMMA PromiseSaves ==
  Promise!NothingLost /\ [Promise!PromiseNext]_(Promise!promiseVars)
  => Promise!NothingLost'
<1> SUFFICES ASSUME Promise!NothingLost, [Promise!PromiseNext]_(Promise!promiseVars),
                    NEW m \in Promise!Received'
             PROVE  \/ m \in Stored' \cup Handled'
                    \/ Promise!TooOld(m)'
                    \/ \E c \in Handled' : Sms[c].cmd = "CLEAR"
  BY DEF Promise!NothingLost
<1>1. Handled \subseteq Handled'
  BY DEF Promise!PromiseNext, Promise!Receive, Promise!Handle, Promise!Erase,
         Promise!EraseAll, Promise!promiseVars
<1>2. Promise!Received \subseteq Promise!Received'
  BY DEF Promise!PromiseNext, Promise!Receive, Promise!Handle, Promise!Erase,
         Promise!EraseAll, Promise!promiseVars, Promise!Received, Promise!Msgs
<1>3. Promise!TooOld(m) => Promise!TooOld(m)'
  BY <1>2 DEF Promise!TooOld
<1>4. CASE m \notin Promise!Received
  <2>1. m \in incoming /\ m \notin incoming'
    BY <1>4 DEF Promise!Received, Promise!Msgs
  <2>2. Promise!Receive
    BY <2>1 DEF Promise!PromiseNext, Promise!Handle, Promise!Erase, Promise!EraseAll,
                Promise!promiseVars
  <2> QED
    BY <2>1, <2>2 DEF Promise!Receive
<1>5. CASE m \in Promise!Received /\ m \in Stored
  <2>1. CASE m \in Stored'
    BY <2>1
  <2>2. CASE m \notin Stored'
    <3>1. Promise!Erase \/ Promise!EraseAll
      BY <1>5, <2>2 DEF Promise!PromiseNext, Promise!Receive, Promise!Handle,
                        Promise!promiseVars
    <3>2. CASE Promise!Erase
      BY <1>1, <1>3, <1>5, <2>2, <3>2 DEF Promise!Erase
    <3>3. CASE Promise!EraseAll
      BY <1>1, <3>3 DEF Promise!EraseAll
    <3> QED
      BY <3>1, <3>2, <3>3
  <2> QED
    BY <2>1, <2>2
<1>6. CASE m \in Promise!Received /\ m \notin Stored
  BY <1>1, <1>3, <1>6 DEF Promise!NothingLost
<1> QED
  BY <1>4, <1>5, <1>6

(***************************************************************************)
(* At any moment, under the same conditions, each message that came is on  *)
(* the SIM, was forwarded whole or obeyed, or is too old; or a ++CLEAR was *)
(* obeyed.                                                                 *)
(***************************************************************************)
THEOREM NothingIsLost ==
  ASSUME Reliable
  PROVE  Spec => []Promise!NothingLost
<1>1. Promise!PromiseInit => Promise!NothingLost
  BY DEF Promise!PromiseInit, Promise!NothingLost, Promise!Received, Promise!Msgs
<1>2. Promise!PromiseSpec => []Promise!NothingLost
  BY <1>1, PromiseSaves, PTL DEF Promise!PromiseSpec
<1> QED
  BY <1>2, ImplementsPromise, PTL DEF KeepsPromise
=============================================================================
