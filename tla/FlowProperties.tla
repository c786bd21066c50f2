-------------------------- MODULE FlowProperties --------------------------
(***************************************************************************)
(* What must be true of the forwarder.  Which of these hold under which    *)
(* faults is the subject of the runs and of the proofs.                    *)
(***************************************************************************)
EXTENDS Flow

Jobs == [for : {"none", "new", "seen", "multi", "delete"},
         text : Seq(Msgs \cup {NULL}), slots : SUBSET Slots,
         parts : Nat, part : Nat, whole : BOOLEAN]

(***************************************************************************)
(* The type invariant: every variable of the program and the modem has its *)
(* type, and the loop index of flow() stays within the SIM.                *)
(***************************************************************************)
TypeOK == /\ ModemTypeOK
          /\ pc \in PCs
          /\ i \in 0..SimSize /\ n \in 0..SimSize
          /\ row \in Nat
          /\ msg \in Msgs \cup {NULL}
          /\ job \in Jobs
          /\ saved \in Caches
          /\ latest \in Nat
          /\ opts \in Options
          /\ dest \in Nat
          /\ delivered \in [Msgs -> 0..2]
          /\ obeyed \in [Msgs -> 0..2]

(***************************************************************************)
(* Where the locals are set: the index in the loop of flow(), the row in   *)
(* the loops over the phone book, the message in the calls flow() makes.   *)
(***************************************************************************)
InCall == {"clear", "dump", "cset", "book", "prompt", "submit", "delete"}

Placed == /\ pc \in InCall \cup {"read"} => i \in Indexes
          /\ pc \in {"contact", "book"} => row >= 1
          /\ pc \in InCall => msg \in Msgs

(***************************************************************************)
(* The cache holds no message twice: flow() adds a message to _saved_msgs  *)
(* only when find_saved_message() did not find it, with any number of AT   *)
(* commands between the search and the insertion.                          *)
(***************************************************************************)
NoDuplicateEntry ==
  \A s, t \in Slots :
    /\ slot_taken(saved, s) /\ slot_taken(saved, t)
    /\ compare_messages(saved[s].msg, saved[t].msg)
    => s = t

\* Between the search and the insertion the message is not in the cache.
NewIsUnseen ==
  \/ pc \in {"clear", "dump", "cset", "book"}
  \/ pc \in {"prompt", "submit"} /\ job.for = "new"
  => ~ Seen(saved, msg)

(***************************************************************************)
(* When flow() issues AT+CMGD for index i, that place of the SIM holds the *)
(* message it has just read there and decided to delete, whatever arrived  *)
(* in the meantime (README, Discussion 1: "the next deletion attempt for   *)
(* message 5 might accidentally remove a newly received message").         *)
(***************************************************************************)
DeletesWhatItRead == pc = "delete" /\ io = "write" => sim[i] = msg

Handled == {m \in Msgs : delivered[m] > 0 \/ obeyed[m] > 0}

(***************************************************************************)
(* A cache entry whose `forwarded' flag is set belongs to a message that   *)
(* reached the destination whole or was obeyed: the flag is all that flow()*)
(* consults before it deletes.                                             *)
(***************************************************************************)
ForwardedIsHandled ==
  \A s \in Slots : saved[s].fwd = 1 => saved[s].msg \in Handled

(***************************************************************************)
(* The forwarder implements its promise: no message leaves the SIM before  *)
(* it was handled, unless too old or cleared by command.                   *)
(***************************************************************************)
Promise == INSTANCE Forwarding WITH coming <- incoming, stored <- Stored,
                                    handled <- Handled

KeepsPromise == Promise!PromiseSpec

(***************************************************************************)
(* "Command SMS messages are not forwarded" (README, User Guide): an       *)
(* unsplit command from the destination number is never sent.              *)
(***************************************************************************)
CommandsStay ==
  \A m \in Msgs : obeyed[m] > 0 /\ Sms[m].no = 0 => delivered[m] = 0

(***************************************************************************)
(* While the cache is not full and the program runs on, a message is sent  *)
(* at most once, however many passes find it on the SIM, whichever of its  *)
(* deletions fail, and in whatever order its parts arrived.                *)
(***************************************************************************)
ForwardedOnce == \A m \in Msgs : delivered[m] <= 1

(***************************************************************************)
(* Likewise a command is obeyed at most once.                              *)
(***************************************************************************)
ObeyedOnce == \A m \in Msgs : obeyed[m] <= 1

(***************************************************************************)
(* The text put together from cached parts consists of all the parts of    *)
(* one message, in order ("ensure, that all parts are available",          *)
(* smsf-flow.c:337).                                                       *)
(***************************************************************************)
AssembledWhole ==
  job.for = "multi" =>
    /\ \A k \in DOMAIN job.text : job.text[k] # NULL /\ Sms[job.text[k]].no = k
    /\ \A k, l \in DOMAIN job.text :
         Sms[job.text[k]].sender = Sms[job.text[l]].sender

\* A message the loop over 1..n comes to, n being the number of messages.
InReach(m) ==
  \E x \in Taken : sim[x] = m /\ x <= Cardinality(Taken)

(***************************************************************************)
(* No unsplit message that decode_pdu() accepts stays on the SIM forever   *)
(* in an index flow() reads, while forwarding and deletion are on: it is   *)
(* forwarded, retried after a failure, and deleted, again retried.         *)
(***************************************************************************)
NeverStuck ==
  \A m \in Msgs : Sms[m].good /\ Sms[m].no = 0 => []<>(~ InReach(m))

(***************************************************************************)
(* "the phone number to which all SMS messages will be forwarded" (README, *)
(* User Guide): every stored message is handled in the end.                *)
(***************************************************************************)
AllForwarded == \A m \in Msgs : (m \in Stored) ~> (m \in Handled)
=============================================================================
