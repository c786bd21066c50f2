---------------------------- MODULE CacheProofs ----------------------------
(***************************************************************************)
(* What the cache of seen messages makes sure of, although one or more AT  *)
(* commands, each of which may fail, lie between the search for a message  *)
(* and its insertion: no message is in it twice, a split message is put    *)
(* together from its own parts, and a command is not taken for a message   *)
(* that is still to be forwarded.                                          *)
(***************************************************************************)
EXTENDS FlowProofs

\* The part of the inductive invariant that the types leave out.
Unique == Distinct(saved) /\ NewIsUnseen

LEMMA UniqueIsNoDuplicate == Unique => NoDuplicateEntry
  BY DEF Unique, Distinct, NoDuplicateEntry

\* Out of the calls of flow() nothing is left to be shown but the cache.
LEMMA OutsideCalls ==
  ASSUME pc' \notin InCall
  PROVE  NewIsUnseen'
  BY DEF NewIsUnseen, InCall

LEMMA AdvanceLeaves ==
  ASSUME Advance
  PROVE  NewIsUnseen'
<1>1. pc' \in {"read", "count"}
  BY DEF Advance
<1> QED
  BY <1>1, OutsideCalls DEF InCall

LEMMA ForwardedKeeps ==
  ASSUME saved \in Caches, Distinct(saved), NEW for, NEW m \in Msgs,
         for = "new" => ~ Seen(saved, m),
         NEW slots, NEW ok \in BOOLEAN, Forwarded(for, m, slots, ok)
  PROVE  Unique'
<1>1. NewIsUnseen'
  BY AdvanceLeaves DEF Forwarded
<1>2. CASE for = "new"
  <2>1. saved' = add_saved_message(saved, m, IF ok THEN 1 ELSE 0)
    BY <1>2 DEF Forwarded
  <2>2. (IF ok THEN 1 ELSE 0) \in {0, 1}
    OBVIOUS
  <2>3. Distinct(saved')
    BY <1>2, <2>1, <2>2, AddDistinct
  <2> QED BY <1>1, <2>3 DEF Unique, Distinct
<1>3. CASE for # "new"
  <2>1. Distinct(saved')
    BY <1>3, MarkDistinct DEF Forwarded
  <2> QED BY <1>1, <2>1 DEF Unique, Distinct
<1> QED BY <1>2, <1>3

LEMMA ForwardKeeps ==
  ASSUME saved \in Caches, Distinct(saved), NEW for, NEW m \in Msgs,
         for = "new" => ~ Seen(saved, m),
         NEW text, NEW slots, forward_message(for, m, text, slots)
  PROVE  Unique'
<1>1. CASE opts["forward"] = 0
  <2>1. Forwarded(for, m, slots, FALSE)
    BY <1>1 DEF forward_message
  <2> QED BY <2>1, ForwardedKeeps
<1>2. CASE opts["forward"] # 0
  <2>1. pc' = "prompt" /\ msg' = m /\ job'.for = for /\ saved' = saved
    BY <1>2 DEF forward_message, GoTo
  <2> QED
    BY <2>1 DEF Unique, NewIsUnseen, Distinct, Seen, Matches
<1> QED BY <1>1, <1>2

LEMMA DeleteKeeps ==
  ASSUME Distinct(saved), NEW m, NEW s, delete_message(m, s)
  PROVE  Unique'
<1>1. saved' = saved
  BY DEF delete_message
<1>2. NewIsUnseen'
  <2>1. CASE Advance
    BY <2>1, AdvanceLeaves
  <2>2. CASE pc' = "delete"
    BY <2>2 DEF NewIsUnseen
  <2> QED BY <2>1, <2>2 DEF delete_message, GoTo
<1> QED
  BY <1>1, <1>2 DEF Unique, Distinct

LEMMA RestartKeeps ==
  ASSUME Restart
  PROVE  Unique'
<1>1. NewIsUnseen'
  BY DEF Restart, NewIsUnseen
<1> QED
  BY <1>1, EmptyDistinct DEF Restart, Unique, Distinct

LEMMA CommandKeeps ==
  ASSUME saved \in Caches, Distinct(saved), NEW m \in Msgs, ~ Seen(saved, m),
         process_command_message(m)
  PROVE  Unique'
<1>1. CASE Sms[m].cmd \in DOMAIN CommandPC /\ GoTo(CommandPC[Sms[m].cmd], m, Idle)
           /\ UNCHANGED saved
  BY <1>1 DEF GoTo, Unique, NewIsUnseen, Distinct, Seen, Matches
<1>2. CASE Forwarded("new", m, {}, TRUE)
  BY <1>2, ForwardedKeeps
<1>3. CASE Restart
  BY <1>3, RestartKeeps
<1> QED
  BY <1>1, <1>2, <1>3 DEF process_command_message

LEMMA MessageKeeps ==
  ASSUME saved \in Caches, Distinct(saved), NEW m \in Msgs, Message(m)
  PROVE  Unique'
<1> DEFINE s == find_saved_message(saved, m)
<1>1. CASE s = -1
  <2>1. ~ Seen(saved, m)
    BY <1>1, FindMissing
  <2>2. CASE process_command_message(m)
    BY <2>1, <2>2, CommandKeeps
  <2>3. CASE forward_message("new", m, <<m>>, {})
    BY <2>1, <2>3, ForwardKeeps
  <2>4. CASE Forwarded("new", m, {}, FALSE)
    BY <2>1, <2>4, ForwardedKeeps
  <2> QED
    BY <1>1, <2>2, <2>3, <2>4 DEF Message, NewMessage
<1>2. CASE s # -1
  <2> DEFINE c == saved[s].msg
  <2>1. c \in Msgs
    BY <1>2, FindIsMatch DEF Matches, slot_taken, Caches, Entry
  <2> HIDE DEF s
  <2>2. CASE delete_message(m, s)
    BY <2>2, DeleteKeeps
  <2>3. CASE forward_message("seen", m, <<m>>, {s})
    BY <2>3, ForwardKeeps
  <2>4. CASE Advance /\ UNCHANGED saved
    BY <2>4, AdvanceLeaves DEF Unique, Distinct
  <2>5. CASE process_multipart_message(c)
    BY <2>1, <2>4, <2>5, ForwardKeeps DEF process_multipart_message
  <2>6. CASE CrashOnParts(s)
    BY <2>6, RestartKeeps DEF CrashOnParts
  <2>7. SeenMessage(m, s) \/ CrashOnParts(s)
    BY <1>2 DEF Message, s
  <2> QED
    BY <2>2, <2>3, <2>4, <2>5, <2>6, <2>7 DEF SeenMessage
<1> QED BY <1>1, <1>2

LEMMA RememberKeeps ==
  ASSUME TypeInv, Unique, pc \in {"clear", "dump", "book"}, Remember
  PROVE  Unique'
<1>1. msg \in Msgs /\ ~ Seen(saved, msg)
  BY DEF TypeInv, Control, Placed, InCall, Unique, NewIsUnseen
<1> QED
  BY <1>1, ForwardedKeeps DEF Remember, TypeInv, Unique

LEMMA PduKeeps ==
  ASSUME TypeInv, Unique, pc \in {"prompt", "submit"}, NEW ok \in BOOLEAN,
         NEW whole, PduResult(ok, whole)
  PROVE  Unique'
<1>1. /\ msg \in Msgs /\ job \in Jobs /\ saved \in Caches /\ Distinct(saved)
      /\ job.for = "new" => ~ Seen(saved, msg)
  BY DEF TypeInv, Control, Placed, InCall, Unique, NewIsUnseen
<1>2. CASE /\ GoTo("prompt", msg, [job EXCEPT !.part = job.part + 1, !.whole = whole])
           /\ UNCHANGED saved
  <2>1. job'.for = job.for /\ msg' = msg /\ pc' = "prompt"
    BY <1>1, <1>2 DEF GoTo, Jobs
  <2> QED
    BY <1>1, <1>2, <2>1 DEF Unique, NewIsUnseen, Distinct, Seen, Matches
<1>3. CASE Forwarded(job.for, msg, job.slots, ok)
  BY <1>1, <1>3, ForwardedKeeps
<1> QED
  BY <1>2, <1>3 DEF PduResult

-----------------------------------------------------------------------------
LEMMA StepKeeps == TypeInv /\ Unique /\ [Next]_vars => Unique'
<1> SUFFICES ASSUME TypeInv, Unique, [Next]_vars PROVE Unique'
  OBVIOUS
<1>1. saved \in Caches /\ Distinct(saved)
  BY DEF TypeInv, Unique
<1>2. CASE Ask
  BY <1>2 DEF Ask, localVars, flowVars, Unique, NewIsUnseen, Distinct, Seen, Matches
<1>3. CASE Submit
  <2>1. job'.for = job.for
    BY <1>3 DEF Submit, Accepted, NotAccepted, TypeInv, Control, Jobs
  <2> QED
    BY <1>3, <2>1
       DEF Submit, flowVars, Unique, NewIsUnseen, Distinct, Seen, Matches
<1>4. CASE Setup \/ Count \/ Status
  <2>1. pc' \notin InCall /\ saved' = saved
    BY <1>4 DEF Setup, Echo, PowerStatus, NetworkStatus, PduMode, Logged, Operator,
                Contact, Count, Status, flowVars, InCall
  <2> QED
    BY <1>1, <2>1, OutsideCalls DEF Unique, Distinct
<1>5. CASE Read
  <2>1. PICK r \in Readings :
          /\ Take(r)
          /\ IF FoundKind(r.got, "cmgr") /\ Sms[FirstOf(r.got, "cmgr")].good
               THEN Message(FirstOf(r.got, "cmgr"))
               ELSE Advance /\ UNCHANGED <<flowVars, obeyed>>
    BY <1>5 DEF Read
  <2>2. CASE FoundKind(r.got, "cmgr") /\ Message(FirstOf(r.got, "cmgr"))
    <3>1. r.got \in Seq(Replies)
      BY <2>1, TakeType DEF TypeInv
    <3>2. FirstOf(r.got, "cmgr") \in Msgs
      BY <2>2, <3>1, FirstOfFacts, ReplyFields
    <3> QED
      BY <1>1, <2>2, <3>2, MessageKeeps
  <2>3. CASE Advance /\ UNCHANGED flowVars
    BY <1>1, <2>3, AdvanceLeaves DEF flowVars, Unique, Distinct
  <2> QED
    BY <2>1, <2>2, <2>3
<1>6. CASE ClearOrDump
  BY <1>6, RememberKeeps DEF ClearOrDump
<1>7. CASE CharacterSet
  BY <1>7 DEF CharacterSet, flowVars, Unique, NewIsUnseen, Distinct, Seen, Matches
<1>8. CASE Book
  <2>1. CASE UNCHANGED <<pc, msg, job, saved>>
    BY <2>1 DEF Unique, NewIsUnseen, Distinct, Seen, Matches
  <2>2. CASE Remember
    BY <1>8, <2>2, RememberKeeps DEF Book
  <2> QED
    BY <1>8, <2>1, <2>2 DEF Book, flowVars
<1>9. CASE Prompt
  <2>1. CASE PduResult(FALSE, FALSE)
    BY <1>9, <2>1, PduKeeps DEF Prompt
  <2>2. CASE GoTo("submit", msg, job) /\ UNCHANGED saved
    BY <1>9, <2>2 DEF Prompt, GoTo, Unique, NewIsUnseen, Distinct, Seen, Matches
  <2> QED
    BY <1>9, <2>1, <2>2 DEF Prompt
<1>10. CASE SubmitAnswer
  <2>1. PICK r \in Readings : PduResult(~ r.err /\ ~ FoundError(r.got), job.whole)
    BY <1>10 DEF SubmitAnswer
  <2>2. (~ r.err /\ ~ FoundError(r.got)) \in BOOLEAN
    OBVIOUS
  <2> QED
    BY <1>10, <2>1, <2>2, PduKeeps DEF SubmitAnswer
<1>11. CASE Delete
  <2>1. saved' \in {saved, remove_saved_message(saved, job.slots)} /\ Advance
    BY <1>11 DEF Delete
  <2>2. Distinct(saved')
    BY <1>1, <2>1, RemoveDistinct
  <2> QED
    BY <2>1, <2>2, AdvanceLeaves DEF Unique, Distinct
<1>12. CASE Deliver
  BY <1>12 DEF Deliver, localVars, flowVars, Unique, NewIsUnseen, Distinct, Seen,
               Matches
<1>13. CASE Crash
  BY <1>13, RestartKeeps DEF Crash
<1>14. CASE UNCHANGED vars
  BY <1>14 DEF vars, localVars, flowVars, Unique, NewIsUnseen, Distinct, Seen,
               Matches
<1> QED
  BY <1>2, <1>3, <1>4, <1>5, <1>6, <1>7, <1>8, <1>9, <1>10, <1>11, <1>12, <1>13,
     <1>14 DEF Next, Step, Pass

(***************************************************************************)
(* The cache holds no message twice, whatever happens between              *)
(* find_saved_message() and add_saved_message() in flow().                 *)
(***************************************************************************)
THEOREM NoDuplicates == Spec => []NoDuplicateEntry
<1>1. Init => Unique
  BY EmptyDistinct DEF Init, Unique, NewIsUnseen, Distinct
<1>2. Spec => [](TypeInv /\ Unique)
  BY <1>1, InitType, NextType, StepKeeps, PTL DEF Spec
<1> QED
  BY <1>2, UniqueIsNoDuplicate, PTL

-----------------------------------------------------------------------------
(***************************************************************************)
(* Parts put together.  The hypothesis: two parts with one reference and   *)
(* one number of parts are of one sender, and the cache tells them apart   *)
(* by their place.  The run flow_mixed shows what happens without it.      *)
(***************************************************************************)
ReferencesDiffer ==
  \A a, b \in Msgs :
    /\ Sms[a].no > 0 /\ Sms[b].no > 0
    /\ Sms[a].ref = Sms[b].ref /\ Sms[a].parts = Sms[b].parts
    => /\ Sms[a].sender = Sms[b].sender
       /\ Sms[a].no = Sms[b].no => compare_messages(a, b)

\* As many parts in the cache as there are, so each of them is there.
LEMMA EveryPartCached ==
  ASSUME saved \in Caches, Distinct(saved), ReferencesDiffer,
         NEW m \in Msgs, Sms[m].no > 0,
         Cardinality(PartSlots(m)) = Sms[m].parts, NEW k \in 1..Sms[m].parts
  PROVE  /\ PartAt(m, k) \in PartSlots(m)
         /\ Sms[saved[PartAt(m, k)].msg].no = k
<1> DEFINE P == PartSlots(m)
           T == 1..Sms[m].parts
           f == [s \in P |-> Sms[saved[s].msg].no]
<1>1. Sms[m].parts \in Nat
  BY MessageFields DEF SmsRecord
<1>2. \A s \in P : /\ s \in Slots /\ slot_taken(saved, s) /\ saved[s].msg \in Msgs
                   /\ Sms[saved[s].msg].no \in T
                   /\ Sms[saved[s].msg].ref = Sms[m].ref
                   /\ Sms[saved[s].msg].parts = Sms[m].parts
  <2> SUFFICES ASSUME NEW s \in P
               PROVE  /\ s \in Slots /\ slot_taken(saved, s) /\ saved[s].msg \in Msgs
                      /\ Sms[saved[s].msg].no \in T
                      /\ Sms[saved[s].msg].ref = Sms[m].ref
                      /\ Sms[saved[s].msg].parts = Sms[m].parts
    OBVIOUS
  <2>1. /\ s \in Slots /\ slot_taken(saved, s) /\ saved[s].msg \in Msgs
        /\ Sms[saved[s].msg].ref = Sms[m].ref
        /\ Sms[saved[s].msg].parts = Sms[m].parts
    BY DEF PartSlots, slot_taken, Caches, Entry
  <2>2. WellSplit(Sms[saved[s].msg]) /\ WellSplit(Sms[m])
    BY <2>1, MessageFields
  <2>3. Sms[saved[s].msg].no \in T
    BY <1>1, <2>1, <2>2 DEF WellSplit
  <2> QED
    BY <2>1, <2>3
<1>3. \A s, t \in P : f[s] = f[t] => s = t
  <2> SUFFICES ASSUME NEW s \in P, NEW t \in P, f[s] = f[t] PROVE s = t
    OBVIOUS
  <2>1. Sms[saved[s].msg].no > 0 /\ Sms[saved[t].msg].no > 0
    BY <1>1, <1>2
  <2>2. compare_messages(saved[s].msg, saved[t].msg)
    BY <1>2, <2>1 DEF ReferencesDiffer
  <2> QED
    BY <1>2, <2>2 DEF Distinct
<1>4. f \in Injection(P, T)
  BY <1>2, <1>3 DEF Injection, IsInjective
<1>5. IsFiniteSet(T) /\ Cardinality(T) = Sms[m].parts
  <2>1. 1 \in Int /\ Sms[m].parts \in Int
    BY <1>1
  <2>2. /\ IsFiniteSet(T)
        /\ Cardinality(T) = IF 1 > Sms[m].parts THEN 0 ELSE Sms[m].parts - 1 + 1
    BY <2>1, FS_Interval, Zenon
  <2> QED
    BY <1>1, <2>2
<1>6. f \in Surjection(P, T)
  <2> HIDE DEF P, T, f
  <2> QED
    BY <1>4, <1>5, FS_Injection DEF P
<1>7. PICK s \in P : Sms[saved[s].msg].no = k
  BY <1>6 DEF Surjection
<1> DEFINE at == {x \in P : Sms[saved[x].msg].no = k}
<1>8. SAVED_MESSAGES - 1 \in Nat
  BY SavedAssumption
<1>9. at \in SUBSET (0..(SAVED_MESSAGES - 1)) /\ at # {}
  BY <1>2, <1>7 DEF Slots
<1>10. Max(at) \in at
  BY <1>8, <1>9, MaxIsElement
<1> QED
  BY <1>9, <1>10 DEF PartAt

\* What process_multipart_message() is about to send.
LEMMA AssemblesWhole ==
  ASSUME saved \in Caches, Distinct(saved), ReferencesDiffer,
         NEW m \in Msgs, Sms[m].no > 0,
         Cardinality(PartSlots(m)) = Sms[m].parts
  PROVE  /\ \A k \in DOMAIN Assembled(m) :
              Assembled(m)[k] # NULL /\ Sms[Assembled(m)[k]].no = k
         /\ \A k, l \in DOMAIN Assembled(m) :
              Sms[Assembled(m)[k]].sender = Sms[Assembled(m)[l]].sender
<1>1. Sms[m].parts \in Nat
  BY MessageFields DEF SmsRecord
<1>2. \A k \in 1..Sms[m].parts :
        /\ Assembled(m)[k] \in Msgs /\ Sms[Assembled(m)[k]].no = k
        /\ Sms[Assembled(m)[k]].ref = Sms[m].ref
        /\ Sms[Assembled(m)[k]].parts = Sms[m].parts
  <2> SUFFICES ASSUME NEW k \in 1..Sms[m].parts
               PROVE  /\ Assembled(m)[k] \in Msgs /\ Sms[Assembled(m)[k]].no = k
                      /\ Sms[Assembled(m)[k]].ref = Sms[m].ref
                      /\ Sms[Assembled(m)[k]].parts = Sms[m].parts
    OBVIOUS
  <2>1. PartAt(m, k) \in PartSlots(m) /\ Sms[saved[PartAt(m, k)].msg].no = k
    BY EveryPartCached
  <2>2. PartAt(m, k) # -1
    BY <2>1, SavedAssumption DEF PartSlots, Slots
  <2>3. Assembled(m)[k] = saved[PartAt(m, k)].msg
    BY <2>2 DEF Assembled
  <2> QED
    BY <2>1, <2>3 DEF PartSlots, slot_taken, Caches, Entry
<1>3. DOMAIN Assembled(m) = 1..Sms[m].parts
  BY DEF Assembled
<1>4. NULL \notin Msgs
  BY SmsAssumption DEF NULL, Msgs
<1>5. \A k, l \in 1..Sms[m].parts :
        Sms[Assembled(m)[k]].sender = Sms[Assembled(m)[l]].sender
  BY <1>1, <1>2 DEF ReferencesDiffer
<1> QED
  BY <1>2, <1>3, <1>4, <1>5

LEMMA NotMultiIsWhole ==
  ASSUME job'.for # "multi"
  PROVE  AssembledWhole'
  BY DEF AssembledWhole

LEMMA AdvanceWhole ==
  ASSUME Advance
  PROVE  AssembledWhole'
  BY NotMultiIsWhole DEF Advance, Idle

LEMMA ForwardWhole ==
  ASSUME NEW for, NEW m, NEW text, NEW slots, forward_message(for, m, text, slots),
         for = "multi" => /\ \A k \in DOMAIN text : text[k] # NULL /\ Sms[text[k]].no = k
                          /\ \A k, l \in DOMAIN text :
                               Sms[text[k]].sender = Sms[text[l]].sender
  PROVE  AssembledWhole'
<1>1. CASE Advance
  BY <1>1, AdvanceWhole
<1>2. CASE job'.for = for /\ job'.text = text
  BY <1>2 DEF AssembledWhole
<1> QED
  BY <1>1, <1>2 DEF forward_message, Forwarded, GoTo

LEMMA MessageWhole ==
  ASSUME saved \in Caches, Distinct(saved), ReferencesDiffer, NEW m \in Msgs, Message(m)
  PROVE  AssembledWhole'
<1>1. CASE Advance
  BY <1>1, AdvanceWhole
<1>2. CASE \E next, j : GoTo(next, m, j) /\ j.for # "multi"
  BY <1>2, NotMultiIsWhole DEF GoTo
<1>3. CASE Restart
  BY <1>3, NotMultiIsWhole DEF Restart, Idle
<1>4. CASE NewMessage(m)
  <2>1. CASE process_command_message(m)
    BY <1>1, <1>2, <1>3, <2>1 DEF process_command_message, Forwarded, Idle
  <2>2. CASE forward_message("new", m, <<m>>, {})
    BY <2>2, ForwardWhole
  <2> QED
    BY <1>1, <1>4, <2>1, <2>2 DEF NewMessage, Forwarded
<1> DEFINE s == find_saved_message(saved, m)
           c == saved[s].msg
<1>5. CASE s # -1 /\ SeenMessage(m, s)
  <2>1. c \in Msgs
    BY <1>5, FindIsMatch DEF Matches, slot_taken, Caches, Entry
  <2>2. saved[s].fwd \in {0, 1}
    BY <1>5, FindIsMatch DEF Matches, Caches, Entry
  <2> HIDE DEF s
  <2>3. CASE delete_message(m, s)
    BY <1>1, <1>2, <2>3 DEF delete_message, Deletion
  <2>4. CASE forward_message("seen", m, <<m>>, {s})
    BY <2>4, ForwardWhole
  <2>5. CASE Sms[c].no # 0 /\ process_multipart_message(c)
    <3>1. Sms[c].no > 0
      BY <2>1, <2>5, MessageFields DEF SmsRecord
    <3>2. CASE /\ Cardinality(PartSlots(c)) = Sms[c].parts
               /\ forward_message("multi", c, Assembled(c), PartsToMark(c))
      BY <2>1, <3>1, <3>2, AssemblesWhole, ForwardWhole
    <3> QED
      BY <1>1, <2>5, <3>2 DEF process_multipart_message
  <2> QED
    BY <1>1, <1>5, <2>2, <2>3, <2>4, <2>5 DEF SeenMessage
<1> QED
  BY <1>3, <1>4, <1>5 DEF Message, CrashOnParts

LEMMA StepWhole ==
  TypeInv /\ Unique /\ ReferencesDiffer /\ AssembledWhole /\ [Next]_vars => AssembledWhole'
<1> SUFFICES ASSUME TypeInv, Unique, ReferencesDiffer, AssembledWhole, [Next]_vars
             PROVE  AssembledWhole'
  OBVIOUS
<1>1. saved \in Caches /\ Distinct(saved) /\ job \in Jobs
  BY DEF TypeInv, Control, Unique
<1>2. CASE job'.for = job.for /\ job'.text = job.text
  BY <1>2 DEF AssembledWhole
<1>3. CASE Advance
  BY <1>3, AdvanceWhole
<1>4. CASE Ask \/ Setup \/ Count \/ Status \/ CharacterSet \/ Deliver \/ UNCHANGED vars
  <2>1. job' = job
    BY <1>4 DEF Ask, Setup, Echo, PowerStatus, NetworkStatus, PduMode, Logged, Operator,
                Contact, Count, Status, CharacterSet, Deliver, localVars, vars
  <2> QED
    BY <1>2, <2>1
<1>5. CASE Submit
  BY <1>1, <1>2, <1>5 DEF Submit, Accepted, NotAccepted, Jobs
<1>6. CASE Read
  <2>1. PICK r \in Readings :
          /\ Take(r)
          /\ IF FoundKind(r.got, "cmgr") /\ Sms[FirstOf(r.got, "cmgr")].good
               THEN Message(FirstOf(r.got, "cmgr"))
               ELSE Advance /\ UNCHANGED <<flowVars, obeyed>>
    BY <1>6 DEF Read
  <2>2. CASE FoundKind(r.got, "cmgr") /\ Message(FirstOf(r.got, "cmgr"))
    <3>1. r.got \in Seq(Replies)
      BY <2>1, TakeType DEF TypeInv
    <3>2. FirstOf(r.got, "cmgr") \in Msgs
      BY <2>2, <3>1, FirstOfFacts, ReplyFields
    <3> QED
      BY <1>1, <2>2, <3>2, MessageWhole
  <2> QED
    BY <1>3, <2>1, <2>2
<1>7. CASE ClearOrDump \/ Book \/ Delete
  BY <1>2, <1>3, <1>7 DEF ClearOrDump, Book, Delete, Remember, Forwarded
<1>8. CASE Prompt \/ SubmitAnswer
  <2>1. \/ \E ok, whole : PduResult(ok, whole)
        \/ GoTo("submit", msg, job)
    BY <1>8 DEF Prompt, SubmitAnswer
  <2>2. ASSUME NEW ok, NEW whole, PduResult(ok, whole)
        PROVE  AssembledWhole'
    BY <1>1, <1>2, <1>3, <2>2 DEF PduResult, GoTo, Forwarded, Jobs
  <2> QED
    BY <1>2, <2>1, <2>2 DEF GoTo
<1>9. CASE Crash
  BY <1>9, NotMultiIsWhole DEF Crash, Restart, Idle
<1> QED
  BY <1>4, <1>5, <1>6, <1>7, <1>8, <1>9 DEF Next, Step, Pass

(***************************************************************************)
(* What is put together from cached parts is all the parts of one message  *)
(* of one sender, in order, whatever fails and however often the program   *)
(* restarts, if references differ ("ensure, that all parts are available", *)
(* smsf-flow.c:337).                                                       *)
(***************************************************************************)
THEOREM PartsOfOneMessage ==
  ASSUME ReferencesDiffer
  PROVE  Spec => []AssembledWhole
<1>1. Init => Unique
  BY EmptyDistinct DEF Init, Unique, NewIsUnseen, Distinct
<1>2. Init => AssembledWhole
  BY DEF Init, AssembledWhole, Idle
<1>3. TypeInv /\ Unique /\ AssembledWhole /\ [Next]_vars => AssembledWhole'
  BY StepWhole
<1>4. Spec => [](TypeInv /\ Unique /\ AssembledWhole)
  BY <1>1, <1>2, <1>3, InitType, NextType, StepKeeps, PTL DEF Spec
<1> QED
  BY <1>4, PTL

-----------------------------------------------------------------------------
(***************************************************************************)
(* Commands.  The hypotheses: flow_setup() always finds one number, and    *)
(* messages that are equal to compare_messages() are the same command.     *)
(* The invariant: what is sent, and what stays in the cache unforwarded,   *)
(* is no unsplit command of this number.                                   *)
(***************************************************************************)
Found(d) ==
  /\ DaOverride \in {NoNumber, d}
  /\ DaOverride = NoNumber =>
       \A k \in 1..Len(PhoneBook) :
         PhoneBook[k].primary => PhoneBook[k].number \in {NoNumber, d}

OneNumber == \E d : Found(d)

Number == CHOOSE d : Found(d)

SameCommand == \A a, b \in Msgs : compare_messages(a, b) => Sms[a].cmd = Sms[b].cmd

FromNumber(m) == Sms[m].sender = Number /\ Sms[m].cmd # "none"

Sendable(m) == Sms[m].no = 0 => ~ FromNumber(m)

InFlow == {"count", "status", "read"} \cup InCall

DestKept == /\ pc = "contact" => DaOverride = NoNumber
            /\ pc \in InFlow => dest = Number

CountsKept == \A m \in Msgs : /\ obeyed[m] > 0 => FromNumber(m)
                              /\ delivered[m] > 0 => Sendable(m)

\* A cache without unsplit commands among the unforwarded.
Clean(cache) == \A s \in Slots : cache[s].msg \in Msgs /\ cache[s].fwd = 0
                                   => Sendable(cache[s].msg)

TextKept == pc \in {"prompt", "submit"} =>
              /\ \A k \in DOMAIN job.text : job.text[k] \in Msgs => Sendable(job.text[k])
              /\ job.for = "new" => Sendable(msg)

CommandInv == DestKept /\ CountsKept /\ Clean(saved) /\ TextKept

LEMMA NumberIsFound == OneNumber => Found(Number)
  BY DEF OneNumber, Number

LEMMA AddClean ==
  ASSUME NEW cache \in Caches, Clean(cache), NEW m \in Msgs, NEW fwd \in {0, 1},
         fwd = 0 => Sendable(m)
  PROVE  Clean(add_saved_message(cache, m, fwd))
<1>1. \A s \in Slots :
        \/ add_saved_message(cache, m, fwd)[s] = cache[s]
        \/ add_saved_message(cache, m, fwd)[s] = [msg |-> m, fwd |-> fwd]
  BY AddEffect
<1> QED
  BY <1>1 DEF Clean

LEMMA MarkClean ==
  ASSUME NEW cache \in Caches, Clean(cache), NEW S
  PROVE  Clean(MarkForwarded(cache, S)) /\ Clean(remove_saved_message(cache, S))
<1>1. \A s \in Slots : \/ MarkForwarded(cache, S)[s] = cache[s]
                       \/ MarkForwarded(cache, S)[s].fwd = 1
  BY DEF MarkForwarded, Caches, Entry
<1>2. \A s \in Slots : \/ remove_saved_message(cache, S)[s] = cache[s]
                       \/ remove_saved_message(cache, S)[s].msg = NULL
  BY DEF remove_saved_message, Free
<1>3. NULL \notin Msgs
  BY SmsAssumption DEF NULL, Msgs
<1> QED
  BY <1>1, <1>2, <1>3 DEF Clean

LEMMA PartAtIsOf ==
  ASSUME saved \in Caches, NEW m \in Msgs, NEW k, PartAt(m, k) # -1
  PROVE  Sms[saved[PartAt(m, k)].msg].no = k
<1> DEFINE at == {s \in PartSlots(m) : Sms[saved[s].msg].no = k}
<1>1. SAVED_MESSAGES - 1 \in Nat
  BY SavedAssumption
<1>2. at \in SUBSET (0..(SAVED_MESSAGES - 1)) /\ at # {}
  BY DEF PartSlots, Slots, PartAt
<1>3. Max(at) \in at
  BY <1>1, <1>2, MaxIsElement
<1> QED
  BY <1>2, <1>3 DEF PartAt

\* The next round of the loop, or the next call of flow().
LEMMA AdvanceCommand ==
  ASSUME DestKept, pc \in InFlow, Advance, dest' = dest
  PROVE  DestKept' /\ TextKept'
<1>1. pc' \in {"read", "count"}
  BY DEF Advance
<1> QED
  BY <1>1 DEF DestKept, TextKept, InFlow, InCall

LEMMA GoToCommand ==
  ASSUME DestKept, pc \in InFlow, NEW next \in InCall, NEW m, NEW j, GoTo(next, m, j),
         dest' = dest,
         next \in {"prompt", "submit"} =>
           /\ \A k \in DOMAIN j.text : j.text[k] \in Msgs => Sendable(j.text[k])
           /\ j.for = "new" => Sendable(m)
  PROVE  DestKept' /\ TextKept'
<1>1. pc' = next /\ job' = j /\ msg' = m
  BY DEF GoTo
<1>2. DestKept'
  BY <1>1 DEF DestKept, InFlow, InCall
<1>3. TextKept'
  BY <1>1 DEF TextKept
<1> QED
  BY <1>2, <1>3

LEMMA ForwardedCommand ==
  ASSUME saved \in Caches, DestKept, Clean(saved), pc \in InFlow, NEW for,
         NEW m \in Msgs, NEW slots, NEW ok \in BOOLEAN, Forwarded(for, m, slots, ok),
         for = "new" /\ ~ ok => Sendable(m), dest' = dest
  PROVE  DestKept' /\ TextKept' /\ Clean(saved')
<1>1. DestKept' /\ TextKept'
  BY AdvanceCommand DEF Forwarded
<1>2. CASE for = "new"
  <2>1. (IF ok THEN 1 ELSE 0) \in {0, 1} /\ ((IF ok THEN 1 ELSE 0) = 0 => ~ ok)
    OBVIOUS
  <2> QED
    BY <1>1, <1>2, <2>1, AddClean DEF Forwarded
<1>3. CASE for # "new"
  BY <1>1, <1>3, MarkClean DEF Forwarded
<1> QED
  BY <1>2, <1>3

LEMMA ForwardCommand ==
  ASSUME saved \in Caches, DestKept, Clean(saved), pc \in InFlow, NEW for,
         NEW m \in Msgs, NEW text, NEW slots, forward_message(for, m, text, slots),
         \A k \in DOMAIN text : text[k] \in Msgs => Sendable(text[k]),
         for = "new" => Sendable(m), dest' = dest
  PROVE  DestKept' /\ TextKept' /\ Clean(saved')
<1>1. CASE Forwarded(for, m, slots, FALSE)
  BY <1>1, ForwardedCommand
<1>2. CASE opts["forward"] # 0
  <2>1. PICK j : GoTo("prompt", m, j) /\ j.for = for /\ j.text = text /\ saved' = saved
    BY <1>2 DEF forward_message
  <2>2. "prompt" \in InCall
    BY DEF InCall
  <2>3. DestKept' /\ TextKept'
    BY <2>1, <2>2, GoToCommand
  <2> QED
    BY <2>1, <2>3
<1> QED
  BY <1>1, <1>2 DEF forward_message

LEMMA RestartCommand ==
  ASSUME Restart
  PROVE  DestKept' /\ TextKept' /\ Clean(saved')
<1>1. pc' = "echo" /\ saved' = EmptyCache
  BY DEF Restart
<1>2. NULL \notin Msgs
  BY SmsAssumption DEF NULL, Msgs
<1> QED
  BY <1>1, <1>2 DEF DestKept, TextKept, Clean, InFlow, InCall, EmptyCache, Free

LEMMA NewMessageCommand ==
  ASSUME TypeInv, CommandInv, pc = "read", NEW m \in Msgs, NewMessage(m)
  PROVE  DestKept' /\ TextKept' /\ Clean(saved') /\ (\/ obeyed' = obeyed
                                                     \/ /\ FromNumber(m)
                                                        /\ obeyed' = Bump(obeyed, {m}))
<1>1. /\ saved \in Caches /\ DestKept /\ Clean(saved) /\ pc \in InFlow
      /\ dest = Number
  BY DEF TypeInv, CommandInv, DestKept, InFlow
<1>2. IsCommand(m) <=> FromNumber(m)
  BY <1>1 DEF IsCommand, FromNumber
<1>3. CASE process_command_message(m) /\ IsCommand(m)
  <2>1. obeyed' = Bump(obeyed, {m}) /\ FromNumber(m)
    BY <1>2, <1>3 DEF process_command_message
  <2>2. CASE /\ Sms[m].cmd \in DOMAIN CommandPC
             /\ GoTo(CommandPC[Sms[m].cmd], m, Idle)
             /\ UNCHANGED <<saved, latest, opts, dest>>
    <3>1. CommandPC[Sms[m].cmd] \in InCall \ {"prompt", "submit"}
      BY <2>2 DEF CommandPC, InCall
    <3> QED
      BY <1>1, <2>1, <2>2, <3>1, GoToCommand
  <2>3. CASE Forwarded("new", m, {}, TRUE) /\ dest' = dest
    BY <1>1, <2>1, <2>3, ForwardedCommand
  <2>4. CASE Restart
    BY <2>1, <2>4, RestartCommand
  <2> QED
    BY <1>3, <2>2, <2>3, <2>4 DEF process_command_message
<1>4. CASE ~ IsCommand(m) /\ UNCHANGED <<latest, opts, dest, obeyed>>
  <2>1. Sendable(m)
    BY <1>2, <1>4 DEF Sendable
  <2>2. CASE forward_message("new", m, <<m>>, {})
    BY <1>1, <1>4, <2>1, <2>2, ForwardCommand
  <2>3. CASE Forwarded("new", m, {}, FALSE)
    BY <1>1, <1>4, <2>1, <2>3, ForwardedCommand
  <2> QED
    BY <1>4, <2>2, <2>3 DEF NewMessage
<1> QED
  BY <1>3, <1>4 DEF NewMessage

LEMMA SeenMessageCommand ==
  ASSUME TypeInv, CommandInv, SameCommand, pc = "read", NEW m \in Msgs,
         NEW s \in Matches(saved, m), SeenMessage(m, s)
  PROVE  DestKept' /\ TextKept' /\ Clean(saved') /\ obeyed' = obeyed
<1> DEFINE c == saved[s].msg
<1>1. /\ saved \in Caches /\ DestKept /\ Clean(saved) /\ pc \in InFlow
      /\ dest' = dest /\ obeyed' = obeyed
  BY DEF TypeInv, CommandInv, InFlow, SeenMessage
<1>2. s \in Slots /\ c \in Msgs /\ saved[s].fwd \in {0, 1} /\ compare_messages(m, c)
  BY <1>1 DEF Matches, slot_taken, Caches, Entry
<1>3. Sms[m].sender = Sms[c].sender /\ Sms[m].no = Sms[c].no /\ Sms[m].cmd = Sms[c].cmd
  BY <1>2 DEF SameCommand, compare_messages, Key
<1>4. CASE delete_message(m, s)
  <2>1. CASE Advance
    BY <1>1, <1>4, <2>1, AdvanceCommand DEF delete_message
  <2>2. CASE GoTo("delete", m, Deletion(s))
    <3>1. "delete" \in InCall
      BY DEF InCall
    <3> QED
      BY <1>1, <1>4, <2>2, <3>1, GoToCommand DEF delete_message
  <2> QED
    BY <1>4, <2>1, <2>2 DEF delete_message
<1>5. CASE saved[s].fwd = 0 /\ forward_message("seen", m, <<m>>, {s})
  <2>1. Sendable(m)
    BY <1>1, <1>2, <1>3, <1>5 DEF Clean, Sendable, FromNumber
  <2> QED
    BY <1>1, <1>5, <2>1, ForwardCommand
<1>6. CASE process_multipart_message(c)
  <2>1. CASE Advance /\ UNCHANGED saved
    BY <1>1, <2>1, AdvanceCommand
  <2>2. CASE forward_message("multi", c, Assembled(c), PartsToMark(c))
    <3>1. ASSUME NEW k \in DOMAIN Assembled(c), Assembled(c)[k] \in Msgs
          PROVE  Sendable(Assembled(c)[k])
      <4>1. k \in 1..Sms[c].parts /\ Sms[c].parts \in Nat
        BY <1>2, <3>1, MessageFields DEF Assembled, SmsRecord
      <4>2. PartAt(c, k) # -1 /\ Assembled(c)[k] = saved[PartAt(c, k)].msg
        BY <3>1, <4>1, SmsAssumption DEF Assembled, NULL, Msgs
      <4>3. Sms[saved[PartAt(c, k)].msg].no = k
        BY <1>1, <1>2, <4>2, PartAtIsOf
      <4> QED
        BY <4>1, <4>2, <4>3 DEF Sendable
    <3> QED
      BY <1>1, <1>2, <2>2, <3>1, ForwardCommand
  <2> QED
    BY <1>6, <2>1, <2>2 DEF process_multipart_message
<1>7. CASE Advance /\ UNCHANGED saved
  BY <1>1, <1>7, AdvanceCommand
<1> QED
  BY <1>1, <1>4, <1>5, <1>6, <1>7 DEF SeenMessage

LEMMA PduCommand ==
  ASSUME TypeInv, CommandInv, pc \in {"prompt", "submit"}, NEW ok \in BOOLEAN,
         NEW whole, PduResult(ok, whole), dest' = dest
  PROVE  DestKept' /\ TextKept' /\ Clean(saved')
<1>1. /\ saved \in Caches /\ DestKept /\ Clean(saved) /\ pc \in InFlow
      /\ job \in Jobs /\ msg \in Msgs
      /\ \A k \in DOMAIN job.text : job.text[k] \in Msgs => Sendable(job.text[k])
      /\ job.for = "new" => Sendable(msg)
  BY DEF TypeInv, Control, Placed, CommandInv, InFlow, InCall, TextKept
<1>2. CASE /\ GoTo("prompt", msg, [job EXCEPT !.part = job.part + 1, !.whole = whole])
           /\ UNCHANGED saved
  <2> DEFINE j == [job EXCEPT !.part = job.part + 1, !.whole = whole]
  <2>1. GoTo("prompt", msg, j) /\ j.for = job.for /\ j.text = job.text
    BY <1>1, <1>2 DEF Jobs
  <2>2. "prompt" \in InCall
    BY DEF InCall
  <2> HIDE DEF j
  <2>3. DestKept' /\ TextKept'
    BY <1>1, <2>1, <2>2, GoToCommand
  <2> QED
    BY <1>1, <1>2, <2>3
<1>3. CASE Forwarded(job.for, msg, job.slots, ok)
  BY <1>1, <1>3, ForwardedCommand
<1> QED
  BY <1>2, <1>3 DEF PduResult

LEMMA RememberCommand ==
  ASSUME TypeInv, CommandInv, pc \in {"clear", "dump", "book"}, Remember
  PROVE  DestKept' /\ TextKept' /\ Clean(saved')
<1>1. /\ saved \in Caches /\ DestKept /\ Clean(saved) /\ pc \in InFlow /\ msg \in Msgs
  BY DEF TypeInv, Control, Placed, CommandInv, InFlow, InCall
<1> QED
  BY <1>1, ForwardedCommand DEF Remember

LEMMA MessageCommand ==
  ASSUME TypeInv, CommandInv, SameCommand, pc = "read", NEW m \in Msgs, Message(m)
  PROVE  /\ DestKept' /\ TextKept' /\ Clean(saved')
         /\ \/ obeyed' = obeyed
            \/ FromNumber(m) /\ obeyed' = Bump(obeyed, {m})
<1> DEFINE s == find_saved_message(saved, m)
<1>1. CASE NewMessage(m)
  BY <1>1, NewMessageCommand
<1>2. CASE s # -1 /\ SeenMessage(m, s)
  <2>1. s \in Matches(saved, m)
    BY <1>2, FindIsMatch DEF TypeInv
  <2> HIDE DEF s
  <2> QED
    BY <1>2, <2>1, SeenMessageCommand
<1>3. CASE CrashOnParts(s)
  BY <1>3, RestartCommand DEF CrashOnParts
<1> QED
  BY <1>1, <1>2, <1>3 DEF Message

LEMMA ReadMessages ==
  ASSUME TypeInv, Read
  PROVE  (Advance /\ UNCHANGED <<flowVars, obeyed>>) \/ \E m \in Msgs : Message(m)
<1>1. PICK r \in Readings :
        /\ Take(r)
        /\ IF FoundKind(r.got, "cmgr") /\ Sms[FirstOf(r.got, "cmgr")].good
             THEN Message(FirstOf(r.got, "cmgr"))
             ELSE Advance /\ UNCHANGED <<flowVars, obeyed>>
  BY DEF Read
<1>2. CASE FoundKind(r.got, "cmgr") /\ Message(FirstOf(r.got, "cmgr"))
  <2>1. r.got \in Seq(Replies)
    BY <1>1, TakeType DEF TypeInv
  <2>2. FirstOf(r.got, "cmgr") \in Msgs
    BY <1>2, <2>1, FirstOfFacts, ReplyFields
  <2> QED
    BY <1>2, <2>2
<1> QED
  BY <1>1, <1>2

\* What is sent, and what is obeyed, is counted.
LEMMA CountsStay ==
  ASSUME TypeInv, CommandInv
  PROVE  /\ UNCHANGED history => CountsKept'
         /\ \A S : /\ delivered' = Bump(delivered, S) /\ obeyed' = obeyed
                   /\ \A m \in S \cap Msgs : Sendable(m)
                   => CountsKept'
         /\ \A m \in Msgs : /\ obeyed' = Bump(obeyed, {m}) /\ delivered' = delivered
                            /\ FromNumber(m)
                            => CountsKept'
<1>1. delivered \in [Msgs -> 0..2] /\ obeyed \in [Msgs -> 0..2] /\ CountsKept
  BY DEF TypeInv, Counters, CommandInv
<1> QED
  BY <1>1 DEF CountsKept, Bump, history

\* The set-up ends with the number in _dest_addr.
LEMMA SetupCommand ==
  ASSUME TypeInv, CommandInv, OneNumber, Setup
  PROVE  DestKept' /\ TextKept'
<1>1. DestKept /\ Found(Number)
  BY NumberIsFound DEF CommandInv
<1>2. pc' \notin {"prompt", "submit"}
  BY DEF Setup, Echo, PowerStatus, NetworkStatus, PduMode, Logged, Operator, Contact
<1>3. TextKept'
  BY <1>2 DEF TextKept
<1>4. CASE Echo \/ PowerStatus \/ NetworkStatus \/ PduMode
  <2>1. pc' \in {"echo", "power", "network", "pdumode", "operator"}
    BY <1>4 DEF Echo, PowerStatus, NetworkStatus, PduMode, Logged
  <2> QED
    BY <1>3, <2>1 DEF DestKept, InFlow, InCall
<1>5. CASE Operator
  <2>1. \/ pc' = "echo"
        \/ pc' = "contact" /\ DaOverride = NoNumber
        \/ pc' = "count" /\ DaOverride # NoNumber /\ dest' = DaOverride
    BY <1>5 DEF Operator
  <2> QED
    BY <1>1, <1>3, <2>1 DEF DestKept, Found, InFlow, InCall
<1>6. CASE Contact
  <2>1. PICK r \in Readings :
          /\ Take(r)
          /\ IF ~ FoundKind(r.got, "cpbr")
               THEN pc' = "echo" /\ row' = 0 /\ UNCHANGED dest
             ELSE LET c == PhoneBook[FirstOf(r.got, "cpbr")]
                  IN  IF c.primary
                        THEN /\ dest' = c.number
                             /\ pc' = IF c.number = NoNumber THEN "echo" ELSE "count"
                             /\ row' = 0
                      ELSE IF row < ContactsSearched
                        THEN row' = row + 1 /\ UNCHANGED <<pc, dest>>
                      ELSE pc' = "echo" /\ row' = 0 /\ UNCHANGED dest
    BY <1>6 DEF Contact
  <2>2. pc = "contact" /\ DaOverride = NoNumber
    BY <1>1, <1>6 DEF Contact, DestKept
  <2>3. CASE pc' \in {"echo", "contact"}
    BY <1>3, <2>2, <2>3 DEF DestKept, InFlow, InCall
  <2>4. CASE /\ FoundKind(r.got, "cpbr")
             /\ PhoneBook[FirstOf(r.got, "cpbr")].primary
             /\ dest' = PhoneBook[FirstOf(r.got, "cpbr")].number
             /\ dest' # NoNumber /\ pc' = "count"
    <3>1. r.got \in Seq(Replies)
      BY <2>1, TakeType DEF TypeInv
    <3>2. FirstOf(r.got, "cpbr") \in 1..Len(PhoneBook)
      BY <2>4, <3>1, FirstOfFacts, ReplyFields
    <3>3. dest' = Number
      BY <1>1, <2>2, <2>4, <3>2 DEF Found
    <3> QED
      BY <1>3, <2>4, <3>3 DEF DestKept
  <2> QED
    BY <2>1, <2>2, <2>3, <2>4
<1> QED
  BY <1>4, <1>5, <1>6 DEF Setup

LEMMA StepCommand ==
  TypeInv /\ CommandInv /\ OneNumber /\ SameCommand /\ [Next]_vars => CommandInv'
<1> SUFFICES ASSUME TypeInv, CommandInv, OneNumber, SameCommand, [Next]_vars
             PROVE  CommandInv'
  OBVIOUS
<1>1. /\ saved \in Caches /\ DestKept /\ CountsKept /\ Clean(saved) /\ TextKept
      /\ job \in Jobs
  BY DEF TypeInv, Control, CommandInv
<1>2. CASE Submit
  <2>1. /\ job'.for = job.for /\ job'.text = job.text
        /\ UNCHANGED <<pc, msg, saved, dest, obeyed>>
    BY <1>1, <1>2 DEF Submit, Accepted, NotAccepted, Jobs, flowVars
  <2>2. DestKept' /\ TextKept' /\ Clean(saved')
    BY <1>1, <2>1 DEF DestKept, TextKept
  <2>3. delivered' \in {delivered, Bump(delivered, Members)}
    BY <1>2 DEF Submit, Accepted, NotAccepted
  <2>4. \A m \in Members \cap Msgs : Sendable(m)
    BY <1>1, <1>2 DEF Submit, TextKept, Members
  <2>5. CountsKept'
    BY <2>1, <2>3, <2>4, CountsStay DEF history
  <2> QED
    BY <2>2, <2>5 DEF CommandInv
<1>3. CASE Read
  <2>1. delivered' = delivered /\ pc = "read" /\ pc \in InFlow
    BY <1>3 DEF Read, InFlow
  <2>2. CASE Advance /\ UNCHANGED <<flowVars, obeyed>>
    <3>1. DestKept' /\ TextKept'
      BY <1>1, <2>1, <2>2, AdvanceCommand DEF flowVars
    <3>2. CountsKept'
      BY <2>1, <2>2, CountsStay DEF history
    <3> QED
      BY <1>1, <2>2, <3>1, <3>2 DEF flowVars, CommandInv
  <2>3. CASE \E m \in Msgs : Message(m)
    <3>1. PICK m \in Msgs : Message(m)
      BY <2>3
    <3>2. /\ DestKept' /\ TextKept' /\ Clean(saved')
          /\ \/ obeyed' = obeyed
             \/ FromNumber(m) /\ obeyed' = Bump(obeyed, {m})
      BY <2>1, <3>1, MessageCommand
    <3>3. CountsKept'
      BY <2>1, <3>2, CountsStay DEF history
    <3> QED
      BY <3>2, <3>3 DEF CommandInv
  <2> QED
    BY <1>3, <2>2, <2>3, ReadMessages
<1>4. CASE Ask \/ Setup \/ Count \/ Status \/ ClearOrDump \/ CharacterSet \/ Book
           \/ Prompt \/ SubmitAnswer \/ Delete \/ Deliver \/ Crash \/ UNCHANGED vars
  <2> SUFFICES DestKept' /\ TextKept' /\ Clean(saved')
    <3>1. UNCHANGED history
      BY <1>4 DEF Ask, Setup, Echo, PowerStatus, NetworkStatus, PduMode, Logged, Operator,
                  Contact, Count, Status, ClearOrDump, CharacterSet, Book, Prompt,
                  SubmitAnswer, Delete, Deliver, Crash, vars
    <3> QED
      BY <3>1, CountsStay DEF CommandInv
  <2>1. CASE UNCHANGED <<pc, msg, job, saved, dest>>
    BY <1>1, <2>1 DEF DestKept, TextKept
  <2>2. CASE Ask \/ Deliver
    BY <2>1, <2>2 DEF Ask, Deliver, localVars, flowVars
  <2>3. CASE Setup
    <3>1. saved' = saved
      BY <2>3 DEF Setup, Echo, PowerStatus, NetworkStatus, PduMode, Logged, Operator,
                  Contact, flowVars
    <3> QED
      BY <1>1, <2>3, <3>1, SetupCommand
  <2>4. CASE Count \/ Status \/ CharacterSet
    <3>1. pc \in InFlow /\ pc' \in {"count", "status", "read", "echo", "book"}
          /\ UNCHANGED <<dest, saved>>
      BY <2>4 DEF Count, Status, CharacterSet, flowVars, InFlow, InCall
    <3> QED
      BY <1>1, <3>1 DEF DestKept, TextKept, InFlow, InCall
  <2>5. CASE ClearOrDump
    BY <2>5, RememberCommand DEF ClearOrDump
  <2>6. CASE Book
    BY <2>1, <2>6, RememberCommand DEF Book, flowVars
  <2>7. CASE Prompt
    <3>1. CASE PduResult(FALSE, FALSE)
      BY <2>7, <3>1, PduCommand DEF Prompt
    <3>2. CASE GoTo("submit", msg, job) /\ UNCHANGED saved
      <4>1. "submit" \in InCall /\ pc \in InFlow /\ dest' = dest
        BY <2>7 DEF Prompt, InFlow, InCall
      <4>2. DestKept' /\ TextKept'
        BY <1>1, <2>7, <3>2, <4>1, GoToCommand DEF Prompt, TextKept
      <4> QED
        BY <1>1, <3>2, <4>2
    <3> QED
      BY <2>7, <3>1, <3>2 DEF Prompt
  <2>8. CASE SubmitAnswer
    <3>1. PICK r \in Readings : PduResult(~ r.err /\ ~ FoundError(r.got), job.whole)
      BY <2>8 DEF SubmitAnswer
    <3>2. (~ r.err /\ ~ FoundError(r.got)) \in BOOLEAN
      OBVIOUS
    <3> QED
      BY <2>8, <3>1, <3>2, PduCommand DEF SubmitAnswer
  <2>9. CASE Delete
    <3>1. Clean(saved')
      BY <1>1, <2>9, MarkClean DEF Delete
    <3>2. pc \in InFlow /\ dest' = dest /\ Advance
      BY <2>9 DEF Delete, InFlow, InCall
    <3> QED
      BY <1>1, <3>1, <3>2, AdvanceCommand
  <2>10. CASE Crash
    BY <2>10, RestartCommand DEF Crash
  <2>11. CASE UNCHANGED vars
    BY <2>1, <2>11 DEF vars, localVars, flowVars
  <2> QED
    BY <1>4, <2>2, <2>3, <2>4, <2>5, <2>6, <2>7, <2>8, <2>9, <2>10, <2>11
<1> QED
  BY <1>2, <1>3, <1>4 DEF Next, Step, Pass

(***************************************************************************)
(* An unsplit command of the destination is never sent ("Command SMS       *)
(* messages are not forwarded", README), whatever fails or comes late,     *)
(* however often the program restarts and the cache overflows.             *)
(***************************************************************************)
THEOREM CommandsAreNotSent ==
  ASSUME OneNumber, SameCommand
  PROVE  Spec => []CommandsStay
<1>1. Init => CommandInv
  <2> SUFFICES ASSUME Init PROVE CommandInv
    OBVIOUS
  <2>1. NULL \notin Msgs
    BY SmsAssumption DEF NULL, Msgs
  <2> QED
    BY <2>1 DEF Init, CommandInv, DestKept, CountsKept, Clean, TextKept, InFlow, InCall,
                EmptyCache, Free
<1>2. TypeInv /\ CommandInv /\ [Next]_vars => CommandInv'
  BY StepCommand
<1>3. TypeInv /\ CommandInv => CommandsStay
  BY DEF TypeInv, Counters, CommandInv, CountsKept, Sendable, CommandsStay
<1> QED
  BY <1>1, <1>2, <1>3, InitType, NextType, PTL DEF Spec
=============================================================================
