---------------------------- MODULE FlowProofs ----------------------------
(***************************************************************************)
(* Type correctness of the forwarder, and that its cache never holds a     *)
(* message twice, for every SIM, cache, phone book, set of messages and    *)
(* set of faults.                                                          *)
(***************************************************************************)
EXTENDS FlowProperties, WellFoundedInduction, FiniteSetTheorems, SequenceTheorems,
        TLAPS

-----------------------------------------------------------------------------
(***************************************************************************)
(* Min of a non-empty set of natural numbers is one of its elements: the   *)
(* scans of the cache, and of the lines of an answer, stop at an element   *)
(* that satisfies what they look for.                                      *)
(***************************************************************************)
LEMMA MinIsElement ==
  ASSUME NEW S \in SUBSET Nat, S # {}
  PROVE  Min(S) \in S
<1>1. PICK x \in S : \A y \in S : <<y, x>> \notin OpToRel(<, Nat)
  BY WFMin, NatLessThanWellFounded
<1>2. \A y \in S : ~ (y < x)
  BY <1>1, Zenon DEF OpToRel
<1>3. \A y \in S : x =< y
  BY <1>2
<1> QED
  BY <1>3 DEF Min

(***************************************************************************)
(* Max of a non-empty set of numbers up to a bound is one of its elements: *)
(* the parts found by process_multipart_message().                         *)
(***************************************************************************)
LEMMA MaxIsElement ==
  ASSUME NEW b \in Nat, NEW S \in SUBSET (0..b), S # {}
  PROVE  Max(S) \in S
<1> DEFINE T == {y \in 0..b : b - y \in S}
<1>1. T \in SUBSET Nat
  OBVIOUS
<1>2. T # {}
  <2>1. PICK x \in S : TRUE
    OBVIOUS
  <2>2. b - x \in T
    <3>1. b - x \in 0..b /\ b - (b - x) = x
      OBVIOUS
    <3> QED BY <3>1
  <2> QED BY <2>2
<1>4. PICK m \in T : \A y \in T : m =< y
  <2>1. PICK m \in T : \A y \in T : <<y, m>> \notin OpToRel(<, Nat)
    <3> HIDE DEF T
    <3> QED BY <1>1, <1>2, WFMin, NatLessThanWellFounded
  <2>2. \A y \in T : ~ (y < m)
    <3> HIDE DEF T
    <3> QED BY <1>1, <2>1, Zenon DEF OpToRel
  <2>3. \A y \in T : m =< y
    BY <2>2
  <2> QED BY <2>3
<1>5. \A y \in S : b - y \in T
  OBVIOUS
<1>6. \A y \in S : b - m >= y
  BY <1>4, <1>5
<1>7. b - m \in S
  BY <1>4
<1> QED
  BY <1>6, <1>7 DEF Max

LEMMA MessageFields ==
  ASSUME NEW m \in Msgs
  PROVE  Sms[m] \in SmsRecord /\ WellSplit(Sms[m])
  BY SmsAssumption DEF Msgs

LEMMA HashedSlotType ==
  ASSUME NEW m \in Msgs
  PROVE  HashedSlot(m) \in Slots
<1>1. Sms[m].hash \in Nat
  BY MessageFields DEF SmsRecord
<1> QED
  BY <1>1, SavedAssumption DEF HashedSlot, Slots

(***************************************************************************)
(* find_saved_message() returns a slot that holds the message, or -1 when  *)
(* no slot does.                                                           *)
(***************************************************************************)
LEMMA FindIsMatch ==
  ASSUME NEW cache \in Caches, NEW m \in Msgs,
         find_saved_message(cache, m) # -1
  PROVE  find_saved_message(cache, m) \in Matches(cache, m)
<1>1. Matches(cache, m) \in SUBSET Nat
  BY SavedAssumption DEF Matches, Slots
<1>2. CASE HashedSlot(m) \in Matches(cache, m)
  BY <1>2 DEF find_saved_message
<1>3. CASE HashedSlot(m) \notin Matches(cache, m)
  BY <1>1, <1>3, MinIsElement DEF find_saved_message
<1> QED
  BY <1>2, <1>3

LEMMA FindMissing ==
  ASSUME NEW cache \in Caches, NEW m \in Msgs,
         find_saved_message(cache, m) = -1
  PROVE  ~ Seen(cache, m)
<1>1. Matches(cache, m) \in SUBSET Nat
  BY SavedAssumption DEF Matches, Slots
<1>2. HashedSlot(m) # -1
  BY HashedSlotType DEF Slots
<1>3. CASE Matches(cache, m) # {}
  BY <1>1, <1>2, <1>3, MinIsElement DEF find_saved_message
<1> QED
  BY <1>3 DEF Seen

LEMMA FreeSlotType ==
  ASSUME NEW cache \in Caches
  PROVE  find_free_slot(cache) \in {-1} \cup FreeSlots(cache)
<1>1. FreeSlots(cache) \in SUBSET Nat
  BY SavedAssumption DEF FreeSlots, Slots
<1> QED
  BY <1>1, MinIsElement DEF find_free_slot

LEMMA FreeIsEntry == Free \in Entry
  BY DEF Free, Entry

(***************************************************************************)
(* add_saved_message() keeps every entry and adds at most one: it only     *)
(* writes to a slot that was free.                                         *)
(***************************************************************************)
LEMMA AddType ==
  ASSUME NEW cache \in Caches, NEW m \in Msgs, NEW fwd \in {0, 1}
  PROVE  add_saved_message(cache, m, fwd) \in Caches
<1>1. HashedSlot(m) \in Slots
  BY HashedSlotType
<1>2. find_free_slot(cache) \in {-1} \cup Slots
  BY FreeSlotType DEF FreeSlots
<1>3. [msg |-> m, fwd |-> fwd] \in Entry
  BY DEF Entry
<1> QED
  BY <1>1, <1>2, <1>3 DEF add_saved_message, Caches

LEMMA AddEffect ==
  ASSUME NEW cache \in Caches, NEW m \in Msgs, NEW fwd \in {0, 1},
         NEW s \in Slots
  PROVE  \/ add_saved_message(cache, m, fwd)[s] = cache[s]
         \/ /\ cache[s].msg = NULL
            /\ add_saved_message(cache, m, fwd)[s] = [msg |-> m, fwd |-> fwd]
<1>1. HashedSlot(m) \in Slots
  BY HashedSlotType
<1>2. find_free_slot(cache) \in {-1} \cup FreeSlots(cache)
  BY FreeSlotType
<1> QED
  BY <1>1, <1>2 DEF add_saved_message, Caches, slot_taken, FreeSlots

LEMMA AddOnce ==
  ASSUME NEW cache \in Caches, NEW m \in Msgs, NEW fwd \in {0, 1},
         NEW s \in Slots, NEW t \in Slots,
         add_saved_message(cache, m, fwd)[s] # cache[s],
         add_saved_message(cache, m, fwd)[t] # cache[t]
  PROVE  s = t
<1>1. HashedSlot(m) \in Slots
  BY HashedSlotType
<1>2. find_free_slot(cache) \in {-1} \cup FreeSlots(cache)
  BY FreeSlotType
<1> QED
  BY <1>1, <1>2 DEF add_saved_message, Caches, slot_taken, FreeSlots

\* No message is cached twice.
Distinct(cache) ==
  \A s, t \in Slots :
    /\ slot_taken(cache, s) /\ slot_taken(cache, t)
    /\ compare_messages(cache[s].msg, cache[t].msg)
    => s = t

(***************************************************************************)
(* Adding a message that is not in the cache keeps the entries distinct.   *)
(***************************************************************************)
LEMMA AddDistinct ==
  ASSUME NEW cache \in Caches, NEW m \in Msgs, NEW fwd \in {0, 1},
         Distinct(cache), ~ Seen(cache, m)
  PROVE  Distinct(add_saved_message(cache, m, fwd))
<1> DEFINE new == add_saved_message(cache, m, fwd)
<1>1. \A s \in Slots : \/ new[s] = cache[s]
                       \/ cache[s].msg = NULL /\ new[s] = [msg |-> m, fwd |-> fwd]
  BY AddEffect
<1>2. \A s, t \in Slots : new[s] # cache[s] /\ new[t] # cache[t] => s = t
  BY AddOnce
<1>3. \A s \in Slots : slot_taken(cache, s) => Key(m) # Key(cache[s].msg)
  BY DEF Seen, Matches, compare_messages
<1> HIDE DEF new
<1> SUFFICES ASSUME NEW s \in Slots, NEW t \in Slots,
                    slot_taken(new, s), slot_taken(new, t),
                    Key(new[s].msg) = Key(new[t].msg)
             PROVE  s = t
  BY DEF Distinct, new, compare_messages
<1>4. CASE new[s] = cache[s] /\ new[t] = cache[t]
  BY <1>4 DEF Distinct, slot_taken, compare_messages
<1>5. CASE new[s] = cache[s] /\ new[t] # cache[t]
  BY <1>1, <1>3, <1>5 DEF slot_taken
<1>6. CASE new[s] # cache[s] /\ new[t] = cache[t]
  BY <1>1, <1>3, <1>6 DEF slot_taken
<1> QED
  BY <1>2, <1>4, <1>5, <1>6

LEMMA RemoveType ==
  ASSUME NEW cache \in Caches, NEW S
  PROVE  remove_saved_message(cache, S) \in Caches
  BY FreeIsEntry DEF remove_saved_message, Caches

LEMMA RemoveDistinct ==
  ASSUME NEW cache \in Caches, NEW S, Distinct(cache)
  PROVE  Distinct(remove_saved_message(cache, S))
  BY DEF remove_saved_message, Distinct, slot_taken, Free

LEMMA MarkEntry ==
  ASSUME NEW cache \in Caches, NEW S, NEW s \in Slots
  PROVE  /\ MarkForwarded(cache, S)[s] \in Entry
         /\ MarkForwarded(cache, S)[s].msg = cache[s].msg
  BY DEF MarkForwarded, Caches, Entry

LEMMA MarkType ==
  ASSUME NEW cache \in Caches, NEW S
  PROVE  MarkForwarded(cache, S) \in Caches
<1>1. \A s \in Slots : MarkForwarded(cache, S)[s] \in Entry
  BY MarkEntry
<1> QED
  BY <1>1 DEF MarkForwarded, Caches

LEMMA MarkDistinct ==
  ASSUME NEW cache \in Caches, NEW S, Distinct(cache)
  PROVE  Distinct(MarkForwarded(cache, S))
<1>1. \A s \in Slots : MarkForwarded(cache, S)[s].msg = cache[s].msg
  BY MarkEntry
<1> QED
  BY <1>1 DEF Distinct, slot_taken

LEMMA EmptyType == EmptyCache \in Caches
  BY FreeIsEntry DEF EmptyCache, Caches

LEMMA EmptyDistinct == Distinct(EmptyCache)
  BY DEF EmptyCache, Distinct, slot_taken, Free

USE DEF NULL, NoNumber

-----------------------------------------------------------------------------
(***************************************************************************)
(* The modem and the line.                                                 *)
(***************************************************************************)
LEMMA PCsAre ==
  PCs = {"echo", "power", "network", "pdumode", "operator", "contact", "count",
         "status", "read", "clear", "cset", "book", "dump", "prompt", "submit",
         "delete"}
  BY DEF PCs, CommandAt

LEMMA TakenFacts ==
  ASSUME ModemTypeOK
  PROVE  /\ Taken \subseteq Indexes
         /\ IsFiniteSet(Taken)
         /\ Cardinality(Taken) \in 0..SimSize
<1>1. IsFiniteSet(Indexes) /\ Cardinality(Indexes) = SimSize
  BY SimAssumption, FS_Interval DEF Indexes
<1>2. Taken \subseteq Indexes
  BY DEF Taken
<1>3. IsFiniteSet(Taken) /\ Cardinality(Taken) <= SimSize
  BY <1>1, <1>2, FS_Subset
<1> QED
  BY <1>2, <1>3, FS_CardinalityType, SimAssumption

LEMMA ReplyTypes ==
  /\ Reply("ok", 0) \in Replies
  /\ Reply("error", 0) \in Replies
  /\ Reply("prompt", 0) \in Replies
  /\ \A v \in {0, 1} : Reply("cops", v) \in Replies
  /\ \A v \in 0..SimSize : Reply("cpms", v) \in Replies
  /\ \A v \in Msgs : Reply("cmgr", v) \in Replies
  /\ \A v \in 1..Len(PhoneBook) : Reply("cpbr", v) \in Replies
  BY DEF Reply, Replies

LEMMA ReplyFields ==
  ASSUME NEW r \in Replies
  PROVE  /\ r.val \in Nat
         /\ r.kind = "cpms" => r.val \in 0..SimSize
         /\ r.kind = "cmgr" => r.val \in Msgs
         /\ r.kind = "cpbr" => r.val \in 1..Len(PhoneBook)
<1>1. Len(Sms) \in Nat /\ Len(PhoneBook) \in Nat /\ SimSize \in Nat
  BY SmsAssumption, PhoneBookAssumption, SimAssumption
<1> QED
  BY <1>1 DEF Replies, Msgs

\* A command the program can write.
Writable(c) == /\ c.at = "CMGR" => c.arg \in Indexes
               /\ c.at = "CPBR" => c.arg \in Nat \ {0}

LEMMA AnswerType ==
  ASSUME ModemTypeOK, NEW c, Writable(c)
  PROVE  AnswerTo(c) \in Replies
<1>1. Cardinality(Taken) \in 0..SimSize
  BY TakenFacts
<1>2. c.at = "CMGR" /\ sim[c.arg] # NULL => sim[c.arg] \in Msgs
  BY DEF Writable, ModemTypeOK
<1>3. c.at = "CPBR" /\ c.arg <= Len(PhoneBook) => c.arg \in 1..Len(PhoneBook)
  BY PhoneBookAssumption DEF Writable
<1>4. CASE c.at = "CPMS"
  BY <1>1, <1>4, ReplyTypes DEF AnswerTo
<1>5. CASE c.at = "COPS"
  BY <1>5, ReplyTypes DEF AnswerTo
<1>6. CASE c.at = "CMGR"
  BY <1>2, <1>6, ReplyTypes DEF AnswerTo
<1>7. CASE c.at = "CPBR"
  BY <1>3, <1>7, ReplyTypes DEF AnswerTo
<1>8. CASE c.at \notin {"CPMS", "COPS", "CMGR", "CPBR"}
  BY <1>8, ReplyTypes DEF AnswerTo
<1> QED
  BY <1>4, <1>5, <1>6, <1>7, <1>8

LEMMA AppendReply ==
  ASSUME ModemTypeOK, NEW r \in Replies
  PROVE  Append(link, r) \in Seq(Replies)
  BY AppendProperties DEF ModemTypeOK

LEMMA FaultType ==
  ASSUME ModemTypeOK, NEW kind, Fault(kind)
  PROVE  faults' \in 0..MaxFaults
  BY FaultsAssumption DEF ModemTypeOK, Fault

LEMMA SimAfterType ==
  ASSUME ModemTypeOK, NEW c
  PROVE  SimAfter(c) \in [Indexes -> Msgs \cup {NULL}]
  BY DEF ModemTypeOK, SimAfter, EmptySim

LEMMA TypeType ==
  ASSUME ModemTypeOK, NEW c, Writable(c), Type(c)
  PROVE  ModemTypeOK'
<1>1. incoming' \subseteq Msgs
  BY DEF Type, ModemTypeOK
<1>2. CASE Execute(c)
  BY <1>1, <1>2, AnswerType, AppendReply, SimAfterType
     DEF Execute, ModemTypeOK, Modes
<1>3. CASE Refuse(c)
  <2>1. faults' \in 0..MaxFaults
    BY <1>3, FaultType DEF Refuse, ModemTypeOK
  <2>2. link' \in Seq(Replies)
    BY <1>3, ReplyTypes, AppendReply DEF Refuse
  <2> QED
    BY <1>1, <1>3, <2>1, <2>2 DEF Refuse, ModemTypeOK, Modes
<1>4. CASE NoOperator(c)
  <2>1. faults' \in 0..MaxFaults
    BY <1>4, FaultType DEF NoOperator
  <2>2. link' \in Seq(Replies)
    BY <1>4, ReplyTypes, AppendReply DEF NoOperator
  <2> QED
    BY <1>1, <1>4, <2>1, <2>2 DEF NoOperator, ModemTypeOK
<1>5. CASE Swallow
  BY <1>1, <1>5 DEF Swallow, ModemTypeOK, Modes
<1>6. CASE BreakOff
  <2>1. faults' \in 0..MaxFaults
    BY <1>6, FaultType DEF BreakOff
  <2> QED
    BY <1>1, <1>6, <2>1 DEF BreakOff, ModemTypeOK, Modes
<1>7. ASSUME NEW kind, Lose(kind)
      PROVE  ModemTypeOK'
  <2>1. faults' \in 0..MaxFaults
    BY <1>7, FaultType DEF Lose
  <2> QED
    BY <1>1, <1>7, <2>1 DEF Lose, ModemTypeOK
<1> QED
  BY <1>2, <1>3, <1>4, <1>5, <1>6, <1>7 DEF Type

LEMMA SubmitType ==
  ASSUME ModemTypeOK, SubmitAccepted \/ SubmitRefused \/ SubmitIgnored
  PROVE  ModemTypeOK'
<1>1. CASE SubmitAccepted
  BY <1>1, ReplyTypes, AppendReply DEF SubmitAccepted, ModemTypeOK, Modes
<1>2. CASE SubmitRefused
  <2>1. faults' \in 0..MaxFaults
    BY <1>2, FaultType DEF SubmitRefused, ModemTypeOK
  <2>2. link' \in Seq(Replies)
    BY <1>2, ReplyTypes, AppendReply DEF SubmitRefused
  <2> QED
    BY <1>2, <2>1, <2>2 DEF SubmitRefused, ModemTypeOK, Modes
<1>3. CASE SubmitIgnored
  <2>1. incoming' \subseteq Msgs
    BY <1>3 DEF SubmitIgnored, ModemTypeOK
  <2>2. CASE Lose("unanswered")
    <3>1. faults' \in 0..MaxFaults
      BY <2>2, FaultType DEF Lose
    <3> QED
      BY <2>1, <2>2, <3>1 DEF Lose, ModemTypeOK
  <2>3. CASE BreakOff
    <3>1. faults' \in 0..MaxFaults
      BY <2>3, FaultType DEF BreakOff
    <3> QED
      BY <2>1, <2>3, <3>1 DEF BreakOff, ModemTypeOK, Modes
  <2>4. CASE /\ mode' = "dirty" /\ io' = "read"
             /\ UNCHANGED <<sim, link, faults>>
    BY <2>1, <2>4 DEF ModemTypeOK, Modes
  <2> QED
    BY <1>3, <2>2, <2>3, <2>4 DEF SubmitIgnored
<1> QED
  BY <1>1, <1>2, <1>3

LEMMA ReadingType ==
  ASSUME ModemTypeOK, NEW r \in Readings
  PROVE  /\ r.err \in BOOLEAN
         /\ r.got \in Seq(Replies)
         /\ r.rest \in Seq(Replies)
         /\ faults + r.cost \in 0..MaxFaults
<1>1. link \in Seq(Replies) /\ faults \in 0..MaxFaults /\ MaxFaults \in Nat
  BY FaultsAssumption DEF ModemTypeOK
<1>2. <<>> \in Seq(Replies)
  OBVIOUS
<1>3. /\ \A k \in 0..(Len(link) - 1) : SubSeq(link, 1, k) \in Seq(Replies)
      /\ \A k \in 0..Len(link) : After(k) \in Seq(Replies)
  BY <1>1, SubSeqProperties DEF After
<1>4. CASE r = Reading(TRUE, <<>>, link, 0)
  BY <1>1, <1>2, <1>4 DEF Reading
<1>5. CASE r = Reading(FALSE, link, <<>>, 0)
  BY <1>1, <1>2, <1>5 DEF Reading
<1>6. ASSUME faults < MaxFaults, NEW k \in 0..Len(link), r = Broken(k)
      PROVE  /\ r.err \in BOOLEAN
             /\ r.got \in Seq(Replies)
             /\ r.rest \in Seq(Replies)
             /\ faults + r.cost \in 0..MaxFaults
  BY <1>1, <1>2, <1>3, <1>6 DEF Reading, Broken
<1>7. ASSUME faults < MaxFaults, NEW k \in 0..(Len(link) - 1), r = Late(k)
      PROVE  /\ r.err \in BOOLEAN
             /\ r.got \in Seq(Replies)
             /\ r.rest \in Seq(Replies)
             /\ faults + r.cost \in 0..MaxFaults
  BY <1>1, <1>3, <1>7 DEF Reading, Late
<1> QED
  BY <1>4, <1>5, <1>6, <1>7 DEF Readings

LEMMA TakeType ==
  ASSUME ModemTypeOK, NEW r, Take(r)
  PROVE  ModemTypeOK' /\ r.got \in Seq(Replies)
  BY ReadingType DEF Take, ModemTypeOK

LEMMA FirstOfFacts ==
  ASSUME NEW got \in Seq(Replies), NEW kind, FoundKind(got, kind)
  PROVE  \E r \in Replies : r.kind = kind /\ FirstOf(got, kind) = r.val
<1>1. Kind(got, kind) \in SUBSET Nat /\ Kind(got, kind) # {}
  BY DEF Kind, FoundKind
<1>2. Min(Kind(got, kind)) \in Kind(got, kind)
  BY <1>1, MinIsElement
<1>3. \A k \in Kind(got, kind) : got[k] \in Replies /\ got[k].kind = kind
  BY DEF Kind
<1> QED
  BY <1>2, <1>3 DEF FirstOf

LEMMA LastOfFacts ==
  ASSUME NEW got \in Seq(Replies), NEW kind, FoundKind(got, kind)
  PROVE  \E r \in Replies : r.kind = kind /\ LastOf(got, kind) = r.val
<1>1. Len(got) \in Nat /\ DOMAIN got = 1..Len(got)
  OBVIOUS
<1>2. Kind(got, kind) \in SUBSET (0..Len(got)) /\ Kind(got, kind) # {}
  BY <1>1 DEF Kind, FoundKind
<1>3. Max(Kind(got, kind)) \in Kind(got, kind)
  BY <1>1, <1>2, MaxIsElement
<1>4. \A k \in Kind(got, kind) : got[k] \in Replies /\ got[k].kind = kind
  BY DEF Kind
<1> QED
  BY <1>3, <1>4 DEF LastOf

-----------------------------------------------------------------------------
(***************************************************************************)
(* The program's variables, in the groups the actions change together.     *)
(***************************************************************************)
Control == /\ pc \in PCs
           /\ i \in 0..SimSize /\ n \in 0..SimSize
           /\ row \in Nat
           /\ msg \in Msgs \cup {NULL}
           /\ job \in Jobs
           /\ Placed

Settings == latest \in Nat /\ opts \in Options /\ dest \in Nat

Counters == delivered \in [Msgs -> 0..2] /\ obeyed \in [Msgs -> 0..2]

TypeInv == ModemTypeOK /\ Control /\ saved \in Caches /\ Settings /\ Counters

LEMMA TypeInvImpliesTypeOK == TypeInv => TypeOK
  BY DEF TypeInv, TypeOK, Control, Settings, Counters

LEMMA IdleIsJob == Idle \in Jobs
  BY DEF Idle, Jobs

LEMMA BumpType ==
  ASSUME NEW count \in [Msgs -> 0..2], NEW S
  PROVE  Bump(count, S) \in [Msgs -> 0..2]
  BY DEF Bump

LEMMA AdvanceControl ==
  ASSUME Control, Advance
  PROVE  Control'
<1>1. SimSize \in Nat
  BY SimAssumption
<1>2. pc' \in {"read", "count"} /\ pc' \in PCs
  BY PCsAre DEF Advance
<1>3. i' \in 0..SimSize /\ n' \in 0..SimSize
  BY <1>1 DEF Advance, Control
<1>4. pc' = "read" => i' \in 1..SimSize
  BY <1>1 DEF Advance, Control
<1>5. Placed'
  BY <1>2, <1>4 DEF Placed, InCall, Indexes
<1> QED
  BY <1>2, <1>3, <1>5, IdleIsJob DEF Advance, Control

LEMMA GoToControl ==
  ASSUME Control, i \in Indexes, NEW next \in InCall \ {"book"}, NEW m \in Msgs,
         NEW j \in Jobs, GoTo(next, m, j)
  PROVE  Control'
<1>1. pc' \in PCs /\ pc' \in InCall /\ pc' \notin {"contact", "book"}
  BY PCsAre DEF GoTo, InCall
<1> QED
  BY <1>1 DEF GoTo, Control, Placed

LEMMA ForwardedType ==
  ASSUME Control, saved \in Caches, NEW for, NEW m \in Msgs, NEW slots,
         NEW ok \in BOOLEAN, Forwarded(for, m, slots, ok)
  PROVE  Control' /\ saved' \in Caches
<1>1. Control'
  BY AdvanceControl DEF Forwarded
<1>2. add_saved_message(saved, m, IF ok THEN 1 ELSE 0) \in Caches
  BY AddType
<1>3. MarkForwarded(saved, slots) \in Caches
  BY MarkType
<1> QED
  BY <1>1, <1>2, <1>3 DEF Forwarded

LEMMA ForwardType ==
  ASSUME Control, saved \in Caches, i \in Indexes,
         NEW for \in {"new", "seen", "multi"}, NEW m \in Msgs,
         NEW text \in Seq(Msgs \cup {NULL}), text # <<>>,
         NEW slots \in SUBSET Slots, forward_message(for, m, text, slots)
  PROVE  Control' /\ saved' \in Caches
<1>1. CASE opts["forward"] = 0
  BY <1>1, ForwardedType DEF forward_message
<1>2. CASE opts["forward"] # 0
  <2> DEFINE count == IF opts["multipart"] = 0 THEN 1
                      ELSE IF text[1] = NULL THEN 1 ELSE Sms[text[1]].pdus
             j == [for |-> for, text |-> text, slots |-> slots,
                   parts |-> count, part |-> 1, whole |-> TRUE]
  <2>1. text[1] \in Msgs \cup {NULL}
    OBVIOUS
  <2>2. count \in Nat
    BY <2>1, MessageFields DEF SmsRecord
  <2>3. j \in Jobs
    BY <2>2 DEF Jobs
  <2>4. GoTo("prompt", m, j) /\ saved' = saved
    BY <1>2 DEF forward_message
  <2> HIDE DEF j, count
  <2>5. Control'
    BY <2>3, <2>4, GoToControl DEF InCall
  <2> QED BY <2>4, <2>5
<1> QED BY <1>1, <1>2

LEMMA DeleteMessageType ==
  ASSUME Control, saved \in Caches, i \in Indexes, NEW m \in Msgs,
         NEW s \in Slots, delete_message(m, s)
  PROVE  Control' /\ saved' \in Caches
<1>1. Deletion(s) \in Jobs
  <2>1. <<>> \in Seq(Msgs \cup {NULL}) /\ {s} \in SUBSET Slots
    OBVIOUS
  <2> QED BY <2>1 DEF Deletion, Jobs
<1>2. saved' \in Caches
  BY DEF delete_message
<1>3. CASE opts["may_delete"] = 0
  BY <1>2, <1>3, AdvanceControl DEF delete_message
<1>4. CASE opts["may_delete"] # 0
  BY <1>1, <1>2, <1>4, GoToControl DEF delete_message, InCall
<1> QED BY <1>3, <1>4

LEMMA PartAtType ==
  ASSUME saved \in Caches, NEW m \in Msgs, NEW k
  PROVE  PartAt(m, k) \in {-1} \cup PartSlots(m)
<1> DEFINE at == {s \in PartSlots(m) : Sms[saved[s].msg].no = k}
<1>1. SAVED_MESSAGES - 1 \in Nat
  BY SavedAssumption
<1>2. at \in SUBSET (0..(SAVED_MESSAGES - 1)) /\ at \subseteq PartSlots(m)
  BY DEF PartSlots, Slots
<1>3. at # {} => Max(at) \in at
  <2> HIDE DEF at
  <2> QED BY <1>1, <1>2, MaxIsElement
<1> QED
  BY <1>2, <1>3 DEF PartAt

LEMMA MultipartType ==
  ASSUME Control, saved \in Caches, i \in Indexes, NEW m \in Msgs,
         Sms[m].no > 0, process_multipart_message(m)
  PROVE  Control' /\ saved' \in Caches
<1>1. CASE Cardinality(PartSlots(m)) # Sms[m].parts
  BY <1>1, AdvanceControl DEF process_multipart_message
<1>2. CASE Cardinality(PartSlots(m)) = Sms[m].parts
  <2>1. Sms[m].parts \in Nat \ {0}
    BY MessageFields DEF SmsRecord, WellSplit
  <2>2. \A k \in 1..Sms[m].parts : PartAt(m, k) \in {-1} \cup Slots
    BY PartAtType DEF PartSlots
  <2>3. \A k \in 1..Sms[m].parts :
          (IF PartAt(m, k) = -1 THEN NULL ELSE saved[PartAt(m, k)].msg)
            \in Msgs \cup {NULL}
    BY <2>2 DEF Caches, Entry
  <2>4. Assembled(m) \in [1..Sms[m].parts -> Msgs \cup {NULL}]
    BY <2>3 DEF Assembled
  <2>5. Assembled(m) \in Seq(Msgs \cup {NULL}) /\ Assembled(m) # <<>>
    BY <2>1, <2>4
  <2>6. PartsToMark(m) \in SUBSET Slots
    BY <2>2 DEF PartsToMark
  <2>7. forward_message("multi", m, Assembled(m), PartsToMark(m))
    BY <1>2 DEF process_multipart_message
  <2> QED
    BY <2>5, <2>6, <2>7, ForwardType
<1> QED BY <1>1, <1>2

LEMMA RestartType ==
  ASSUME Restart
  PROVE  Control' /\ saved' \in Caches /\ Settings'
<1>1. pc' \in PCs /\ Placed'
  BY PCsAre DEF Restart, Placed, InCall
<1>2. SimSize \in Nat
  BY SimAssumption
<1> QED
  BY <1>1, <1>2, IdleIsJob, EmptyType, DefaultsAssumption
     DEF Restart, Control, Settings

LEMMA OptionType ==
  ASSUME opts \in Options, NEW name \in OptionNames, NEW val
  PROVE  set_option(opts, name, val) \in Options
  BY DEF set_option, OptionMax, Options

\* process_command_message(), for a message that was not seen before.
LEMMA CommandType ==
  ASSUME Control, saved \in Caches, i \in Indexes, Settings, Counters,
         NEW m \in Msgs, process_command_message(m)
  PROVE  Control' /\ saved' \in Caches /\ Settings' /\ obeyed' \in [Msgs -> 0..2]
<1>1. obeyed' \in [Msgs -> 0..2]
  BY BumpType DEF process_command_message, Counters
<1>2. CASE /\ Sms[m].cmd \in DOMAIN CommandPC
           /\ GoTo(CommandPC[Sms[m].cmd], m, Idle)
           /\ UNCHANGED <<saved, latest, opts, dest>>
  <2>1. CommandPC[Sms[m].cmd] \in InCall \ {"book"}
    BY <1>2 DEF CommandPC, InCall
  <2>2. Control'
    BY <1>2, <2>1, GoToControl, IdleIsJob
  <2> QED BY <1>1, <1>2, <2>2 DEF Settings
<1>3. CASE /\ Sms[m].cmd \in OptionNames
           /\ opts' = set_option(opts, Sms[m].cmd, Sms[m].val)
           /\ Forwarded("new", m, {}, TRUE)
           /\ UNCHANGED <<latest, dest>>
  BY <1>1, <1>3, ForwardedType, OptionType DEF Settings
<1>4. CASE Forwarded("new", m, {}, TRUE) /\ UNCHANGED <<latest, opts, dest>>
  BY <1>1, <1>4, ForwardedType DEF Settings
<1>5. CASE Restart
  BY <1>1, <1>5, RestartType
<1> QED
  BY <1>2, <1>3, <1>4, <1>5 DEF process_command_message

LEMMA NewType ==
  ASSUME Control, saved \in Caches, i \in Indexes, Settings, Counters,
         NEW m \in Msgs, NewMessage(m)
  PROVE  Control' /\ saved' \in Caches /\ Settings' /\ obeyed' \in [Msgs -> 0..2]
<1>1. CASE process_command_message(m)
  BY <1>1, CommandType
<1>2. CASE /\ IF Sms[m].no = 0 THEN forward_message("new", m, <<m>>, {})
                               ELSE Forwarded("new", m, {}, FALSE)
           /\ UNCHANGED <<latest, opts, dest, obeyed>>
  <2>1. <<m>> \in Seq(Msgs \cup {NULL}) /\ <<m>> # <<>> /\ {} \in SUBSET Slots
    OBVIOUS
  <2>2. ASSUME forward_message("new", m, <<m>>, {})
        PROVE  Control' /\ saved' \in Caches
    BY <2>1, <2>2, ForwardType
  <2>3. ASSUME Forwarded("new", m, {}, FALSE)
        PROVE  Control' /\ saved' \in Caches
    BY <2>3, ForwardedType
  <2>4. Settings' /\ obeyed' \in [Msgs -> 0..2]
    BY <1>2 DEF Settings, Counters
  <2> QED BY <1>2, <2>2, <2>3, <2>4
<1> QED
  BY <1>1, <1>2 DEF NewMessage

LEMMA SeenType ==
  ASSUME Control, saved \in Caches, i \in Indexes, Settings, Counters,
         NEW m \in Msgs, NEW s \in Slots, saved[s].msg \in Msgs,
         SeenMessage(m, s)
  PROVE  Control' /\ saved' \in Caches /\ Settings' /\ obeyed' \in [Msgs -> 0..2]
<1> DEFINE c == saved[s].msg
<1>1. Sms[c].ts \in Nat /\ Sms[c].no \in Nat
  BY MessageFields DEF SmsRecord
<1>2. latest' \in Nat
  BY <1>1 DEF SeenMessage, Later, Settings
<1>3. Settings' /\ obeyed' \in [Msgs -> 0..2]
  BY <1>2 DEF SeenMessage, Settings, Counters
<1>4. CASE delete_message(m, s)
  BY <1>3, <1>4, DeleteMessageType
<1>5. CASE forward_message("seen", m, <<m>>, {s})
  <2>1. <<m>> \in Seq(Msgs \cup {NULL}) /\ <<m>> # <<>>
    OBVIOUS
  <2> QED BY <1>3, <1>5, <2>1, ForwardType
<1>6. CASE process_multipart_message(c) /\ Sms[c].no # 0
  BY <1>1, <1>3, <1>6, MultipartType
<1>7. CASE Advance /\ UNCHANGED saved
  BY <1>3, <1>7, AdvanceControl
<1>8. saved[s].fwd \in {0, 1}
  BY DEF Caches, Entry
<1> QED
  BY <1>4, <1>5, <1>6, <1>7, <1>8 DEF SeenMessage

LEMMA MessageType ==
  ASSUME Control, saved \in Caches, i \in Indexes, Settings, Counters,
         NEW m \in Msgs, Message(m)
  PROVE  Control' /\ saved' \in Caches /\ Settings' /\ obeyed' \in [Msgs -> 0..2]
<1> DEFINE s == find_saved_message(saved, m)
<1>1. CASE s = -1
  BY <1>1, NewType DEF Message
<1>2. CASE s # -1
  <2>1. s \in Slots /\ saved[s].msg \in Msgs
    BY <1>2, FindIsMatch DEF Matches, slot_taken, Caches, Entry
  <2>2. CASE SeenMessage(m, s)
    <3> HIDE DEF s
    <3> QED BY <2>1, <2>2, SeenType
  <2>3. CASE CrashOnParts(s)
    BY <2>3, RestartType DEF CrashOnParts, Counters
  <2> QED
    BY <1>2, <2>2, <2>3 DEF Message
<1> QED BY <1>1, <1>2

-----------------------------------------------------------------------------
(***************************************************************************)
(* Every action keeps the types.                                           *)
(***************************************************************************)
LEMMA AskType == TypeInv /\ Ask => TypeInv'
<1> SUFFICES ASSUME TypeInv, Ask PROVE TypeInv'
  OBVIOUS
<1>1. Writable(Line)
  <2>1. CASE pc = "read"
    BY <2>1 DEF Line, CommandAt, Writable, TypeInv, Control, Placed
  <2>2. CASE pc \in {"contact", "book"}
    BY <2>2 DEF Line, CommandAt, Writable, TypeInv, Control, Placed
  <2>3. CASE pc \notin {"read", "contact", "book"}
    BY <2>3, PCsAre DEF Line, CommandAt, Writable, TypeInv, Control
  <2> QED BY <2>1, <2>2, <2>3
<1>2. ModemTypeOK'
  BY <1>1, TypeType DEF Ask, TypeInv
<1> QED
  BY <1>2 DEF Ask, TypeInv, Control, Placed, Settings, Counters, localVars,
              flowVars, history

LEMMA SubmitKeepsType == TypeInv /\ Submit => TypeInv'
<1> SUFFICES ASSUME TypeInv, Submit PROVE TypeInv'
  OBVIOUS
<1>1. ModemTypeOK'
  BY SubmitType DEF Submit, Accepted, NotAccepted, TypeInv
<1>2. delivered' \in [Msgs -> 0..2]
  BY BumpType DEF Submit, Accepted, NotAccepted, TypeInv, Counters
<1>3. job' \in Jobs
  BY DEF Submit, Accepted, NotAccepted, TypeInv, Control, Jobs
<1> QED
  BY <1>1, <1>2, <1>3
     DEF Submit, TypeInv, Control, Placed, Settings, Counters, flowVars

LEMMA EchoType == TypeInv /\ Echo => TypeInv'
<1> SUFFICES ASSUME TypeInv, Echo PROVE TypeInv'
  OBVIOUS
<1>1. ModemTypeOK'
  BY TakeType DEF Echo, TypeInv
<1>2. pc' \in {"echo", "power", "pdumode"}
  BY DEF Echo
<1> QED
  BY <1>1, <1>2, PCsAre
     DEF Echo, TypeInv, Control, Placed, InCall, Settings, Counters, localVars, history

LEMMA LoggedType ==
  ASSUME NEW here, NEW next \in {"network", "pdumode", "operator"}
  PROVE  TypeInv /\ Logged(here, next) => TypeInv'
<1> SUFFICES ASSUME TypeInv, Logged(here, next) PROVE TypeInv'
  OBVIOUS
<1>1. ModemTypeOK'
  BY TakeType DEF Logged, TypeInv
<1> QED
  BY <1>1, PCsAre
     DEF Logged, TypeInv, Control, Placed, InCall, Settings, Counters, localVars,
         flowVars, history

LEMMA OperatorType == TypeInv /\ Operator => TypeInv'
<1> SUFFICES ASSUME TypeInv, Operator PROVE TypeInv'
  OBVIOUS
<1>1. ModemTypeOK'
  BY TakeType DEF Operator, TypeInv
<1>2. /\ pc' \in {"contact", "count", "echo"}
      /\ row' \in Nat /\ dest' \in Nat
      /\ pc' = "contact" => row' >= 1
  BY FlowAssumption DEF Operator, TypeInv, Control, Settings
<1> QED
  BY <1>1, <1>2, PCsAre
     DEF Operator, TypeInv, Control, Placed, InCall, Settings, Counters, history

LEMMA ContactType == TypeInv /\ Contact => TypeInv'
<1> SUFFICES ASSUME TypeInv, Contact PROVE TypeInv'
  OBVIOUS
<1>1. PICK r \in Readings :
        /\ Take(r)
        /\ IF ~ FoundKind(r.got, "cpbr")
             THEN pc' = "echo" /\ row' = 0 /\ UNCHANGED dest
           ELSE LET c == PhoneBook[FirstOf(r.got, "cpbr")]
                IN  IF c.primary
                      THEN /\ dest' = c.number
                           /\ pc' = IF c.number = NoNumber THEN "echo" ELSE "count"
                           /\ row' = 0
                    ELSE IF row < ContactsSearched
                      THEN row' = row + 1 /\ UNCHANGED <<pc, dest>>
                    ELSE pc' = "echo" /\ row' = 0 /\ UNCHANGED dest
  BY DEF Contact
<1>2. ModemTypeOK' /\ r.got \in Seq(Replies)
  BY <1>1, TakeType DEF TypeInv
<1>3. FoundKind(r.got, "cpbr") => PhoneBook[FirstOf(r.got, "cpbr")].number \in Nat
  <2>1. FoundKind(r.got, "cpbr") => FirstOf(r.got, "cpbr") \in 1..Len(PhoneBook)
    BY <1>2, FirstOfFacts, ReplyFields
  <2>2. \A k \in 1..Len(PhoneBook) :
          PhoneBook[k] \in [primary : BOOLEAN, number : Nat]
    BY PhoneBookAssumption, ElementOfSeq
  <2> QED BY <2>1, <2>2
<1>4. /\ pc' \in {"contact", "count", "echo"}
      /\ row' \in Nat /\ dest' \in Nat
      /\ pc' = "contact" => row' >= 1
  BY <1>1, <1>3 DEF Contact, TypeInv, Control, Settings
<1> QED
  BY <1>2, <1>4, PCsAre
     DEF Contact, TypeInv, Control, Placed, InCall, Settings, Counters, history

LEMMA CountType == TypeInv /\ Count => TypeInv'
<1> SUFFICES ASSUME TypeInv, Count PROVE TypeInv'
  OBVIOUS
<1>1. PICK r \in Readings :
        /\ Take(r)
        /\ IF FoundOK(r.got)
             THEN /\ n' = IF FoundKind(r.got, "cpms") THEN LastOf(r.got, "cpms")
                                                      ELSE 0
                  /\ pc' = "status"
             ELSE UNCHANGED <<n, pc>>
  BY DEF Count
<1>2. ModemTypeOK' /\ r.got \in Seq(Replies)
  BY <1>1, TakeType DEF TypeInv
<1>3. FoundKind(r.got, "cpms") => LastOf(r.got, "cpms") \in 0..SimSize
  BY <1>2, LastOfFacts, ReplyFields
<1>4. n' \in 0..SimSize /\ pc' \in {"status", "count"}
  BY <1>1, <1>3, SimAssumption DEF Count, TypeInv, Control
<1> QED
  BY <1>2, <1>4, PCsAre
     DEF Count, TypeInv, Control, Placed, InCall, Settings, Counters, flowVars, history

LEMMA StatusType == TypeInv /\ Status => TypeInv'
<1> SUFFICES ASSUME TypeInv, Status PROVE TypeInv'
  OBVIOUS
<1>1. ModemTypeOK'
  BY TakeType DEF Status, TypeInv
<1>2. /\ pc' \in {"read", "count", "echo"}
      /\ i' \in 0..SimSize /\ n' \in 0..SimSize
      /\ pc' = "read" => i' = 1
  BY SimAssumption DEF Status, TypeInv, Control
<1> QED
  BY <1>1, <1>2, PCsAre, SimAssumption
     DEF Status, TypeInv, Control, Placed, InCall, Indexes, Settings, Counters,
         flowVars, history

LEMMA ReadType == TypeInv /\ Read => TypeInv'
<1> SUFFICES ASSUME TypeInv, Read PROVE TypeInv'
  OBVIOUS
<1>1. PICK r \in Readings :
        /\ Take(r)
        /\ IF FoundKind(r.got, "cmgr") /\ Sms[FirstOf(r.got, "cmgr")].good
             THEN Message(FirstOf(r.got, "cmgr"))
             ELSE Advance /\ UNCHANGED <<flowVars, obeyed>>
  BY DEF Read
<1>2. ModemTypeOK' /\ r.got \in Seq(Replies)
  BY <1>1, TakeType DEF TypeInv
<1>3. i \in Indexes
  BY DEF Read, TypeInv, Control, Placed
<1>4. CASE FoundKind(r.got, "cmgr") /\ Message(FirstOf(r.got, "cmgr"))
  <2>1. FirstOf(r.got, "cmgr") \in Msgs
    BY <1>2, <1>4, FirstOfFacts, ReplyFields
  <2>2. /\ Control' /\ saved' \in Caches /\ Settings'
        /\ obeyed' \in [Msgs -> 0..2]
    BY <1>3, <1>4, <2>1, MessageType DEF TypeInv
  <2> QED BY <1>2, <2>2 DEF Read, TypeInv, Counters
<1>5. CASE Advance /\ UNCHANGED <<flowVars, obeyed>>
  BY <1>2, <1>5, AdvanceControl DEF Read, TypeInv, Settings, Counters, flowVars
<1> QED
  BY <1>1, <1>4, <1>5

LEMMA RememberType ==
  ASSUME TypeInv, pc \in InCall, Remember
  PROVE  Control' /\ saved' \in Caches /\ Settings'
<1>1. msg \in Msgs
  BY DEF TypeInv, Control, Placed
<1> QED
  BY <1>1, ForwardedType DEF Remember, TypeInv, Settings

LEMMA ClearOrDumpType == TypeInv /\ ClearOrDump => TypeInv'
<1> SUFFICES ASSUME TypeInv, ClearOrDump PROVE TypeInv'
  OBVIOUS
<1>1. ModemTypeOK'
  BY TakeType DEF ClearOrDump, TypeInv
<1>2. Control' /\ saved' \in Caches /\ Settings'
  BY RememberType DEF ClearOrDump, InCall
<1> QED
  BY <1>1, <1>2 DEF ClearOrDump, TypeInv, Counters, history

LEMMA CharacterSetType == TypeInv /\ CharacterSet => TypeInv'
<1> SUFFICES ASSUME TypeInv, CharacterSet PROVE TypeInv'
  OBVIOUS
<1>1. ModemTypeOK'
  BY TakeType DEF CharacterSet, TypeInv
<1> QED
  BY <1>1, PCsAre
     DEF CharacterSet, TypeInv, Control, Placed, InCall, Settings, Counters,
         flowVars, history

LEMMA BookType == TypeInv /\ Book => TypeInv'
<1> SUFFICES ASSUME TypeInv, Book PROVE TypeInv'
  OBVIOUS
<1>1. ModemTypeOK' /\ UNCHANGED history
  BY TakeType DEF Book, TypeInv
<1>2. CASE row' = row + 1 /\ UNCHANGED <<pc, i, n, msg, job, flowVars>>
  BY <1>1, <1>2
     DEF TypeInv, Control, Placed, Settings, Counters, flowVars, history
<1>3. CASE Remember
  <2>1. Control' /\ saved' \in Caches /\ Settings'
    BY <1>3, RememberType DEF Book, InCall
  <2> QED BY <1>1, <2>1 DEF TypeInv, Counters, history
<1> QED
  BY <1>2, <1>3 DEF Book

LEMMA PduResultType ==
  ASSUME TypeInv, pc \in {"prompt", "submit"}, NEW ok \in BOOLEAN,
         NEW whole \in BOOLEAN, PduResult(ok, whole)
  PROVE  Control' /\ saved' \in Caches
<1>1. msg \in Msgs /\ i \in Indexes /\ job \in Jobs /\ Control /\ saved \in Caches
  BY DEF TypeInv, Control, Placed, InCall
<1>2. CASE /\ GoTo("prompt", msg, [job EXCEPT !.part = job.part + 1, !.whole = whole])
           /\ UNCHANGED saved
  <2>1. job.part + 1 \in Nat
    BY <1>1 DEF Jobs
  <2>2. [job EXCEPT !.part = job.part + 1, !.whole = whole] \in Jobs
    BY <1>1, <2>1 DEF Jobs
  <2> QED BY <1>1, <1>2, <2>2, GoToControl DEF InCall
<1>3. CASE Forwarded(job.for, msg, job.slots, ok)
  BY <1>1, <1>3, ForwardedType
<1> QED
  BY <1>2, <1>3 DEF PduResult

LEMMA PromptType == TypeInv /\ Prompt => TypeInv'
<1> SUFFICES ASSUME TypeInv, Prompt PROVE TypeInv'
  OBVIOUS
<1>1. ModemTypeOK' /\ UNCHANGED <<latest, opts, dest, history>>
  BY TakeType DEF Prompt, TypeInv
<1>2. CASE PduResult(FALSE, FALSE)
  <2>1. Control' /\ saved' \in Caches
    BY <1>2, PduResultType DEF Prompt
  <2> QED BY <1>1, <2>1 DEF TypeInv, Settings, Counters, history
<1>3. CASE GoTo("submit", msg, job) /\ UNCHANGED saved
  <2>1. i \in Indexes /\ msg \in Msgs /\ job \in Jobs /\ Control
    BY DEF Prompt, TypeInv, Control, Placed, InCall
  <2>2. Control'
    BY <1>3, <2>1, GoToControl DEF InCall
  <2> QED BY <1>1, <1>3, <2>2 DEF TypeInv, Settings, Counters, history
<1> QED
  BY <1>2, <1>3 DEF Prompt

LEMMA SubmitAnswerType == TypeInv /\ SubmitAnswer => TypeInv'
<1> SUFFICES ASSUME TypeInv, SubmitAnswer PROVE TypeInv'
  OBVIOUS
<1>1. PICK r \in Readings :
        Take(r) /\ PduResult(~ r.err /\ ~ FoundError(r.got), job.whole)
  BY DEF SubmitAnswer
<1>2. ModemTypeOK'
  BY <1>1, TakeType DEF TypeInv
<1>3. job.whole \in BOOLEAN /\ (~ r.err /\ ~ FoundError(r.got)) \in BOOLEAN
  BY DEF TypeInv, Control, Jobs
<1>4. Control' /\ saved' \in Caches
  BY <1>1, <1>3, PduResultType DEF SubmitAnswer
<1> QED
  BY <1>2, <1>4 DEF SubmitAnswer, TypeInv, Settings, Counters, history

LEMMA DeleteType == TypeInv /\ Delete => TypeInv'
<1> SUFFICES ASSUME TypeInv, Delete PROVE TypeInv'
  OBVIOUS
<1>1. ModemTypeOK'
  BY TakeType DEF Delete, TypeInv
<1>2. saved' \in Caches
  BY RemoveType DEF Delete, TypeInv
<1>3. Control'
  BY AdvanceControl DEF Delete, TypeInv
<1> QED
  BY <1>1, <1>2, <1>3 DEF Delete, TypeInv, Settings, Counters, history

LEMMA CrashType == TypeInv /\ Crash => TypeInv'
<1> SUFFICES ASSUME TypeInv, Crash PROVE TypeInv'
  OBVIOUS
<1>1. faults' \in 0..MaxFaults
  BY FaultType DEF Crash, TypeInv
<1>2. <<>> \in Seq(Replies)
  OBVIOUS
<1>3. ModemTypeOK'
  BY <1>1, <1>2 DEF Crash, TypeInv, ModemTypeOK
<1>4. Control' /\ saved' \in Caches /\ Settings'
  BY RestartType DEF Crash
<1> QED
  BY <1>3, <1>4 DEF Crash, TypeInv, Counters, history

LEMMA DeliverType == TypeInv /\ Deliver => TypeInv'
<1> SUFFICES ASSUME TypeInv, Deliver PROVE TypeInv'
  OBVIOUS
<1>1. ModemTypeOK'
  BY DEF Deliver, Arrive, TypeInv, ModemTypeOK
<1> QED
  BY <1>1 DEF Deliver, TypeInv, Control, Placed, Settings, Counters, localVars,
              flowVars, history

LEMMA StutterType == TypeInv /\ UNCHANGED vars => TypeInv'
  BY DEF TypeInv, Control, Placed, Settings, Counters, ModemTypeOK, vars,
         modemVars, localVars, flowVars, history

LEMMA InitType == Init => TypeInv
<1> SUFFICES ASSUME Init PROVE TypeInv
  OBVIOUS
<1>1. SimSize \in Nat /\ MaxFaults \in Nat
  BY SimAssumption, FaultsAssumption
<1>2. <<>> \in Seq(Replies)
  OBVIOUS
<1>3. ModemTypeOK
  BY <1>1, <1>2 DEF Init, ModemInit, ModemTypeOK, Modes, EmptySim
<1>4. Control
  BY <1>1, PCsAre, IdleIsJob DEF Init, Control, Placed, InCall
<1> QED
  BY <1>3, <1>4, EmptyType, DefaultsAssumption
     DEF Init, TypeInv, Settings, Counters

LEMMA NextType == TypeInv /\ [Next]_vars => TypeInv'
  BY AskType, SubmitKeepsType, EchoType, LoggedType, OperatorType, ContactType,
     CountType, StatusType, ReadType, ClearOrDumpType, CharacterSetType, BookType,
     PromptType, SubmitAnswerType, DeleteType, DeliverType, CrashType, StutterType
     DEF Next, Step, Setup, Pass, PowerStatus, NetworkStatus, PduMode

(***************************************************************************)
(* Every variable of the program and of the modem keeps its type, whatever *)
(* the messages, the faults and the sizes of the SIM, the cache and the    *)
(* phone book; in particular the index of flow()'s loop stays on the SIM,  *)
(* and a call is only in progress about a message that was read.           *)
(***************************************************************************)
THEOREM TypeCorrect == Spec => []TypeOK
<1>1. Spec => []TypeInv
  BY InitType, NextType, PTL DEF Spec
<1> QED
  BY <1>1, TypeInvImpliesTypeOK, PTL
=============================================================================
