----------------------------- MODULE OnceProofs -----------------------------
(***************************************************************************)
(* A message is sent once and a command obeyed once, however many passes   *)
(* find it on the SIM, whichever of its deletions fail and in whatever     *)
(* order the parts of a split message come.  The cache is what the program *)
(* knows of the past, so the proof says what it must know: that whatever   *)
(* was handled and is still on its way or on the SIM is in the cache, with *)
(* its flag.                                                               *)
(***************************************************************************)
EXTENDS PromiseProofs, CacheProofs

(***************************************************************************)
(* What it takes: the program forgets nothing (no crash, neither by power  *)
(* loss nor by a SAVED that meets a free slot, and a slot for each         *)
(* message), sees each answer to the end, and tells messages apart.        *)
(***************************************************************************)
Lasting == /\ Faults \cap {"late", "read", "crash"} = {}
           /\ \A m \in Msgs : Sms[m].cmd # "SAVED"
           /\ Len(Sms) <= SAVED_MESSAGES
           /\ \A a, b \in Msgs : compare_messages(a, b) => a = b
           /\ ReferencesDiffer

\* A message that flow() may still come to read.
Present(m) == m \in incoming \/ m \in Stored

SameText(a, b) == /\ Sms[a].no > 0 /\ Sms[b].no > 0
                  /\ Sms[a].ref = Sms[b].ref /\ Sms[a].parts = Sms[b].parts

InCommand == pc \in {"clear", "dump", "cset", "book"}
Sending == pc \in {"prompt", "submit"}

\* The last PDU was answered, and not with an error.
Sent == /\ pc = "submit" /\ io = "read" /\ ~ FoundError(link)
        /\ job.part = job.parts

\* How often a message was sent and obeyed.
CountedOnce == \A m \in Msgs : delivered[m] <= 1 /\ obeyed[m] <= 1

\* The parts of a message are delivered together.
Together == \A a, b \in Msgs : SameText(a, b) => delivered[a] = delivered[b]

\* What was handled and may be read again is in the cache, or about to be.
Remembered ==
  \A m \in Msgs : Present(m) /\ (delivered[m] > 0 \/ obeyed[m] > 0) =>
    \/ Seen(saved, m)
    \/ InCommand /\ msg = m
    \/ Sending /\ job.for = "new" /\ msg = m

\* What was delivered has its flag, or is about to get it.
Flagged ==
  \A s \in Slots : saved[s].msg \in Msgs =>
    \/ delivered[saved[s].msg] = 0
    \/ saved[s].fwd = 1
    \/ Sent /\ s \in job.slots

\* What is being sent was not delivered before, and is all of a text.
SendsOnce ==
  Sending =>
    /\ Members \subseteq Msgs
    /\ \A a \in Members, b \in Msgs : SameText(a, b) => b \in Members
    /\ \A s \in Slots : saved[s].msg \in Members => s \in job.slots
    /\ job.for = "new" => Members = {msg} /\ job.slots = {}
    /\ job.for # "new" => \A a \in Members : Seen(saved, a)
    /\ Sent \/ \A a \in Members : delivered[a] = 0

\* A deletion that is answered OK took the message off the SIM for good.
DeletesOnce ==
  pc = "delete" =>
    /\ \E s \in Slots : job.slots = {s} /\ saved[s].msg = msg
    /\ io = "read" /\ FoundOK(link) => ~ Present(msg)

OnceInv == /\ SimKept /\ CountedOnce /\ Together /\ Remembered /\ Flagged
           /\ SendsOnce /\ DeletesOnce

-----------------------------------------------------------------------------
(***************************************************************************)
(* The cache.                                                              *)
(***************************************************************************)
LEMMA SeenIs ==
  ASSUME Lasting, NEW cache \in Caches, NEW m \in Msgs
  PROVE  Seen(cache, m) <=> \E s \in Slots : cache[s].msg = m
<1>1. \A s \in Slots : cache[s].msg \in Msgs \cup {NULL}
  BY DEF Caches, Entry
<1>2. compare_messages(m, m) /\ m # NULL
  BY NullIsNoMessage DEF compare_messages
<1> QED
  BY <1>1, <1>2 DEF Seen, Matches, slot_taken, Lasting

LEMMA OneSlot ==
  ASSUME NEW cache \in Caches, Distinct(cache), NEW s \in Slots, NEW t \in Slots,
         cache[s].msg \in Msgs, cache[s].msg = cache[t].msg
  PROVE  s = t
<1>1. slot_taken(cache, s) /\ slot_taken(cache, t)
  BY NullIsNoMessage DEF slot_taken
<1>2. compare_messages(cache[s].msg, cache[t].msg)
  BY DEF compare_messages
<1> QED
  BY <1>1, <1>2 DEF Distinct

\* Every message that is not in the cache finds a slot.
LEMMA RoomLeft ==
  ASSUME Lasting, NEW cache \in Caches, Distinct(cache), NEW m \in Msgs,
         ~ Seen(cache, m)
  PROVE  FreeSlots(cache) # {}
<1> SUFFICES ASSUME FreeSlots(cache) = {} PROVE FALSE
  OBVIOUS
<1> DEFINE g == [s \in Slots |-> cache[s].msg]
           T == Msgs \ {m}
<1>1. \A s \in Slots : cache[s].msg \in Msgs
  BY DEF FreeSlots, slot_taken, Caches, Entry
<1>2. \A s \in Slots : cache[s].msg \in T
  BY <1>1, SeenIs
<1>3. \A s, t \in Slots : g[s] = g[t] => s = t
  BY <1>1, OneSlot
<1>4. g \in Injection(Slots, T)
  BY <1>2, <1>3 DEF Injection, IsInjective
<1>5. IsFiniteSet(Msgs) /\ Cardinality(Msgs) = Len(Sms) /\ Len(Sms) \in Nat
  <2>1. Len(Sms) \in Nat
    BY SmsAssumption
  <2>2. IsFiniteSet(1..Len(Sms))
        /\ Cardinality(1..Len(Sms)) = IF 1 > Len(Sms) THEN 0 ELSE Len(Sms) - 1 + 1
    BY <2>1, FS_Interval
  <2> QED
    BY <2>1, <2>2 DEF Msgs
<1>6. IsFiniteSet(T) /\ Cardinality(T) = Len(Sms) - 1
  BY <1>5, FS_RemoveElement
<1>7. Cardinality(Slots) = SAVED_MESSAGES
  <2>1. SAVED_MESSAGES - 1 \in Int /\ 0 \in Int /\ SAVED_MESSAGES \in Nat \ {0}
    BY SavedAssumption
  <2>2. Cardinality(0..(SAVED_MESSAGES - 1)) =
          IF 0 > SAVED_MESSAGES - 1 THEN 0 ELSE SAVED_MESSAGES - 1 - 0 + 1
    BY <2>1, FS_Interval
  <2> QED
    BY <2>1, <2>2 DEF Slots
<1>8. Cardinality(Slots) <= Cardinality(T)
  <2>1. IsFiniteSet(T)
    BY <1>6
  <2>2. \E h : h \in Injection(Slots, T)
    BY <1>4
  <2> HIDE DEF T, g
  <2> QED
    BY <2>1, <2>2, FS_Injection
<1>9. SAVED_MESSAGES <= Len(Sms) - 1
  BY <1>6, <1>7, <1>8
<1> QED
  BY <1>5, <1>9, SavedAssumption DEF Lasting

LEMMA AddIsSeen ==
  ASSUME Lasting, NEW cache \in Caches, Distinct(cache), NEW m \in Msgs,
         ~ Seen(cache, m), NEW fwd \in {0, 1}
  PROVE  /\ \E s \in Slots : add_saved_message(cache, m, fwd)[s].msg = m
         /\ \A s \in Slots :
              \/ add_saved_message(cache, m, fwd)[s] = cache[s]
              \/ /\ cache[s].msg = NULL
                 /\ add_saved_message(cache, m, fwd)[s] = [msg |-> m, fwd |-> fwd]
<1> DEFINE e == [msg |-> m, fwd |-> fwd]
           idx == IF slot_taken(cache, HashedSlot(m)) THEN find_free_slot(cache)
                                                      ELSE HashedSlot(m)
<1>1. FreeSlots(cache) # {} /\ FreeSlots(cache) \in SUBSET Nat
  BY RoomLeft, SavedAssumption DEF FreeSlots, Slots
<1>2. find_free_slot(cache) \in FreeSlots(cache)
  BY <1>1, MinIsElement DEF find_free_slot
<1>3. idx \in Slots /\ idx # -1
  BY <1>2, HashedSlotType, SavedAssumption DEF FreeSlots, Slots
<1>4. add_saved_message(cache, m, fwd) = [cache EXCEPT ![idx] = e]
  BY <1>3 DEF add_saved_message
<1> HIDE DEF idx
<1>5. add_saved_message(cache, m, fwd)[idx] = e
  BY <1>3, <1>4 DEF Caches
<1>6. add_saved_message(cache, m, fwd)[idx].msg = m
  BY <1>5
<1>7. \A s \in Slots :
        \/ add_saved_message(cache, m, fwd)[s] = cache[s]
        \/ /\ cache[s].msg = NULL
           /\ add_saved_message(cache, m, fwd)[s] = [msg |-> m, fwd |-> fwd]
  BY AddEffect
<1> QED
  BY <1>3, <1>6, <1>7

-----------------------------------------------------------------------------
(***************************************************************************)
(* The line and the SIM.                                                   *)
(***************************************************************************)
LEMMA TakeAll ==
  ASSUME Lasting, ModemTypeOK, InStep, NEW r, Take(r)
  PROVE  /\ link' = <<>> /\ io' = "write" /\ UNCHANGED <<incoming, sim>>
         /\ \/ io = "failed" /\ r.err /\ r.got = <<>>
            \/ io = "read" /\ ~ r.err /\ r.got = link
<1>1. r \in Readings /\ io # "write" /\ io \in {"write", "read", "failed"}
  BY DEF Take, ModemTypeOK
<1>2. CASE io = "failed"
  <2>1. r = Reading(TRUE, <<>>, link, 0)
    BY <1>1, <1>2 DEF Readings
  <2> QED
    BY <1>2, <2>1 DEF Take, Reading, InStep
<1>3. CASE io = "read"
  <2>1. r = Reading(FALSE, link, <<>>, 0)
    BY <1>1, <1>3 DEF Readings, Lasting
  <2> QED
    BY <1>3, <2>1 DEF Take, Reading
<1> QED
  BY <1>1, <1>2, <1>3

LEMMA PresenceStays ==
  ASSUME UNCHANGED <<incoming, sim>>
  PROVE  /\ \A m : Present(m)' = Present(m)
         /\ SimKept => SimKept'
  BY DEF Present, Stored, Taken, SimKept, Came

\* A command takes messages off the SIM, if it changes anything there.
LEMMA TypeShrinks ==
  ASSUME ModemTypeOK, NEW c, Type(c)
  PROVE  /\ \A m : Present(m)' => Present(m)
         /\ SimKept => SimKept'
<1>1. incoming' = incoming
  BY DEF Type
<1>2. \A y \in Indexes : sim'[y] \in {sim[y], NULL}
  BY DEF Type, Execute, Refuse, NoOperator, Swallow, BreakOff, Lose, SimAfter,
         EmptySim, ModemTypeOK
<1>3. SimKept => SimKept'
  BY <1>1, <1>2 DEF SimKept, Taken, Came
<1>4. \A m : Present(m)' => Present(m)
  BY <1>1, <1>2 DEF Present, Stored, Taken
<1> QED
  BY <1>3, <1>4

\* A message that is delivered to the SIM was on its way to it.
LEMMA ArriveMoves ==
  ASSUME ModemTypeOK, NEW m, Arrive(m)
  PROVE  /\ \A x : Present(x)' => Present(x)
         /\ SimKept => SimKept'
<1>1. m \in incoming
  BY DEF Arrive
<1>2. PICK x \in Indexes \ Taken :
        /\ sim' = [sim EXCEPT ![x] = m]
        /\ Taken' = Taken \cup {x}
        /\ Came' = Came \cup {m}
        /\ m \in Msgs \ Came
        /\ incoming' \subseteq incoming
  BY <1>1, ArriveFacts
<1>3. sim'[x] = m /\ \A y \in Taken : sim'[y] = sim[y]
  BY <1>2 DEF ModemTypeOK, Taken
<1>4. SimKept => SimKept'
  BY <1>2, <1>3 DEF SimKept
<1>5. \A z : Present(z)' => Present(z)
  BY <1>1, <1>2, <1>3 DEF Present, Stored
<1> QED
  BY <1>4, <1>5

(***************************************************************************)
(* Out of the calls of flow() and of what they leave.                      *)
(***************************************************************************)
LEMMA OutsideOnce ==
  ASSUME SimKept', CountedOnce', Together', pc' \notin InCall,
         \A m \in Msgs : (Present(m) /\ (delivered[m] > 0 \/ obeyed[m] > 0))'
                           => Seen(saved', m),
         \A s \in Slots : saved'[s].msg \in Msgs =>
           delivered'[saved'[s].msg] = 0 \/ saved'[s].fwd = 1
  PROVE  OnceInv'
<1>1. ~ Sending' /\ ~ InCommand' /\ pc' # "delete"
  BY DEF Sending, InCommand, InCall
<1>2. Remembered'
  BY <1>1 DEF Remembered
<1>3. Flagged'
  BY DEF Flagged
<1> QED
  BY <1>1, <1>2, <1>3 DEF OnceInv, SendsOnce, DeletesOnce

\* The calls that change nothing the invariant speaks of.
LEMMA QuietOnce ==
  ASSUME OnceInv, UNCHANGED <<incoming, sim, saved, delivered, obeyed>>,
         pc \notin InCall, pc' \notin InCall
  PROVE  OnceInv'
<1>1. ~ Sending /\ ~ InCommand /\ ~ Sent
  BY DEF Sending, InCommand, InCall, Sent
<1>2. SimKept' /\ CountedOnce' /\ Together'
  BY PresenceStays DEF OnceInv, CountedOnce, Together
<1>3. \A m \in Msgs : (Present(m) /\ (delivered[m] > 0 \/ obeyed[m] > 0))'
                        => Seen(saved', m)
  BY <1>1, PresenceStays DEF OnceInv, Remembered
<1>4. \A s \in Slots : saved'[s].msg \in Msgs =>
        delivered'[saved'[s].msg] = 0 \/ saved'[s].fwd = 1
  BY <1>1 DEF OnceInv, Flagged
<1> QED
  BY <1>2, <1>3, <1>4, OutsideOnce

(***************************************************************************)
(* The result of forward_message() reaches the cache.                      *)
(***************************************************************************)
LEMMA ResultOnce ==
  ASSUME Lasting, saved \in Caches, Distinct(saved), SimKept,
         UNCHANGED <<incoming, sim, delivered>>, CountedOnce', Together',
         NEW for, NEW m \in Msgs, NEW slots, NEW ok \in BOOLEAN,
         Forwarded(for, m, slots, ok),
         for = "new" => ~ Seen(saved, m) /\ (ok \/ delivered[m] = 0),
         \A s \in Slots : saved[s].msg \in Msgs =>
           \/ delivered[saved[s].msg] = 0
           \/ saved[s].fwd = 1
           \/ for # "new" /\ ok /\ s \in slots,
         \A x \in Msgs : Present(x) /\ (delivered[x] > 0 \/ obeyed'[x] > 0) =>
           Seen(saved, x) \/ (for = "new" /\ x = m)
  PROVE  OnceInv'
<1>1. pc' \notin InCall
  BY DEF Forwarded, Advance, InCall
<1>2. SimKept' /\ \A x : Present(x)' = Present(x)
  BY PresenceStays
<1>3. saved' \in Caches
        /\ (\A x \in Msgs : Seen(saved, x) \/ (for = "new" /\ x = m) => Seen(saved', x))
        /\ (\A s \in Slots : saved'[s].msg \in Msgs =>
              delivered'[saved'[s].msg] = 0 \/ saved'[s].fwd = 1)
  <2>1. CASE for = "new"
    <3> DEFINE fwd == IF ok THEN 1 ELSE 0
    <3>1. fwd \in {0, 1} /\ saved' = add_saved_message(saved, m, fwd)
      BY <2>1 DEF Forwarded
    <3> HIDE DEF fwd
    <3>2. saved' \in Caches
      BY <3>1, AddType
    <3>3. /\ \E s \in Slots : saved'[s].msg = m
          /\ \A s \in Slots : \/ saved'[s] = saved[s]
                              \/ /\ saved[s].msg = NULL
                                 /\ saved'[s] = [msg |-> m, fwd |-> fwd]
      <4>1. ~ Seen(saved, m)
        BY <2>1
      <4> DEFINE new == add_saved_message(saved, m, fwd)
      <4>2. /\ \E s \in Slots : new[s].msg = m
            /\ \A s \in Slots : \/ new[s] = saved[s]
                                \/ /\ saved[s].msg = NULL
                                   /\ new[s] = [msg |-> m, fwd |-> fwd]
        BY <3>1, <4>1, AddIsSeen, Zenon
      <4> HIDE DEF new
      <4>3. saved' = new
        BY <3>1 DEF new
      <4> QED
        BY <4>2, <4>3
    <3>4. \A x \in Msgs : Seen(saved, x) \/ x = m => Seen(saved', x)
      BY <3>2, <3>3, SeenIs, NullIsNoMessage
    <3>5. \A s \in Slots : saved'[s].msg \in Msgs =>
            delivered'[saved'[s].msg] = 0 \/ saved'[s].fwd = 1
      BY <2>1, <3>3 DEF fwd
    <3> QED
      BY <2>1, <3>2, <3>4, <3>5
  <2>2. CASE for # "new" /\ ok
    <3>1. saved' = MarkForwarded(saved, slots)
      BY <2>2 DEF Forwarded
    <3>2. saved' \in Caches
      BY <3>1, MarkType
    <3>3. \A s \in Slots : /\ saved'[s].msg = saved[s].msg
                           /\ s \in slots => saved'[s].fwd = 1
                           /\ s \notin slots => saved'[s] = saved[s]
      BY <3>1 DEF MarkForwarded, Caches, Entry
    <3>4. \A x \in Msgs : Seen(saved, x) => Seen(saved', x)
      BY <3>2, <3>3, SeenIs
    <3> QED
      BY <2>2, <3>2, <3>3, <3>4
  <2>3. CASE for # "new" /\ ~ ok
    BY <2>3 DEF Forwarded
  <2> QED
    BY <2>1, <2>2, <2>3
<1> QED
  BY <1>1, <1>2, <1>3, OutsideOnce

-----------------------------------------------------------------------------
(***************************************************************************)
(* A message is read: what flow() makes of it.                             *)
(***************************************************************************)
\* Between the calls the cache knows the past.
LEMMA ReadingKnows ==
  ASSUME OnceInv, pc = "read"
  PROVE  /\ \A x \in Msgs : Present(x) /\ (delivered[x] > 0 \/ obeyed[x] > 0)
                              => Seen(saved, x)
         /\ \A s \in Slots : saved[s].msg \in Msgs =>
              delivered[saved[s].msg] = 0 \/ saved[s].fwd = 1
  BY DEF OnceInv, Remembered, Flagged, InCommand, Sending, Sent

Texts(text) == {text[k] : k \in DOMAIN text}

\* The arguments of a forward that may begin.
Fresh(for, m, text, slots) ==
  /\ Texts(text) \subseteq Msgs
  /\ \A a \in Texts(text) : delivered[a] = 0
  /\ \A a \in Texts(text), b \in Msgs : SameText(a, b) => b \in Texts(text)
  /\ \A s \in Slots : saved[s].msg \in Texts(text) => s \in slots
  /\ for = "new" => Texts(text) = {m} /\ slots = {} /\ ~ Seen(saved, m)
  /\ for # "new" => \A a \in Texts(text) : Seen(saved, a)

LEMMA StartOnce ==
  ASSUME Lasting, saved \in Caches, Distinct(saved), OnceInv, pc = "read",
         io' = "write", UNCHANGED <<incoming, sim, delivered, obeyed>>,
         NEW for, NEW m \in Msgs, NEW text, NEW slots,
         forward_message(for, m, text, slots),
         Fresh(for, m, text, slots)
  PROVE  OnceInv'
<1>1. /\ SimKept' /\ CountedOnce' /\ Together' /\ SimKept
      /\ \A x : Present(x)' = Present(x)
  BY PresenceStays DEF OnceInv, CountedOnce, Together
<1>2. CASE opts["forward"] = 0
  <2>1. Forwarded(for, m, slots, FALSE)
    BY <1>2 DEF forward_message
  <2>2. for = "new" => ~ Seen(saved, m) /\ delivered[m] = 0
    BY DEF Fresh
  <2> QED
    BY <1>1, <2>1, <2>2, ReadingKnows, ResultOnce
<1>3. CASE opts["forward"] # 0
  <2>1. /\ pc' = "prompt" /\ msg' = m /\ saved' = saved
        /\ job'.for = for /\ job'.text = text /\ job'.slots = slots
    BY <1>3 DEF forward_message, GoTo
  <2>2. Members' = Texts(text)
    BY <2>1 DEF Members, Texts
  <2>3. Remembered'
    BY <1>1, <2>1, ReadingKnows DEF Remembered, Seen, Matches
  <2>4. Flagged'
    BY <2>1, ReadingKnows DEF Flagged
  <2>5. SendsOnce'
    BY <2>1, <2>2 DEF Fresh, SendsOnce, Seen, Matches
  <2>6. DeletesOnce'
    BY <2>1 DEF DeletesOnce
  <2> QED
    BY <1>1, <2>3, <2>4, <2>5, <2>6 DEF OnceInv
<1> QED
  BY <1>2, <1>3

\* The parts put together are all of one text, and their slots get marked.
LEMMA WholeText ==
  ASSUME Lasting, saved \in Caches, Distinct(saved),
         NEW c \in Msgs, Sms[c].no > 0, Cardinality(PartSlots(c)) = Sms[c].parts,
         Together, delivered[c] = 0
  PROVE  Fresh("multi", c, Assembled(c), PartsToMark(c))
<1> DEFINE T == Texts(Assembled(c))
<1>1. Sms[c].parts \in Nat /\ DOMAIN Assembled(c) = 1..Sms[c].parts
  BY MessageFields DEF SmsRecord, Assembled
<1>2. \A k \in 1..Sms[c].parts :
        /\ PartAt(c, k) \in Slots /\ PartAt(c, k) \in PartsToMark(c)
        /\ Assembled(c)[k] = saved[PartAt(c, k)].msg
        /\ Assembled(c)[k] \in Msgs /\ Sms[Assembled(c)[k]].no = k
        /\ Sms[Assembled(c)[k]].ref = Sms[c].ref
        /\ Sms[Assembled(c)[k]].parts = Sms[c].parts
  <2> TAKE k \in 1..Sms[c].parts
  <2>1. PartAt(c, k) \in PartSlots(c) /\ Sms[saved[PartAt(c, k)].msg].no = k
    BY EveryPartCached DEF Lasting
  <2>2. PartAt(c, k) # -1
    BY <2>1, SavedAssumption DEF PartSlots, Slots
  <2>3. Assembled(c)[k] = saved[PartAt(c, k)].msg
    BY <2>2 DEF Assembled
  <2>4. PartAt(c, k) \in PartsToMark(c)
    BY <2>2 DEF PartsToMark
  <2> QED
    BY <2>1, <2>3, <2>4 DEF PartSlots, slot_taken, Caches, Entry
<1>3. \A a \in T : \E k \in 1..Sms[c].parts : a = Assembled(c)[k]
  BY <1>1 DEF Texts
<1>4. \A a \in T : a \in Msgs /\ SameText(c, a)
  BY <1>1, <1>2, <1>3 DEF SameText
<1>5. \A a \in T : Seen(saved, a)
  BY <1>2, <1>3, <1>4, SeenIs
<1>6. ASSUME NEW a \in T, NEW b \in Msgs, SameText(a, b) PROVE b \in T
  <2>1. /\ Sms[b].ref = Sms[c].ref /\ Sms[b].parts = Sms[c].parts /\ Sms[b].no > 0
    BY <1>4, <1>6 DEF SameText
  <2>2. Sms[b].no \in 1..Sms[c].parts
    BY <2>1, MessageFields DEF WellSplit
  <2>3. compare_messages(b, Assembled(c)[Sms[b].no])
    BY <1>2, <2>1, <2>2 DEF Lasting, ReferencesDiffer
  <2>4. b = Assembled(c)[Sms[b].no]
    BY <1>2, <2>2, <2>3 DEF Lasting
  <2> QED
    BY <1>1, <2>2, <2>4 DEF Texts
<1>7. ASSUME NEW s \in Slots, saved[s].msg \in T PROVE s \in PartsToMark(c)
  <2>1. PICK k \in 1..Sms[c].parts : saved[s].msg = Assembled(c)[k]
    BY <1>3, <1>7
  <2>2. s = PartAt(c, k)
    BY <1>2, <2>1, OneSlot
  <2> QED
    BY <1>2, <2>2
<1>8. \A a \in T : delivered[a] = 0
  BY <1>4 DEF Together
<1> HIDE DEF T
<1> QED
  BY <1>4, <1>5, <1>6, <1>7, <1>8 DEF Fresh, T

LEMMA CommandOnce ==
  ASSUME Lasting, saved \in Caches, Distinct(saved), Counters, OnceInv, pc = "read",
         UNCHANGED <<incoming, sim, delivered>>,
         NEW m \in Msgs, Present(m), ~ Seen(saved, m), process_command_message(m)
  PROVE  OnceInv'
<1>1. /\ obeyed' = Bump(obeyed, {m}) /\ delivered[m] = 0 /\ obeyed[m] = 0
      /\ obeyed \in [Msgs -> 0..2]
  BY ReadingKnows DEF process_command_message, Counters
<1>2. obeyed'[m] = 1 /\ \A x \in Msgs : x # m => obeyed'[x] = obeyed[x]
  BY <1>1 DEF Bump
<1>3. SimKept /\ SimKept' /\ CountedOnce' /\ Together' /\ \A x : Present(x)' = Present(x)
  BY <1>2, PresenceStays DEF OnceInv, CountedOnce, Together
<1>4. CASE Forwarded("new", m, {}, TRUE)
  <2>1. \A x \in Msgs : Present(x) /\ (delivered[x] > 0 \/ obeyed'[x] > 0) =>
          Seen(saved, x) \/ ("new" = "new" /\ x = m)
    BY <1>2, ReadingKnows
  <2>2. \A s \in Slots : saved[s].msg \in Msgs =>
          \/ delivered[saved[s].msg] = 0
          \/ saved[s].fwd = 1
          \/ "new" # "new" /\ TRUE /\ s \in {}
    BY ReadingKnows
  <2> QED
    BY <1>3, <1>4, <2>1, <2>2, ResultOnce
<1>5. CASE /\ Sms[m].cmd \in DOMAIN CommandPC
           /\ GoTo(CommandPC[Sms[m].cmd], m, Idle)
           /\ saved' = saved
  <2>1. pc' \in {"clear", "cset", "dump"} /\ msg' = m /\ saved' = saved
    BY <1>5 DEF GoTo, CommandPC
  <2>2. InCommand' /\ ~ Sending' /\ pc' # "delete"
    BY <2>1 DEF InCommand, Sending
  <2>3. Remembered'
    BY <1>2, <1>3, <2>1, <2>2, ReadingKnows DEF Remembered, Seen, Matches
  <2>4. Flagged'
    BY <2>1, ReadingKnows DEF Flagged
  <2> QED
    BY <1>3, <2>2, <2>3, <2>4 DEF OnceInv, SendsOnce, DeletesOnce
<1> QED
  BY <1>4, <1>5 DEF process_command_message, Lasting

LEMMA NewOnce ==
  ASSUME Lasting, saved \in Caches, Distinct(saved), Counters, OnceInv, pc = "read",
         io' = "write", UNCHANGED <<incoming, sim, delivered>>,
         NEW m \in Msgs, Present(m), ~ Seen(saved, m), NewMessage(m)
  PROVE  OnceInv'
<1>1. delivered[m] = 0 /\ obeyed[m] = 0
  BY ReadingKnows DEF Counters
<1>2. CASE process_command_message(m)
  BY <1>2, CommandOnce
<1>3. CASE /\ Sms[m].no = 0 /\ forward_message("new", m, <<m>>, {})
           /\ obeyed' = obeyed
  <2>1. Texts(<<m>>) = {m}
    BY DEF Texts
  <2>2. \A b \in Msgs : ~ SameText(m, b)
    BY <1>3 DEF SameText
  <2>3. \A s \in Slots : saved[s].msg # m
    BY SeenIs
  <2>4. Fresh("new", m, <<m>>, {})
    BY <1>1, <2>1, <2>2, <2>3 DEF Fresh
  <2> QED
    BY <1>3, <2>4, StartOnce
<1>4. CASE Forwarded("new", m, {}, FALSE) /\ obeyed' = obeyed
  <2>1. SimKept /\ CountedOnce' /\ Together'
    BY <1>4 DEF OnceInv, CountedOnce, Together
  <2>2. \A x \in Msgs : Present(x) /\ (delivered[x] > 0 \/ obeyed'[x] > 0) =>
          Seen(saved, x) \/ ("new" = "new" /\ x = m)
    BY <1>4, ReadingKnows
  <2>3. \A s \in Slots : saved[s].msg \in Msgs =>
          \/ delivered[saved[s].msg] = 0
          \/ saved[s].fwd = 1
          \/ "new" # "new" /\ FALSE /\ s \in {}
    BY ReadingKnows
  <2> QED
    BY <1>1, <1>4, <2>1, <2>2, <2>3, ResultOnce
<1> QED
  BY <1>2, <1>3, <1>4 DEF NewMessage

\* Out of a call for a message that was read, with nothing done.
LEMMA AdvanceOnce ==
  ASSUME OnceInv, pc = "read", Advance,
         UNCHANGED <<incoming, sim, saved, delivered, obeyed>>
  PROVE  OnceInv'
  BY QuietOnce DEF Advance, InCall

LEMMA SeenOnce ==
  ASSUME Lasting, saved \in Caches, Distinct(saved), Counters, OnceInv, pc = "read",
         io' = "write", UNCHANGED <<incoming, sim, delivered>>,
         NEW m \in Msgs, NEW s \in Slots, saved[s].msg = m, SeenMessage(m, s)
  PROVE  OnceInv'
<1>1. obeyed' = obeyed /\ saved[s].fwd \in {0, 1} /\ Seen(saved, m)
  BY SeenIs DEF SeenMessage, Caches, Entry
<1>2. SimKept' /\ CountedOnce' /\ Together' /\ \A x : Present(x)' = Present(x)
  BY <1>1, PresenceStays DEF OnceInv, CountedOnce, Together
<1>3. CASE Advance /\ saved' = saved
  BY <1>1, <1>3, AdvanceOnce
<1>4. CASE GoTo("delete", m, Deletion(s)) /\ saved' = saved
  <2>1. pc' = "delete" /\ msg' = m /\ job'.slots = {s}
    BY <1>4 DEF GoTo, Deletion
  <2>2. ~ Sending' /\ ~ InCommand'
    BY <2>1 DEF Sending, InCommand
  <2>3. Remembered'
    BY <1>1, <1>2, <1>4, ReadingKnows DEF Remembered, Seen, Matches
  <2>4. Flagged'
    BY <1>4, ReadingKnows DEF Flagged
  <2>5. DeletesOnce'
    BY <1>4, <2>1 DEF DeletesOnce
  <2> QED
    BY <1>2, <2>2, <2>3, <2>4, <2>5 DEF OnceInv, SendsOnce
<1>5. CASE /\ saved[s].fwd = 0 /\ Sms[m].no = 0
           /\ forward_message("seen", m, <<m>>, {s})
  <2>1. Texts(<<m>>) = {m} /\ delivered[m] = 0
    BY <1>5, ReadingKnows DEF Texts
  <2>2. \A b \in Msgs : ~ SameText(m, b)
    BY <1>5 DEF SameText
  <2>3. \A t \in Slots : saved[t].msg = m => t = s
    BY OneSlot
  <2>4. Fresh("seen", m, <<m>>, {s})
    BY <1>1, <2>1, <2>2, <2>3 DEF Fresh
  <2> QED
    BY <1>1, <1>5, <2>4, StartOnce
<1>6. CASE /\ saved[s].fwd = 0 /\ Sms[m].no # 0
           /\ process_multipart_message(m)
  <2>1. Sms[m].no > 0
    BY <1>6, MessageFields DEF SmsRecord
  <2>2. CASE /\ Cardinality(PartSlots(m)) = Sms[m].parts
             /\ forward_message("multi", m, Assembled(m), PartsToMark(m))
    <3>1. delivered[m] = 0
      BY <1>6, ReadingKnows
    <3>2. Fresh("multi", m, Assembled(m), PartsToMark(m))
      BY <2>1, <2>2, <3>1, WholeText DEF OnceInv
    <3> QED
      BY <1>1, <2>2, <3>2, StartOnce
  <2>3. CASE Advance /\ saved' = saved
    BY <1>3, <2>3
  <2> QED
    BY <1>6, <2>2, <2>3 DEF process_multipart_message
<1> QED
  BY <1>1, <1>3, <1>4, <1>5, <1>6 DEF SeenMessage, delete_message

LEMMA MessageOnce ==
  ASSUME Lasting, saved \in Caches, Distinct(saved), Counters, OnceInv, pc = "read",
         io' = "write", UNCHANGED <<incoming, sim, delivered>>,
         NEW m \in Msgs, Present(m), Message(m)
  PROVE  OnceInv'
<1> DEFINE s == find_saved_message(saved, m)
<1>1. CASE s = -1
  <2>1. ~ Seen(saved, m)
    BY <1>1, FindMissing
  <2> QED
    BY <1>1, <2>1, NewOnce DEF Message
<1>2. CASE s # -1
  <2>1. s \in Matches(saved, m)
    BY <1>2, FindIsMatch
  <2>2. SeenMessage(m, s) \/ CrashOnParts(s)
    BY <1>2 DEF Message
  <2> HIDE DEF s
  <2>3. s \in Slots /\ saved[s].msg = m
    BY <2>1 DEF Matches, slot_taken, Caches, Entry, Lasting
  <2>4. ASSUME CrashOnParts(s) PROVE FALSE
    <3>1. Sms[m].no > 0 /\ Cardinality(PartSlots(m)) = Sms[m].parts
      BY <2>3, <2>4 DEF CrashOnParts, Undefined
    <3>2. PICK k \in 1..Sms[m].parts : PartAt(m, k) = -1
      BY <2>3, <2>4 DEF CrashOnParts, Undefined
    <3>3. PartAt(m, k) \in PartSlots(m)
      BY <3>1, EveryPartCached DEF Lasting
    <3> QED
      BY <3>2, <3>3, SavedAssumption DEF PartSlots, Slots
  <2> QED
    BY <2>2, <2>3, <2>4, SeenOnce
<1> QED
  BY <1>1, <1>2

LEMMA ReadOnce ==
  ASSUME Lasting, TypeInv, Unique, InStep, OnceInv, Read
  PROVE  OnceInv'
<1>1. PICK r \in Readings :
        /\ Take(r)
        /\ IF FoundKind(r.got, "cmgr") /\ Sms[FirstOf(r.got, "cmgr")].good
             THEN Message(FirstOf(r.got, "cmgr"))
             ELSE Advance /\ UNCHANGED <<flowVars, obeyed>>
  BY DEF Read
<1>2. /\ io' = "write" /\ UNCHANGED <<incoming, sim, delivered>> /\ pc = "read"
      /\ saved \in Caches /\ Distinct(saved) /\ Counters /\ i \in Indexes
      /\ \/ io = "failed" /\ r.err /\ r.got = <<>>
         \/ io = "read" /\ ~ r.err /\ r.got = link
  BY <1>1, TakeAll DEF TypeInv, Unique, Read, Control, Placed
<1>3. CASE Advance /\ UNCHANGED <<flowVars, obeyed>>
  BY <1>2, <1>3, AdvanceOnce DEF flowVars
<1>4. CASE FoundKind(r.got, "cmgr") /\ Message(FirstOf(r.got, "cmgr"))
  <2> DEFINE m == FirstOf(r.got, "cmgr")
  <2>1. r.got \in Seq(Replies)
    BY <1>1, TakeType DEF TypeInv
  <2>2. m \in Msgs
    BY <1>4, <2>1, FirstOfFacts, ReplyFields
  <2>3. m = sim[i]
    <3>1. Kind(r.got, "cmgr") \in SUBSET Nat /\ Kind(r.got, "cmgr") # {}
      BY <1>4, <2>1 DEF Kind, FoundKind
    <3>2. Min(Kind(r.got, "cmgr")) \in Kind(r.got, "cmgr")
      BY <3>1, MinIsElement
    <3>3. io = "read" /\ r.got = link
      BY <1>2, <3>1 DEF Kind
    <3> QED
      BY <1>2, <3>2, <3>3 DEF Kind, FirstOf, InStep
  <2> HIDE DEF m
  <2>4. Present(m)
    BY <1>2, <2>2, <2>3, NullIsNoMessage DEF Present, Stored, Taken
  <2>5. Message(m)
    BY <1>4 DEF m
  <2> QED
    BY <1>2, <2>2, <2>4, <2>5, MessageOnce
<1> QED
  BY <1>1, <1>3, <1>4

-----------------------------------------------------------------------------
(***************************************************************************)
(* The calls.                                                              *)
(***************************************************************************)
LEMMA RememberOnce ==
  ASSUME Lasting, TypeInv, Unique, OnceInv, pc \in {"clear", "dump", "book"}, Remember,
         UNCHANGED <<incoming, sim, delivered, obeyed>>
  PROVE  OnceInv'
<1>1. /\ msg \in Msgs /\ ~ Seen(saved, msg) /\ saved \in Caches /\ Distinct(saved)
      /\ ~ Sending /\ ~ Sent
  BY DEF TypeInv, Control, Placed, InCall, Unique, NewIsUnseen, Sending, Sent
<1>2. SimKept /\ CountedOnce' /\ Together'
  BY DEF OnceInv, CountedOnce, Together
<1>3. \A x \in Msgs : Present(x) /\ (delivered[x] > 0 \/ obeyed'[x] > 0) =>
        Seen(saved, x) \/ ("new" = "new" /\ x = msg)
  BY <1>1 DEF OnceInv, Remembered
<1>4. \A s \in Slots : saved[s].msg \in Msgs =>
        \/ delivered[saved[s].msg] = 0
        \/ saved[s].fwd = 1
        \/ "new" # "new" /\ TRUE /\ s \in {}
  BY <1>1 DEF OnceInv, Flagged
<1>5. Forwarded("new", msg, {}, TRUE)
  BY DEF Remember
<1> QED
  BY <1>1, <1>2, <1>3, <1>4, <1>5, ResultOnce

LEMMA PduOnce ==
  ASSUME Lasting, TypeInv, Unique, OnceInv, Sending, io' = "write",
         UNCHANGED <<incoming, sim, delivered, obeyed>>,
         NEW ok \in BOOLEAN, NEW whole, ~ ok => ~ Sent, PduResult(ok, whole)
  PROVE  OnceInv'
<1>1. /\ msg \in Msgs /\ job \in Jobs /\ saved \in Caches /\ Distinct(saved)
      /\ ~ InCommand /\ pc # "delete"
      /\ job.for = "new" => ~ Seen(saved, msg)
  BY DEF TypeInv, Control, Placed, InCall, Unique, NewIsUnseen, Sending, InCommand
<1>2. /\ SimKept /\ SimKept' /\ CountedOnce' /\ Together'
      /\ \A x : Present(x)' = Present(x)
  BY PresenceStays DEF OnceInv, CountedOnce, Together
<1>3. CASE /\ job.part < job.parts
           /\ GoTo("prompt", msg, [job EXCEPT !.part = job.part + 1, !.whole = whole])
           /\ UNCHANGED saved
  <2>1. /\ pc' = "prompt" /\ msg' = msg /\ saved' = saved
        /\ job'.for = job.for /\ job'.text = job.text /\ job'.slots = job.slots
    BY <1>1, <1>3 DEF GoTo, Jobs
  <2>2. ~ Sent /\ Members' = Members
    BY <1>1, <1>3, <2>1 DEF Sent, Jobs, Members
  <2>3. Remembered'
    BY <1>1, <1>2, <2>1 DEF OnceInv, Remembered, Sending, Seen, Matches
  <2>4. Flagged'
    BY <2>1, <2>2 DEF OnceInv, Flagged
  <2>5. SendsOnce'
    BY <2>1, <2>2 DEF OnceInv, SendsOnce, Seen, Matches
  <2>6. DeletesOnce'
    BY <2>1 DEF DeletesOnce
  <2> QED
    BY <1>2, <2>3, <2>4, <2>5, <2>6 DEF OnceInv
<1>4. CASE Forwarded(job.for, msg, job.slots, ok)
  <2>1. job.for = "new" => ~ Seen(saved, msg) /\ (ok \/ delivered[msg] = 0)
    BY <1>1 DEF OnceInv, SendsOnce
  <2>2. \A s \in Slots : saved[s].msg \in Msgs =>
          \/ delivered[saved[s].msg] = 0
          \/ saved[s].fwd = 1
          \/ job.for # "new" /\ ok /\ s \in job.slots
    BY DEF OnceInv, Flagged, SendsOnce
  <2>3. \A x \in Msgs : Present(x) /\ (delivered[x] > 0 \/ obeyed'[x] > 0) =>
          Seen(saved, x) \/ (job.for = "new" /\ x = msg)
    BY <1>1 DEF OnceInv, Remembered
  <2> QED
    BY <1>1, <1>2, <1>4, <2>1, <2>2, <2>3, ResultOnce
<1> QED
  BY <1>3, <1>4 DEF PduResult

LEMMA PromptOnce ==
  ASSUME Lasting, TypeInv, Unique, InStep, OnceInv, Prompt
  PROVE  OnceInv'
<1>1. PICK r \in Readings :
        /\ Take(r)
        /\ IF r.err THEN PduResult(FALSE, FALSE)
                    ELSE GoTo("submit", msg, job) /\ UNCHANGED saved
  BY DEF Prompt
<1>2. /\ io' = "write" /\ UNCHANGED <<incoming, sim, delivered, obeyed>>
      /\ Sending /\ ~ Sent /\ ~ InCommand
  BY <1>1, TakeAll DEF TypeInv, Prompt, history, Sending, Sent, InCommand
<1>3. CASE PduResult(FALSE, FALSE)
  BY <1>2, <1>3, PduOnce
<1>4. CASE GoTo("submit", msg, job) /\ UNCHANGED saved
  <2>1. /\ pc' = "submit" /\ msg' = msg /\ saved' = saved /\ job' = job
        /\ Members' = Members
    BY <1>4 DEF GoTo, Members
  <2>2. SimKept' /\ CountedOnce' /\ Together' /\ \A x : Present(x)' = Present(x)
    BY <1>2, PresenceStays DEF OnceInv, CountedOnce, Together
  <2>3. Remembered'
    BY <1>2, <2>1, <2>2 DEF OnceInv, Remembered, Sending, Seen, Matches
  <2>4. Flagged'
    BY <1>2, <2>1 DEF OnceInv, Flagged
  <2>5. SendsOnce'
    BY <1>2, <2>1 DEF OnceInv, SendsOnce, Seen, Matches
  <2>6. DeletesOnce'
    BY <2>1 DEF DeletesOnce
  <2> QED
    BY <2>2, <2>3, <2>4, <2>5, <2>6 DEF OnceInv
<1> QED
  BY <1>1, <1>3, <1>4

LEMMA SubmitAnswerOnce ==
  ASSUME Lasting, TypeInv, Unique, InStep, OnceInv, SubmitAnswer
  PROVE  OnceInv'
<1>1. PICK r \in Readings :
        /\ Take(r)
        /\ PduResult(~ r.err /\ ~ FoundError(r.got), job.whole)
  BY DEF SubmitAnswer
<1> DEFINE ok == ~ r.err /\ ~ FoundError(r.got)
<1>2. /\ io' = "write" /\ UNCHANGED <<incoming, sim, delivered, obeyed>> /\ Sending
      /\ \/ io = "failed" /\ r.err /\ r.got = <<>>
         \/ io = "read" /\ ~ r.err /\ r.got = link
  BY <1>1, TakeAll DEF TypeInv, SubmitAnswer, history, Sending
<1>3. ok \in BOOLEAN /\ (~ ok => ~ Sent) /\ PduResult(ok, job.whole)
  BY <1>1, <1>2 DEF Sent
<1> HIDE DEF ok
<1> QED
  BY <1>2, <1>3, PduOnce

LEMMA SubmitOnce ==
  ASSUME TypeInv, InStep, OnceInv, Submit
  PROVE  OnceInv'
<1>1. /\ pc = "submit" /\ io = "write" /\ link = <<>>
      /\ UNCHANGED <<pc, msg, saved, obeyed, incoming, sim>>
      /\ job'.text = job.text /\ job'.for = job.for /\ job'.slots = job.slots
      /\ job'.part = job.part /\ job'.parts = job.parts
  BY DEF Submit, Accepted, NotAccepted, SubmitAccepted, SubmitRefused, SubmitIgnored,
         Lose, BreakOff, flowVars, TypeInv, Control, Jobs, InStep
<1>2. /\ Sending /\ Sending' /\ ~ Sent /\ ~ InCommand /\ ~ InCommand'
      /\ Members' = Members /\ pc' # "delete"
  BY <1>1 DEF Sending, Sent, InCommand, Members
<1>3. SimKept' /\ \A x : Present(x)' = Present(x)
  BY <1>1, PresenceStays DEF OnceInv
<1>4. /\ \A s \in Slots : saved'[s].msg \in Members' => s \in job'.slots
      /\ job'.for = "new" => Members' = {msg'} /\ job'.slots = {}
      /\ job'.for # "new" => \A a \in Members' : Seen(saved', a)
      /\ \A a \in Members : delivered[a] = 0
      /\ Members \subseteq Msgs
      /\ \A a \in Members, b \in Msgs : SameText(a, b) => b \in Members
  BY <1>1, <1>2 DEF OnceInv, SendsOnce
<1>5. CASE delivered' = delivered
  <2>1. CountedOnce' /\ Together'
    BY <1>1, <1>5 DEF OnceInv, CountedOnce, Together
  <2>2. Remembered'
    BY <1>1, <1>2, <1>3, <1>5 DEF OnceInv, Remembered
  <2>3. Flagged'
    BY <1>1, <1>2, <1>5 DEF OnceInv, Flagged
  <2>4. SendsOnce'
    BY <1>2, <1>4, <1>5 DEF SendsOnce
  <2> QED
    BY <1>2, <1>3, <2>1, <2>2, <2>3, <2>4 DEF OnceInv, DeletesOnce
<1>6. CASE /\ delivered' = Bump(delivered, Members) /\ job.part = job.parts
           /\ SubmitAccepted
  <2>1. /\ \A x \in Members : delivered'[x] = 1
        /\ \A x \in Msgs \ Members : delivered'[x] = delivered[x]
    BY <1>4, <1>6 DEF Bump
  <2>2. ~ FoundError(link')
    <3>1. link' = <<Reply("ok", 0)>>
      BY <1>1, <1>6 DEF SubmitAccepted
    <3> QED
      BY <3>1 DEF FoundError, Kind, Reply
  <2>3. Sent'
    BY <1>1, <1>6, <2>2 DEF Sent, SubmitAccepted
  <2>4. CountedOnce'
    BY <1>1, <1>4, <2>1 DEF OnceInv, CountedOnce
  <2>5. Together'
    <3> SUFFICES ASSUME NEW a \in Msgs, NEW b \in Msgs, SameText(a, b)
                 PROVE  delivered'[a] = delivered'[b]
      BY DEF Together
    <3>1. SameText(b, a)
      BY DEF SameText
    <3>2. a \in Members <=> b \in Members
      BY <1>4, <3>1
    <3>3. delivered[a] = delivered[b]
      BY DEF OnceInv, Together
    <3> QED
      BY <2>1, <3>2, <3>3
  <2>6. Remembered'
    <3> SUFFICES ASSUME NEW x \in Msgs, Present(x), delivered'[x] > 0 \/ obeyed'[x] > 0
                 PROVE  Seen(saved', x) \/ (job'.for = "new" /\ msg' = x)
      BY <1>2, <1>3 DEF Remembered
    <3>1. CASE x \in Members
      BY <1>4, <1>2, <3>1
    <3>2. CASE x \notin Members
      BY <1>1, <1>2, <2>1, <3>2 DEF OnceInv, Remembered
    <3> QED
      BY <3>1, <3>2
  <2>7. Flagged'
    BY <1>1, <1>2, <1>4, <2>1, <2>3 DEF OnceInv, Flagged
  <2>8. SendsOnce'
    BY <1>2, <1>4, <2>3 DEF SendsOnce
  <2> QED
    BY <1>2, <1>3, <2>4, <2>5, <2>6, <2>7, <2>8 DEF OnceInv, DeletesOnce
<1> QED
  BY <1>5, <1>6 DEF Submit, Accepted, NotAccepted

\* AT+CMGD takes what was judged off the SIM, or is not answered OK.
LEMMA AskOnce ==
  ASSUME TypeInv, InStep, OnceInv, Ask
  PROVE  OnceInv'
<1>1. /\ UNCHANGED <<pc, i, msg, job, saved, delivered, obeyed>>
      /\ Type(Line) /\ pc # "submit" /\ io = "write" /\ ModemTypeOK
  BY DEF Ask, Type, localVars, flowVars, history, TypeInv
<1>2. SimKept' /\ \A x : Present(x)' => Present(x)
  BY <1>1, TypeShrinks DEF OnceInv
<1>3. /\ ~ Sent /\ ~ Sent' /\ Members' = Members
      /\ Sending' = Sending /\ InCommand' = InCommand
  BY <1>1 DEF Sent, Members, Sending, InCommand
<1>4. CountedOnce' /\ Together'
  BY <1>1 DEF OnceInv, CountedOnce, Together
<1>5. Remembered'
  BY <1>1, <1>2, <1>3 DEF OnceInv, Remembered, Seen, Matches
<1>6. Flagged'
  BY <1>1, <1>3 DEF OnceInv, Flagged
<1>7. SendsOnce'
  BY <1>1, <1>3 DEF OnceInv, SendsOnce, Seen, Matches
<1>8. ASSUME pc = "delete", io' = "read", FoundOK(link')
      PROVE  ~ Present(msg)'
  <2>1. Line.at = "CMGD" /\ Line.arg = i
    BY <1>8 DEF Line, CommandAt
  <2>2. sim[i] = msg /\ msg \in Msgs /\ i \in Indexes /\ sim[i] \in Came
    <3>1. sim[i] = msg /\ msg \in Msgs /\ i \in Indexes
      BY <1>1, <1>8 DEF InStep, DeletesWhatItRead, TypeInv, Control, Placed, InCall
    <3>2. i \in Taken
      BY <3>1, NullIsNoMessage DEF Taken
    <3> QED
      BY <3>1, <3>2 DEF OnceInv, SimKept
  <2>3. ~ FoundOK(<<>>) /\ ~ FoundOK(<<Reply("error", 0)>>)
    BY DEF FoundOK, Reply
  <2>4. sim' = SimAfter(Line)
    BY <1>1, <1>8, <2>1, <2>3, TypeLink
  <2>5. sim' = [sim EXCEPT ![i] = NULL] /\ incoming' = incoming
    BY <1>1, <2>1, <2>4 DEF SimAfter, Type
  <2>6. ASSUME NEW y \in Taken' PROVE sim'[y] # msg
    <3>1. y \in Indexes /\ y # i /\ sim'[y] = sim[y] /\ y \in Taken
      BY <1>1, <2>2, <2>5, <2>6 DEF Taken, ModemTypeOK
    <3>2. i \in Taken
      BY <2>2, NullIsNoMessage DEF Taken
    <3> QED
      BY <2>2, <3>1, <3>2 DEF OnceInv, SimKept
  <2> QED
    BY <2>2, <2>5, <2>6, <1>1 DEF Present, Stored, Came
<1>9. DeletesOnce'
  BY <1>1, <1>8 DEF OnceInv, DeletesOnce
<1> QED
  BY <1>2, <1>4, <1>5, <1>6, <1>7, <1>9 DEF OnceInv

LEMMA DeliverOnce ==
  ASSUME TypeInv, OnceInv, Deliver
  PROVE  OnceInv'
<1>1. PICK m \in incoming : Arrive(m)
  BY DEF Deliver
<1>2. UNCHANGED <<pc, msg, job, saved, delivered, obeyed, link, io>> /\ ModemTypeOK
  BY <1>1 DEF Deliver, localVars, flowVars, history, Arrive, TypeInv
<1>3. SimKept' /\ \A x : Present(x)' => Present(x)
  BY <1>1, <1>2, ArriveMoves DEF OnceInv
<1>4. Sent' = Sent /\ Members' = Members /\ Sending' = Sending /\ InCommand' = InCommand
  BY <1>2 DEF Sent, Members, Sending, InCommand, FoundError, Kind
<1>5. CountedOnce' /\ Together'
  BY <1>2 DEF OnceInv, CountedOnce, Together
<1>6. Remembered'
  BY <1>2, <1>3, <1>4 DEF OnceInv, Remembered, Seen, Matches
<1>7. Flagged' /\ SendsOnce'
  BY <1>2, <1>4 DEF OnceInv, Flagged, SendsOnce, Seen, Matches
<1>8. DeletesOnce'
  BY <1>2, <1>3 DEF OnceInv, DeletesOnce, FoundOK
<1> QED
  BY <1>3, <1>5, <1>6, <1>7, <1>8 DEF OnceInv

LEMMA DeleteOnce ==
  ASSUME Lasting, TypeInv, Unique, InStep, OnceInv, Delete
  PROVE  OnceInv'
<1>1. PICK r \in Readings :
        /\ Take(r)
        /\ saved' = IF FoundOK(r.got)
                      THEN remove_saved_message(saved, job.slots) ELSE saved
  BY DEF Delete
<1>2. /\ UNCHANGED <<incoming, sim, delivered, obeyed>> /\ pc = "delete" /\ Advance
      /\ \/ io = "failed" /\ r.err /\ r.got = <<>>
         \/ io = "read" /\ ~ r.err /\ r.got = link
      /\ saved \in Caches /\ Distinct(saved)
  BY <1>1, TakeAll DEF TypeInv, Delete, history, Unique
<1>3. ~ Sending /\ ~ Sent /\ ~ InCommand /\ pc' \notin InCall
  BY <1>2 DEF Sending, Sent, InCommand, Advance, InCall
<1>4. SimKept' /\ CountedOnce' /\ Together' /\ \A x : Present(x)' = Present(x)
  BY <1>2, PresenceStays DEF OnceInv, CountedOnce, Together
<1>5. /\ \A x \in Msgs : Present(x) /\ (delivered[x] > 0 \/ obeyed[x] > 0)
                           => Seen(saved, x)
      /\ \A s \in Slots : saved[s].msg \in Msgs =>
           delivered[saved[s].msg] = 0 \/ saved[s].fwd = 1
  BY <1>3 DEF OnceInv, Remembered, Flagged
<1>6. CASE FoundOK(r.got)
  <2>1. ~ FoundOK(<<>>)
    BY DEF FoundOK
  <2>2. ~ Present(msg)
    BY <1>2, <1>6, <2>1 DEF OnceInv, DeletesOnce
  <2>3. PICK s \in Slots : job.slots = {s} /\ saved[s].msg = msg
    BY <1>2 DEF OnceInv, DeletesOnce
  <2>4. saved' = remove_saved_message(saved, job.slots)
    BY <1>1, <1>6
  <2>5. saved' \in Caches
    BY <1>2, <2>4, RemoveType
  <2>6. saved'[s].msg = NULL /\ \A t \in Slots : t # s => saved'[t] = saved[t]
    BY <2>3, <2>4 DEF remove_saved_message, Free
  <2>7. \A x \in Msgs : Present(x) /\ Seen(saved, x) => Seen(saved', x)
    <3> SUFFICES ASSUME NEW x \in Msgs, Present(x), Seen(saved, x)
                 PROVE  Seen(saved', x)
      OBVIOUS
    <3>1. PICK t \in Slots : saved[t].msg = x
      BY <1>2, SeenIs
    <3>2. t # s
      BY <2>2, <2>3, <3>1
    <3> QED
      BY <2>5, <2>6, <3>1, <3>2, SeenIs
  <2>8. \A t \in Slots : saved'[t].msg \in Msgs =>
          delivered'[saved'[t].msg] = 0 \/ saved'[t].fwd = 1
    <3> SUFFICES ASSUME NEW t \in Slots, saved'[t].msg \in Msgs
                 PROVE  delivered'[saved'[t].msg] = 0 \/ saved'[t].fwd = 1
      OBVIOUS
    <3>1. t # s
      BY <2>6, NullIsNoMessage
    <3> QED
      BY <1>2, <1>5, <2>6, <3>1
  <2> QED
    BY <1>2, <1>3, <1>4, <1>5, <2>7, <2>8, OutsideOnce
<1>7. CASE ~ FoundOK(r.got)
  <2>1. saved' = saved
    BY <1>1, <1>7
  <2> QED
    BY <1>2, <1>3, <1>4, <1>5, <2>1, OutsideOnce
<1> QED
  BY <1>6, <1>7

LEMMA OtherOnce ==
  ASSUME Lasting, TypeInv, Unique, InStep, OnceInv,
         Setup \/ Count \/ Status \/ ClearOrDump \/ CharacterSet \/ Book
  PROVE  OnceInv'
<1>1. PICK r : Take(r)
  BY DEF Setup, Echo, PowerStatus, NetworkStatus, PduMode, Logged, Operator, Contact,
         Count, Status, ClearOrDump, CharacterSet, Book
<1>2. UNCHANGED <<incoming, sim, delivered, obeyed>>
  BY <1>1 DEF Take, Setup, Echo, PowerStatus, NetworkStatus, PduMode, Logged, Operator,
              Contact, Count, Status, ClearOrDump, CharacterSet, Book, history
<1>3. CASE Setup \/ Count \/ Status
  <2>1. pc \notin InCall /\ pc' \notin InCall /\ saved' = saved
    BY <1>3 DEF Setup, Echo, PowerStatus, NetworkStatus, PduMode, Logged, Operator,
                Contact, Count, Status, flowVars, InCall
  <2> QED
    BY <1>2, <2>1, QuietOnce
<1>4. CASE /\ pc \in {"cset", "book"} /\ pc' = "book"
           /\ UNCHANGED <<msg, job, saved>>
  <2>1. /\ InCommand /\ InCommand' /\ ~ Sending /\ ~ Sending' /\ ~ Sent
        /\ pc' # "delete"
    BY <1>4 DEF InCommand, Sending, Sent
  <2>2. SimKept' /\ CountedOnce' /\ Together' /\ \A x : Present(x)' = Present(x)
    BY <1>2, PresenceStays DEF OnceInv, CountedOnce, Together
  <2>3. Remembered'
    BY <1>2, <1>4, <2>1, <2>2 DEF OnceInv, Remembered, Seen, Matches
  <2>4. Flagged'
    BY <1>2, <1>4, <2>1 DEF OnceInv, Flagged
  <2> QED
    BY <2>1, <2>2, <2>3, <2>4 DEF OnceInv, SendsOnce, DeletesOnce
<1>5. CASE pc \in {"clear", "dump", "book"} /\ Remember
  BY <1>2, <1>5, RememberOnce
<1> QED
  BY <1>3, <1>4, <1>5 DEF ClearOrDump, CharacterSet, Book, flowVars

LEMMA NextOnce ==
  ASSUME Lasting, TypeInv, Unique, InStep, OnceInv, [Next]_vars
  PROVE  OnceInv'
<1>1. ~ Crash
  BY DEF Crash, Fault, Lasting
<1>2. CASE UNCHANGED vars
  <2>1. UNCHANGED <<incoming, sim, link, io, pc, msg, job, saved, delivered, obeyed>>
    BY <1>2 DEF vars, modemVars, localVars, flowVars, history
  <2>2. /\ Members' = Members /\ Sending' = Sending /\ InCommand' = InCommand
        /\ Sent' = Sent
    BY <2>1 DEF Members, Sending, InCommand, Sent, FoundError, Kind
  <2>3. SimKept' /\ CountedOnce' /\ Together' /\ \A x : Present(x)' = Present(x)
    BY <2>1, PresenceStays DEF OnceInv, CountedOnce, Together
  <2>4. Remembered' /\ Flagged' /\ SendsOnce' /\ DeletesOnce'
    BY <2>1, <2>2, <2>3
       DEF OnceInv, Remembered, Flagged, SendsOnce, DeletesOnce, Seen, Matches, FoundOK
  <2> QED
    BY <2>3, <2>4 DEF OnceInv
<1> QED
  BY <1>1, <1>2, AskOnce, SubmitOnce, OtherOnce, ReadOnce, PromptOnce,
     SubmitAnswerOnce, DeleteOnce, DeliverOnce DEF Next, Step, Pass

LEMMA OnceHolds ==
  ASSUME Lasting
  PROVE  Spec => []OnceInv
<1>1. Init => Unique /\ InStep
  BY EmptyDistinct DEF Init, ModemInit, Unique, NewIsUnseen, Distinct, InStep,
                       DeletesWhatItRead
<1>2. Init => OnceInv
  <2> SUFFICES ASSUME Init PROVE OnceInv
    OBVIOUS
  <2>1. Taken = {}
    BY DEF Init, ModemInit, EmptySim, Taken
  <2>2. SimKept
    BY <2>1 DEF SimKept
  <2>3. /\ \A m \in Msgs : delivered[m] = 0 /\ obeyed[m] = 0
        /\ pc = "echo" /\ saved = EmptyCache
    BY DEF Init
  <2>4. \A s \in Slots : saved[s].msg \notin Msgs
    BY <2>3, NullIsNoMessage DEF EmptyCache, Free
  <2>5. CountedOnce /\ Together /\ Remembered
    BY <2>3 DEF CountedOnce, Together, Remembered
  <2> QED
    BY <2>2, <2>3, <2>4, <2>5 DEF OnceInv, Flagged, SendsOnce, Sending, DeletesOnce
<1>3. InTime
  BY DEF InTime, Lasting
<1>4. TypeInv /\ Unique /\ InStep /\ OnceInv /\ [Next]_vars => OnceInv'
  BY NextOnce
<1>5. TypeInv /\ InStep /\ [Next]_vars => InStep'
  BY <1>3, NextInStep
<1> QED
  BY <1>1, <1>2, <1>4, <1>5, InitType, NextType, StepKeeps, PTL DEF Spec

(***************************************************************************)
(* A message reaches the destination once, whichever deletions fail and in *)
(* whatever order its parts come, while nothing is forgotten.              *)
(***************************************************************************)
THEOREM SentOnce ==
  ASSUME Lasting
  PROVE  Spec => []ForwardedOnce
<1>1. OnceInv => ForwardedOnce
  BY DEF OnceInv, CountedOnce, ForwardedOnce
<1> QED
  BY <1>1, OnceHolds, PTL

(***************************************************************************)
(* A command is obeyed once, under the same conditions.                    *)
(***************************************************************************)
THEOREM CommandsOnce ==
  ASSUME Lasting
  PROVE  Spec => []ObeyedOnce
<1>1. OnceInv => ObeyedOnce
  BY DEF OnceInv, CountedOnce, ObeyedOnce
<1> QED
  BY <1>1, OnceHolds, PTL
=============================================================================
