-------------------------- MODULE SavedMessages --------------------------
(***************************************************************************)
(* The cache of seen messages, _saved_msgs: SAVED_MESSAGES pointers, used  *)
(* as a hash table with one probe and a linear scan.  The operators are    *)
(* the functions of the cache; a cache is a function from Slots to         *)
(* entries, and an entry pairs the message with its `forwarded' flag.      *)
(***************************************************************************)
EXTENDS Messages, FiniteSetsExt

CONSTANT SAVED_MESSAGES

ASSUME SavedAssumption == SAVED_MESSAGES \in Nat \ {0}

Slots == 0..(SAVED_MESSAGES - 1)

Entry == [msg : Msgs \cup {NULL}, fwd : {0, 1}]
Caches == [Slots -> Entry]

Free == [msg |-> NULL, fwd |-> 0]
EmptyCache == [s \in Slots |-> Free]

slot_taken(cache, s) == cache[s].msg # NULL

HashedSlot(m) == Sms[m].hash % SAVED_MESSAGES

Matches(cache, m) ==
  {s \in Slots : slot_taken(cache, s) /\ compare_messages(m, cache[s].msg)}

FreeSlots(cache) == {s \in Slots : ~ slot_taken(cache, s)}

\* The cache holds a copy of message m.
Seen(cache, m) == Matches(cache, m) # {}

\* Mutant: only the hashed slot is looked at.
FindHashedOnly(cache, m) ==
  IF HashedSlot(m) \in Matches(cache, m) THEN HashedSlot(m) ELSE -1

find_saved_message(cache, m) ==
  LET found == Matches(cache, m)
  IN  IF HashedSlot(m) \in found THEN HashedSlot(m)
      ELSE IF found = {} THEN -1 ELSE Min(found)

find_free_slot(cache) ==
  IF FreeSlots(cache) = {} THEN -1 ELSE Min(FreeSlots(cache))

\* Mutant: no linear scan when the hashed slot is taken.
AddHashedOnly(cache, m, fwd) ==
  IF slot_taken(cache, HashedSlot(m)) THEN cache
  ELSE [cache EXCEPT ![HashedSlot(m)] = [msg |-> m, fwd |-> fwd]]

(***************************************************************************)
(* A message that finds no free slot is dropped with a log line.           *)
(***************************************************************************)
add_saved_message(cache, m, fwd) ==
  LET idx == IF slot_taken(cache, HashedSlot(m)) THEN find_free_slot(cache)
                                                 ELSE HashedSlot(m)
  IN  IF idx = -1 THEN cache
      ELSE [cache EXCEPT ![idx] = [msg |-> m, fwd |-> fwd]]

remove_saved_message(cache, S) ==
  [s \in Slots |-> IF s \in S THEN Free ELSE cache[s]]

\* Mutant: the marking loop stops one short.
MarkAllButLast(cache, S) ==
  [s \in Slots |-> IF s \in S \ {Max(S)} THEN [cache[s] EXCEPT !.fwd = 1]
                                        ELSE cache[s]]

\* Set the `forwarded' flag of the entries in slots S.
MarkForwarded(cache, S) ==
  [s \in Slots |-> IF s \in S THEN [cache[s] EXCEPT !.fwd = 1] ELSE cache[s]]
=============================================================================
