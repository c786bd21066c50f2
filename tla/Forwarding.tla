---------------------------- MODULE Forwarding ----------------------------
(***************************************************************************)
(* What the forwarder promises about the messages: each is stored on the   *)
(* SIM when it arrives, is handled (forwarded whole, or obeyed as a        *)
(* command), and is not erased before that, unless it is EXPIRE older than *)
(* another received message or a ++CLEAR command was obeyed.               *)
(***************************************************************************)
EXTENDS Messages

VARIABLES coming,   \* messages that have not arrived
          stored,   \* messages on the SIM
          handled   \* messages forwarded or obeyed

promiseVars == <<coming, stored, handled>>

Received == Msgs \ coming

TooOld(m) == \E x \in Received : Sms[x].ts - Sms[m].ts > EXPIRE

PromiseInit == coming = Msgs /\ stored = {} /\ handled = {}

Receive == \E m \in coming : /\ coming' = coming \ {m}
                             /\ stored' = stored \cup {m}
                             /\ UNCHANGED handled

Handle == /\ handled \subseteq handled'
          /\ handled' \subseteq Received
          /\ UNCHANGED <<coming, stored>>

Erase == \E m \in stored : /\ m \in handled \/ TooOld(m)
                           /\ stored' = stored \ {m}
                           /\ UNCHANGED <<coming, handled>>

EraseAll == /\ \E m \in handled : Sms[m].cmd = "CLEAR"
            /\ stored' = {}
            /\ UNCHANGED <<coming, handled>>

PromiseNext == Receive \/ Handle \/ Erase \/ EraseAll

PromiseSpec == PromiseInit /\ [][PromiseNext]_promiseVars

(***************************************************************************)
(* What the owner of the messages sees of it: at any moment, each message  *)
(* that came is on the SIM or was handled, with those two exceptions.      *)
(***************************************************************************)
NothingLost ==
  \A m \in Received :
    \/ m \in stored \cup handled
    \/ TooOld(m)
    \/ \E c \in handled : Sms[c].cmd = "CLEAR"
=============================================================================
