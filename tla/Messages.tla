---------------------------- MODULE Messages ----------------------------
(***************************************************************************)
(* The short messages the forwarder handles, and the options they can      *)
(* change.  A message is a number m \in Msgs: the SMS-DELIVER the network  *)
(* delivers m-th in the constant sequence Sms, whose records keep what     *)
(* decode_pdu() extracts and the flow decides on.                          *)
(***************************************************************************)
EXTENDS Integers, Sequences, FiniteSets

CONSTANTS Sms,             \* the messages of the network, a sequence of records
          EXPIRE,          \* seconds after which a message is too old
          Defaults         \* the options the program starts with

NULL == 0                  \* the null message pointer, and an empty SIM index
NoNumber == 0              \* the empty address string

OptionNames == {"forward", "multipart", "may_delete", "header", "expire",
                "verbosity"}

(***************************************************************************)
(* What the text of a message is to process_command_message(): no command, *)
(* one of the four commands that only act, or "set this option to val".    *)
(***************************************************************************)
Commands == {"none", "CLEAR", "CONTACTS", "DUMP", "SAVED"} \cup OptionNames

LOG_DEBUG == 7

Options == [OptionNames -> 0..9]

(***************************************************************************)
(* struct sms_message after decode_pdu().  sender is a telephone number    *)
(* (without its leading +), ts the reception time in seconds, hash the     *)
(* 16-bit CRC of the PDU, (ref, parts, no) the concatenation header, all   *)
(* zero in an unsplit message.  pdus is the number of PDUs                 *)
(* create_pdu_multipart() makes of the text when it is forwarded (for part *)
(* 1: of the text assembled from all the parts).  good is FALSE when       *)
(* decode_pdu() refuses the PDU (8-bit coding).                            *)
(***************************************************************************)
SmsRecord == [sender : Nat, ts : Nat, hash : Nat,
              ref : Nat, parts : Nat, no : Nat,
              cmd : Commands, val : Int, pdus : Nat \ {0}, good : BOOLEAN]

WellSplit(s) == \/ s.parts = 0 /\ s.no = 0 /\ s.ref = 0
                \/ s.no \in 1..s.parts

ASSUME SmsAssumption == /\ Sms \in Seq(SmsRecord)
                        /\ \A m \in 1..Len(Sms) : WellSplit(Sms[m])

ASSUME ExpireAssumption == EXPIRE \in Nat

ASSUME DefaultsAssumption == Defaults \in Options

Msgs == 1..Len(Sms)

(***************************************************************************)
(* The fields compare_messages() looks at.                                 *)
(***************************************************************************)
Key(m) == <<Sms[m].hash, Sms[m].ref, Sms[m].no, Sms[m].parts, Sms[m].ts,
            Sms[m].sender>>

compare_messages(a, b) == Key(a) = Key(b)

(***************************************************************************)
(* set_option(): a value out of range leaves the option alone.             *)
(***************************************************************************)
OptionMax(name) == IF name = "verbosity" THEN 9 ELSE 1

set_option(opts, name, val) ==
  IF val \in 0..OptionMax(name) THEN [opts EXCEPT ![name] = val] ELSE opts
=============================================================================
