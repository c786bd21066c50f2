------------------------------- MODULE Relay -------------------------------
(***************************************************************************)
(* The way of one text through the forwarder: decode_pdu() of the message, *)
(* or of each part of a split one; forward_message(), which puts sender    *)
(* and time in front; create_pdu() or the loop of create_pdu_multipart();  *)
(* and the telephone of the destination, which the PDUs reach in any       *)
(* order.  When messages are read, sent and deleted is the subject of      *)
(* Flow; here it is what becomes of the text.                              *)
(***************************************************************************)
EXTENDS Pdu, SequencesExt

CONSTANTS Originals,       \* messages to choose from
          Senders,         \* their senders
          Destinations,    \* _dest_addr
          Refs             \* values of the low octet of the CRC of a text

VARIABLES sms,             \* the message: coding, header, characters
          from, to,        \* where it comes from and goes to
          sender,          \* msg->sender
          multipart,       \* _opts.multipart
          unread,          \* parts not decoded yet
          texts,           \* the decoded parts, in _saved_msgs
          pc,              \* "read", "split" (in the loop), "sent", "refused"
          text,            \* eh_msg->text, what is forwarded
          coding, ref,     \* its coding, and msg->split_ref
          parts, offs,     \* split_parts and offs of the loop
          out,             \* the PDUs created
          inbox            \* numbers of the PDUs that arrived, in this order

vars == <<sms, from, to, sender, multipart, unread, texts, pc, text, coding,
          ref, parts, offs, out, inbox>>

(***************************************************************************)
(* widths are the lengths in UTF-8 of the characters of each part; a       *)
(* message that is not split has one part.                                 *)
(***************************************************************************)
OriginalRecord ==
  [coding : Codings, udh : {0, 6, 7}, widths : Seq(Seq(1..3))]

ASSUME RelayAssumption ==
  /\ \A o \in Originals : /\ o \in OriginalRecord
                          /\ o.widths # <<>>
                          /\ o.udh = 0 <=> Len(o.widths) = 1
  /\ \A s \in Senders : s \in [ton : 0..7, number : Seq(Digits \cup {LETTER})]
  /\ \A d \in Destinations : d \in Seq(Digits) /\ Len(d) >= Announced
  /\ Refs \subseteq 0..255 /\ Refs # {}

Parts == DOMAIN sms.widths
Original(k) == [c \in DOMAIN sms.widths[k] |-> <<k, c>>]

\* The sender, the time in eleven characters, and a blank behind each.
Header == [c \in 1..Len(sender) + 13 |-> <<0, c>>]

Init == /\ sms \in Originals
        /\ from \in Senders /\ to \in Destinations /\ sender = <<>>
        /\ multipart \in {0, 1}
        /\ unread = Parts
        /\ texts = [k \in Parts |-> <<>>]
        /\ pc = "read" /\ text = <<>> /\ coding = "7bit" /\ ref = 0
        /\ parts = 0 /\ offs = 0 /\ out = <<>> /\ inbox = <<>>

\* ata_read_message(): a message is read and decoded, in any order.
ReadMessage(k) ==
  /\ pc = "read" /\ k \in unread
  /\ \E t \in decode_pdu(Original(k), sms.coding, sms.udh, sms.widths[k]) :
       texts' = [texts EXCEPT ![k] = t]
  /\ sender' = decode_sender(from)
  /\ unread' = unread \ {k}
  /\ UNCHANGED <<sms, from, to, multipart, pc, text, coding, ref, parts, offs, out,
                 inbox>>

-----------------------------------------------------------------------------
(***************************************************************************)
(* process_multipart_message() puts the parts together.  A character of    *)
(* which the end is missing is taken by encode_ucs2() together with as     *)
(* many octets of what follows, and what is left of these characters is    *)
(* skipped.                                                                *)
(***************************************************************************)
\* Characters of part k that the end of the part before it takes.
Swallowed(k) ==
  IF k = 1 \/ sms.coding # "ucs2" THEN {}
  ELSE LET octets == Missing(sms.widths[k - 1], TextSize)
       IN  {c \in DOMAIN texts[k] : Octets(sms.widths[k], c - 1) < octets}

Assembled ==
  FlattenSeq([k \in Parts |->
                SubSeq(texts[k], Cardinality(Swallowed(k)) + 1, Len(texts[k]))])

(***************************************************************************)
(* forward_message() puts the header in front, or, to truncate, behind the *)
(* buffer of the text and so behind the zero that ends the text.           *)
(***************************************************************************)

forwarded_text == IF multipart = 1 THEN Header \o Assembled ELSE Assembled

\* Some octet of the text is none of ASCII.
need_ucs2(t) ==
  /\ sms.coding = "ucs2"
  /\ \E j \in DOMAIN t : \/ t[j] = GARBLED
                         \/ t[j][1] > 0 /\ sms.widths[t[j][1]][t[j][2]] > 1

OnePdu(t, c, len) ==
  /\ out' = <<create_pdu_impl(to, c, 0, len, 0, 0, 0)>>
  /\ pc' = "sent"
  /\ parts' = 1 /\ ref' = 0 /\ offs' = len

\* create_pdu_impl() fails: nothing is sent.
Refused ==
  /\ pc = "read" /\ unread = {}
  /\ TooLong(to)
  /\ pc' = "refused"
  /\ UNCHANGED <<sms, from, to, sender, multipart, unread, texts, text, coding, ref,
                 parts, offs, out, inbox>>

Forward ==
  /\ pc = "read" /\ unread = {}
  /\ ~ TooLong(to)
  /\ text' = forwarded_text
  /\ coding' = IF need_ucs2(text') THEN "ucs2" ELSE "7bit"
  /\ LET enc_len == encoded_len(text', coding')
     IN  \/ /\ multipart = 0
            /\ OnePdu(text', coding', Min({enc_len, MSG_TEXT_LIMIT}))
         \/ /\ multipart = 1 /\ enc_len < MSG_TEXT_LIMIT
            /\ OnePdu(text', coding', enc_len)
         \/ /\ multipart = 1 /\ enc_len >= MSG_TEXT_LIMIT
            /\ parts' = enc_len \div (MSG_TEXT_LIMIT - UDH) + 1
            /\ ref' \in Refs
            /\ pc' = "split"
            /\ offs' = 0
            /\ UNCHANGED out
  /\ UNCHANGED <<sms, from, to, sender, multipart, unread, texts, inbox>>

\* Mutant: a part is not limited.
PartLenUncapped == encoded_len(text, coding) - offs

\* Mutant: no room is left for the header.
PartLenNoHeader == Min({MSG_TEXT_LIMIT, encoded_len(text, coding) - offs})

PartLen == Min({MSG_TEXT_LIMIT - UDH, encoded_len(text, coding) - offs})

\* Mutant: the number is incremented after the part is written.
SplitPartNumberedLate ==
  /\ pc = "split"
  /\ out' = Append(out, create_pdu_impl(to, coding, offs, PartLen, ref, parts,
                                        Len(out)))
  /\ offs' = offs + PartLen
  /\ pc' = IF Len(out') = parts THEN "sent" ELSE "split"
  /\ UNCHANGED <<sms, from, to, sender, multipart, unread, texts, text, coding, ref,
                 parts, inbox>>

\* One round of the loop of create_pdu_multipart().
SplitPart ==
  /\ pc = "split"
  /\ out' = Append(out, create_pdu_impl(to, coding, offs, PartLen, ref, parts,
                                        Len(out) + 1))
  /\ offs' = offs + PartLen
  /\ pc' = IF Len(out') = parts THEN "sent" ELSE "split"
  /\ UNCHANGED <<sms, from, to, sender, multipart, unread, texts, text, coding, ref,
                 parts, inbox>>

-----------------------------------------------------------------------------
Deliver(k) == /\ pc = "sent" /\ k \in DOMAIN out /\ k \notin ToSet(inbox)
              /\ inbox' = Append(inbox, k)
              /\ UNCHANGED <<sms, from, to, sender, multipart, unread, texts, pc, text,
                             coding, ref, parts, offs, out>>

Next == \/ \E k \in Parts : ReadMessage(k)
        \/ Refused
        \/ Forward
        \/ SplitPart
        \/ \E k \in DOMAIN out : Deliver(k)

Spec == Init /\ [][Next]_vars
=============================================================================
