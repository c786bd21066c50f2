-------------------------- MODULE RelayProperties --------------------------
(***************************************************************************)
(* What becomes of a text on its way through the forwarder.                *)
(***************************************************************************)
EXTENDS Relay

Texts == Seq({GARBLED} \cup (0..Len(sms.widths)) \X (Nat \ {0}))

TypeOK == /\ sms \in Originals /\ multipart \in {0, 1}
          /\ from \in Senders /\ to \in Destinations
          /\ sender \in Seq(Digits \cup {PLUS, LETTER})
          /\ unread \subseteq Parts
          /\ texts \in [Parts -> Texts]
          /\ pc \in {"read", "split", "sent", "refused"}
          /\ text \in Texts /\ coding \in Codings /\ ref \in {0} \cup Refs
          /\ parts \in Nat /\ offs \in Nat
          /\ \A k \in DOMAIN out : out[k].len \in 0..MSG_TEXT_LIMIT
          /\ inbox \in Seq(DOMAIN out)

WholeText == FlattenSeq([k \in Parts |-> Original(k)])

(***************************************************************************)
(* The parts cut the encoded text into consecutive pieces that fit a PDU   *)
(* with its header; after the last round nothing is left over, and the     *)
(* number of parts computed before the loop was right.                     *)
(***************************************************************************)
PartsCoverText ==
  LET end(k) == IF k = 0 THEN 0 ELSE out[k].from + out[k].len
  IN  /\ \A k \in DOMAIN out : /\ out[k].from = end(k - 1)
                               /\ (parts > 1 => out[k].len + UDH <= MSG_TEXT_LIMIT)
      /\ offs = end(Len(out))
      /\ pc = "sent" /\ multipart = 1 => offs = encoded_len(text, coding)

(***************************************************************************)
(* No PDU announces more than it carries: the telephone does not read bits *)
(* behind the end of the user data.                                        *)
(***************************************************************************)
LengthWithinData ==
  \A k \in DOMAIN out :
    LET p == out[k]
    IN  FirstBit(p) + CharBits(p.coding) * CharsRead(p) <= 8 * (p.from + p.len)

(***************************************************************************)
(* A message that decode_pdu() understands is read from its beginning: no  *)
(* character is skipped or changed, and at most one wrong character stands *)
(* behind the others.  In UCS2, where a character can be cut in two at the *)
(* end of the buffer, the text is whole if it fits, and otherwise all the  *)
(* characters are there that end three octets before the end.  (Of 7-bit   *)
(* messages, those with a 16-bit reference are not understood.)            *)
(***************************************************************************)
Fits(widths) == Octets(widths, Len(widths)) < TextSize

DecodedBegins ==
  \A k \in Parts \ unread :
    /\ sms.coding = "ucs2" =>
         IF Fits(sms.widths[k]) THEN texts[k] = Original(k)
         ELSE \E n \in 0..Len(Original(k)) :
                /\ texts[k] \in {SubSeq(Original(k), 1, n),
                                 Append(SubSeq(Original(k), 1, n), GARBLED)}
                /\ \A c \in n + 1..Len(Original(k)) :
                     Octets(sms.widths[k], c) > TextSize - 3
    /\ sms.coding = "7bit" /\ sms.udh = 0 => IsPrefix(texts[k], Original(k))
    /\ sms.coding = "7bit" /\ sms.udh = 6 =>
         IsPrefix(texts[k], Append(Original(k), GARBLED))

(***************************************************************************)
(* The text in a single PDU begins like the text that was to be sent; at   *)
(* most one wrong character follows.  In particular truncation to 140      *)
(* octets does not cut a character in two.                                 *)
(***************************************************************************)
SinglePduBegins ==
  pc = "sent" /\ Len(out) = 1 =>
    IsPrefix(PhoneText(out[1], text), Append(text, GARBLED))

(***************************************************************************)
(* What the telephone of the destination shows when all the PDUs have      *)
(* arrived: parts with a header by their numbers, others as they came.     *)
(***************************************************************************)
AllArrived == pc = "sent" /\ Len(inbox) = Len(out)

Numbered(k) == {x \in DOMAIN out : out[x].no = k}

Shown == FlattenSeq([k \in 1..parts |->
                       PhoneText(out[Min(Numbered(k))], text)])

(***************************************************************************)
(* A message that goes out in UCS2, in one PDU or split with an 8-bit or a *)
(* 16-bit reference, is shown whole behind its header, provided that its   *)
(* parts fit the buffer they are decoded into, as they do in Cyrillic (two *)
(* octets per character in UTF-8, 70 characters), and that the CRC of the  *)
(* text does not end in a zero octet: through decoding, assembly, coding   *)
(* and split, in whatever order the parts and the PDUs come.               *)
(***************************************************************************)
PartsFit == \A k \in Parts : Fits(sms.widths[k])

ForwardedWhole ==
  AllArrived /\ multipart = 1 /\ coding = "ucs2" /\ PartsFit =>
    \/ ref = 0 /\ parts > 1
    \/ parts = 1 /\ PhoneText(out[1], text) = Header \o WholeText
    \/ /\ parts > 1 /\ \A k \in 1..parts : Cardinality(Numbered(k)) = 1
       /\ Shown = Header \o WholeText

(***************************************************************************)
(* A single PDU carries the "length of the original text" (comment in      *)
(* create_pdu_impl()): the telephone reads the text and nothing more.      *)
(***************************************************************************)
LengthOfText ==
  pc = "sent" /\ Len(out) = 1 /\ multipart = 1 => PhoneText(out[1], text) = text

(***************************************************************************)
(* A command is recognised by its sender (smsf-flow.c:508).  Whoever gets  *)
(* the messages can give commands: each number create_pdu_impl() accepts   *)
(* fits the buffer its digits are decoded into, which has no zero of its   *)
(* own behind them.                                                        *)
(***************************************************************************)
CommandNumberKnown ==
  /\ pc \in {"split", "sent"}
  /\ from.ton \in {International, Subscriber} /\ from.number = to
  => s_sender(sender) = to

(***************************************************************************)
(* "the phone number to which all SMS messages will be forwarded ... in    *)
(* international format" (README, User Guide): what is sent goes there.    *)
(***************************************************************************)
NumberReached == \A k \in DOMAIN out : Recipient(out[k].da) = to
=============================================================================
