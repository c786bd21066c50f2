-------------------------------- MODULE Pdu --------------------------------
(***************************************************************************)
(* The user data of a PDU, as smsf-pdu.c writes and reads it, behind the   *)
(* addresses of module Address.                                            *)
(*                                                                         *)
(* A text is a sequence of characters, whatever these are.  An encoded     *)
(* text is a string of bits in which each character takes 7 bits, or 16    *)
(* (UCS2); a PDU carries some octets of it.  A reader that starts at the   *)
(* bit where a character starts gets this character, elsewhere it gets     *)
(* GARBLED, which may be anything.                                         *)
(***************************************************************************)
EXTENDS Address

CONSTANT MSG_TEXT_LIMIT    \* octets of user data in a PDU, 140

ASSUME LimitAssumption == MSG_TEXT_LIMIT \in Nat /\ MSG_TEXT_LIMIT > 6

\* No character of two octets lies across the end of a part.
ASSUME EvenAssumption == MSG_TEXT_LIMIT % 2 = 0

GARBLED == <<-1, 0>>

Codings == {"7bit", "ucs2"}
CharBits(coding) == IF coding = "ucs2" THEN 16 ELSE 7

CharAt(text, bit, coding) ==
  LET k == bit \div CharBits(coding)
  IN  IF bit % CharBits(coding) = 0 /\ k < Len(text) THEN text[k + 1] ELSE GARBLED

Reading(text, bit, count, coding) ==
  [k \in 1..count |-> CharAt(text, bit + CharBits(coding) * (k - 1), coding)]

-----------------------------------------------------------------------------
\* Mutant: septets are not packed.
EncodedUnpacked(text, coding) == IF coding = "ucs2" THEN 2 * Len(text) ELSE Len(text)

(***************************************************************************)
(* Writing.  encode_7bit() and encode_ucs2() fill this many octets.        *)
(***************************************************************************)
encoded_len(text, coding) == (CharBits(coding) * Len(text) + 7) \div 8

UDH == 6                   \* octets of the concatenation header it writes

\* Mutant: septets are counted by rounding up.
DataLenRoundedUp(coding, len, ref) ==
  (IF coding = "ucs2" THEN len ELSE ((len + 6) \div 7) * 8)
  + (IF ref = 0 THEN 0 ELSE UDH)

(***************************************************************************)
(* create_pdu_impl(): the destination, and len octets of the encoded text, *)
(* from octet `from'.                                                      *)
(* The concatenation header is left out when the reference is 0.           *)
(***************************************************************************)
data_len(coding, len, ref) ==
  (IF coding = "ucs2" THEN len ELSE (len \div 7) * 8) + (IF ref = 0 THEN 0 ELSE UDH)

create_pdu_impl(to, coding, from, len, ref, parts, no) ==
  [da |-> encode_semi_octets(to),
   coding |-> coding, ref |-> ref, parts |-> parts, no |-> no,
   udl |-> data_len(coding, len, ref), from |-> from, len |-> len]

(***************************************************************************)
(* The telephone that receives the PDU reads as many characters as the     *)
(* length field announces.  After a concatenation header, septets start    *)
(* at the next multiple of seven bits of the user data, one bit later.     *)
(***************************************************************************)
CharsRead(p) ==
  LET udh == IF p.ref = 0 THEN 0 ELSE UDH
  IN  IF p.coding = "ucs2" THEN (p.udl - udh) \div 2
      ELSE p.udl - (8 * udh + 6) \div 7

FirstBit(p) == 8 * p.from + (IF p.coding = "7bit" /\ p.ref # 0 THEN 1 ELSE 0)

PhoneText(p, text) == Reading(text, FirstBit(p), CharsRead(p), p.coding)

-----------------------------------------------------------------------------
(***************************************************************************)
(* Reading.  A character of a UCS2 text takes one to three octets in       *)
(* UTF-8, the k-th widths[k] of them and the first k together              *)
(* Octets(widths, k).  decode_ucs2() into a buffer of `size' octets takes  *)
(* back three octets when it reaches the end of the buffer, whatever the   *)
(* last character took, and so may leave a part of one behind.             *)
(***************************************************************************)
Octets(widths, k) == k + Cardinality({j \in 1..k : widths[j] > 1})
                       + Cardinality({j \in 1..k : widths[j] > 2})

OctetsKept(widths, size) ==
  LET stops == {k \in DOMAIN widths : Octets(widths, k) >= size}
  IN  IF stops = {} THEN Octets(widths, Len(widths))
      ELSE Octets(widths, Min(stops)) - 3

\* Characters in the first n octets.
CharsIn(widths, n) == Cardinality({k \in DOMAIN widths : Octets(widths, k) <= n})

\* Octets that are missing of a character that was cut.
Missing(widths, size) ==
  LET kept == OctetsKept(widths, size)
      whole == CharsIn(widths, kept)
  IN  IF Octets(widths, whole) = kept THEN 0 ELSE Octets(widths, whole + 1) - kept

decode_ucs2(text, widths, size) ==
  LET kept == OctetsKept(widths, size)
  IN  Reading(text, 0, CharsIn(widths, kept), "ucs2")
      \o IF Missing(widths, size) = 0 THEN <<>> ELSE <<GARBLED>>

TextSize == MSG_TEXT_LIMIT + 1         \* the buffer flow() reads a message into

\* A garbled character can be the zero that ends the text.
Outcomes(text) ==
  {text} \cup {SubSeq(text, 1, k - 1) : k \in {k \in DOMAIN text : text[k] = GARBLED}}

\* Mutant: the header is not taken off the length of a UCS2 text.
DecodeWithHeader(text, coding, udh, widths) ==
  IF coding = "ucs2"
    THEN {decode_ucs2(text, widths \o [k \in 1..udh \div 2 |-> 1], TextSize)}
    ELSE {Reading(text, 0, Septets(Len(text), TextSize), coding)}

(***************************************************************************)
(* What decode_pdu() can make of a message whose concatenation header has  *)
(* udh octets: 0, 6 (8-bit reference) or 7 (16-bit reference).  With a     *)
(* header, the first septet is taken from the seven high bits of the octet *)
(* behind it, which is right for 6 octets only, and one septet too many is *)
(* read, from memory behind the PDU.                                       *)
(***************************************************************************)
decode_pdu(text, coding, udh, widths) ==
  LET n == Len(text)
  IN  IF coding = "ucs2"
        THEN {decode_ucs2(text, widths, TextSize)}
      ELSE IF udh = 0
        THEN {Reading(text, 0, Septets(n, TextSize), coding)}
      ELSE LET udl == n + (8 * udh + 6) \div 7
               bit == IF udh = 7 THEN 1 ELSE 0
           IN  Outcomes(Reading(text, bit, 1 + Septets(udl - udh - 1, TextSize - 1),
                                coding))
=============================================================================
