------------------------------ MODULE Address ------------------------------
(***************************************************************************)
(* The telephone numbers of a PDU: the sender, as decode_pdu() reads it,   *)
(* and the destination, as create_pdu_impl() writes it.  A number is a     *)
(* sequence of digits, without the + of the international format, which    *)
(* flow_setup() takes off.                                                 *)
(***************************************************************************)
EXTENDS Integers, Sequences, FiniteSetsExt

Digits == 0..9
Filler == 15                     \* the half octet behind an odd number
PLUS == 10                       \* the character +
LETTER == 11                     \* any character of a name or a time stamp

International == 1               \* types of number
Subscriber == 4
Alphanumeric == 5

SenderSize == 14                 \* char sender[14], followed by ts
TsLen == 22                      \* strlen("2025-02-09T20:12:47Z+3")
Unknown == [k \in 1..7 |-> LETTER]

(***************************************************************************)
(* Two digits make an octet, the second in its high half.                  *)
(***************************************************************************)
encode_semi_octets(number) ==
  [k \in 1..2 * ((Len(number) + 1) \div 2) |->
     IF k % 2 = 0 THEN number[k - 1]
     ELSE IF k < Len(number) THEN number[k + 1] ELSE Filler]

hex2bin(hex) ==
  [k \in 1..Len(hex) \div 2 |-> [high |-> hex[2 * k - 1], low |-> hex[2 * k]]]

\* Pairs of digits until the buffer is full; the filler ends the number.
decode_semi_octets(octets, size) ==
  LET full == {i \in 0..Len(octets) - 1 : 2 * i >= size}
      pairs == IF full = {} THEN Len(octets) ELSE Min(full)
      char == [k \in 1..2 * pairs |-> IF k % 2 = 1 THEN octets[(k + 1) \div 2].low
                                      ELSE octets[k \div 2].high]
      ends == {k \in 1..2 * pairs : char[k] = Filler}
  IN  IF ends = {} THEN char ELSE SubSeq(char, 1, Min(ends) - 1)

(***************************************************************************)
(* What is in the buffer as a string: a number that fills it has no zero   *)
(* behind it (the one written there is overwritten by decode_ts()), and    *)
(* the time stamp continues it.                                            *)
(***************************************************************************)
SenderString(s) ==
  IF Len(s) < SenderSize THEN s
  ELSE SubSeq(s, 1, SenderSize) \o [k \in 1..TsLen |-> LETTER]

(***************************************************************************)
(* decode_7bit() into a buffer of `size' octets: the output index is       *)
(* ahead of the input index by one for every seven octets read; when it    *)
(* reaches the end of the buffer, the text is cut.  The zero behind the    *)
(* text is written at the input index, so what is left are as many         *)
(* characters as octets were read.                                         *)
(***************************************************************************)
Septets(input_length, size) ==
  LET stops == {i \in 0..(input_length - 1) : i + i \div 7 >= size}
  IN  IF stops = {} THEN input_length ELSE Min(stops)

decode_sender(from) ==
  LET octets == hex2bin(encode_semi_octets(from.number))
  IN  IF from.ton = International
        THEN SenderString(<<PLUS>> \o decode_semi_octets(octets, SenderSize - 1))
      ELSE IF from.ton = Subscriber
        THEN SenderString(decode_semi_octets(octets, SenderSize))
      ELSE IF from.ton = Alphanumeric
        THEN SubSeq(from.number, 1,
                    Septets((7 * Len(from.number) + 7) \div 8, SenderSize))
      ELSE Unknown

\* flow(): a leading + is ignored.
s_sender(sender) ==
  IF sender # <<>> /\ sender[1] = PLUS THEN Tail(sender) ELSE sender

-----------------------------------------------------------------------------
\* Mutant: the limit is that of the sender's buffer.
TooLongForSender(to) == Len(to) > SenderSize - 1

\* create_pdu_impl() refuses such a destination.
TooLong(to) == Len(to) > 12

(***************************************************************************)
(* The length of the address is part of the header it copies, "0B": the    *)
(* network takes eleven digits, however many there are.                    *)
(***************************************************************************)
Announced == 11

Recipient(hex) ==
  LET octets == hex2bin(hex)
  IN  [k \in 1..Announced |-> IF k % 2 = 1 THEN octets[(k + 1) \div 2].low
                              ELSE octets[k \div 2].high]
=============================================================================
