---------------------------- MODULE RelayProofs ----------------------------
(***************************************************************************)
(* What is right about coding and splitting, for every limit of the user   *)
(* data, all messages and all numbers: a message is read from its          *)
(* beginning, the parts cover the text, no PDU announces more than it      *)
(* carries, and a text in UCS2 is shown whole; and how far the single PDU  *)
(* and the number of the destination are right.                            *)
(***************************************************************************)
EXTENDS RelayProperties, PduProofs, FiniteSetTheorems

-----------------------------------------------------------------------------
(***************************************************************************)
(* Every part that was read is what decode_pdu() made of it.               *)
(***************************************************************************)
DecodeKept ==
  /\ sms \in Originals /\ unread \subseteq Parts
  /\ DOMAIN texts = Parts
  /\ \A k \in Parts \ unread :
       texts[k] \in decode_pdu(Original(k), sms.coding, sms.udh, sms.widths[k])

LEMMA DecodeIsKept == Spec => []DecodeKept
<1>1. Init => DecodeKept
  BY DEF Init, DecodeKept, Parts
<1>2. DecodeKept /\ [Next]_vars => DecodeKept'
  <2> SUFFICES ASSUME DecodeKept, [Next]_vars PROVE DecodeKept'
    OBVIOUS
  <2>1. ASSUME NEW k \in Parts, ReadMessage(k)
        PROVE  DecodeKept'
    <3>1. PICK t \in decode_pdu(Original(k), sms.coding, sms.udh, sms.widths[k]) :
            texts' = [texts EXCEPT ![k] = t]
      BY <2>1 DEF ReadMessage
    <3>2. sms' = sms /\ unread' = unread \ {k}
      BY <2>1 DEF ReadMessage
    <3>3. Parts' = Parts /\ \A j \in Parts : Original(j)' = Original(j)
      BY <3>2 DEF Parts, Original
    <3>4. texts'[k] = t /\ \A j \in Parts \ {k} : texts'[j] = texts[j]
      BY <3>1 DEF DecodeKept
    <3>5. \A j \in Parts \ unread' :
            texts'[j] \in decode_pdu(Original(j), sms.coding, sms.udh, sms.widths[j])
      BY <3>1, <3>2, <3>4 DEF DecodeKept
    <3>6. \A j \in Parts \ unread' :
            texts'[j] \in decode_pdu(Original(j)', sms'.coding, sms'.udh,
                                     sms'.widths[j])
      BY <3>2, <3>3, <3>5
    <3>7. unread' \subseteq Parts /\ DOMAIN texts' = Parts
      BY <3>1, <3>2 DEF DecodeKept
    <3> QED
      BY <3>2, <3>3, <3>6, <3>7 DEF DecodeKept
  <2>2. ASSUME UNCHANGED <<sms, unread, texts>>
        PROVE  DecodeKept'
    BY <2>2 DEF DecodeKept, Parts, Original
  <2> QED
    BY <2>1, <2>2 DEF Next, Refused, Forward, SplitPart, Deliver, vars
<1> QED
  BY <1>1, <1>2, PTL DEF Spec

LEMMA OriginalIs ==
  ASSUME sms \in Originals, NEW k \in Parts
  PROVE  /\ sms.widths[k] \in Seq(1..3) /\ Len(Original(k)) = Len(sms.widths[k])
         /\ Original(k) \in Seq({k} \X (Nat \ {0}))
         /\ sms.coding \in Codings
<1>1. sms \in OriginalRecord
  BY RelayAssumption
<1>2. sms.widths \in Seq(Seq(1..3)) /\ k \in DOMAIN sms.widths /\ sms.coding \in Codings
  BY <1>1 DEF OriginalRecord, Parts
<1>3. PICK w \in Seq(1..3) : w = sms.widths[k]
  BY <1>2
<1>4. PICK t : t = Original(k)
  OBVIOUS
<1>5. t = [c \in 1..Len(w) |-> <<k, c>>]
  <2>1. DOMAIN w = 1..Len(w)
    OBVIOUS
  <2> QED
    BY <1>3, <1>4, <2>1 DEF Original
<1>6. Len(t) = Len(w) /\ t \in Seq({k} \X (Nat \ {0}))
  BY <1>5
<1> QED
  BY <1>2, <1>3, <1>4, <1>6

\* What a prefix begins with is a prefix.
LEMMA CutPrefix ==
  ASSUME NEW S, NEW r \in Seq(S), NEW u \in Seq(S), IsPrefix(r, u),
         NEW j \in DOMAIN r
  PROVE  IsPrefix(SubSeq(r, 1, j - 1), u)
<1>1. PICK m \in Nat : m = j - 1 /\ m =< Len(r)
  OBVIOUS
<1>2. PICK l \in Nat : l = Len(r) /\ l =< Len(u)
  BY DEF IsPrefix
<1>3. \A i \in 1..l : r[i] = u[i]
  <2>1. SubSeq(r, 1, l) = SubSeq(u, 1, l)
    BY <1>2 DEF IsPrefix
  <2>2. \A i \in 1..l : SubSeq(r, 1, l)[i] = r[i]
    BY <1>2
  <2>3. \A i \in 1..l : SubSeq(u, 1, l)[i] = u[i]
    BY <1>2
  <2> QED
    BY <2>1, <2>2, <2>3
<1>4. \A i \in 1..m : r[i] \in S /\ u[i] \in S
  BY <1>1, <1>2
<1>5. PICK c \in Seq(S) : /\ c = SubSeq(r, 1, m)
                          /\ Len(c) = m /\ \A i \in 1..m : c[i] = r[i]
  <2>1. SubSeq(r, 1, m) \in Seq(S)
    BY <1>4, SubSeqProperties
  <2>2. Len(SubSeq(r, 1, m)) = m
    BY <1>1, <1>2
  <2>3. \A i \in 1..m : SubSeq(r, 1, m)[i] = r[i]
    BY <1>1, <1>2
  <2> QED
    BY <2>1, <2>2, <2>3
<1>6. PICK d \in Seq(S) : /\ d = SubSeq(u, 1, m)
                          /\ Len(d) = m /\ \A i \in 1..m : d[i] = u[i]
  <2>1. SubSeq(u, 1, m) \in Seq(S)
    BY <1>4, SubSeqProperties
  <2>2. Len(SubSeq(u, 1, m)) = m
    BY <1>1, <1>2
  <2>3. \A i \in 1..m : SubSeq(u, 1, m)[i] = u[i]
    BY <1>1, <1>2
  <2> QED
    BY <2>1, <2>2, <2>3
<1>7. c = d
  BY <1>1, <1>2, <1>3, <1>5, <1>6
<1>8. SubSeq(c, 1, Len(c)) = c
  BY SubSeqFull
<1> QED
  BY <1>1, <1>2, <1>5, <1>6, <1>7, <1>8 DEF IsPrefix

LEMMA DecodeMeans == DecodeKept => DecodedBegins
<1> DEFINE Whole(k, n) ==
             /\ texts[k] \in {SubSeq(Original(k), 1, n),
                              Append(SubSeq(Original(k), 1, n), GARBLED)}
             /\ \A c \in n + 1..Len(Original(k)) :
                  Octets(sms.widths[k], c) > TextSize - 3
<1> SUFFICES ASSUME DecodeKept, NEW k \in Parts \ unread
             PROVE  /\ sms.coding = "ucs2" =>
                         IF Fits(sms.widths[k]) THEN texts[k] = Original(k)
                         ELSE \E n \in 0..Len(Original(k)) : Whole(k, n)
                    /\ sms.coding = "7bit" /\ sms.udh = 0 =>
                         IsPrefix(texts[k], Original(k))
                    /\ sms.coding = "7bit" /\ sms.udh = 6 =>
                         IsPrefix(texts[k], Append(Original(k), GARBLED))
  BY DEF DecodedBegins
<1>1. PICK w \in Seq(1..3), n \in Nat : w = sms.widths[k] /\ n = Len(w)
  <2>1. PICK w \in Seq(1..3) : w = sms.widths[k]
    BY OriginalIs DEF DecodeKept
  <2>2. Len(w) \in Nat
    OBVIOUS
  <2> QED
    BY <2>1, <2>2
<1>2. PICK t \in Seq({k} \X (Nat \ {0})) : t = Original(k) /\ Len(t) = n
  BY <1>1, OriginalIs DEF DecodeKept
<1>3. sms.coding \in Codings
  BY OriginalIs DEF DecodeKept
<1>4. texts[k] \in decode_pdu(t, sms.coding, sms.udh, w)
  BY <1>1, <1>2 DEF DecodeKept
<1>5. PICK size \in Nat : size = TextSize
  BY LimitAssumption DEF TextSize
<1>6. CASE sms.coding = "ucs2"
  <2>1. texts[k] = decode_ucs2(t, w, size)
    BY <1>4, <1>5, <1>6 DEF decode_pdu
  <2>2. PICK m \in 0..n : Begins(texts[k], t, w, size, m)
    <3>1. n = Len(t) /\ n = Len(w)
      BY <1>1, <1>2
    <3>2. \E m \in 0..n : Begins(decode_ucs2(t, w, size), t, w, size, m)
      BY <3>1, Ucs2Decoded
    <3> QED
      BY <2>1, <3>2
  <2>3. \A c \in 0..n : Octets(w, c) \in Nat
    BY OctetsGrow
  <2>4. Octets(w, n) \in Nat
    <3>1. n \in 0..n
      OBVIOUS
    <3> QED
      BY <2>3, <3>1
  <2>5. CASE Octets(w, n) < size
    <3>1. Fits(w) /\ texts[k] = t
      BY <1>1, <1>2, <1>5, <2>2, <2>5 DEF Begins, Fits
    <3> QED
      BY <1>1, <1>2, <1>6, <3>1
  <2>6. CASE Octets(w, n) >= size
    <3>1. ASSUME NEW c \in m + 1..n
          PROVE  Octets(w, c) > size - 3
      <4>1. c \in 1..Len(t) /\ ~ (c =< m)
        BY <1>2
      <4>2. Octets(w, c) =< size - 3 => c =< m
        BY <1>2, <2>2, <2>6, <4>1 DEF Begins
      <4>3. Octets(w, c) \in Nat
        BY <2>3
      <4> QED
        BY <4>1, <4>2, <4>3
    <3>2. texts[k] \in {SubSeq(t, 1, m), Append(SubSeq(t, 1, m), GARBLED)}
      BY <2>2 DEF Begins
    <3>3. Whole(k, m)
      BY <1>1, <1>2, <1>5, <3>1, <3>2
    <3>4. ~ Fits(w)
      BY <1>1, <1>5, <2>4, <2>6 DEF Fits
    <3> HIDE DEF Whole
    <3> QED
      BY <1>1, <1>2, <1>6, <3>3, <3>4
  <2>7. Octets(w, n) < size \/ Octets(w, n) >= size
    BY <2>4
  <2> HIDE DEF Whole
  <2> QED
    BY <2>5, <2>6, <2>7
<1>7. CASE sms.coding # "ucs2" /\ sms.udh = 0
  <2>1. PICK count : count = Septets(n, size)
    OBVIOUS
  <2>2. texts[k] = Reading(t, 0, count, sms.coding)
    BY <1>2, <1>4, <1>5, <1>7, <2>1 DEF decode_pdu
  <2>3. count \in Int /\ count =< n
    BY <2>1, SeptetsBound
  <2> QED
    BY <1>2, <1>3, <1>7, <2>2, <2>3, ReadingFromStart
<1>8. CASE sms.coding = "7bit" /\ sms.udh = 6
  <2>1. PICK count : count = 1 + Septets(n, TextSize - 1)
    OBVIOUS
  <2>2. texts[k] \in Outcomes(Reading(t, 0, count, sms.coding))
    <3>1. (n + (8 * 6 + 6) \div 7) - 6 - 1 = n
      OBVIOUS
    <3> QED
      BY <1>2, <1>4, <1>8, <2>1, <3>1 DEF decode_pdu
  <2>3. count \in Int /\ count =< n + 1
    BY <2>1, SeptetsBound
  <2>4. PICK r : r = Reading(t, 0, count, sms.coding)
    OBVIOUS
  <2>5. IsPrefix(r, Append(t, GARBLED))
    BY <1>2, <1>3, <2>3, <2>4, ReadingBeyond
  <2>6. r \in Seq(({k} \X (Nat \ {0})) \cup {GARBLED})
    <3>1. t \in Seq(({k} \X (Nat \ {0})) \cup {GARBLED})
      OBVIOUS
    <3> QED
      BY <1>3, <2>3, <2>4, <3>1, ReadingType
  <2>7. Append(t, GARBLED) \in Seq(({k} \X (Nat \ {0})) \cup {GARBLED})
    OBVIOUS
  <2>8. texts[k] = r \/ \E j \in DOMAIN r : texts[k] = SubSeq(r, 1, j - 1)
    BY <2>2, <2>4 DEF Outcomes
  <2>9. \A j \in DOMAIN r : IsPrefix(SubSeq(r, 1, j - 1), Append(t, GARBLED))
    BY <2>5, <2>6, <2>7, CutPrefix
  <2>10. IsPrefix(texts[k], Append(t, GARBLED))
    BY <2>5, <2>8, <2>9
  <2> QED
    BY <1>2, <1>8, <2>10
<1> QED
  BY <1>3, <1>6, <1>7, <1>8 DEF Codings

(***************************************************************************)
(* For messages of any characters, each of one to three octets, and every  *)
(* limit of the user data, to which the buffer belongs: in UCS2, what fits *)
(* is read whole, and what does not loses only characters that end in the  *)
(* last octets of the buffer, the first of them perhaps by halves; an      *)
(* unsplit 7-bit message is read from its beginning, and so is a part with *)
(* an 8-bit reference, up to one character behind it.                      *)
(***************************************************************************)
THEOREM ReadFromTheBeginning == Spec => []DecodedBegins
  BY DecodeMeans, DecodeIsKept, PTL

-----------------------------------------------------------------------------
(***************************************************************************)
(* Before, in and after the loop.  Piece is what a part carries.           *)
(***************************************************************************)
Piece == MSG_TEXT_LIMIT - UDH

End(k) == IF k = 0 THEN 0 ELSE out[k].from + out[k].len

CutKept ==
  /\ to \in Destinations /\ coding \in Codings /\ ref \in Nat
  /\ parts \in Nat /\ offs \in Nat /\ multipart \in {0, 1}
  /\ out \in Seq(Pdus)
  /\ pc = "read" => out = <<>> /\ offs = 0
  /\ pc = "split" => /\ multipart = 1
                     /\ parts = encoded_len(text, coding) \div Piece + 1
                     /\ Len(out) < parts
                     /\ \/ offs = encoded_len(text, coding)
                        \/ offs = Len(out) * Piece
                     /\ offs =< encoded_len(text, coding)
  /\ \A k \in DOMAIN out : /\ out[k].from = End(k - 1)
                           /\ parts > 1 => out[k].len + UDH <= MSG_TEXT_LIMIT
                           /\ Announces(out[k])
  /\ offs = End(Len(out))
  /\ pc = "sent" /\ multipart = 1 => offs = encoded_len(text, coding)

LEMMA CutMeans == CutKept => PartsCoverText /\ LengthWithinData
  BY DEF CutKept, PartsCoverText, LengthWithinData, Announces, End

LEMMA InitCut == Init => CutKept
<1> SUFFICES ASSUME Init PROVE CutKept
  OBVIOUS
<1>1. /\ out = <<>> /\ offs = 0 /\ parts = 0 /\ ref = 0 /\ pc = "read"
      /\ coding = "7bit" /\ to \in Destinations /\ multipart \in {0, 1}
  BY DEF Init
<1>2. out \in Seq(Pdus) /\ DOMAIN out = {} /\ Len(out) = 0
  BY <1>1
<1> QED
  BY <1>1, <1>2 DEF CutKept, End, Codings

LEMMA CutStays ==
  ASSUME CutKept, UNCHANGED <<to, coding, ref, parts, offs, multipart, out, text>>,
         pc' = pc \/ pc' = "refused"
  PROVE  CutKept'
<1>1. \A k : End(k)' = End(k)
  BY DEF End
<1>2. encoded_len(text, coding)' = encoded_len(text, coding)
  OBVIOUS
<1>3. End(Len(out))' = End(Len(out))
  BY DEF End
<1>4. ASSUME NEW k \in DOMAIN out
      PROVE  /\ out[k].from = End(k - 1)'
             /\ parts > 1 => out[k].len + UDH <= MSG_TEXT_LIMIT
             /\ Announces(out[k])
  BY <1>1, <1>4 DEF CutKept
<1> QED
  BY <1>2, <1>3, <1>4 DEF CutKept

\* A PDU is created behind the ones before it.
LEMMA AppendCut ==
  ASSUME CutKept, NEW p \in Pdus, out' = Append(out, p), p.from = offs,
         offs' = offs + p.len, parts' > 1 => p.len + UDH <= MSG_TEXT_LIMIT,
         parts' = parts \/ out = <<>>, Announces(p)
  PROVE  /\ out' \in Seq(Pdus) /\ Len(out') = Len(out) + 1
         /\ \A k \in DOMAIN out' : /\ out'[k].from = End(k - 1)'
                                   /\ parts' > 1 => out'[k].len + UDH <= MSG_TEXT_LIMIT
                                   /\ Announces(out'[k])
         /\ (offs = End(Len(out)))'
<1>1. PICK n \in Nat : n = Len(out)
  BY DEF CutKept
<1>2. /\ out' \in Seq(Pdus) /\ Len(out') = n + 1
      /\ \A k \in 1..n : out'[k] = out[k]
      /\ out'[n + 1] = p
      /\ DOMAIN out = 1..n /\ DOMAIN out' = 1..(n + 1)
  BY <1>1, AppendProperties DEF CutKept
<1>3. \A k \in 0..n : End(k)' = End(k)
  BY <1>2 DEF End
<1>4. offs = End(n) /\ offs \in Nat
  BY <1>1 DEF CutKept
<1>5. (offs = End(Len(out)))'
  BY <1>1, <1>2 DEF End
<1>6. ASSUME NEW k \in DOMAIN out'
      PROVE  /\ out'[k].from = End(k - 1)'
             /\ parts' > 1 => out'[k].len + UDH <= MSG_TEXT_LIMIT
             /\ Announces(out'[k])
  <2>1. CASE k \in 1..n
    <3>1. k - 1 \in 0..n /\ out'[k] = out[k] /\ k \in DOMAIN out
      BY <1>1, <1>2, <2>1
    <3>2. parts' = parts
      BY <1>1, <2>1
    <3> QED
      BY <1>3, <3>1, <3>2 DEF CutKept
  <2>2. CASE k = n + 1
    <3>1. k - 1 = n /\ out'[k] = p /\ k - 1 \in 0..n
      BY <1>1, <1>2, <2>2
    <3> QED
      BY <1>3, <1>4, <3>1
  <2> QED
    BY <1>2, <2>1, <2>2
<1> QED
  BY <1>1, <1>2, <1>3, <1>4, <1>5, <1>6

\* One round of the loop.
LEMMA SplitPartKeepsCut ==
  ASSUME CutKept, Len(text) \in Nat, SplitPart
  PROVE  CutKept'
<1> DEFINE e == encoded_len(text, coding)
<1>1. /\ pc = "split" /\ multipart = 1 /\ parts = e \div Piece + 1
      /\ Len(out) < parts /\ (offs = e \/ offs = Len(out) * Piece) /\ offs =< e
      /\ e \in Nat /\ offs \in Nat /\ parts \in Nat /\ ref \in Nat /\ coding \in Codings
      /\ to \in Seq(Digits)
  BY EncodedLength, RelayAssumption DEF SplitPart, CutKept
<1>2. PICK n \in Nat : n = Len(out)
  BY DEF CutKept
<1>3. PICK u \in Nat \ {0} : u = Piece /\ u + UDH = MSG_TEXT_LIMIT
  BY LimitAssumption DEF Piece, UDH
<1>4. PICK l \in Nat : /\ l = PartLen /\ l =< u
                       /\ l = e - offs \/ l = u
                       /\ l =< e - offs
  <2>1. e - offs \in Nat
    BY <1>1
  <2>2. PartLen = Min({u, e - offs})
    BY <1>3 DEF PartLen, Piece
  <2>3. Min({u, e - offs}) = IF u =< e - offs THEN u ELSE e - offs
    BY <2>1, MinOfTwo
  <2> HIDE DEF e
  <2> QED
    BY <2>1, <2>2, <2>3
<1>5. PICK p : p = create_pdu_impl(to, coding, offs, l, ref, parts, n + 1)
  OBVIOUS
<1>6. p \in Pdus /\ p.from = offs /\ p.len = l /\ Announces(p)
  <2>1. n + 1 \in Nat
    OBVIOUS
  <2>2. create_pdu_impl(to, coding, offs, l, ref, parts, n + 1) \in Pdus
    BY <1>1, <2>1, CreatedType
  <2>3. Announces(create_pdu_impl(to, coding, offs, l, ref, parts, n + 1))
    BY <1>1, <2>1, CreatedPdu
  <2>4. p.from = offs /\ p.len = l
    BY <1>5 DEF create_pdu_impl
  <2> QED
    BY <1>5, <2>2, <2>3, <2>4
<1>7. /\ out' = Append(out, p) /\ offs' = offs + l
      /\ pc' = IF Len(out') = parts THEN "sent" ELSE "split"
      /\ UNCHANGED <<to, multipart, text, coding, ref, parts>>
  BY <1>2, <1>4, <1>5 DEF SplitPart
<1>8. /\ out' \in Seq(Pdus) /\ Len(out') = n + 1
      /\ \A k \in DOMAIN out' : /\ out'[k].from = End(k - 1)'
                                /\ parts' > 1 => out'[k].len + UDH <= MSG_TEXT_LIMIT
                                /\ Announces(out'[k])
      /\ (offs = End(Len(out)))'
  <2>1. l + UDH <= MSG_TEXT_LIMIT
    BY <1>3, <1>4 DEF UDH
  <2> HIDE DEF e
  <2> QED
    BY <1>2, <1>6, <1>7, <2>1, AppendCut
<1>9. e' = e
  BY <1>7
<1> HIDE DEF e
<1>10. /\ offs' \in Nat /\ offs' =< e
       /\ offs' = e \/ offs' = (n + 1) * u
       /\ n + 1 = parts => offs' = e
  <2>1. (n + 1) * u = n * u + u
    OBVIOUS
  <2>2. PICK q \in Nat : q = n * u
    OBVIOUS
  <2>3. n + 1 = parts => e < q + u
    <3>1. e < (e \div u + 1) * u
      BY <1>1, RoundsEnough
    <3> QED
      BY <1>1, <1>3, <2>1, <2>2, <3>1
  <2>4. offs = e \/ offs = q
    <3>1. offs = Len(out) * Piece => offs = q
      BY <1>2, <1>3, <2>2
    <3> QED
      BY <1>1, <3>1
  <2>5. (n + 1) * u = q + u
    BY <2>1, <2>2
  <2> QED
    BY <1>1, <1>4, <1>7, <2>3, <2>4, <2>5
<1>11. pc' = "sent" => offs' = e
  BY <1>7, <1>8, <1>10
<1>12. pc' = "split" => Len(out') < parts
  BY <1>1, <1>2, <1>7, <1>8
<1>13. pc' \in {"sent", "split"}
  BY <1>7
<1>14. (pc = "split" => /\ multipart = 1
                        /\ parts = encoded_len(text, coding) \div Piece + 1
                        /\ Len(out) < parts
                        /\ \/ offs = encoded_len(text, coding)
                           \/ offs = Len(out) * Piece
                        /\ offs =< encoded_len(text, coding))'
  BY <1>1, <1>3, <1>7, <1>8, <1>9, <1>10, <1>12 DEF e, Piece
<1> QED
  BY <1>1, <1>7, <1>8, <1>9, <1>10, <1>11, <1>13, <1>14 DEF CutKept, e

\* A text in one PDU, and the count of the parts of a longer one.
LEMMA ForwardKeepsCut ==
  ASSUME CutKept, Len(text)' \in Nat, Forward
  PROVE  CutKept'
<1> DEFINE e == encoded_len(text', coding')
<1>1. /\ pc = "read" /\ out = <<>> /\ offs = 0
      /\ UNCHANGED <<to, multipart>>
      /\ coding' \in Codings /\ to \in Seq(Digits) /\ to \in Destinations
      /\ multipart \in {0, 1}
  BY RelayAssumption DEF Forward, CutKept, Codings
<1>2. e \in Nat /\ encoded_len(text, coding)' = e
  BY <1>1, EncodedLength
<1>3. ASSUME NEW l \in Nat, OnePdu(text', coding', l), multipart = 1 => l = e
      PROVE  CutKept'
  <2>1. PICK p : p = create_pdu_impl(to, coding', 0, l, 0, 0, 0)
    OBVIOUS
  <2>2. p \in Pdus /\ p.from = 0 /\ p.len = l /\ Announces(p)
    <3>1. 0 \in Nat
      OBVIOUS
    <3>2. create_pdu_impl(to, coding', 0, l, 0, 0, 0) \in Pdus
      BY <1>1, <3>1, CreatedType
    <3>3. Announces(create_pdu_impl(to, coding', 0, l, 0, 0, 0))
      BY <1>1, <3>1, CreatedPdu
    <3>4. p.from = 0 /\ p.len = l
      BY <2>1 DEF create_pdu_impl
    <3> QED
      BY <2>1, <3>2, <3>3, <3>4
  <2>3. out' = <<p>> /\ pc' = "sent" /\ parts' = 1 /\ ref' = 0 /\ offs' = l
    BY <1>3, <2>1 DEF OnePdu
  <2>4. out' = Append(out, p)
    BY <1>1, <2>3
  <2> HIDE DEF e
  <2>5. /\ out' \in Seq(Pdus)
        /\ \A k \in DOMAIN out' : /\ out'[k].from = End(k - 1)'
                                  /\ parts' > 1 => out'[k].len + UDH <= MSG_TEXT_LIMIT
                                  /\ Announces(out'[k])
        /\ (offs = End(Len(out)))'
    BY <1>1, <2>2, <2>3, <2>4, AppendCut
  <2> QED
    BY <1>1, <1>2, <1>3, <2>3, <2>5 DEF CutKept
<1>4. ASSUME multipart = 1, parts' = e \div Piece + 1, ref' \in Refs, pc' = "split",
             offs' = 0, UNCHANGED out
      PROVE  CutKept'
  <2>1. Piece \in Nat \ {0}
    BY LimitAssumption DEF Piece, UDH
  <2> HIDE DEF e
  <2>2. parts' \in Nat \ {0}
    BY <1>2, <1>4, <2>1, RoundsEnough
  <2>3. ref' \in Nat
    BY <1>4, RelayAssumption
  <2>4. out' = <<>> /\ out' \in Seq(Pdus) /\ DOMAIN out' = {} /\ Len(out') = 0
    BY <1>1, <1>4
  <2>5. (offs = End(Len(out)))'
    BY <1>4, <2>4 DEF End
  <2>6. offs' = Len(out') * Piece
    BY <1>4, <2>1, <2>4
  <2> QED
    BY <1>1, <1>2, <1>4, <2>2, <2>3, <2>4, <2>5, <2>6 DEF CutKept
<1>5. Min({e, MSG_TEXT_LIMIT}) \in Nat
  <2> HIDE DEF e
  <2> QED
    BY <1>2, LimitAssumption, MinOfTwo
<1> QED
  BY <1>2, <1>3, <1>4, <1>5 DEF Forward, Piece, e

LEMMA NextKeepsCut ==
  CutKept /\ Len(text) \in Nat /\ Len(text)' \in Nat /\ [Next]_vars => CutKept'
<1> SUFFICES ASSUME CutKept, Len(text) \in Nat, Len(text)' \in Nat, [Next]_vars
             PROVE  CutKept'
  OBVIOUS
<1>1. CASE Forward
  BY <1>1, ForwardKeepsCut
<1>2. CASE SplitPart
  BY <1>2, SplitPartKeepsCut
<1>3. CASE ~ Forward /\ ~ SplitPart
  BY <1>3, CutStays DEF Next, ReadMessage, Refused, Deliver, vars
<1> QED
  BY <1>1, <1>2, <1>3

-----------------------------------------------------------------------------
(***************************************************************************)
(* Types: all texts are sequences of the characters of the message, those  *)
(* of the header, and garbled ones.                                        *)
(***************************************************************************)
Chars == {GARBLED} \cup (0..Len(sms.widths)) \X (Nat \ {0})

LEMMA MessageIs ==
  ASSUME sms \in Originals
  PROVE  /\ sms.coding \in Codings /\ sms.udh \in {0, 6, 7}
         /\ Len(sms.widths) \in Nat \ {0} /\ Parts = 1..Len(sms.widths)
         /\ GARBLED \in Chars /\ Texts = Seq(Chars) /\ <<>> \in Texts
         /\ \A k \in Parts : Original(k) \in Texts
<1>1. sms \in OriginalRecord /\ sms.widths # <<>>
  BY RelayAssumption
<1>2. /\ sms.coding \in Codings /\ sms.udh \in {0, 6, 7}
      /\ sms.widths \in Seq(Seq(1..3))
  BY <1>1 DEF OriginalRecord
<1>3. Len(sms.widths) \in Nat \ {0} /\ Parts = 1..Len(sms.widths)
  BY <1>1, <1>2 DEF Parts
<1>4. GARBLED \in Chars /\ Texts = Seq(Chars)
  BY DEF Chars, Texts
<1>5. ASSUME NEW k \in Parts
      PROVE  Original(k) \in Seq(Chars)
  <2>1. {k} \X (Nat \ {0}) \subseteq Chars
    BY <1>3 DEF Chars
  <2>2. Original(k) \in Seq({k} \X (Nat \ {0}))
    BY OriginalIs
  <2> QED
    BY <2>1, <2>2
<1>6. <<>> \in Texts
  BY <1>4
<1> QED
  BY <1>2, <1>3, <1>4, <1>5, <1>6

\* The characters of a part that go into the text.
Remaining(k) == SubSeq(texts[k], Cardinality(Swallowed(k)) + 1, Len(texts[k]))

LEMMA RemainingType ==
  ASSUME TypeOK, NEW k \in Parts
  PROVE  Remaining(k) \in Seq(Chars)
<1>1. PICK t \in Seq(Chars) : t = texts[k]
  BY MessageIs DEF TypeOK
<1>2. Cardinality(Swallowed(k)) \in Nat
  <2>1. PICK l \in Nat : l = Len(t) /\ DOMAIN t = 1..l
    OBVIOUS
  <2>2. Swallowed(k) \in SUBSET (1..l)
    BY <1>1, <2>1 DEF Swallowed
  <2>3. IsFiniteSet(1..l)
    <3>1. 1 \in Int /\ l \in Int
      OBVIOUS
    <3> QED
      BY <3>1, FS_Interval
  <2> QED
    BY <2>2, <2>3, FS_Subset, FS_CardinalityType
<1>3. PICK m \in Nat : m = Cardinality(Swallowed(k))
  BY <1>2
<1>4. ASSUME NEW i \in m + 1..Len(t)
      PROVE  t[i] \in Chars
  <2>1. i \in 1..Len(t)
    OBVIOUS
  <2> QED
    BY <2>1
<1>5. SubSeq(t, m + 1, Len(t)) \in Seq(Chars)
  BY <1>4, SubSeqProperties
<1> QED
  BY <1>1, <1>3, <1>5 DEF Remaining

LEMMA ForwardedType ==
  ASSUME TypeOK
  PROVE  forwarded_text \in Texts
<1>1. /\ Len(sms.widths) \in Nat \ {0} /\ Parts = 1..Len(sms.widths)
      /\ Texts = Seq(Chars)
  BY MessageIs DEF TypeOK
<1>2. Assembled \in Texts
  <2>1. PICK ss : ss = [k \in Parts |-> Remaining(k)]
    OBVIOUS
  <2>2. Len(ss) = Len(sms.widths)
    BY <1>1, <2>1
  <2>3. \A k \in 1..Len(sms.widths) : ss[k] \in Seq(Chars)
    BY <1>1, <2>1, RemainingType
  <2>4. FlattenSeq(ss) \in Seq(Chars)
    BY <1>1, <2>2, <2>3, FlattenType
  <2> QED
    BY <1>1, <2>1, <2>4 DEF Assembled, Remaining
<1>3. PICK h : h = Header
  OBVIOUS
<1>4. h \in Seq(Chars)
  <2>1. Len(sender) + 13 \in Nat
    BY DEF TypeOK
  <2>2. \A c \in 1..Len(sender) + 13 : <<0, c>> \in Chars
    BY <1>1, <2>1 DEF Chars
  <2> QED
    BY <1>3, <2>1, <2>2 DEF Header
<1>5. h \o Assembled \in Seq(Chars)
  BY <1>1, <1>2, <1>4, ConcatProperties
<1> QED
  BY <1>1, <1>2, <1>3, <1>5 DEF forwarded_text

LEMMA InitTyped == Init => TypeOK
<1> SUFFICES ASSUME Init PROVE TypeOK
  OBVIOUS
<1>1. sms \in Originals /\ text = <<>>
  BY DEF Init
<1>2. <<>> \in Texts /\ texts \in [Parts -> Texts]
  BY <1>1, MessageIs DEF Init
<1>3. /\ sender \in Seq(Digits \cup {PLUS, LETTER})
      /\ DOMAIN out = {} /\ inbox \in Seq(DOMAIN out)
  BY DEF Init
<1> QED
  BY <1>1, <1>2, <1>3 DEF Init, TypeOK, Codings

LEMMA ReadMessageTyped ==
  ASSUME TypeOK, DecodeKept, NEW k \in Parts, ReadMessage(k)
  PROVE  TypeOK'
<1>1. PICK t \in decode_pdu(Original(k), sms.coding, sms.udh, sms.widths[k]) :
        texts' = [texts EXCEPT ![k] = t]
  BY DEF ReadMessage
<1>2. t \in Texts
  <2>1. PICK o \in Seq(Chars) : o = Original(k)
    BY MessageIs DEF TypeOK
  <2>2. PICK w \in Seq(1..3) : w = sms.widths[k] /\ Len(w) = Len(o)
    BY <2>1, OriginalIs DEF TypeOK
  <2>3. t \in Seq(Chars)
    BY <1>1, <2>1, <2>2, MessageIs, DecodedType DEF TypeOK
  <2> QED
    BY <2>3, MessageIs DEF TypeOK
<1>3. sms' = sms /\ Parts' = Parts /\ Texts' = Texts
  BY DEF ReadMessage, Parts, Texts
<1>4. texts' \in [Parts -> Texts]
  BY <1>1, <1>2 DEF TypeOK
<1>5. sender' \in Seq(Digits \cup {PLUS, LETTER})
  <2>1. from.number \in Seq(Letters)
    BY RelayAssumption DEF TypeOK, Letters
  <2> QED
    BY <2>1, SenderType DEF ReadMessage
<1>6. unread' \subseteq Parts
  BY DEF ReadMessage, TypeOK
<1> QED
  BY <1>3, <1>4, <1>5, <1>6 DEF ReadMessage, TypeOK

LEMMA ForwardTyped ==
  ASSUME TypeOK, DecodeKept, CutKept, Forward
  PROVE  TypeOK'
<1> DEFINE e == encoded_len(text', coding')
<1>1. sms' = sms /\ Parts' = Parts /\ Texts' = Texts
  BY DEF Forward, Parts, Texts
<1>2. text' \in Texts /\ coding' \in Codings /\ Len(text') \in Nat
  <2>1. text' \in Texts
    BY ForwardedType DEF Forward
  <2> QED
    BY <2>1 DEF Forward, Codings, Texts
<1>3. e \in Nat
  BY <1>2, EncodedLength
<1>4. out = <<>> /\ DOMAIN out = {} /\ MSG_TEXT_LIMIT \in Nat
  BY LimitAssumption DEF CutKept, Forward
<1> HIDE DEF e
<1>5. /\ ref' \in {0} \cup Refs /\ parts' \in Nat /\ offs' \in Nat
      /\ pc' \in {"split", "sent"}
      /\ \A k \in DOMAIN out' : out'[k].len \in 0..MSG_TEXT_LIMIT
  <2>1. ASSUME NEW l \in 0..MSG_TEXT_LIMIT, OnePdu(text', coding', l)
        PROVE  <1>5!:
    <3>1. PICK p : p = create_pdu_impl(to, coding', 0, l, 0, 0, 0)
      OBVIOUS
    <3>2. p.len = l /\ out' = <<p>>
      BY <2>1, <3>1 DEF create_pdu_impl, OnePdu
    <3> QED
      BY <1>4, <2>1, <3>2 DEF OnePdu
  <2>2. CASE OnePdu(text', coding', Min({e, MSG_TEXT_LIMIT}))
    <3>1. Min({e, MSG_TEXT_LIMIT}) \in 0..MSG_TEXT_LIMIT
      BY <1>3, <1>4, MinOfTwo
    <3> QED
      BY <2>1, <2>2, <3>1
  <2>3. CASE e < MSG_TEXT_LIMIT /\ OnePdu(text', coding', e)
    <3>1. e \in 0..MSG_TEXT_LIMIT
      BY <1>3, <1>4, <2>3
    <3> QED
      BY <2>1, <2>3, <3>1
  <2>4. CASE /\ parts' = e \div Piece + 1 /\ ref' \in Refs /\ pc' = "split"
             /\ offs' = 0 /\ out' = out
    <3>1. Piece \in Nat \ {0}
      BY LimitAssumption DEF Piece, UDH
    <3>2. parts' \in Nat
      BY <1>3, <2>4, <3>1, RoundsEnough
    <3> QED
      BY <1>4, <2>4, <3>2
  <2> QED
    BY <2>2, <2>3, <2>4 DEF Forward, Piece, e
<1>6. inbox' \in Seq(DOMAIN out')
  BY <1>4 DEF TypeOK, Forward
<1> QED
  BY <1>1, <1>2, <1>5, <1>6 DEF Forward, TypeOK

\* What a round of the loop takes of what is left.
LEMMA PartLenIs ==
  ASSUME CutKept, pc = "split", Len(text) \in Nat
  PROVE  PartLen = LET left == encoded_len(text, coding) - offs
                   IN  IF Piece =< left THEN Piece ELSE left
<1>1. Piece \in Nat
  BY LimitAssumption DEF Piece, UDH
<1>2. encoded_len(text, coding) \in Nat
  BY EncodedLength DEF CutKept
<1>3. encoded_len(text, coding) - offs \in Nat
  BY <1>2 DEF CutKept
<1> QED
  BY <1>1, <1>3, MinOfTwo DEF PartLen, Piece

LEMMA SplitPartTyped ==
  ASSUME TypeOK, CutKept, SplitPart
  PROVE  TypeOK'
<1>1. sms' = sms /\ Parts' = Parts /\ Texts' = Texts
  BY DEF SplitPart, Parts, Texts
<1>2. Len(text) \in Nat
  BY DEF TypeOK, Texts
<1>3. PICK l \in 0..MSG_TEXT_LIMIT : l = PartLen
  <2>1. PartLen = LET left == encoded_len(text, coding) - offs
                  IN  IF Piece =< left THEN Piece ELSE left
    BY <1>2, PartLenIs DEF SplitPart
  <2>2. Piece \in 0..MSG_TEXT_LIMIT
    BY LimitAssumption DEF Piece, UDH
  <2>3. encoded_len(text, coding) \in Nat
    BY <1>2, EncodedLength DEF TypeOK
  <2>4. encoded_len(text, coding) - offs \in Nat
    BY <2>3 DEF SplitPart, CutKept
  <2>5. PICK left \in Nat : PartLen = IF Piece =< left THEN Piece ELSE left
    BY <2>1, <2>4, Zenon
  <2>6. PartLen \in 0..MSG_TEXT_LIMIT
    <3>1. MSG_TEXT_LIMIT \in Nat
      BY LimitAssumption
    <3> QED
      BY <2>2, <2>5, <3>1
  <2> QED
    BY <2>6
<1>4. PICK p : p = create_pdu_impl(to, coding, offs, l, ref, parts, Len(out) + 1)
  OBVIOUS
<1>5. p.len = l /\ out' = Append(out, p) /\ offs' = offs + l
  BY <1>3, <1>4 DEF create_pdu_impl, SplitPart
<1>6. PICK n \in Nat : n = Len(out) /\ DOMAIN out = 1..n
  BY DEF CutKept
<1>7. /\ DOMAIN out' = 1..n + 1 /\ out'[n + 1] = p
      /\ \A k \in 1..n : out'[k] = out[k]
  BY <1>5, <1>6 DEF CutKept
<1>8. \A k \in DOMAIN out' : out'[k].len \in 0..MSG_TEXT_LIMIT
  BY <1>3, <1>5, <1>6, <1>7 DEF TypeOK
<1>9. inbox' \in Seq(DOMAIN out')
  BY <1>6, <1>7 DEF TypeOK, SplitPart
<1>10. offs' \in Nat
  BY <1>5 DEF TypeOK
<1>11. pc' \in {"split", "sent"}
  BY DEF SplitPart
<1> QED
  BY <1>1, <1>8, <1>9, <1>10, <1>11 DEF TypeOK, SplitPart

LEMMA NextTyped == TypeOK /\ DecodeKept /\ CutKept /\ [Next]_vars => TypeOK'
<1> SUFFICES ASSUME TypeOK, DecodeKept, CutKept, [Next]_vars PROVE TypeOK'
  OBVIOUS
<1>1. ASSUME NEW k \in Parts, ReadMessage(k)
      PROVE  TypeOK'
  BY <1>1, ReadMessageTyped
<1>2. CASE Forward
  BY <1>2, ForwardTyped
<1>3. CASE SplitPart
  BY <1>3, SplitPartTyped
<1>4. ASSUME NEW k \in DOMAIN out, Deliver(k)
      PROVE  TypeOK'
  <2>1. inbox' \in Seq(DOMAIN out) /\ out' = out
    BY <1>4 DEF Deliver, TypeOK
  <2> QED
    BY <1>4, <2>1 DEF Deliver, TypeOK, Parts, Texts
<1>5. CASE Refused
  BY <1>5 DEF Refused, TypeOK, Parts, Texts
<1>6. CASE UNCHANGED vars
  BY <1>6 DEF vars, TypeOK, Parts, Texts
<1> QED
  BY <1>1, <1>2, <1>3, <1>4, <1>5, <1>6 DEF Next

-----------------------------------------------------------------------------
(***************************************************************************)
(* What was forwarded stays what the parts that were read make; and whose  *)
(* message it is was read from one of them.                                *)
(***************************************************************************)
TextKept ==
  /\ unread # Parts => sender = decode_sender(from)
  /\ pc # "read" => unread = {}
  /\ pc \in {"split", "sent"} =>
       /\ ~ TooLong(to)
       /\ text = forwarded_text
       /\ coding = IF need_ucs2(text) THEN "ucs2" ELSE "7bit"

LEMMA TextStays ==
  ASSUME TextKept,
         UNCHANGED <<sms, from, to, sender, multipart, unread, texts, text, coding>>,
         \/ pc' = pc
         \/ pc' = "refused" /\ unread = {}
         \/ pc = "split" /\ pc' \in {"split", "sent"}
  PROVE  TextKept'
<1>1. /\ Parts' = Parts /\ forwarded_text' = forwarded_text
      /\ need_ucs2(text)' = need_ucs2(text)
  BY DEF Parts, forwarded_text, Header, Assembled, Swallowed, need_ucs2
<1> QED
  BY <1>1 DEF TextKept

LEMMA NextKeepsText == TextKept /\ [Next]_vars => TextKept'
<1> SUFFICES ASSUME TextKept, [Next]_vars PROVE TextKept'
  OBVIOUS
<1>1. ASSUME NEW k \in Parts, ReadMessage(k)
      PROVE  TextKept'
  BY <1>1 DEF ReadMessage, TextKept
<1>2. CASE Forward
  <2>1. /\ forwarded_text' = forwarded_text /\ Parts' = Parts
        /\ need_ucs2(text)' = need_ucs2(text')
    BY <1>2 DEF Forward, forwarded_text, Header, Assembled, Swallowed, Parts, need_ucs2
  <2>2. unread' = {} /\ ~ TooLong(to)'
    BY <1>2 DEF Forward
  <2>3. unread # Parts => sender' = decode_sender(from)'
    BY <1>2 DEF Forward, TextKept
  <2>4. text' = forwarded_text' /\ coding' = IF need_ucs2(text)' THEN "ucs2" ELSE "7bit"
    BY <1>2, <2>1 DEF Forward
  <2>5. unread' = unread
    BY <1>2 DEF Forward
  <2> QED
    BY <2>1, <2>2, <2>3, <2>4, <2>5 DEF TextKept
<1>3. CASE SplitPart
  BY <1>3, TextStays DEF SplitPart
<1>4. CASE Refused
  BY <1>4, TextStays DEF Refused
<1>5. ASSUME NEW k \in DOMAIN out, Deliver(k)
      PROVE  TextKept'
  BY <1>5, TextStays DEF Deliver
<1>6. CASE UNCHANGED vars
  BY <1>6, TextStays DEF vars
<1> QED
  BY <1>1, <1>2, <1>3, <1>4, <1>5, <1>6 DEF Next

(***************************************************************************)
(* The PDUs one by one: a single one, or those of the loop, all but the    *)
(* last as long as a part can be.                                          *)
(***************************************************************************)
NumberedPdu(k) ==
  LET start == (k - 1) * Piece
  IN  create_pdu_impl(to, coding, start,
                      IF k = parts THEN encoded_len(text, coding) - start ELSE Piece,
                      ref, parts, k)

PdusKept ==
  /\ pc \in {"read", "refused"} => out = <<>> /\ parts = 0
  /\ pc = "split" => parts > 1 /\ offs = Len(out) * Piece
  /\ pc = "sent" => Len(out) = parts /\ parts > 0
  /\ parts = 1 => /\ out = <<create_pdu_impl(to, coding, 0, offs, 0, 0, 0)>>
                  /\ offs =< encoded_len(text, coding) /\ ref = 0
  /\ parts > 1 => /\ parts = encoded_len(text, coding) \div Piece + 1
                  /\ \A k \in DOMAIN out : out[k] = NumberedPdu(k)

LEMMA PdusStay ==
  ASSUME PdusKept, UNCHANGED <<to, text, coding, ref, parts, offs, out>>,
         pc' = pc \/ (pc = "read" /\ pc' = "refused")
  PROVE  PdusKept'
<1>1. \A k : NumberedPdu(k)' = NumberedPdu(k)
  BY DEF NumberedPdu
<1>2. encoded_len(text, coding)' = encoded_len(text, coding)
  OBVIOUS
<1>3. (parts = 1 => /\ out = <<create_pdu_impl(to, coding, 0, offs, 0, 0, 0)>>
                    /\ offs =< encoded_len(text, coding) /\ ref = 0)'
  BY <1>2 DEF PdusKept
<1>4. (parts > 1 => /\ parts = encoded_len(text, coding) \div Piece + 1
                    /\ \A k \in DOMAIN out : out[k] = NumberedPdu(k))'
  <2>1. parts > 1 => \A k \in DOMAIN out : out[k] = NumberedPdu(k)'
    BY <1>1 DEF PdusKept
  <2> QED
    BY <1>2, <2>1 DEF PdusKept
<1> QED
  BY <1>3, <1>4 DEF PdusKept

LEMMA ForwardKeepsPdus ==
  ASSUME PdusKept, TypeOK', Forward
  PROVE  PdusKept'
<1> DEFINE e == encoded_len(text', coding')
<1>1. e \in Nat /\ encoded_len(text, coding)' = e
  BY EncodedLength DEF TypeOK, Texts
<1>2. out = <<>> /\ to' = to
  BY DEF PdusKept, Forward
<1> HIDE DEF e
<1>3. ASSUME NEW l \in Nat, l =< e, OnePdu(text', coding', l)
      PROVE  PdusKept'
  <2>1. PICK p : p = create_pdu_impl(to', coding', 0, offs', 0, 0, 0)
    OBVIOUS
  <2>2. out' = <<p>> /\ pc' = "sent" /\ parts' = 1 /\ ref' = 0 /\ offs' = l
    BY <1>2, <1>3, <2>1 DEF OnePdu
  <2>3. Len(out') = 1
    BY <2>2
  <2> QED
    BY <1>1, <1>3, <2>1, <2>2, <2>3 DEF PdusKept
<1>4. CASE /\ parts' = e \div Piece + 1 /\ pc' = "split"
           /\ offs' = 0 /\ out' = out /\ e >= MSG_TEXT_LIMIT
  <2>1. Piece \in Nat \ {0} /\ Piece =< MSG_TEXT_LIMIT /\ MSG_TEXT_LIMIT \in Nat
    BY LimitAssumption DEF Piece, UDH
  <2>2. parts' \in Nat /\ parts' > 1
    <3>1. PICK q \in Int : q = e \div Piece
      BY <1>1, <2>1
    <3>2. e < (q + 1) * Piece /\ q + 1 \in Nat \ {0}
      BY <1>1, <2>1, <3>1, RoundsEnough
    <3>3. q # 0
      <4>1. (0 + 1) * Piece = Piece
        BY <2>1
      <4> QED
        BY <1>1, <1>4, <2>1, <3>2, <4>1
    <3> QED
      BY <1>4, <3>1, <3>2, <3>3
  <2>3. out' = <<>> /\ DOMAIN out' = {} /\ Len(out') = 0
    BY <1>2, <1>4
  <2>4. offs' = Len(out') * Piece
    BY <1>4, <2>1, <2>3
  <2> QED
    BY <1>1, <1>4, <2>2, <2>3, <2>4 DEF PdusKept, Piece
<1>5. MSG_TEXT_LIMIT \in Nat
  BY LimitAssumption
<1>6. Min({e, MSG_TEXT_LIMIT}) \in Nat /\ Min({e, MSG_TEXT_LIMIT}) =< e
  BY <1>1, <1>5, MinOfTwo
<1>7. CASE OnePdu(text', coding', Min({e, MSG_TEXT_LIMIT}))
  BY <1>3, <1>6, <1>7
<1>8. CASE OnePdu(text', coding', e)
  BY <1>1, <1>3, <1>8
<1> QED
  BY <1>4, <1>7, <1>8 DEF Forward, Piece, e

LEMMA SplitPartKeepsPdus ==
  ASSUME PdusKept, CutKept, Len(text) \in Nat, SplitPart
  PROVE  PdusKept'
<1> DEFINE e == encoded_len(text, coding)
<1>1. PICK n \in Nat : n = Len(out) /\ DOMAIN out = 1..n
  BY DEF CutKept
<1>2. e \in Nat /\ Piece \in Nat \ {0}
  BY EncodedLength, LimitAssumption DEF CutKept, Piece, UDH
<1>3. /\ parts \in Nat /\ parts > 1 /\ offs = n * Piece /\ n < parts
      /\ parts = e \div Piece + 1
  BY <1>1 DEF SplitPart, PdusKept, CutKept
<1>4. PartLen = IF Piece =< e - offs THEN Piece ELSE e - offs
  BY PartLenIs DEF SplitPart
<1> HIDE DEF e
<1>5. PICK a \in Nat : a = n * Piece /\ (n + 1) * Piece = a + Piece
  BY <1>2
<1>6. PartLen = IF n + 1 = parts THEN e - a ELSE Piece
  <2>1. CASE n + 1 = parts
    <3>1. e < (e \div Piece + 1) * Piece
      BY <1>2, RoundsEnough
    <3>2. e < a + Piece
      BY <1>3, <1>5, <2>1, <3>1
    <3> QED
      BY <1>2, <1>3, <1>4, <1>5, <2>1, <3>2
  <2>2. CASE n + 1 < parts
    <3>1. PICK q \in Nat : q = e \div Piece /\ n + 1 =< q /\ q * Piece =< e
      BY <1>2, <1>3, <2>2, RoundsEnough
    <3>2. (n + 1) * Piece =< q * Piece
      BY <1>2, <3>1, TimesMonotone
    <3>3. a + Piece =< e
      BY <1>2, <1>5, <3>1, <3>2
    <3> QED
      BY <1>2, <1>3, <1>4, <1>5, <2>2, <3>3
  <2> QED
    BY <1>3, <2>1, <2>2
<1>7. PICK p : p = NumberedPdu(n + 1)
  OBVIOUS
<1>8. p = create_pdu_impl(to, coding, a, IF n + 1 = parts THEN e - a ELSE Piece,
                          ref, parts, n + 1)
  <2>1. n + 1 - 1 = n
    OBVIOUS
  <2> QED
    BY <1>5, <1>7, <2>1 DEF NumberedPdu, e
<1>9. out' = Append(out, p)
  BY <1>1, <1>3, <1>5, <1>6, <1>8 DEF SplitPart
<1>10. /\ DOMAIN out' = 1..n + 1 /\ out'[n + 1] = p /\ Len(out') = n + 1
       /\ \A k \in 1..n : out'[k] = out[k]
  BY <1>1, <1>9 DEF CutKept
<1>11. /\ \A k : NumberedPdu(k)' = NumberedPdu(k)
       /\ encoded_len(text, coding)' = e /\ parts' = parts
  BY DEF SplitPart, NumberedPdu, e
<1>12. \A k \in DOMAIN out' : out'[k] = NumberedPdu(k)'
  <2>1. \A k \in 1..n : out[k] = NumberedPdu(k)
    BY <1>1, <1>3 DEF PdusKept
  <2> QED
    BY <1>1, <1>7, <1>10, <1>11, <2>1
<1>13. pc' = "split" => offs' = Len(out') * Piece
  <2>1. pc' = "split" => n + 1 # parts
    BY <1>10 DEF SplitPart
  <2>2. offs' = offs + PartLen
    BY DEF SplitPart
  <2> QED
    BY <1>2, <1>3, <1>5, <1>6, <1>10, <2>1, <2>2
<1>14. pc' = "sent" => Len(out') = parts'
  BY <1>11 DEF SplitPart
<1>15. pc' \in {"sent", "split"}
  BY DEF SplitPart
<1>16. parts' > 1 /\ parts' # 1 /\ parts' > 0
  BY <1>3, <1>11
<1>17. parts' = encoded_len(text, coding)' \div Piece + 1
  BY <1>3, <1>11
<1> QED
  BY <1>12, <1>13, <1>14, <1>15, <1>16, <1>17 DEF PdusKept, Piece

LEMMA NextKeepsPdus ==
  PdusKept /\ CutKept /\ TypeOK /\ TypeOK' /\ [Next]_vars => PdusKept'
<1> SUFFICES ASSUME PdusKept, CutKept, TypeOK, TypeOK', [Next]_vars
             PROVE  PdusKept'
  OBVIOUS
<1>1. CASE Forward
  BY <1>1, ForwardKeepsPdus
<1>2. CASE SplitPart
  BY <1>2, SplitPartKeepsPdus DEF TypeOK, Texts
<1>3. CASE ~ Forward /\ ~ SplitPart
  BY <1>3, PdusStay DEF Next, ReadMessage, Refused, Deliver, vars
<1> QED
  BY <1>1, <1>2, <1>3

-----------------------------------------------------------------------------
(***************************************************************************)
(* The inductive invariant, and what follows from it.                      *)
(***************************************************************************)
RelayInv == TypeOK /\ DecodeKept /\ TextKept /\ CutKept /\ PdusKept

LEMMA RelayInvariant == Spec => []RelayInv
<1>1. Init => TypeOK /\ CutKept
  BY InitTyped, InitCut
<1>2. Init => TextKept /\ PdusKept
  BY DEF Init, TextKept, PdusKept
<1>3. /\ DecodeKept
      /\ TypeOK /\ TextKept /\ CutKept /\ PdusKept
      /\ [Next]_vars
      => (TypeOK /\ TextKept /\ CutKept /\ PdusKept)'
  <2> SUFFICES ASSUME DecodeKept, TypeOK, TextKept, CutKept, PdusKept, [Next]_vars
               PROVE  (TypeOK /\ TextKept /\ CutKept /\ PdusKept)'
    OBVIOUS
  <2>1. TypeOK'
    BY NextTyped
  <2>2. Len(text) \in Nat /\ Len(text)' \in Nat
    BY <2>1 DEF TypeOK, Texts
  <2>3. CutKept'
    BY <2>2, NextKeepsCut
  <2>4. PdusKept'
    BY <2>1, NextKeepsPdus
  <2>5. TextKept'
    BY NextKeepsText
  <2> QED
    BY <2>1, <2>3, <2>4, <2>5
<1> QED
  BY <1>1, <1>2, <1>3, DecodeIsKept, PTL DEF Spec, RelayInv

(***************************************************************************)
(* Types, for every message and every number of parts: in particular what  *)
(* is joined from the parts is a text, no PDU is longer than the limit,    *)
(* and only PDUs that were created arrive.                                 *)
(***************************************************************************)
THEOREM RelayTypes == Spec => []TypeOK
  BY RelayInvariant, PTL DEF RelayInv

(***************************************************************************)
(* For every limit and every text: the number of parts that                *)
(* create_pdu_multipart() computes before its loop is the number its loop  *)
(* needs, and the parts cut the encoded text without gap or overlap.       *)
(***************************************************************************)
THEOREM PartsAreRight == Spec => []PartsCoverText
<1>1. RelayInv => PartsCoverText
  BY CutMeans DEF RelayInv
<1> QED
  BY <1>1, RelayInvariant, PTL

(***************************************************************************)
(* No PDU, single or numbered, announces more septets or octets than it    *)
(* carries, whatever its length and with or without a header.              *)
(***************************************************************************)
THEOREM LengthsAreWithin == Spec => []LengthWithinData
<1>1. RelayInv => LengthWithinData
  BY CutMeans DEF RelayInv
<1> QED
  BY <1>1, RelayInvariant, PTL

\* The telephone reads a single PDU from the beginning of the text.
LEMMA SingleRead ==
  ASSUME RelayInv, pc = "sent", Len(out) = 1
  PROVE  \E count \in Nat :
           /\ count = IF coding = "ucs2" THEN offs \div 2 ELSE (offs \div 7) * 8
           /\ PhoneText(out[1], text) = Reading(text, 0, count, coding)
<1>1. offs \in Nat
  BY DEF RelayInv, TypeOK
<1>2. out[1] = create_pdu_impl(to, coding, 0, offs, 0, 0, 0)
  BY DEF RelayInv, PdusKept
<1>3. PICK p : p = out[1]
  OBVIOUS
<1>4. /\ p.coding = coding /\ p.ref = 0 /\ p.from = 0
      /\ p.udl = data_len(coding, offs, 0)
  BY <1>2, <1>3 DEF create_pdu_impl
<1>5. FirstBit(p) = 0
  BY <1>4 DEF FirstBit
<1>6. CharsRead(p) \in Nat
      /\ CharsRead(p) = IF coding = "ucs2" THEN offs \div 2 ELSE (offs \div 7) * 8
  BY <1>1, <1>4 DEF CharsRead, data_len
<1> QED
  BY <1>3, <1>4, <1>5, <1>6 DEF PhoneText

(***************************************************************************)
(* For every limit, odd ones included, and every text: a single PDU is     *)
(* read as a beginning of the text, with at most one wrong character       *)
(* behind it.                                                              *)
(***************************************************************************)
THEOREM SinglePduIsRight == Spec => []SinglePduBegins
<1>1. RelayInv => SinglePduBegins
  <2> SUFFICES ASSUME RelayInv, pc = "sent", Len(out) = 1
               PROVE  IsPrefix(PhoneText(out[1], text), Append(text, GARBLED))
    BY DEF SinglePduBegins
  <2>1. PICK n \in Nat : n = Len(text)
    BY DEF RelayInv, TypeOK, Texts
  <2>2. text \in Seq(Chars) /\ coding \in Codings /\ offs \in Nat
    BY MessageIs DEF RelayInv, TypeOK
  <2>3. offs =< encoded_len(text, coding)
    BY DEF RelayInv, PdusKept
  <2>4. PICK count \in Nat :
          /\ count = IF coding = "ucs2" THEN offs \div 2 ELSE (offs \div 7) * 8
          /\ PhoneText(out[1], text) = Reading(text, 0, count, coding)
    BY SingleRead
  <2>5. count =< n + 1
    <3>1. CASE coding = "ucs2"
      <4>1. offs =< (16 * n + 7) \div 8
        BY <2>1, <2>3, <3>1 DEF encoded_len, CharBits
      <4> QED
        BY <2>2, <2>4, <3>1, <4>1
    <3>2. CASE coding # "ucs2"
      <4>1. offs =< (7 * n + 7) \div 8
        BY <2>1, <2>3, <3>2 DEF encoded_len, CharBits
      <4> QED
        BY <2>2, <2>4, <3>2, <4>1
    <3> QED
      BY <3>1, <3>2
  <2> QED
    BY <2>1, <2>2, <2>4, <2>5, ReadingBeyond
<1> QED
  BY <1>1, RelayInvariant, PTL

(***************************************************************************)
(* When a single PDU announces the length of its text: if it is UCS2, or   *)
(* if the number of septets is a multiple of eight, and never else.        *)
(***************************************************************************)
THEOREM WhenLengthIsRight ==
  Spec => [](pc = "sent" /\ Len(out) = 1 /\ multipart = 1 =>
               (LengthOfText <=> coding = "ucs2" \/ Len(text) % 8 = 0))
<1>1. RelayInv => (pc = "sent" /\ Len(out) = 1 /\ multipart = 1 =>
                     (LengthOfText <=> coding = "ucs2" \/ Len(text) % 8 = 0))
  <2> SUFFICES ASSUME RelayInv, pc = "sent", Len(out) = 1, multipart = 1
               PROVE  PhoneText(out[1], text) = text
                        <=> coding = "ucs2" \/ Len(text) % 8 = 0
    BY DEF LengthOfText
  <2>1. PICK n \in Nat : n = Len(text)
    BY DEF RelayInv, TypeOK, Texts
  <2>2. text \in Seq(Chars) /\ coding \in Codings
    BY MessageIs DEF RelayInv, TypeOK
  <2>3. offs = encoded_len(text, coding)
    BY DEF RelayInv, CutKept
  <2>4. PICK count \in Nat :
          /\ count = IF coding = "ucs2" THEN offs \div 2 ELSE (offs \div 7) * 8
          /\ PhoneText(out[1], text) = Reading(text, 0, count, coding)
    BY SingleRead
  <2>5. PhoneText(out[1], text) = text <=> count = n
    <3>1. count = n => Reading(text, 0, count, coding) = text
      BY <2>1, <2>2, ReadingFromStart
    <3>2. Len(Reading(text, 0, count, coding)) = count
      BY DEF Reading
    <3> QED
      BY <2>1, <2>4, <3>1, <3>2
  <2>6. count = n <=> coding = "ucs2" \/ n % 8 = 0
    <3>1. CASE coding = "ucs2"
      <4>1. offs = (16 * n + 7) \div 8
        BY <2>1, <2>3, <3>1 DEF encoded_len, CharBits
      <4> QED
        BY <2>4, <3>1, <4>1
    <3>2. CASE coding # "ucs2"
      <4>1. offs = (7 * n + 7) \div 8
        BY <2>1, <2>3, <3>2 DEF encoded_len, CharBits
      <4>2. PICK q \in Nat, r \in 0..7 : n = 8 * q + r
        <5>1. n = 8 * (n \div 8) + (n % 8) /\ n \div 8 \in Nat /\ n % 8 \in 0..7
          OBVIOUS
        <5> QED
          BY <5>1
      <4>3. offs = 7 * q + r
        BY <4>1, <4>2
      <4>4. count = (offs \div 7) * 8
        BY <2>4, <3>2
      <4>5. r < 7 => count = 8 * q
        BY <4>3, <4>4
      <4>6. r = 7 => count = 8 * q + 8
        BY <4>3, <4>4
      <4> QED
        BY <3>2, <4>2, <4>5, <4>6
    <3> QED
      BY <3>1, <3>2
  <2> QED
    BY <2>1, <2>5, <2>6
<1> QED
  BY <1>1, RelayInvariant, PTL

(***************************************************************************)
(* When a message goes to the number that was configured: if this has      *)
(* eleven digits, and not with the twelfth that create_pdu_impl() accepts. *)
(***************************************************************************)
THEOREM WhenNumberIsReached ==
  Spec => [](out # <<>> => (NumberReached <=> Len(to) = Announced))
<1>1. RelayInv => (out # <<>> => (NumberReached <=> Len(to) = Announced))
  <2> SUFFICES ASSUME RelayInv, out # <<>>
               PROVE  NumberReached <=> Len(to) = Announced
    OBVIOUS
  <2>1. PICK l \in Nat : l = Len(to) /\ l >= 11 /\ to = [k \in 1..l |-> to[k]]
    <3>1. to \in Seq(Digits) /\ Len(to) >= Announced
      BY RelayAssumption DEF RelayInv, TypeOK
    <3> QED
      BY <3>1 DEF Announced
  <2>2. \A k \in DOMAIN out : out[k].da = encode_semi_octets(to)
    <3>1. parts = 1 \/ parts > 1
      BY DEF RelayInv, TypeOK, PdusKept
    <3> QED
      BY <3>1 DEF RelayInv, PdusKept, NumberedPdu, create_pdu_impl
  <2>3. PICK k : k \in DOMAIN out
    <3>1. out \in Seq(Pdus)
      BY DEF RelayInv, CutKept
    <3>2. 1 \in DOMAIN out
      BY <3>1
    <3> QED
      BY <3>2
  <2>4. PICK octets : octets = hex2bin(encode_semi_octets(to))
    OBVIOUS
  <2>5. PICK r : r = Recipient(encode_semi_octets(to))
    OBVIOUS
  <2>6. r = [j \in 1..11 |-> HalfOf(octets, j)]
    BY <2>4, <2>5 DEF Recipient, HalfOf, Announced
  <2>7. ASSUME NEW j \in 1..11
        PROVE  HalfOf(octets, j) = to[j]
    <3>1. PICK n \in Nat : n = (l + 1) \div 2
      BY <2>1
    <3>2. Len(to) = l
      BY <2>1
    <3>3. \A x \in 1..2 * n :
            HalfOf(octets, x) = IF x =< l THEN to[x] ELSE Filler
      BY <2>4, <3>1, <3>2, SemiOctets
    <3>4. j =< l /\ j \in 1..2 * n
      BY <2>1, <3>1
    <3> QED
      BY <3>3, <3>4
  <2>8. r = [j \in 1..11 |-> to[j]] /\ Len(r) = 11
    BY <2>6, <2>7
  <2>9. r = to <=> l = 11
    BY <2>1, <2>8
  <2>10. NumberReached <=> r = to
    BY <2>2, <2>3, <2>5 DEF NumberReached
  <2> QED
    BY <2>1, <2>9, <2>10 DEF Announced
<1> QED
  BY <1>1, RelayInvariant, PTL

(***************************************************************************)
(* For every number that create_pdu_impl() accepts as a destination: the   *)
(* messages of its owner are recognised, whether the network states the    *)
(* number as international or as a subscriber's, the two types of which    *)
(* decode_sender() decodes the digits (any other becomes "Unknown").       *)
(***************************************************************************)
THEOREM CommandsAreKnown == Spec => []CommandNumberKnown
<1>1. RelayInv => CommandNumberKnown
  <2> SUFFICES ASSUME RelayInv, pc \in {"split", "sent"},
                      from.ton \in {International, Subscriber}, from.number = to
               PROVE  s_sender(sender) = to
    BY DEF CommandNumberKnown
  <2>1. unread # Parts
    <3>1. Len(sms.widths) \in Nat \ {0} /\ Parts = 1..Len(sms.widths)
      BY MessageIs DEF RelayInv, TypeOK
    <3>2. 1 \in Parts
      BY <3>1
    <3> QED
      BY <3>2 DEF RelayInv, TextKept
  <2>2. sender = decode_sender(from) /\ ~ TooLong(to) /\ to \in Destinations
    BY <2>1 DEF RelayInv, TextKept, TypeOK
  <2>3. to \in Seq(Digits) /\ to # <<>>
    BY <2>2, RelayAssumption DEF Announced
  <2> QED
    BY <2>2, <2>3, SenderKnown
<1> QED
  BY <1>1, RelayInvariant, PTL

-----------------------------------------------------------------------------
(***************************************************************************)
(* A message in UCS2 whose parts fit the buffer, from end to end.          *)
(***************************************************************************)
Fitting == pc = "sent" /\ multipart = 1 /\ coding = "ucs2" /\ PartsFit

\* Nothing of a text that fits is missing.
LEMMA NothingMissing ==
  ASSUME NEW w \in Seq(1..3), Fits(w)
  PROVE  Missing(w, TextSize) = 0
<1>1. PICK size \in Nat : size = TextSize
  BY LimitAssumption DEF TextSize
<1>2. PICK l \in Nat : l = Len(w)
  OBVIOUS
<1>3. Octets(w, l) \in Nat /\ Octets(w, l) < size
  <2>1. l \in 0..l
    OBVIOUS
  <2> QED
    BY <1>1, <1>2, <2>1, OctetsGrow DEF Fits
<1>4. OctetsKept(w, size) = Octets(w, l)
  BY <1>2, <1>3, KeptBound
<1>5. CharsIn(w, Octets(w, l)) = l
  <2>1. PICK n \in Int : n = Octets(w, l) /\ 0 =< n /\ Octets(w, l) =< n
    BY <1>3
  <2> QED
    BY <1>2, <2>1, CharsInBound
<1> QED
  BY <1>1, <1>4, <1>5 DEF Missing

\* Every part fits the buffer it is decoded into, and so the text is whole.
LEMMA WholeAssembled ==
  ASSUME RelayInv, Fitting
  PROVE  text = Header \o WholeText
<1>1. unread = {} /\ text = Header \o Assembled
  BY DEF RelayInv, TextKept, Fitting, forwarded_text
<1>2. sms \in Originals /\ sms.coding = "ucs2"
  BY DEF RelayInv, TypeOK, TextKept, Fitting, need_ucs2
<1>3. ASSUME NEW k \in Parts
      PROVE  texts[k] = Original(k)
  BY <1>1, <1>2, DecodeMeans DEF RelayInv, DecodedBegins, Fitting, PartsFit
<1>4. ASSUME NEW k \in Parts
      PROVE  Swallowed(k) = {}
  <2>1. CASE k = 1
    BY <2>1 DEF Swallowed
  <2>2. CASE k # 1
    <3>1. Len(sms.widths) \in Nat /\ Parts = 1..Len(sms.widths)
      BY <1>2, MessageIs
    <3>2. k - 1 \in Parts
      BY <2>2, <3>1
    <3>3. Missing(sms.widths[k - 1], TextSize) = 0
      BY <1>2, <3>2, OriginalIs, NothingMissing DEF Fitting, PartsFit
    <3>4. PICK w \in Seq(1..3), l \in Nat :
            w = sms.widths[k] /\ l = Len(w) /\ Len(Original(k)) = l
      <4>1. PICK w \in Seq(1..3) : w = sms.widths[k] /\ Len(Original(k)) = Len(w)
        BY <1>2, OriginalIs
      <4>2. Len(w) \in Nat
        OBVIOUS
      <4> QED
        BY <4>1, <4>2
    <3>5. DOMAIN texts[k] = 1..l
      <4>1. Original(k) \in Seq({k} \X (Nat \ {0}))
        BY <1>2, OriginalIs
      <4> QED
        BY <1>3, <3>4, <4>1
    <3>6. ASSUME NEW c \in 1..l
          PROVE  ~ (Octets(w, c - 1) < 0)
      <4>1. c - 1 \in 0..l
        OBVIOUS
      <4>2. Octets(w, c - 1) \in Nat
        BY <4>1, OctetsGrow
      <4> QED
        BY <4>2
    <3> QED
      BY <2>2, <3>3, <3>4, <3>5, <3>6 DEF Swallowed
  <2> QED
    BY <2>1, <2>2
<1>5. ASSUME NEW k \in Parts
      PROVE  SubSeq(texts[k], Cardinality(Swallowed(k)) + 1, Len(texts[k])) = Original(k)
  <2>1. Cardinality(Swallowed(k)) + 1 = 1
    BY <1>4, FS_EmptySet
  <2>2. PICK t \in Seq({k} \X (Nat \ {0})) : t = Original(k)
    BY <1>2, OriginalIs
  <2>3. SubSeq(t, 1, Len(t)) = t
    BY SubSeqFull
  <2> QED
    BY <1>3, <2>1, <2>2, <2>3
<1>6. Assembled = WholeText
  BY <1>5 DEF Assembled, WholeText
<1> QED
  BY <1>1, <1>6

\* A single PDU holds it all.
LEMMA SingleWhole ==
  ASSUME RelayInv, Fitting, parts = 1
  PROVE  PhoneText(out[1], text) = text
<1>1. PICK n \in Nat : n = Len(text)
  BY DEF RelayInv, TypeOK, Texts
<1>2. text \in Seq(Chars)
  BY MessageIs DEF RelayInv, TypeOK
<1>3. offs = 2 * n
  <2>1. offs = (16 * n + 7) \div 8
    BY <1>1 DEF RelayInv, CutKept, Fitting, encoded_len, CharBits
  <2> QED
    BY <2>1
<1>4. Len(out) = 1
  BY DEF RelayInv, PdusKept, Fitting
<1>5. PICK count \in Nat :
        /\ count = IF coding = "ucs2" THEN offs \div 2 ELSE (offs \div 7) * 8
        /\ PhoneText(out[1], text) = Reading(text, 0, count, coding)
  BY <1>4, SingleRead DEF Fitting
<1>6. count = n
  BY <1>3, <1>5 DEF Fitting
<1> QED
  BY <1>1, <1>2, <1>5, <1>6, ReadingFromStart DEF Fitting, Codings

\* Each number is that of one PDU.
LEMMA NumberedOnce ==
  ASSUME RelayInv, Fitting, parts > 1, NEW k \in 1..parts
  PROVE  Cardinality(Numbered(k)) = 1 /\ out[Min(Numbered(k))] = NumberedPdu(k)
<1>1. DOMAIN out = 1..parts /\ \A x \in DOMAIN out : out[x] = NumberedPdu(x)
  BY DEF RelayInv, PdusKept, CutKept, Fitting
<1>2. \A x \in DOMAIN out : out[x].no = x
  BY <1>1 DEF NumberedPdu, create_pdu_impl
<1>3. Numbered(k) = {k}
  BY <1>1, <1>2 DEF Numbered
<1>4. Min({k}) = k
  <2>1. {k} \in SUBSET Nat /\ {k} # {}
    OBVIOUS
  <2> QED
    BY <2>1, LeastElement
<1> QED
  BY <1>1, <1>3, <1>4, FS_Singleton

\* The character behind the k-th PDU, half its octets being characters.
CutAt(k) == IF k = parts THEN Len(text) ELSE k * (Piece \div 2)

LEMMA CutsInside ==
  ASSUME RelayInv, Fitting, parts > 1
  PROVE  /\ Piece \div 2 \in Nat \ {0} /\ Piece = 2 * (Piece \div 2)
         /\ encoded_len(text, coding) = 2 * Len(text)
         /\ CutAt(0) = 0
         /\ \A k \in 0..parts : CutAt(k) \in 0..Len(text)
         /\ \A k \in 1..parts : CutAt(k - 1) =< CutAt(k)
<1>1. PICK n \in Nat : n = Len(text)
  BY DEF RelayInv, TypeOK, Texts
<1>2. PICK h \in Nat \ {0} : h = Piece \div 2 /\ Piece = 2 * h
  <2>1. Piece \in Nat /\ Piece > 0 /\ Piece % 2 = 0
    BY LimitAssumption, EvenAssumption DEF Piece, UDH
  <2>2. Piece \div 2 \in Nat \ {0} /\ Piece = 2 * (Piece \div 2)
    BY <2>1
  <2> QED
    BY <2>2
<1>3. encoded_len(text, coding) = 2 * n
  <2>1. encoded_len(text, coding) = (16 * n + 7) \div 8
    BY <1>1 DEF Fitting, encoded_len, CharBits
  <2> QED
    BY <2>1
<1>4. PICK q \in Nat : parts = q + 1 /\ q * h =< n /\ q > 0
  <2>1. PICK q \in Nat : q = (2 * n) \div (2 * h) /\ q * (2 * h) =< 2 * n
    <3>1. 2 * n \in Nat /\ 2 * h \in Nat \ {0}
      OBVIOUS
    <3>2. (2 * n) \div (2 * h) + 1 \in Nat \ {0}
      BY <3>1, RoundsEnough
    <3>3. (2 * n) \div (2 * h) \in Int
      BY <3>1
    <3>4. ((2 * n) \div (2 * h)) * (2 * h) =< 2 * n
      BY <3>1, RoundsEnough
    <3> QED
      BY <3>2, <3>3, <3>4
  <2>2. q * (2 * h) = 2 * (q * h) /\ q * h \in Nat
    OBVIOUS
  <2>3. parts = q + 1
    BY <1>2, <1>3, <2>1 DEF RelayInv, PdusKept
  <2> QED
    BY <2>1, <2>2, <2>3
<1>5. \A k \in 0..q : k * h \in 0..n
  <2> SUFFICES ASSUME NEW k \in 0..q PROVE k * h \in 0..n
    OBVIOUS
  <2>1. k * h \in Nat /\ q * h \in Nat
    OBVIOUS
  <2>2. k * h =< q * h
    BY TimesMonotone
  <2> QED
    BY <1>4, <2>1, <2>2
<1>6. /\ \A k \in 0..q : CutAt(k) = k * h
      /\ CutAt(parts) = n
  BY <1>1, <1>2, <1>4 DEF CutAt
<1>7. \A k \in 0..parts : CutAt(k) \in 0..n
  BY <1>4, <1>5, <1>6
<1>8. ASSUME NEW k \in 1..parts
      PROVE  CutAt(k - 1) =< CutAt(k)
  <2>1. k - 1 \in 0..q
    BY <1>4
  <2>2. CASE k = parts
    <3>1. CutAt(k) = n /\ CutAt(k - 1) \in 0..n
      BY <1>4, <1>6, <1>7, <2>1, <2>2
    <3> QED
      BY <3>1
  <2>3. CASE k # parts
    <3>1. k \in 0..q
      BY <1>4, <2>3
    <3>2. (k - 1) * h =< k * h
      BY <2>1, TimesMonotone
    <3> QED
      BY <1>6, <2>1, <3>1, <3>2
  <2> QED
    BY <2>2, <2>3
<1>9. CutAt(0) = 0
  BY <1>4, <1>6
<1> QED
  BY <1>1, <1>2, <1>3, <1>7, <1>8, <1>9

LEMMA PieceShown ==
  ASSUME RelayInv, Fitting, parts > 1, ref # 0, NEW k \in 1..parts
  PROVE  PhoneText(NumberedPdu(k), text) = SubSeq(text, CutAt(k - 1) + 1, CutAt(k))
<1>1. PICK n \in Nat : n = Len(text)
  BY DEF RelayInv, TypeOK, Texts
<1>2. PICK h \in Nat \ {0} : h = Piece \div 2 /\ Piece = 2 * h
  BY CutsInside
<1>3. PICK a \in Nat, b \in Nat : /\ a = CutAt(k - 1) /\ b = CutAt(k)
                                  /\ a =< b /\ b =< n
  <2>1. parts \in Nat
    BY DEF RelayInv, TypeOK
  <2>2. k - 1 \in 0..parts /\ k \in 0..parts
    BY <2>1
  <2>3. /\ CutAt(k - 1) \in 0..n /\ CutAt(k) \in 0..n
        /\ CutAt(k - 1) =< CutAt(k)
    BY <1>1, <2>2, CutsInside
  <2> QED
    BY <2>3
<1>4. a = (k - 1) * h
  BY <1>2, <1>3 DEF CutAt
<1>5. b = IF k = parts THEN n ELSE k * h
  BY <1>1, <1>2, <1>3 DEF CutAt
<1>6. (k - 1) * Piece = 2 * a
  <2>1. (k - 1) * (2 * h) = 2 * ((k - 1) * h)
    OBVIOUS
  <2> QED
    BY <1>2, <1>4, <2>1
<1>7. encoded_len(text, coding) = 2 * n
  BY <1>1, CutsInside
<1>8. (IF k = parts THEN encoded_len(text, coding) - (k - 1) * Piece ELSE Piece)
        = 2 * (b - a)
  <2>1. CASE k = parts
    BY <1>5, <1>6, <1>7, <2>1
  <2>2. CASE k # parts
    <3>1. k * h = (k - 1) * h + h
      OBVIOUS
    <3> QED
      BY <1>2, <1>4, <1>5, <2>2, <3>1
  <2> QED
    BY <2>1, <2>2
<1>9. PICK p : p = NumberedPdu(k)
  OBVIOUS
<1>10. p = create_pdu_impl(to, "ucs2", 2 * a, 2 * (b - a), ref, parts, k)
  BY <1>6, <1>8, <1>9 DEF NumberedPdu, Fitting
<1>11. FirstBit(p) = 16 * a /\ p.coding = "ucs2"
  BY <1>10 DEF create_pdu_impl, FirstBit
<1>12. CharsRead(p) = b - a
  <2>1. p.coding = "ucs2" /\ p.ref = ref /\ p.udl = data_len("ucs2", 2 * (b - a), ref)
    BY <1>10 DEF create_pdu_impl
  <2>2. p.udl = 2 * (b - a) + 6
    BY <2>1 DEF data_len, UDH
  <2>3. CharsRead(p) = (p.udl - 6) \div 2
    BY <2>1 DEF CharsRead, UDH
  <2> QED
    BY <1>3, <2>2, <2>3
<1>13. text \in Seq(Chars)
  BY MessageIs DEF RelayInv, TypeOK
<1>14. Reading(text, 16 * a, b - a, "ucs2") = SubSeq(text, a + 1, b)
  BY <1>1, <1>3, <1>13, ReadingPiece
<1> QED
  BY <1>3, <1>9, <1>11, <1>12, <1>14 DEF PhoneText

\* The telephone puts the pieces together in the order of their numbers.
LEMMA PiecesWhole ==
  ASSUME RelayInv, Fitting, parts > 1, ref # 0
  PROVE  Shown = text
<1>1. PICK n \in Nat \ {0} : n = parts
  BY DEF RelayInv, TypeOK
<1>2. PICK ss : ss = [k \in 1..n |-> PhoneText(out[Min(Numbered(k))], text)]
  OBVIOUS
<1>3. Len(ss) = n
  BY <1>2
<1>4. PICK cut : cut = [k \in 0..n |-> CutAt(k)]
  OBVIOUS
<1>5. ASSUME NEW k \in 1..n
      PROVE  ss[k] = SubSeq(text, cut[k - 1] + 1, cut[k])
  <2>1. ss[k] = SubSeq(text, CutAt(k - 1) + 1, CutAt(k))
    BY <1>1, <1>2, NumberedOnce, PieceShown
  <2>2. cut[k - 1] = CutAt(k - 1) /\ cut[k] = CutAt(k)
    BY <1>4
  <2> QED
    BY <2>1, <2>2
<1>6. /\ cut[0] = 0 /\ cut[n] = Len(text)
      /\ \A k \in 0..n : cut[k] \in 0..Len(text)
      /\ \A k \in 1..n : cut[k - 1] =< cut[k]
  <2>1. cut[0] = 0 /\ \A k \in 0..n : cut[k] \in 0..Len(text)
    BY <1>1, <1>4, CutsInside
  <2>2. cut[n] = Len(text)
    BY <1>1, <1>4 DEF CutAt
  <2>3. \A k \in 1..n : k - 1 \in 0..n /\ k \in 0..n
    OBVIOUS
  <2>4. \A k \in 1..n : cut[k - 1] =< cut[k]
    BY <1>1, <1>4, <2>3, CutsInside
  <2> QED
    BY <2>1, <2>2, <2>4
<1>7. text \in Seq(Chars)
  BY MessageIs DEF RelayInv, TypeOK
<1>8. FlattenSeq(ss) = SubSeq(text, 1, cut[n])
  <2>1. Pieces(ss, text, n, cut)
    BY <1>3, <1>5, <1>6 DEF Pieces
  <2> QED
    BY <1>7, <2>1, FlattenPieces
<1>9. SubSeq(text, 1, Len(text)) = text
  BY <1>7, SubSeqFull
<1> QED
  BY <1>1, <1>2, <1>6, <1>8, <1>9 DEF Shown

(***************************************************************************)
(* For every even limit, and any number of parts on either side: a message *)
(* whose parts fit the buffer they are decoded into and that goes out in   *)
(* UCS2 is shown whole, behind its header, unless it is split under the    *)
(* reference 0.                                                            *)
(***************************************************************************)
THEOREM FittingIsWhole == Spec => []ForwardedWhole
<1>1. RelayInv => ForwardedWhole
  <2> SUFFICES ASSUME RelayInv, Fitting, ~ (ref = 0 /\ parts > 1)
               PROVE  \/ parts = 1 /\ PhoneText(out[1], text) = Header \o WholeText
                      \/ /\ parts > 1 /\ \A k \in 1..parts : Cardinality(Numbered(k)) = 1
                         /\ Shown = Header \o WholeText
    BY DEF ForwardedWhole, AllArrived, Fitting
  <2>1. text = Header \o WholeText
    BY WholeAssembled
  <2>2. CASE parts = 1
    BY <2>1, <2>2, SingleWhole
  <2>3. CASE parts > 1
    BY <2>1, <2>3, NumberedOnce, PiecesWhole
  <2>4. parts = 1 \/ parts > 1
    BY DEF RelayInv, TypeOK, PdusKept, Fitting
  <2> QED
    BY <2>2, <2>3, <2>4
<1> QED
  BY <1>1, RelayInvariant, PTL
=============================================================================
