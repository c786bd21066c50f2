------------------------------ MODULE MCRelay ------------------------------
(***************************************************************************)
(* Messages of every coding, with lengths around the places where the code *)
(* changes its mind: multiples of 8 septets, 140 octets with the header    *)
(* (45 UCS2 characters, 135 septets), the end of the buffer (46 characters *)
(* of three octets, 124 septets, texts of mixed characters of which one is *)
(* cut in two), one, two and three PDUs, 134 octets exactly.               *)
(***************************************************************************)
EXTENDS RelayProperties

\* n characters of width w.
Chars(n, w) == [c \in 1..n |-> w]

Unsplit(c, w, lens) ==
  [coding : {c}, udh : {0}, widths : {<<Chars(n, w)>> : n \in lens}]

Split(c, w, u, lens) ==
  [coding : {c}, udh : {u}, widths : {[k \in DOMAIN l |-> Chars(l[k], w)] : l \in lens}]

\* Texts of several scripts that reach the end of the buffer, which cuts a
\* character in two: of the last one, an octet is missing, or two.
Mixed1 == Chars(7, 3) \o Chars(60, 2)
Mixed2 == <<1>> \o Chars(48, 3)

MCOriginals ==
  UNION {Unsplit("7bit", 1, {1, 6, 7, 8, 109, 123, 124, 125, 160}),
         Unsplit("ucs2", 1, {3, 70}),
         Unsplit("ucs2", 2, {0, 1, 41, 42, 43, 44, 45, 46, 70}),
         Unsplit("ucs2", 3, {46, 47, 48, 70}),
         Split("7bit", 1, 6, {<<5, 4>>, <<153, 9>>}),
         Split("7bit", 1, 7, {<<3, 4>>}),
         Split("ucs2", 2, 6, {<<67, 42>>, <<67, 43>>, <<67, 67, 5>>}),
         Split("ucs2", 2, 7, {<<66, 66>>, <<66, 1>>}),
         Split("ucs2", 3, 6, {<<67, 3>>, <<46, 40>>}),
         [coding : {"ucs2"}, udh : {0}, widths : {<<Mixed1>>, <<Mixed2>>}],
         [coding : {"ucs2"}, udh : {6},
          widths : {<<Mixed1, Chars(5, 2)>>, <<Mixed2, Chars(5, 1)>>,
                    <<Chars(60, 2) \o Chars(6, 3), Mixed2>>}]}

\* Numbers around the limits of 11, 12 and 13 digits.
Number(n) == [k \in 1..n |-> k % 10]

MCDestinations == {Number(n) : n \in 11..13}

MCSenders == [ton : {International, Subscriber}, number : MCDestinations]
             \cup {[ton |-> Alphanumeric, number |-> <<LETTER, LETTER, LETTER>>],
                   [ton |-> 2, number |-> Number(11)]}
=============================================================================
