----------------------------- MODULE Ssd1306 -----------------------------
(***************************************************************************)
(* The part of components/ssd1306 that the program uses: text written to a *)
(* page, the cleared screen, and the software scroll.  A screen is the     *)
(* driver's SSD1306_t.  A page is a row of Columns cells (16 of 8 pixels); *)
(* cell c shows the c-th character of the text it holds, because every     *)
(* text begins at segment 0 and scrolling copies whole pages.              *)
(***************************************************************************)
EXTENDS Integers

CONSTANTS Pages,      \* _pages: 8 for a height of 64
          Columns,    \* characters in a page, and the limit of a text
          Texts,      \* what is written
          Length,     \* strlen() of each text
          Blank       \* the character of code 0, which has no pixel

ASSUME ScreenAssumption == /\ Pages \in Nat /\ Columns \in Nat \ {0}
                           /\ Length \in [Texts -> Nat]
                           /\ Blank \notin Texts

PageNumbers == 0..(Pages - 1)
Page == [1..Columns -> Texts \cup {Blank}]
EmptyPage == [c \in 1..Columns |-> Blank]

\* SSD1306_t in static memory, and i2c_init().
ssd1306_init == [page |-> [p \in PageNumbers |-> EmptyPage],
                 scEnable |-> FALSE, scStart |-> 0, scEnd |-> 0]

Screens == [page : [PageNumbers -> Page], scEnable : BOOLEAN,
            scStart : Int, scEnd : Int]

\* What a page shows after the text is written on it: the rest stays.
Over(page, text) ==
  [c \in 1..Columns |-> IF c <= Length[text] THEN text ELSE page[c]]

ssd1306_display_text(dev, p, text) ==
  IF p >= Pages THEN dev
  ELSE [dev EXCEPT !.page = [@ EXCEPT ![p] = Over(dev.page[p], text)]]

ssd1306_clear_screen(dev) ==
  [dev EXCEPT !.page = [p \in PageNumbers |-> EmptyPage]]

\* Mutant: the end of the area may not be the last page.
ScrollBelowLast(dev, start, end) ==
  IF start < 0 \/ end < 0 \/ start >= Pages \/ end >= Pages - 1
    THEN [dev EXCEPT !.scEnable = FALSE]
    ELSE [dev EXCEPT !.scEnable = TRUE, !.scStart = start, !.scEnd = end]

ssd1306_software_scroll(dev, start, end) ==
  IF start < 0 \/ end < 0 \/ start >= Pages \/ end >= Pages
    THEN [dev EXCEPT !.scEnable = FALSE]
    ELSE [dev EXCEPT !.scEnable = TRUE, !.scStart = start, !.scEnd = end]

\* _scDirection: the way the lines move.
Direction(dev) == IF dev.scStart > dev.scEnd THEN -1 ELSE 1

\* The pages that get the content of the page before them.
Moved(dev) == {p \in PageNumbers : \/ dev.scStart < p /\ p <= dev.scEnd
                                   \/ dev.scEnd <= p /\ p < dev.scStart}

ssd1306_scroll_text(dev, text) ==
  IF ~ dev.scEnable THEN dev
  ELSE [dev EXCEPT !.page =
          [p \in PageNumbers |->
             IF p \in Moved(dev) THEN dev.page[p - Direction(dev)]
             ELSE IF p = dev.scStart THEN Over(dev.page[p], text)
             ELSE dev.page[p]]]
=============================================================================
