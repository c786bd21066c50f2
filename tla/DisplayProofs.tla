--------------------------- MODULE DisplayProofs ---------------------------
(***************************************************************************)
(* The screen of the device, for any texts, any queue and any scroll area  *)
(* below line 4: its layout survives the races on _current_line, nothing   *)
(* is swallowed by the scroll, and the header is shown after a set-up that *)
(* began while nothing was waiting.                                        *)
(***************************************************************************)
EXTENDS DisplayProperties, TLAPS

(***************************************************************************)
(* What display_task relies on when it reads _current_line a second time.  *)
(* Only 1 is ever written by uart_task, so a line that was not 3 when the  *)
(* switch was made is not 3 afterwards, and the gap turns 3 into 4.        *)
(***************************************************************************)
LineKept ==
  /\ line = 0 => dpc = "receive" /\ queue = <<>> /\ upc = "reset"
  /\ dpc = "gap" => line \in {1, 3}
  /\ dpc = "gapped" => reg \in {1, 3}
  /\ dpc \in {"choose", "header", "scroll", "count"} => line # 3
  /\ dpc = "header" => line \in {1, 2}
  /\ dpc = "counted" => reg # 3
  /\ dpc \in {"switch", "gap", "gapped", "choose", "header", "scroll"}
       => text \in Texts

\* Whoever sees a line beyond the header finds the scroll area set up.
AreaKept ==
  /\ screen.scEnable => screen.scStart = ScrollStart /\ screen.scEnd = ScrollEnd
  /\ line > 3 \/ dpc \in {"gap", "gapped", "scroll"} \/ (dpc = "counted" /\ reg > 3)
       => screen.scEnable

(***************************************************************************)
(* How far display_task is with the k-th text after a clean start.         *)
(***************************************************************************)
Waits(k) == dpc = "receive" /\ line = k
Works(k, t) == dpc \in {"switch", "choose", "header"} /\ line = k /\ text = t
Counts(k) == dpc \in {"count", "counted"} /\ line = k /\ (dpc = "counted" => reg = k)

\* Page 1 is empty when the first text is about to be written, page 2 as long
\* as the second was not.
Cleared(k) == (line = k /\ dpc \in {"choose", "header"}) => screen.page[k] = EmptyPage

Next1(t) == Len(queue) > 0 /\ queue[1] = t
Next2(t) == Len(queue) > 1 /\ queue[2] = t

\* The operator's name and the number were sent, in this order.
BothSent ==
  \/ Waits(1) /\ Next1(Operator) /\ Next2(Phone)
  \/ Works(1, Operator) /\ Cleared(1) /\ Next1(Phone)
     /\ (dpc # "switch" => screen.page[2] = EmptyPage)
  \/ Counts(1) /\ Shows(1, Operator) /\ screen.page[2] = EmptyPage /\ Next1(Phone)
  \/ Waits(2) /\ Shows(1, Operator) /\ screen.page[2] = EmptyPage /\ Next1(Phone)
  \/ Works(2, Phone) /\ Shows(1, Operator) /\ screen.page[2] = EmptyPage
  \/ Counts(2) /\ Shows(1, Operator) /\ Shows(2, Phone)
  \/ line > 2 /\ Shows(1, Operator) /\ Shows(2, Phone)
     /\ (dpc \in {"gapped", "counted"} => reg > 2)

\* The one text t was sent.
OneSent(t) ==
  \/ Waits(1) /\ Next1(t) /\ Len(queue) = 1
  \/ Works(1, t) /\ queue = <<>> /\ Cleared(1)
     /\ (dpc # "switch" => screen.page[2] = EmptyPage)
  \/ Counts(1) /\ queue = <<>> /\ screen.page[2] = EmptyPage /\ Shows(1, t)
  \/ Waits(2) /\ queue = <<>> /\ screen.page[2] = EmptyPage /\ Shows(1, t)

HeaderKept ==
  clean => /\ upc = "setup" => Waits(1) /\ queue = <<>>
           /\ upc = "address" => OneSent(Operator)
           /\ upc = "flow" => BothSent
           /\ upc = "reset" => BothSent \/ \E t \in Texts : OneSent(t)

ScreenInv == TypeOK /\ LineKept /\ AreaKept /\ LayoutKept

-----------------------------------------------------------------------------
\* The functions of the driver.
LEMMA PagesAre == /\ Pages \in Int /\ Pages > 5
                  /\ 0 \in PageNumbers /\ 1 \in PageNumbers
                  /\ 2 \in PageNumbers /\ 3 \in PageNumbers
                  /\ ScrollStart \in PageNumbers /\ ScrollEnd \in PageNumbers
  BY ScreenAssumption, DisplayAssumption DEF PageNumbers

LEMMA PageTypes ==
  /\ EmptyPage \in Page
  /\ \A page \in Page, t \in Texts : Over(page, t) \in Page
  BY DEF EmptyPage, Page, Over

LEMMA NewScreen ==
  /\ ssd1306_init \in Screens
  /\ ssd1306_init.scEnable = FALSE
  BY PageTypes DEF ssd1306_init, Screens

LEMMA ScreenHas ==
  ASSUME NEW dev \in Screens
  PROVE  /\ dev.page \in [PageNumbers -> Page]
         /\ dev.scEnable \in BOOLEAN /\ dev.scStart \in Int /\ dev.scEnd \in Int
  BY DEF Screens

LEMMA Written ==
  ASSUME NEW dev \in Screens, NEW k \in PageNumbers, NEW t \in Texts,
         NEW new, new = ssd1306_display_text(dev, k, t)
  PROVE  /\ new \in Screens
         /\ new.page[k] = Over(dev.page[k], t)
         /\ \A p \in PageNumbers \ {k} : new.page[p] = dev.page[p]
         /\ new.scEnable = dev.scEnable
         /\ new.scStart = dev.scStart /\ new.scEnd = dev.scEnd
<1> DEFINE written == [dev.page EXCEPT ![k] = Over(dev.page[k], t)]
<1>1. new = [dev EXCEPT !.page = written]
  BY PagesAre DEF ssd1306_display_text, PageNumbers
<1>2. written \in [PageNumbers -> Page]
  BY ScreenHas, PageTypes
<1> QED
  BY <1>1, <1>2, ScreenHas DEF Screens

LEMMA BannerWritten ==
  ASSUME NEW dev \in Screens, NEW new, new = display_banner(dev)
  PROVE  /\ new \in Screens
         /\ new.page[0] = Over(EmptyPage, Banner)
         /\ \A p \in PageNumbers \ {0} : new.page[p] = EmptyPage
         /\ new.scEnable = dev.scEnable
         /\ new.scStart = dev.scStart /\ new.scEnd = dev.scEnd
<1>1. PICK cleared : cleared = ssd1306_clear_screen(dev)
  OBVIOUS
<1>2. /\ cleared \in Screens
      /\ cleared.page = [p \in PageNumbers |-> EmptyPage]
      /\ cleared.scEnable = dev.scEnable
      /\ cleared.scStart = dev.scStart /\ cleared.scEnd = dev.scEnd
  BY <1>1, ScreenHas, PageTypes DEF ssd1306_clear_screen, Screens
<1>3. new = ssd1306_display_text(cleared, 0, Banner)
  BY <1>1 DEF display_banner
<1>4. \A p \in PageNumbers : cleared.page[p] = EmptyPage
  BY <1>2
<1>5. 0 \in PageNumbers /\ Banner \in Texts
  BY PagesAre, DisplayAssumption
<1>6. /\ new \in Screens
      /\ new.page[0] = Over(cleared.page[0], Banner)
      /\ \A p \in PageNumbers \ {0} : new.page[p] = cleared.page[p]
      /\ new.scEnable = cleared.scEnable
      /\ new.scStart = cleared.scStart /\ new.scEnd = cleared.scEnd
  BY <1>2, <1>3, <1>5, Written
<1> QED
  BY <1>2, <1>4, <1>5, <1>6

LEMMA AreaSet ==
  ASSUME NEW dev \in Screens, NEW new,
         new = ssd1306_software_scroll(dev, ScrollStart, ScrollEnd)
  PROVE  /\ new \in Screens
         /\ new.page = dev.page
         /\ new.scEnable = TRUE
         /\ new.scStart = ScrollStart /\ new.scEnd = ScrollEnd
<1>1. new = [dev EXCEPT !.scEnable = TRUE, !.scStart = ScrollStart, !.scEnd = ScrollEnd]
  BY PagesAre DEF ssd1306_software_scroll, PageNumbers
<1>2. ScrollStart \in Int /\ ScrollEnd \in Int
  BY DisplayAssumption
<1> QED
  BY <1>1, <1>2, ScreenHas DEF Screens

LEMMA Scrolled ==
  ASSUME NEW dev \in Screens, NEW t \in Texts, NEW new,
         new = ssd1306_scroll_text(dev, t),
         dev.scEnable => dev.scStart = ScrollStart /\ dev.scEnd = ScrollEnd
  PROVE  /\ new \in Screens
         /\ \A p \in {0, 1, 2, 3} : new.page[p] = dev.page[p]
         /\ new.scEnable = dev.scEnable
         /\ new.scStart = dev.scStart /\ new.scEnd = dev.scEnd
<1>1. CASE ~ dev.scEnable
  BY <1>1, ScreenHas DEF ssd1306_scroll_text
<1>2. CASE dev.scEnable
  <2> DEFINE moved == [p \in PageNumbers |->
                        IF p \in Moved(dev) THEN dev.page[p - Direction(dev)]
                        ELSE IF p = dev.scStart THEN Over(dev.page[p], t)
                        ELSE dev.page[p]]
  <2>1. new = [dev EXCEPT !.page = moved]
    BY <1>2 DEF ssd1306_scroll_text
  <2>2. dev.scStart = 4 /\ dev.scEnd \in Nat /\ dev.scEnd > 4 /\ dev.scEnd < Pages
    BY <1>2, DisplayAssumption
  <2>3. Direction(dev) = 1
    BY <2>2 DEF Direction
  <2>4. Moved(dev) = {p \in PageNumbers : 4 < p /\ p <= dev.scEnd}
    BY <2>2, PagesAre DEF Moved, PageNumbers
  <2>5. \A p \in Moved(dev) : p - Direction(dev) \in PageNumbers
    BY <2>3, <2>4, PagesAre DEF PageNumbers
  <2>6. moved \in [PageNumbers -> Page]
    BY <2>5, ScreenHas, PageTypes
  <2>7. \A p \in {0, 1, 2, 3} : moved[p] = dev.page[p]
    BY <2>2, <2>4, PagesAre
  <2> HIDE DEF moved
  <2> QED
    BY <2>1, <2>6, <2>7, ScreenHas DEF Screens
<1> QED
  BY <1>1, <1>2
-----------------------------------------------------------------------------
\* Types.
LEMMA SentTypes ==
  ASSUME queue \in Seq(Texts), Len(queue) <= QueueSize,
         NEW t \in Texts, send_to_display(t)
  PROVE  queue' \in Seq(Texts) /\ Len(queue') <= QueueSize
<1>1. CASE Len(queue) < QueueSize
  <2>1. queue' = Append(queue, t)
    BY <1>1 DEF send_to_display
  <2> QED
    BY <1>1, <2>1, DisplayAssumption
<1>2. CASE ~ (Len(queue) < QueueSize)
  BY <1>2 DEF send_to_display
<1> QED
  BY <1>1, <1>2

LEMMA IncreasedTypes ==
  \A n \in 0..LineCap : /\ Increased(n) \in 1..LineCap
                        /\ n < 4 => Increased(n) = n + 1
                        /\ n >= 4 => Increased(n) >= 4
  BY DisplayAssumption DEF Increased

LEMMA TextsAre == /\ Banner \in Texts /\ Operator \in Texts /\ Phone \in Texts
                  /\ Failure \subseteq Texts /\ Status \subseteq Texts
  BY DisplayAssumption

(***************************************************************************)
(* The screen the switch, the header and the scroll leave.                 *)
(***************************************************************************)
LEMMA SwitchScreen ==
  ASSUME TypeOK, AreaKept, LayoutKept, Switch
  PROVE  /\ screen' \in Screens
         /\ LayoutKept'
         /\ line = 1 => screen'.page[1] = EmptyPage /\ screen'.page[2] = EmptyPage
         /\ line # 1 => screen'.page = screen.page
         /\ line = 3 => screen'.scEnable
         /\ line # 3 => screen'.scEnable = screen.scEnable
         /\ screen'.scEnable => /\ screen'.scStart = ScrollStart
                                /\ screen'.scEnd = ScrollEnd
<1>0. screen \in Screens
  BY DEF TypeOK
<1>1. CASE line = 1
  <2>1. screen' = display_banner(screen)
    BY <1>1 DEF Switch
  <2>2. /\ screen' \in Screens
        /\ screen'.page[0] = Over(EmptyPage, Banner)
        /\ \A p \in PageNumbers \ {0} : screen'.page[p] = EmptyPage
        /\ screen'.scEnable = screen.scEnable
        /\ screen'.scStart = screen.scStart /\ screen'.scEnd = screen.scEnd
    BY <1>0, <2>1, BannerWritten
  <2>3. screen'.page[1] = EmptyPage /\ screen'.page[2] = EmptyPage
        /\ screen'.page[3] = EmptyPage
    BY <2>2, PagesAre
  <2> QED
    BY <1>1, <2>2, <2>3 DEF LayoutKept, Shows, AreaKept
<1>2. CASE line = 3
  <2>1. screen' = ssd1306_software_scroll(screen, ScrollStart, ScrollEnd)
    BY <1>2 DEF Switch
  <2>2. /\ screen' \in Screens
        /\ screen'.page = screen.page
        /\ screen'.scEnable = TRUE
        /\ screen'.scStart = ScrollStart /\ screen'.scEnd = ScrollEnd
    BY <1>0, <2>1, AreaSet
  <2> QED
    BY <1>2, <2>2 DEF LayoutKept, Shows, AreaKept
<1>3. CASE line # 1 /\ line # 3
  <2>1. screen' = screen
    BY <1>3 DEF Switch
  <2> QED
    BY <1>0, <1>3, <2>1 DEF LayoutKept, Shows, AreaKept
<1> QED
  BY <1>1, <1>2, <1>3

LEMMA HeaderScreen ==
  ASSUME TypeOK, LineKept, AreaKept, LayoutKept, Header, text \in Texts
  PROVE  /\ screen' \in Screens
         /\ LayoutKept'
         /\ line \in {1, 2}
         /\ screen'.page[line] = Over(screen.page[line], text)
         /\ line = 1 => screen'.page[2] = screen.page[2]
         /\ line = 2 => screen'.page[1] = screen.page[1]
         /\ screen'.scEnable = screen.scEnable
         /\ screen'.scStart = screen.scStart /\ screen'.scEnd = screen.scEnd
<1>1. line \in {1, 2} /\ line \in PageNumbers
  BY PagesAre DEF LineKept, Header
<1>2. /\ screen' \in Screens
      /\ screen'.page[line] = Over(screen.page[line], text)
      /\ \A p \in PageNumbers \ {line} : screen'.page[p] = screen.page[p]
      /\ screen'.scEnable = screen.scEnable
      /\ screen'.scStart = screen.scStart /\ screen'.scEnd = screen.scEnd
  BY <1>1, Written DEF Header, TypeOK
<1>3. screen'.page[0] = screen.page[0] /\ screen'.page[3] = screen.page[3]
  BY <1>1, <1>2, PagesAre
<1>4. LayoutKept'
  BY <1>3 DEF LayoutKept, Shows
<1> QED
  BY <1>1, <1>2, <1>4, PagesAre

LEMMA ScrollScreen ==
  ASSUME TypeOK, AreaKept, LayoutKept, Scroll, text \in Texts
  PROVE  /\ screen' \in Screens
         /\ LayoutKept'
         /\ screen'.page[1] = screen.page[1] /\ screen'.page[2] = screen.page[2]
         /\ screen'.scEnable = screen.scEnable
         /\ screen'.scStart = screen.scStart /\ screen'.scEnd = screen.scEnd
<1>1. /\ screen' \in Screens
      /\ \A p \in {0, 1, 2, 3} : screen'.page[p] = screen.page[p]
      /\ screen'.scEnable = screen.scEnable
      /\ screen'.scStart = screen.scStart /\ screen'.scEnd = screen.scEnd
  BY Scrolled DEF Scroll, TypeOK, AreaKept
<1> QED
  BY <1>1 DEF LayoutKept, Shows
-----------------------------------------------------------------------------
(***************************************************************************)
(* Every action keeps ScreenInv.                                           *)
(***************************************************************************)
LEMMA SendInv ==
  ASSUME ScreenInv, NEW t \in Texts, send_to_display(t), upc # "reset",
         upc' \in UartAt, UNCHANGED <<line, clean, displayVars>>
  PROVE  ScreenInv'
<1>1. queue' \in Seq(Texts) /\ Len(queue') <= QueueSize
  BY SentTypes DEF ScreenInv, TypeOK
<1>2. TypeOK'
  BY <1>1 DEF ScreenInv, TypeOK, displayVars
<1>3. LineKept'
  BY DEF ScreenInv, LineKept, displayVars
<1> QED
  BY <1>2, <1>3 DEF ScreenInv, AreaKept, LayoutKept, Shows, displayVars

LEMMA QuietInv ==
  ASSUME ScreenInv, upc # "reset", upc' \in UartAt,
         UNCHANGED <<queue, line, clean, displayVars>>
  PROVE  ScreenInv'
<1>1. TypeOK'
  BY DEF ScreenInv, TypeOK, displayVars
<1>2. LineKept'
  BY DEF ScreenInv, LineKept, displayVars
<1> QED
  BY <1>1, <1>2 DEF ScreenInv, AreaKept, LayoutKept, Shows, displayVars

LEMMA ResetInv ==
  ASSUME ScreenInv, Reset
  PROVE  ScreenInv'
<1>1. TypeOK'
  BY DisplayAssumption DEF ScreenInv, TypeOK, Reset, displayVars, UartAt
<1>2. LineKept'
  BY DEF ScreenInv, LineKept, Reset, displayVars
<1> QED
  BY <1>1, <1>2 DEF ScreenInv, AreaKept, LayoutKept, Shows, Reset, displayVars

LEMMA uart_taskInv ==
  ASSUME ScreenInv, uart_task
  PROVE  ScreenInv'
<1>1. CASE Reset
  BY <1>1, ResetInv
<1>2. CASE SetupFails
  BY <1>2, SendInv, TextsAre DEF SetupFails, UartAt
<1>3. CASE Connected
  BY <1>3, SendInv, TextsAre DEF Connected, UartAt
<1>4. CASE NoAddress
  BY <1>4, QuietInv DEF NoAddress, UartAt
<1>5. CASE Ready
  BY <1>5, SendInv, TextsAre DEF Ready, UartAt
<1>6. CASE Notify
  <2>1. upc' = upc /\ upc = "flow" /\ UNCHANGED <<line, clean, displayVars>>
    BY <1>6 DEF Notify, uartVars
  <2> QED
    BY <1>6, <2>1, SendInv, TextsAre DEF Notify, UartAt
<1>7. CASE FlowFails
  BY <1>7, QuietInv DEF FlowFails, UartAt
<1> QED
  BY <1>1, <1>2, <1>3, <1>4, <1>5, <1>6, <1>7 DEF uart_task

LEMMA Received ==
  ASSUME ScreenInv, Receive
  PROVE  /\ Head(queue) \in Texts /\ Head(queue) = queue[1]
         /\ queue' \in Seq(Texts) /\ Len(queue') = Len(queue) - 1
         /\ \A i \in 1..Len(queue') : queue'[i] = queue[i + 1]
         /\ Len(queue) \in Nat /\ Len(queue) > 0
<1>1. queue \in Seq(Texts) /\ queue # <<>> /\ queue' = Tail(queue)
  BY DEF Receive, ScreenInv, TypeOK
<1>2. Len(queue) \in Nat /\ Len(queue) > 0
  BY <1>1
<1>3. Head(queue) \in Texts /\ Head(queue) = queue[1]
  BY <1>1, <1>2
<1>4. queue' \in Seq(Texts) /\ Len(queue') = Len(queue) - 1
  BY <1>1, <1>2
<1>5. \A i \in 1..Len(queue') : queue'[i] = queue[i + 1]
  BY <1>1, <1>2, <1>4
<1> QED
  BY <1>2, <1>3, <1>4, <1>5

LEMMA ReceiveInv ==
  ASSUME ScreenInv, Receive
  PROVE  ScreenInv'
<1>0. Len(queue) \in Nat /\ Len(queue) <= QueueSize /\ QueueSize \in Nat
  BY DisplayAssumption DEF ScreenInv, TypeOK
<1>1. /\ Head(queue) \in Texts
      /\ queue' \in Seq(Texts) /\ Len(queue') <= QueueSize
  BY <1>0, Received
<1>2. TypeOK'
  BY <1>1 DEF Receive, ScreenInv, TypeOK, DisplayAt, uartVars
<1>3. LineKept'
  BY <1>1 DEF Receive, ScreenInv, LineKept, uartVars
<1> QED
  BY <1>2, <1>3 DEF Receive, ScreenInv, AreaKept, LayoutKept, Shows

LEMMA SwitchInv ==
  ASSUME ScreenInv, Switch
  PROVE  ScreenInv'
<1>1. /\ screen' \in Screens
      /\ LayoutKept'
      /\ line = 3 => screen'.scEnable
      /\ line # 3 => screen'.scEnable = screen.scEnable
      /\ screen'.scEnable => /\ screen'.scStart = ScrollStart
                             /\ screen'.scEnd = ScrollEnd
  BY SwitchScreen DEF ScreenInv
<1>2. TypeOK'
  BY <1>1 DEF Switch, ScreenInv, TypeOK, DisplayAt, uartVars
<1>3. LineKept'
  BY DEF Switch, ScreenInv, LineKept, uartVars
<1>4. AreaKept'
  BY <1>1 DEF Switch, ScreenInv, AreaKept
<1> QED
  BY <1>1, <1>2, <1>3, <1>4 DEF ScreenInv

LEMMA LoadInv ==
  ASSUME ScreenInv, LoadGap \/ LoadCount
  PROVE  ScreenInv'
<1>1. TypeOK'
  BY DEF LoadGap, LoadCount, Load, ScreenInv, TypeOK, DisplayAt, uartVars
<1>2. LineKept'
  BY DEF LoadGap, LoadCount, Load, ScreenInv, LineKept, uartVars
<1>3. AreaKept'
  BY DEF LoadGap, LoadCount, Load, ScreenInv, AreaKept
<1>4. LayoutKept'
  BY DEF LoadGap, LoadCount, Load, ScreenInv, LayoutKept, Shows
<1> QED
  BY <1>1, <1>2, <1>3, <1>4 DEF ScreenInv

LEMMA StoreInv ==
  ASSUME ScreenInv, StoreGap \/ StoreCount
  PROVE  ScreenInv'
<1>1. /\ line' \in 1..LineCap
      /\ reg < 4 => line' = reg + 1
      /\ reg \in 0..LineCap
  BY IncreasedTypes DEF StoreGap, StoreCount, Store, ScreenInv, TypeOK
<1>2. line' \in 0..LineCap /\ line' # 0
  BY <1>1, DisplayAssumption
<1>3. TypeOK'
  BY <1>2, DisplayAssumption
     DEF StoreGap, StoreCount, Store, ScreenInv, TypeOK, DisplayAt, uartVars
<1>4. LineKept'
  <2>1. CASE StoreGap
    <3>1. line' # 3
      BY <2>1, <1>1 DEF StoreGap, Store, ScreenInv, LineKept
    <3> QED
      BY <2>1, <3>1, <1>2 DEF StoreGap, Store, ScreenInv, LineKept, uartVars
  <2>2. CASE StoreCount
    BY <2>2, <1>2 DEF StoreCount, Store, LineKept
  <2> QED
    BY <2>1, <2>2
<1>5. AreaKept'
  <2>1. CASE StoreGap
    BY <2>1 DEF StoreGap, Store, ScreenInv, AreaKept
  <2>2. CASE StoreCount
    <3>1. line' > 3 => reg > 3
      BY <2>2, <1>1 DEF StoreCount, Store, ScreenInv, LineKept
    <3> QED
      BY <2>2, <3>1 DEF StoreCount, Store, ScreenInv, AreaKept
  <2> QED
    BY <2>1, <2>2
<1>6. LayoutKept'
  BY DEF StoreGap, StoreCount, Store, ScreenInv, LayoutKept, Shows
<1> QED
  BY <1>3, <1>4, <1>5, <1>6 DEF ScreenInv

LEMMA ChooseInv ==
  ASSUME ScreenInv, Choose
  PROVE  ScreenInv'
<1>1. TypeOK'
  BY DEF Choose, ScreenInv, TypeOK, DisplayAt, uartVars
<1>2. line \in Int /\ line > 0 /\ line # 3
  BY DisplayAssumption DEF Choose, ScreenInv, TypeOK, LineKept
<1>3. LineKept'
  BY <1>2 DEF Choose, ScreenInv, LineKept, uartVars
<1>4. AreaKept'
  BY <1>2 DEF Choose, ScreenInv, AreaKept
<1> QED
  BY <1>1, <1>3, <1>4 DEF Choose, ScreenInv, LayoutKept, Shows

LEMMA HeaderInv ==
  ASSUME ScreenInv, Header
  PROVE  ScreenInv'
<1>1. text \in Texts
  BY DEF Header, ScreenInv, LineKept
<1>2. /\ screen' \in Screens
      /\ LayoutKept'
      /\ line \in {1, 2}
      /\ screen'.scEnable = screen.scEnable
      /\ screen'.scStart = screen.scStart /\ screen'.scEnd = screen.scEnd
  BY <1>1, HeaderScreen DEF ScreenInv
<1>3. TypeOK'
  BY <1>2 DEF Header, ScreenInv, TypeOK, DisplayAt, uartVars
<1>4. LineKept'
  BY <1>2 DEF Header, ScreenInv, LineKept, uartVars
<1>5. AreaKept'
  BY <1>2 DEF Header, ScreenInv, AreaKept
<1> QED
  BY <1>2, <1>3, <1>4, <1>5 DEF ScreenInv

LEMMA ScrollInv ==
  ASSUME ScreenInv, Scroll
  PROVE  ScreenInv'
<1>1. text \in Texts
  BY DEF Scroll, ScreenInv, LineKept
<1>2. /\ screen' \in Screens
      /\ LayoutKept'
      /\ screen'.scEnable = screen.scEnable
      /\ screen'.scStart = screen.scStart /\ screen'.scEnd = screen.scEnd
  BY <1>1, ScrollScreen DEF ScreenInv
<1>3. TypeOK'
  BY <1>2 DEF Scroll, ScreenInv, TypeOK, DisplayAt, uartVars
<1>4. LineKept'
  BY DEF Scroll, ScreenInv, LineKept, uartVars
<1>5. AreaKept'
  BY <1>2 DEF Scroll, ScreenInv, AreaKept
<1> QED
  BY <1>2, <1>3, <1>4, <1>5 DEF ScreenInv

LEMMA InitInv == Init => ScreenInv
<1> SUFFICES ASSUME Init PROVE ScreenInv
  OBVIOUS
<1>1. /\ screen \in Screens
      /\ screen.page[0] = Over(EmptyPage, Banner)
      /\ \A p \in PageNumbers \ {0} : screen.page[p] = EmptyPage
      /\ screen.scEnable = FALSE
  BY NewScreen, BannerWritten DEF Init
<1>2. LayoutKept
  BY <1>1, PagesAre DEF LayoutKept, Shows
<1>3. queue \in Seq(Texts) /\ Len(queue) <= QueueSize
  BY DisplayAssumption DEF Init
<1>c. clean \in BOOLEAN
  BY DEF Init
<1>4. TypeOK
  BY <1>1, <1>3, <1>c, DisplayAssumption DEF Init, TypeOK, UartAt, DisplayAt
<1>5. LineKept
  BY DEF Init, LineKept
<1>6. AreaKept
  BY <1>1 DEF Init, AreaKept
<1> QED
  BY <1>2, <1>4, <1>5, <1>6 DEF ScreenInv

LEMMA StepInv == ScreenInv /\ [Next]_vars => ScreenInv'
<1> SUFFICES ASSUME ScreenInv, [Next]_vars PROVE ScreenInv'
  OBVIOUS
<1>1. CASE UNCHANGED vars
  BY <1>1 DEF ScreenInv, TypeOK, LineKept, AreaKept, LayoutKept, Shows, vars,
              uartVars, displayVars
<1>2. CASE uart_task
  BY <1>2, uart_taskInv
<1>3. CASE display_task
  BY <1>3, ReceiveInv, SwitchInv, LoadInv, StoreInv, ChooseInv, HeaderInv,
     ScrollInv DEF display_task
<1> QED
  BY <1>1, <1>2, <1>3 DEF Next

LEMMA ScreenKept == Spec => []ScreenInv
  BY InitInv, StepInv, PTL DEF Spec
(***************************************************************************)
(* The fields are within their types and the queue within its size.        *)
(***************************************************************************)
THEOREM TypesKept == Spec => []TypeOK
<1>1. ScreenInv => TypeOK
  BY DEF ScreenInv
<1> QED
  BY <1>1, ScreenKept, PTL

(***************************************************************************)
(* Page 0 shows the banner and page 3 is empty, whenever uart_task resets  *)
(* _current_line ("Not care about race", smsf-main.c:124).                 *)
(***************************************************************************)
THEOREM LayoutIsKept == Spec => []LayoutKept
<1>1. ScreenInv => LayoutKept
  BY DEF ScreenInv
<1> QED
  BY <1>1, ScreenKept, PTL

(***************************************************************************)
(* No text is swallowed by ssd1306_scroll_text() for want of a scroll area.*)
(***************************************************************************)
THEOREM ScrollIsReady == Spec => []ScrollReady
<1>1. ScreenInv => ScrollReady
  BY DEF ScreenInv, AreaKept, ScrollReady
<1> QED
  BY <1>1, ScreenKept, PTL

-----------------------------------------------------------------------------
(***************************************************************************)
(* Every action keeps HeaderKept.  First uart_task: a text is appended or  *)
(* lost, and the texts before it stay where they are.                      *)
(***************************************************************************)
LEMMA SentKeeps ==
  ASSUME ScreenInv, NEW t \in Texts, send_to_display(t)
  PROVE  /\ \A u : (Next1(u) => Next1(u)') /\ (Next2(u) => Next2(u)')
         /\ queue = <<>> => Next1(t)' /\ Len(queue') = 1
         /\ QueueSize > 1 /\ Len(queue) = 1 => Next2(t)'
<1>1. /\ queue \in Seq(Texts) /\ Len(queue) \in Nat
      /\ QueueSize \in Nat /\ QueueSize > 0
  BY DisplayAssumption DEF ScreenInv, TypeOK
<1>2. CASE Len(queue) < QueueSize
  <2>1. queue' = Append(queue, t)
    BY <1>2 DEF send_to_display
  <2>2. /\ Len(queue') = Len(queue) + 1
        /\ queue'[Len(queue) + 1] = t
        /\ \A i \in 1..Len(queue) : queue'[i] = queue[i]
    BY <1>1, <2>1
  <2>3. \A u : (Next1(u) => Next1(u)') /\ (Next2(u) => Next2(u)')
    BY <1>1, <2>2 DEF Next1, Next2
  <2>4. queue = <<>> => Next1(t)' /\ Len(queue') = 1
    <3> SUFFICES ASSUME queue = <<>> PROVE Next1(t)' /\ Len(queue') = 1
      OBVIOUS
    <3>1. Len(queue) = 0
      OBVIOUS
    <3> QED
      BY <2>2, <3>1 DEF Next1
  <2>5. QueueSize > 1 /\ Len(queue) = 1 => Next2(t)'
    BY <2>2 DEF Next2
  <2> QED
    BY <2>3, <2>4, <2>5
<1>3. CASE ~ (Len(queue) < QueueSize)
  <2>1. queue' = queue
    BY <1>3 DEF send_to_display
  <2>2. queue # <<>> /\ ~ (QueueSize > 1 /\ Len(queue) = 1)
    BY <1>1, <1>3
  <2> QED
    BY <2>1, <2>2 DEF Next1, Next2
<1> QED
  BY <1>2, <1>3

LEMMA BothStay ==
  ASSUME BothSent, UNCHANGED <<line, displayVars>>,
         \A u : (Next1(u) => Next1(u)') /\ (Next2(u) => Next2(u)')
  PROVE  BothSent'
  BY DEF BothSent, Waits, Works, Counts, Cleared, Shows, displayVars

LEMMA SecondSent ==
  ASSUME ScreenInv, QueueSize > 1, OneSent(Operator), send_to_display(Phone),
         UNCHANGED <<line, displayVars>>
  PROVE  BothSent'
<1>1. /\ \A u : (Next1(u) => Next1(u)') /\ (Next2(u) => Next2(u)')
      /\ queue = <<>> => Next1(Phone)'
      /\ Len(queue) = 1 => Next2(Phone)'
  BY SentKeeps, TextsAre
<1>2. CASE Waits(1) /\ Next1(Operator) /\ Len(queue) = 1
  BY <1>1, <1>2 DEF BothSent, Waits, displayVars
<1>3. CASE Works(1, Operator) /\ queue = <<>> /\ Cleared(1)
           /\ (dpc # "switch" => screen.page[2] = EmptyPage)
  BY <1>1, <1>3 DEF BothSent, Works, Cleared, displayVars
<1>4. CASE Counts(1) /\ queue = <<>> /\ screen.page[2] = EmptyPage
           /\ Shows(1, Operator)
  BY <1>1, <1>4 DEF BothSent, Counts, Shows, displayVars
<1>5. CASE Waits(2) /\ queue = <<>> /\ screen.page[2] = EmptyPage
           /\ Shows(1, Operator)
  BY <1>1, <1>5 DEF BothSent, Waits, Shows, displayVars
<1> QED
  BY <1>2, <1>3, <1>4, <1>5 DEF OneSent

LEMMA uart_taskHeader ==
  ASSUME ScreenInv, HeaderKept, QueueSize > 1, uart_task
  PROVE  HeaderKept'
<1>1. CASE Reset
  BY <1>1 DEF Reset, HeaderKept, Waits, displayVars
<1>2. CASE SetupFails
  <2>1. PICK t \in Failure : send_to_display(t)
    BY <1>2 DEF SetupFails
  <2>2. queue = <<>> => Next1(t)' /\ Len(queue') = 1
    BY <2>1, SentKeeps, TextsAre
  <2>3. clean => Waits(1) /\ queue = <<>>
    BY <1>2 DEF SetupFails, HeaderKept
  <2>4. clean => OneSent(t)'
    BY <1>2, <2>2, <2>3 DEF SetupFails, OneSent, Waits, displayVars
  <2> QED
    BY <1>2, <2>4, TextsAre DEF SetupFails, HeaderKept
<1>3. CASE Connected
  <2>1. queue = <<>> => Next1(Operator)' /\ Len(queue') = 1
    BY <1>3, SentKeeps, TextsAre DEF Connected
  <2>2. clean => Waits(1) /\ queue = <<>>
    BY <1>3 DEF Connected, HeaderKept
  <2>3. clean => OneSent(Operator)'
    BY <1>3, <2>1, <2>2 DEF Connected, OneSent, Waits, displayVars
  <2> QED
    BY <1>3, <2>3 DEF Connected, HeaderKept
<1>4. CASE NoAddress
  <2>1. clean => OneSent(Operator)
    BY <1>4 DEF NoAddress, HeaderKept
  <2>2. clean => OneSent(Operator)'
    BY <1>4, <2>1 DEF NoAddress, OneSent, Waits, Works, Counts, Cleared, Shows,
                      Next1, displayVars
  <2> QED
    BY <1>4, <2>2, TextsAre DEF NoAddress, HeaderKept
<1>5. CASE Ready
  <2>1. clean => OneSent(Operator)
    BY <1>5 DEF Ready, HeaderKept
  <2>2. clean => BothSent'
    BY <1>5, <2>1, SecondSent DEF Ready
  <2> QED
    BY <1>5, <2>2 DEF Ready, HeaderKept
<1>6. CASE Notify
  <2>1. PICK t \in Status : send_to_display(t)
    BY <1>6 DEF Notify
  <2>2. \A u : (Next1(u) => Next1(u)') /\ (Next2(u) => Next2(u)')
    BY <2>1, SentKeeps, TextsAre
  <2>3. clean => BothSent
    BY <1>6 DEF Notify, HeaderKept
  <2>4. clean => BothSent'
    BY <1>6, <2>2, <2>3, BothStay DEF Notify
  <2> QED
    BY <1>6, <2>4 DEF Notify, HeaderKept, uartVars
<1>7. CASE FlowFails
  <2>1. clean => BothSent
    BY <1>7 DEF FlowFails, HeaderKept
  <2>2. clean => BothSent'
    BY <1>7, <2>1, BothStay DEF FlowFails, Next1, Next2
  <2> QED
    BY <1>7, <2>2 DEF FlowFails, HeaderKept
<1> QED
  BY <1>1, <1>2, <1>3, <1>4, <1>5, <1>6, <1>7 DEF uart_task
-----------------------------------------------------------------------------
(***************************************************************************)
(* Then display_task: the first text reaches page 1 and the second page 2. *)
(***************************************************************************)
LEMMA ReceiveHeader ==
  ASSUME ScreenInv, Receive
  PROVE  /\ BothSent => BothSent'
         /\ \A t : OneSent(t) => OneSent(t)'
<1>1. /\ dpc = "receive" /\ queue # <<>> /\ dpc' = "switch"
      /\ line' = line /\ screen' = screen
      /\ text' = queue[1]
      /\ Len(queue) \in Nat /\ Len(queue') = Len(queue) - 1
      /\ \A i \in 1..Len(queue') : queue'[i] = queue[i + 1]
      /\ queue' \in Seq(Texts)
  BY Received DEF Receive
<1>2. \A t : Next2(t) => Next1(t)'
  BY <1>1 DEF Next1, Next2
<1>3. Len(queue) = 1 => queue' = <<>>
  BY <1>1
<1>4. BothSent => BothSent'
  BY <1>1, <1>2 DEF BothSent, Waits, Works, Counts, Cleared, Shows, Next1
<1>5. \A t : OneSent(t) => OneSent(t)'
  BY <1>1, <1>3 DEF OneSent, Waits, Works, Counts, Cleared, Next1
<1> QED
  BY <1>4, <1>5

LEMMA SwitchHeader ==
  ASSUME ScreenInv, Switch
  PROVE  /\ BothSent => BothSent'
         /\ \A t : OneSent(t) => OneSent(t)'
<1>1. /\ line = 1 => screen'.page[1] = EmptyPage /\ screen'.page[2] = EmptyPage
      /\ line # 1 => screen'.page = screen.page
  BY SwitchScreen DEF ScreenInv
<1>2. /\ dpc = "switch" /\ dpc' \in {"gap", "choose"}
      /\ line' = line /\ queue' = queue /\ text' = text
      /\ dpc' = "gap" => line = 3
  BY DEF Switch
<1>3. BothSent => BothSent'
  BY <1>1, <1>2 DEF BothSent, Waits, Works, Counts, Cleared, Shows, Next1
<1>4. \A t : OneSent(t) => OneSent(t)'
  BY <1>1, <1>2 DEF OneSent, Waits, Works, Counts, Cleared
<1> QED
  BY <1>3, <1>4

LEMMA LoadHeader ==
  ASSUME ScreenInv, LoadGap \/ LoadCount
  PROVE  /\ BothSent => BothSent'
         /\ \A t : OneSent(t) => OneSent(t)'
<1>1. /\ \/ dpc = "gap" /\ dpc' = "gapped"
         \/ dpc = "count" /\ dpc' = "counted"
      /\ reg' = line /\ line' = line
      /\ queue' = queue /\ text' = text /\ screen' = screen
  BY DEF LoadGap, LoadCount, Load
<1>2. BothSent => BothSent'
  BY <1>1 DEF BothSent, Waits, Works, Counts, Shows, Next1
<1>3. \A t : OneSent(t) => OneSent(t)'
  BY <1>1 DEF OneSent, Waits, Works, Counts, Shows
<1> QED
  BY <1>2, <1>3

LEMMA StoreHeader ==
  ASSUME ScreenInv, StoreGap \/ StoreCount
  PROVE  /\ BothSent => BothSent'
         /\ \A t : OneSent(t) => OneSent(t)'
<1>1. /\ line' = Increased(reg) /\ reg \in 0..LineCap
      /\ \/ dpc = "gapped" /\ dpc' = "choose"
         \/ dpc = "counted" /\ dpc' = "receive"
      /\ queue' = queue /\ text' = text /\ screen' = screen
  BY DEF StoreGap, StoreCount, Store, ScreenInv, TypeOK
<1>2. /\ reg < 4 => line' = reg + 1
      /\ reg >= 4 => line' >= 4
      /\ reg \in Int /\ line' \in Int
  BY <1>1, IncreasedTypes, DisplayAssumption
<1>3. reg > 2 => line' > 2
  BY <1>2
<1>4. BothSent => BothSent'
  BY <1>1, <1>2, <1>3 DEF BothSent, Waits, Works, Counts, Shows, Next1
<1>5. \A t : OneSent(t) => OneSent(t)'
  BY <1>1, <1>2 DEF OneSent, Waits, Works, Counts, Shows
<1> QED
  BY <1>4, <1>5

LEMMA ChooseHeader ==
  ASSUME ScreenInv, Choose
  PROVE  /\ BothSent => BothSent'
         /\ \A t : OneSent(t) => OneSent(t)'
<1>1. /\ dpc = "choose" /\ dpc' = IF line < 4 THEN "header" ELSE "scroll"
      /\ line' = line /\ queue' = queue /\ text' = text /\ screen' = screen
  BY DEF Choose
<1>2. BothSent => BothSent'
  BY <1>1 DEF BothSent, Waits, Works, Counts, Cleared, Shows, Next1
<1>3. \A t : OneSent(t) => OneSent(t)'
  BY <1>1 DEF OneSent, Waits, Works, Counts, Cleared
<1> QED
  BY <1>2, <1>3

LEMMA HeaderHeader ==
  ASSUME ScreenInv, Header
  PROVE  /\ BothSent => BothSent'
         /\ \A t : OneSent(t) => OneSent(t)'
<1>1. text \in Texts
  BY DEF Header, ScreenInv, LineKept
<1>2. /\ line \in {1, 2}
      /\ screen'.page[line] = Over(screen.page[line], text)
      /\ line = 1 => screen'.page[2] = screen.page[2]
      /\ line = 2 => screen'.page[1] = screen.page[1]
  BY <1>1, HeaderScreen DEF ScreenInv
<1>3. /\ dpc = "header" /\ dpc' = "count"
      /\ line' = line /\ queue' = queue
  BY DEF Header
<1>4. BothSent => BothSent'
  BY <1>2, <1>3 DEF BothSent, Waits, Works, Counts, Cleared, Shows, Next1
<1>5. \A t : OneSent(t) => OneSent(t)'
  BY <1>2, <1>3 DEF OneSent, Waits, Works, Counts, Cleared, Shows
<1> QED
  BY <1>4, <1>5

LEMMA ScrollHeader ==
  ASSUME ScreenInv, Scroll
  PROVE  /\ BothSent => BothSent'
         /\ \A t : OneSent(t) => OneSent(t)'
<1>1. text \in Texts
  BY DEF Scroll, ScreenInv, LineKept
<1>2. screen'.page[1] = screen.page[1] /\ screen'.page[2] = screen.page[2]
  BY <1>1, ScrollScreen DEF ScreenInv
<1>3. /\ dpc = "scroll" /\ dpc' = "count"
      /\ line' = line /\ queue' = queue
  BY DEF Scroll
<1>4. BothSent => BothSent'
  BY <1>2, <1>3 DEF BothSent, Waits, Works, Counts, Shows
<1>5. \A t : OneSent(t) => OneSent(t)'
  BY <1>3 DEF OneSent, Waits, Works, Counts
<1> QED
  BY <1>4, <1>5

LEMMA display_taskHeader ==
  ASSUME ScreenInv, HeaderKept, display_task
  PROVE  HeaderKept'
<1>1. /\ BothSent => BothSent'
      /\ \A t : OneSent(t) => OneSent(t)'
  BY ReceiveHeader, SwitchHeader, LoadHeader, StoreHeader, ChooseHeader,
     HeaderHeader, ScrollHeader DEF display_task
<1>2. UNCHANGED uartVars /\ ~ (dpc = "receive" /\ queue = <<>>)
  BY DEF display_task, Receive, Switch, LoadGap, LoadCount, Load, StoreGap,
         StoreCount, Store, Choose, Header, Scroll
<1> QED
  BY <1>1, <1>2 DEF HeaderKept, Waits, uartVars

(***************************************************************************)
(* The operator and the number are on lines 1 and 2 after a set-up that    *)
(* began while nothing was waiting or being shown (README:32-35), if the   *)
(* queue holds the two texts.                                              *)
(***************************************************************************)
THEOREM HeaderIsShown ==
  ASSUME QueueSize > 1
  PROVE  Spec => []HeaderShown
<1>1. Init => HeaderKept
  BY DEF Init, HeaderKept
<1>2. ScreenInv /\ HeaderKept /\ [Next]_vars => HeaderKept'
  <2> SUFFICES ASSUME ScreenInv, HeaderKept, [Next]_vars PROVE HeaderKept'
    OBVIOUS
  <2>1. CASE UNCHANGED vars
    BY <2>1 DEF HeaderKept, BothSent, OneSent, Waits, Works, Counts, Cleared, Shows,
                Next1, Next2, vars, uartVars, displayVars
  <2> QED
    BY <2>1, uart_taskHeader, display_taskHeader DEF Next
<1>3. ScreenInv /\ HeaderKept => HeaderShown
  <2> SUFFICES ASSUME ScreenInv, HeaderKept, clean, dpc = "receive", line > 2
               PROVE  Shows(1, Operator) /\ Shows(2, Phone)
    BY DEF HeaderShown
  <2>1. ~ Waits(1) /\ ~ Waits(2)
    BY DEF Waits
  <2>2. \A k, t : ~ Works(k, t) /\ ~ Counts(k)
    BY DEF Works, Counts
  <2>3. upc \in UartAt
    BY DEF ScreenInv, TypeOK
  <2>4. BothSent
    BY <2>1, <2>2, <2>3 DEF HeaderKept, OneSent, UartAt
  <2> QED
    BY <2>1, <2>2, <2>4 DEF BothSent
<1> QED
  BY <1>1, <1>2, <1>3, ScreenKept, PTL DEF Spec
=============================================================================
