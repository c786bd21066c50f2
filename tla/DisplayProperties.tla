------------------------ MODULE DisplayProperties ------------------------
(***************************************************************************)
(* What must be true of the screen of the device.                          *)
(***************************************************************************)
EXTENDS Display

UartAt == {"reset", "setup", "address", "flow"}
DisplayAt == {"receive", "switch", "gap", "gapped", "choose", "header",
              "scroll", "count", "counted"}

(***************************************************************************)
(* The type invariant; a text on its way never finds more than QueueSize   *)
(* others in the queue.                                                    *)
(***************************************************************************)
TypeOK == /\ queue \in Seq(Texts) /\ Len(queue) <= QueueSize
          /\ line \in 0..LineCap
          /\ screen \in Screens
          /\ upc \in UartAt /\ dpc \in DisplayAt
          /\ text \in Texts \cup {Blank}
          /\ reg \in 0..LineCap
          /\ clean \in BOOLEAN

Shows(p, t) == screen.page[p] = Over(EmptyPage, t)

(***************************************************************************)
(* "Not care about race" (smsf-main.c:124): whenever uart_task resets      *)
(* _current_line, the layout in the comment of smsf-main.c:67-73 is kept   *)
(* in so far as page 0 always shows the banner and page 3 stays empty.     *)
(***************************************************************************)
LayoutKept == Shows(0, Banner) /\ screen.page[3] = EmptyPage

(***************************************************************************)
(* No status text is swallowed by ssd1306_scroll_text(), which does        *)
(* nothing before the scroll area was set up: display_task takes that      *)
(* branch only after the one that sets it up, whatever uart_task does to   *)
(* _current_line between the two.                                          *)
(***************************************************************************)
ScrollReady == dpc = "scroll" => screen.scEnable

(***************************************************************************)
(* "ensure that the screen displays: DM\S <version>, the name of your GSM  *)
(* operator, the phone number for forwarding" (README:32-35): it does, in  *)
(* this order, after a set-up that began while nothing was waiting or      *)
(* being shown, whatever is lost in a full queue and however quickly       *)
(* status texts follow.  (The comment of smsf-main.c:67-73 has the         *)
(* telephone in line 1 and the connection in line 2; the code does what    *)
(* the README says.)                                                       *)
(***************************************************************************)
HeaderShown == clean /\ dpc = "receive" /\ line > 2
                 => Shows(1, Operator) /\ Shows(2, Phone)

(***************************************************************************)
(* When the modem is gone for good - every set-up from some time on ends   *)
(* with "Modem error" or "No connection" - the screen says so again and    *)
(* again: neither the texts lost in a full queue nor the races on          *)
(* _current_line can hide it for ever.  (A set-up that finds no number to  *)
(* forward to is not reported at all, smsf-flow.c:453-456.)                *)
(***************************************************************************)
FailureShown ==
  <>[](upc \in {"reset", "setup"})
    => []<>(\E p \in PageNumbers : screen.page[p][1] \in Failure)
=============================================================================
