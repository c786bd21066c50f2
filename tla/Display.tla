----------------------------- MODULE Display -----------------------------
(***************************************************************************)
(* The stand-alone device, main/smsf-main.c: uart_task runs the flow and   *)
(* sends its status texts through a queue to display_task, which lays them *)
(* out on the screen.  Both write _current_line without a lock; every      *)
(* access to the volatile variable is a step of its own.  Of the flow only *)
(* the notify() calls are left: one of flow_setup() and any of flow().     *)
(***************************************************************************)
EXTENDS Ssd1306, Sequences

CONSTANTS QueueSize,    \* 5
          ScrollStart,  \* 4
          ScrollEnd,    \* 7
          LineCap,      \* bound of _current_line: all values above 3 act alike
          Banner,       \* "DM\S <version>"
          Operator,     \* the texts of flow_setup()
          Phone,
          Failure,      \*   "Modem error", "No connection"
          Status        \* the texts of flow(): "Messages: n", "Deleted #n", ...

ASSUME DisplayAssumption ==
  /\ QueueSize \in Nat \ {0}
  /\ LineCap \in Nat /\ LineCap >= 4
  /\ ScrollStart = 4 /\ ScrollEnd \in Nat
  /\ ScrollStart < ScrollEnd /\ ScrollEnd < Pages
  /\ {Banner, Operator, Phone} \cup Failure \cup Status \subseteq Texts

VARIABLES queue,   \* _queue
          line,    \* _current_line
          screen,  \* _disp
          upc,     \* where uart_task is
          dpc,     \* where display_task is
          text,    \* recv_message, Blank after its last use
          reg,     \* the register of `_current_line += 1'
          clean    \* history: nothing was waiting or being shown when
                   \* uart_task last began the set-up

uartVars == <<upc, clean>>
displayVars == <<screen, dpc, text, reg>>
vars == <<queue, line, uartVars, displayVars>>

display_banner(dev) ==
  ssd1306_display_text(ssd1306_clear_screen(dev), 0, Banner)

\* app_main(): the banner is shown before the tasks start.
Init == /\ queue = <<>>
        /\ line = 0
        /\ screen = display_banner(ssd1306_init)
        /\ upc = "reset" /\ dpc = "receive"
        /\ text = Blank /\ reg = 0
        /\ clean = FALSE

-----------------------------------------------------------------------------
\* Mutant: the queue grows.
SendAlways(t) == queue' = Append(queue, t)

\* Mutant: the newest text takes the place of the one before it.
SendOver(t) == queue' = IF Len(queue) < QueueSize THEN Append(queue, t)
                        ELSE SubSeq(queue, 1, Len(queue) - 1) \o <<t>>

\* xQueueSend() without waiting: a text that finds the queue full is lost.
send_to_display(t) ==
  queue' = IF Len(queue) < QueueSize THEN Append(queue, t) ELSE queue

Reset == /\ upc = "reset"
         /\ line' = 1
         /\ clean' = (queue = <<>> /\ dpc = "receive")
         /\ upc' = "setup"
         /\ UNCHANGED <<queue, displayVars>>

\* Mutant: nothing is said of the error.
FailsSilently == /\ upc = "setup"
                 /\ upc' = "reset"
                 /\ UNCHANGED <<queue, line, clean, displayVars>>

SetupFails == /\ upc = "setup"
              /\ \E t \in Failure : send_to_display(t)
              /\ upc' = "reset"
              /\ UNCHANGED <<line, clean, displayVars>>

Connected == /\ upc = "setup"
             /\ send_to_display(Operator)
             /\ upc' = "address"
             /\ UNCHANGED <<line, clean, displayVars>>

\* No contact with the destination address: nothing is shown.
NoAddress == /\ upc = "address"
             /\ upc' = "reset"
             /\ UNCHANGED <<queue, line, clean, displayVars>>

Ready == /\ upc = "address"
         /\ send_to_display(Phone)
         /\ upc' = "flow"
         /\ UNCHANGED <<line, clean, displayVars>>

Notify == /\ upc = "flow"
          /\ \E t \in Status : send_to_display(t)
          /\ UNCHANGED <<line, uartVars, displayVars>>

FlowFails == /\ upc = "flow"
             /\ upc' = "reset"
             /\ UNCHANGED <<queue, line, clean, displayVars>>

uart_task == \/ Reset \/ SetupFails \/ Connected \/ NoAddress \/ Ready
             \/ Notify \/ FlowFails

-----------------------------------------------------------------------------
Increased(n) == IF n < LineCap THEN n + 1 ELSE LineCap

Receive == /\ dpc = "receive"
           /\ queue # <<>>
           /\ text' = Head(queue)
           /\ queue' = Tail(queue)
           /\ dpc' = "switch"
           /\ UNCHANGED <<line, screen, reg, uartVars>>

\* Mutant: no empty line is left before the scroll area.
SwitchNoGap ==
  /\ dpc = "switch"
  /\ screen' = IF line = 1 THEN display_banner(screen)
               ELSE IF line = 3
                 THEN ssd1306_software_scroll(screen, ScrollStart, ScrollEnd)
               ELSE screen
  /\ dpc' = "choose"
  /\ UNCHANGED <<queue, line, text, reg, uartVars>>

\* switch (_current_line)
Switch ==
  /\ dpc = "switch"
  /\ screen' = IF line = 1 THEN display_banner(screen)
               ELSE IF line = 3
                 THEN ssd1306_software_scroll(screen, ScrollStart, ScrollEnd)
               ELSE screen
  /\ dpc' = IF line = 3 THEN "gap" ELSE "choose"
  /\ UNCHANGED <<queue, line, text, reg, uartVars>>

\* _current_line += 1, in two steps.
Load(from, to) == /\ dpc = from
                  /\ reg' = line
                  /\ dpc' = to
                  /\ UNCHANGED <<queue, line, screen, text, uartVars>>

Store(from, to) == /\ dpc = from
                   /\ line' = Increased(reg)
                   /\ reg' = 0
                   /\ dpc' = to
                   /\ UNCHANGED <<queue, screen, text, uartVars>>

LoadGap == Load("gap", "gapped")
StoreGap == Store("gapped", "choose")
LoadCount == Load("count", "counted")
StoreCount == Store("counted", "receive")

Choose == /\ dpc = "choose"
          /\ dpc' = IF line < 4 THEN "header" ELSE "scroll"
          /\ UNCHANGED <<queue, line, screen, text, reg, uartVars>>

\* _current_line is read once more, for the page.
Header == /\ dpc = "header"
          /\ screen' = ssd1306_display_text(screen, line, text)
          /\ text' = Blank
          /\ dpc' = "count"
          /\ UNCHANGED <<queue, line, reg, uartVars>>

Scroll == /\ dpc = "scroll"
          /\ screen' = ssd1306_scroll_text(screen, text)
          /\ text' = Blank
          /\ dpc' = "count"
          /\ UNCHANGED <<queue, line, reg, uartVars>>

display_task == \/ Receive \/ Switch \/ LoadGap \/ StoreGap \/ Choose
                \/ Header \/ Scroll \/ LoadCount \/ StoreCount

-----------------------------------------------------------------------------
Next == uart_task \/ display_task

Spec == Init /\ [][Next]_vars

FairSpec == Spec /\ WF_vars(uart_task) /\ WF_vars(display_task)
=============================================================================
