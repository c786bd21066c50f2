------------------------------ MODULE MCFlow ------------------------------
(***************************************************************************)
(* Instances of the forwarder for TLC.                                     *)
(***************************************************************************)
EXTENDS FlowProperties

Primary == 1      \* the destination number
Alice == 2
Bob == 3

Plain(from, at, h) ==
  [sender |-> from, ts |-> at, hash |-> h, ref |-> 0, parts |-> 0, no |-> 0,
   cmd |-> "none", val |-> 0, pdus |-> 1, good |-> TRUE]

Part(from, at, h, r, k, of) ==
  [Plain(from, at, h) EXCEPT !.ref = r, !.parts = of, !.no = k]

Command(name, v, at, h) ==
  [Plain(Primary, at, h) EXCEPT !.cmd = name, !.val = v]

\* The second contact is the one flow_setup() looks for.
Book2 == <<[primary |-> FALSE, number |-> Bob],
           [primary |-> TRUE, number |-> Primary]>>

Verbose == [forward |-> 1, multipart |-> 1, may_delete |-> 1, header |-> 1,
            expire |-> 1, verbosity |-> 7]
Quiet == [Verbose EXCEPT !.verbosity = 3]

\* The second message makes the first too old; both hash to one slot.
SmsPromise == <<Plain(Alice, 10, 0), Plain(Bob, 200, 3),
                Command("CLEAR", 0, 60, 1), Part(Alice, 10, 4, 7, 1, 2)>>

\* Commands, a text of Alice's that looks like one, and the last part of a
\* split message twice, in the two different PDUs of a repeated delivery.
SmsCommands == <<Command("SAVED", 0, 10, 0), Command("CONTACTS", 0, 11, 1),
                 Command("forward", 0, 12, 1),
                 [Plain(Alice, 13, 0) EXCEPT !.cmd = "CLEAR"],
                 Part(Alice, 10, 0, 7, 2, 2), Part(Alice, 11, 1, 7, 2, 2)>>

\* Two split messages of different reference, the first sent in two PDUs, and
\* a command that switches deletion off.
SmsSplit == <<[Part(Alice, 10, 0, 7, 1, 2) EXCEPT !.pdus = 2],
              Part(Alice, 11, 1, 7, 2, 2),
              Part(Bob, 10, 0, 8, 1, 2), Part(Bob, 12, 1, 8, 2, 2),
              Command("may_delete", 0, 12, 1)>>

\* A split message, and another sender's part with the same reference.
SmsMixed == <<Part(Alice, 10, 0, 7, 1, 2), Part(Alice, 11, 1, 7, 2, 2),
              Part(Bob, 12, 1, 7, 2, 2)>>

\* A message in two PDUs, a shorter one and a command.
SmsLive == <<[Plain(Alice, 10, 0) EXCEPT !.pdus = 2], Plain(Bob, 200, 0),
             Command("CLEAR", 0, 60, 1)>>

\* Two ordinary messages.
SmsPair == <<Plain(Alice, 10, 0), Plain(Bob, 11, 1)>>
=============================================================================
