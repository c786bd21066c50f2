# s3smsf in TLA+

s3smsf reads the short messages on the SIM of a GSM modem and forwards them to
one number. This directory holds a model of its control flow in TLA+, the TLC
configurations that check it on small instances, and theorems about it proved
with TLAPS.

Run everything in this directory: `tlc -config flow_promise.cfg MCFlow` checks
one run, `tlapm CacheProofs.tla` one proof module.

## The system

| Part | Code | State | Operations |
|---|---|---|---|
| forwarder | `shared/smsf-flow.c`, loops in `main/smsf-main.c`, `main-linux/smsf-main.c` | `_dest_addr`, `_latest_msg_time`, locals of `flow()` | `flow_setup`, `flow`, `forward_message`, `delete_message`, `process_multipart_message`, `process_command_message` |
| cache of seen messages | `shared/smsf-flow.c` | `_saved_msgs[32]`, `forwarded` of each entry | find, add, remove, mark |
| AT layer | `shared/smsf-ata.c` | `_rd_buf` | `ata_*`, `send_command*`, `read_response`, `read_ok` |
| serial line | `main*/smsf-hal.c` | what was received and not read | `com_write`, `com_read` |
| modem, SIM, network | outside the repository | SIM places, text entry, answers | execute a line, take a PDU, store a message |
| options | `shared/smsf-logging.c`, `.h` | `_opts` | `set_option` |
| PDU coding | `shared/smsf-pdu.c`, `hex2bin` of `smsf-util.c` | none (pure) | `decode_pdu`, `decode_semi_octets`, `create_pdu`, `create_pdu_multipart` |
| display | `main/smsf-main.c` | queue of 5, `_current_line`, `_disp` | `app_main`, `display_task`, `uart_task`, `send_to_display` |
| display driver | `components/ssd1306/` | `_page`, `_scEnable`, `_scStart`, `_scEnd` | `ssd1306_init`, `_display_text`, `_clear_screen`, `_software_scroll`, `_scroll_text` |
| daemon | `main-linux/smsf-daemon.c`, start of `main()` | pid file, signals | `daemonize`, `write_pid_file`, `kill_running` |

How they interact. One task runs `flow_setup()` until it succeeds and then
`flow()` until it fails. `flow()` asks the modem for the number of messages n
and for the operator, and reads the indexes 1 to n. A message is judged by what
the cache says of it: not there - obey it if it is a command of the
destination, forward it if it is not a part of a longer one, and remember it;
there - delete it when it is expired or forwarded, try again when it is not,
put a split message together when this is its last part. All calls go through
one exchange: write a line, then read until the line is silent for 10 seconds.
Nothing ties the text that was read to the command that was written.

On the device a second task shows the status texts of the flow. The two meet in
a queue of five that is filled without waiting and in `_current_line`, which
both write without a lock. On Linux the flow runs in a process of its own; the
processes of several starts meet in one pid file, which is tested, truncated and
written in separate steps and never removed.

What is hard. The network stores messages between any two exchanges; every
exchange can be refused, lost, answered late or cut; sending, marking and
deleting a message are three separate exchanges in two passes; a restart empties
the cache and not the SIM; the cache is small; parts of split messages arrive in
any order and are told apart by very little. `PROJECT.json` lists the hazards
one by one, with the properties that watch them.

What makes each part correct. Forwarder: no message leaves the SIM before it
was forwarded or obeyed, unless it is expired or cleared; none is forwarded
twice while the program runs and the cache has room; no command is forwarded; a
split message is put together from its own parts; failures are retried until
they succeed; a deletion hits the message that was judged. Cache: no message
twice, nothing lost but by removal or overflow. PDU coding: the text survives
the split, the length announced is the length carried, the number written is the
number meant. Display: the layout survives the races, the operator and the
number can be read, a modem that is gone shows. Daemon: one instance, the one in
the pid file; -K hits it and ends.

## Modules

| Module | Models | State | Actions |
|---|---|---|---|
| `Messages` | `struct sms_message` after `decode_pdu()`, `compare_messages()`, `_opts`, `set_option()` | - | - |
| `SavedMessages` | the functions of the cache, as operators on a cache | - | - |
| `Modem` | the modem, the SIM and the line, with their faults; what `com_read()` returns and what `smsf-ata.c` finds in it | `incoming sim mode link io faults` | `Type(c)`, `SubmitAccepted`, `SubmitRefused`, `SubmitIgnored`, `Take(r)`, `Arrive(m)` |
| `Flow` | `flow_setup()`, `flow()`, the main loop and every exchange they make | `pc i n row msg job saved latest opts dest`, histories `delivered obeyed` | one per exchange, see below |
| `Forwarding` | the promise: receive, handle, erase | `coming stored handled` | `Receive Handle Erase EraseAll` |
| `FlowProperties` | the properties and the refinement of `Forwarding` | | |
| `MCFlow` | messages and phone book of the instances | | |
| `Address` | the numbers of a PDU: half octets, buffers, the announced length | - | - |
| `Pdu` | the user data of a PDU: coding, length field, buffers, what a telephone reads | - | - |
| `Relay` | one text from `decode_pdu()` to the telephone of the destination | `sms from to sender texts text coding ref parts offs out inbox ...` | `ReadMessage Refused Forward SplitPart Deliver` |
| `RelayProperties`, `MCRelay` | its properties and instances | | |
| `Ssd1306` | the calls of the display driver the program makes, as operators on a screen | - | - |
| `Display` | both tasks of the device | `queue line screen upc dpc text reg`, history `clean` | `Reset SetupFails Connected NoAddress Ready Notify FlowFails`; `Receive Switch LoadGap StoreGap Choose Header Scroll LoadCount StoreCount` |
| `DisplayProperties`, `MCDisplay` | its properties and an instance | | |
| `Daemon` | any number of processes from `main()` to the main loop, and -K | `file at opt got term reused`, histories `overlap torn stray` | `Invoke ForkFails Access ReadPid CheckPid Create Write CannotOpenFile com_open Ends`; `Find Probe Signal Verify`; `Terminate Crash Reuse` |
| `DaemonProperties`, `MCDaemon` | its properties and an instance | | |
| `FlowProofs` | what the functions of the cache do, for every cache; types of the modem and the forwarder | | |
| `CacheProofs` | the cache holds nothing twice; what is put together belongs together; commands are not sent | | |
| `PromiseProofs` | a deletion hits the message that was judged; `Flow` implements `Forwarding` | | |
| `OnceProofs` | a message is sent once, a command obeyed once | | |
| `PduProofs` | lemmas: joins of sequences, what a coding reads, digits in half octets, the arithmetic of the split | | |
| `RelayProofs` | reading, splitting and the whole way of a text, for all lengths and limits | | |
| `DisplayProofs` | the screen, for all queues and scroll areas | | |
| `DaemonProofs` | one daemon, which -K hits, for any number of processes | | |

`Flow` extends `Modem`, which extends `SavedMessages` and `Messages`;
`FlowProperties` instantiates `Forwarding` with `coming <- incoming`,
`stored <- Stored` (the messages on the SIM) and `handled <- Handled`
(delivered whole, or obeyed).

`Relay` extends `Pdu` and `Pdu` extends `Address`; `Display` extends `Ssd1306`.

`Relay` stands beside `Flow`: `Flow` says when a message is
read, sent and deleted, and knows of its text only in how many PDUs it goes out;
`Relay` says what becomes of the text. A character is a pair (part, place); a
coding places it at a multiple of 7 or 16 bits, so a reader who starts elsewhere
gets a garbled one. `sms.widths` gives the octets each character takes in UTF-8,
one to three: `decode_ucs2()` counts these against its buffer and takes back
three, so it can cut a character in two (`OctetsKept`, `Missing`), and
`encode_ucs2()` joins what is left of it with the first octets of the next part
(`Swallowed`). `SplitPart` is a round of the loop of
`create_pdu_multipart()`. A read behind the end of a PDU may yield a character or
the zero that ends the text (`Outcomes`). A number is a sequence of digits; what
fills its buffer runs into the time stamp behind it, as the C string does.

`Display` has one step for each read or write of the volatile `_current_line`,
so `_current_line += 1` is two (`Load`, `Store` through `reg`), and the switch,
the choice of the branch and the page each read it anew. Of the flow only its
`notify()` calls are left. `clean` remembers that nothing was waiting or being
shown when the set-up began. `Daemon` has one step for each system call on the
pid file or on another process, because any number of processes interleave
there; `overlap`, `torn` and `stray` record two starts at the same time, a pid
read from a truncated file, and a signal to a process that is not the program.

An exchange takes two steps. `Ask` (or `Submit`, for the PDU and its ^Z) is
`send_command()` together with what the modem does about it; the action named
for the exchange is `com_read()`, the search of the answer and everything the
code does up to its next command. Between the two, and before each, the network
may store a message. `pc` names the exchange:

| `pc` | command | code |
|---|---|---|
| `echo power network pdumode operator contact` | ATE0, CBC, CREG, CMGF, COPS, CPBR | `flow_setup()` |
| `count status read` | CPMS, COPS, CMGR | `flow()` |
| `prompt submit` | CMGS, the PDU | `ata_send_message_impl()` |
| `delete` | CMGD | `delete_message()` |
| `clear cset book dump` | CMGD=1,4, CSCS, CPBR, CMGL | `process_command_message()` |

`job` holds the arguments of a forward or a deletion while it is under way.
`Forwarded` is the point where the result of `forward_message()` reaches its
caller. `Restart` is a reset: memory empty, modem unchanged; the crash fault
leads to it, and so do the two places where the code dereferences a pointer that
was never set (`++SAVED` with a free slot, `msgs_as` with a missing part).

Abstractions. A message is a number; its record keeps what the code compares,
the command it holds, and in how many PDUs it goes out. A reply is one element
of `link`, with its OK; it arrives whole or not at all. Timestamps are seconds.
The numbers of a phone book entry fit (`create_pdu_impl()` refuses more than
twelve digits), and a PDU is never longer than 255 octets (`MSG_TEXT_LIMIT`
keeps it below). `slow_read` is never set, so the branch of CMGL through CMGR
does not run. `delivered` and `obeyed` count to 2.

What `com_read()` returns is `Readings`: all that is pending; with `"late"` only
its beginning, because the modem was silent for longer than the timeout; with
`"read"` nothing, because `select()` or `read()` failed on the way. A signal is
enough for that, and SIGHUP does not end the program. In the last two cases what
was not read stays on the line and is found by the next exchange.

Bounds, all constants: `SimSize` places, `SAVED_MESSAGES` slots (32 in the
code), `ContactsSearched` rows (9), `ContactsListed` rows (24), `EXPIRE` (a
day), `MaxFaults` faults of the kinds in `Faults`. Slots, rows and seconds are
scaled down so that the cache overflows, the phone book ends and messages
expire with three or four messages.

## Runs

| Run | Question | Bounds |
|---|---|---|
| `flow_promise` | Does the forwarder keep its promise through refused and lost commands, a failing network, write errors and crashes, as long as answers are read to their end? | 3 places, 3 slots, 4 messages (one expires another, one is ++CLEAR, one is half of a split message), 2 faults |
| `flow_commands` | Are commands obeyed and not sent, also when the cache overflows, answers come late, readings fail or the program crashes on them? | 2 places, 2 slots, 6 messages, 1 fault |
| `flow_split` | Is a message sent at most once, and put together from its own parts? | 3 places, 5 slots, two split messages and ++DELETE, 1 fault |
| `flow_live` | Does every message in reach get forwarded and deleted? | 2 places, 3 slots, 3 messages, 2 faults with late answers among them, fairness |
| `relay_text` | Does a text survive decoding, assembly, coding and split, and a number its buffers? | 39 messages, numbers of 11 to 13 digits, the limits of the code (140 octets) |
| `display` | Do layout, header and failures survive the races and the lost texts? | a queue of 2, 6 pages of one column, 5 texts, fairness |
| `daemon` | Is there one daemon, the registered one, and does -K hit it and end, unless its number is another process's? | 3 processes, one reused pid, fairness |
| `flow_partial` | The first of two PDUs refused, `ForwardedIsHandled` fails | 1 fault |
| `flow_mixed` | Two senders, one reference, `AssembledWhole` fails | no fault |
| `flow_unreached` | Two messages, `AllForwarded` fails | no fault |
| `relay_length` | A 7-bit text of 23 characters announced as 24, `LengthOfText` fails | as `relay_text` |
| `relay_number` | A number of twelve digits, `NumberReached` fails | as `relay_text` |

The seven passing runs fire every action and every alternative of the next-state
relations. Two faults are enough for the combinations the properties are about
(a failure and a crash, a failure and its failing retry); four messages fill the
cache of three and leave one out. In `flow_split` the cache has a slot for
each message, because with an overflowing cache a message is sent on every pass:
`ForwardedOnce` and `ObeyedOnce` hold only while the cache has room and the
program is not restarted, and the run states them under these bounds.

`relay_text` uses the real limits. Its messages have lengths on both sides of
each place where the code changes its mind; `MCRelay` names these places. It
shows that the split loses and repeats nothing, that no PDU announces more than
it carries, and that a message that goes out in UCS2 and whose parts fit the
buffer they are decoded into (in Cyrillic they always do) is shown whole behind
its header, unless the CRC of the text ends in a zero octet (`ForwardedWhole`).
What it does not show is what the code does not do: a 7-bit text loses its last
characters or gains one (`relay_length`) and is garbled when it is split, because the
telephone looks for its septets one bit later and parts are cut at octets; a
received text of more than 124 septets, or of more than 140 octets in UTF-8, is
cut by the buffer, in UCS2 perhaps in the middle of a character (`DecodedBegins`
says how much of it is lost); when such a part is put together with the next one,
the half character takes octets of it; a 7-bit part with an 8-bit reference can get a wrong character at its
end (`DecodedBegins` again), one with a 16-bit reference is garbled on reading.
The run ends when all PDUs have arrived, so its cfg does not look for deadlock.

`display` has a queue of two instead of five: two is the least that holds the
operator and the number, and it is full soonest. The area of two pages is enough
to scroll. A page has one column, which every text fills: with two of them there
are some nine million screens, too many for a run; that layout and header hold for
texts of any length is proved (`DisplayProofs`). Five values of
`_current_line` stand for all (`LineCap`): above 3 it is only counted. What the
races can do is less than the comment at `smsf-main.c:124` leaves open: pages 0
and 3 are never wrong, and nothing is scrolled before the area is set up. What
they can do is a second set-up that writes over the first one's texts, which is
why `HeaderShown` begins at a set-up that found nothing waiting or being shown.
The order of the header is that of the User Guide (`README.md:32-35`: version,
operator, telephone), which the code follows; the comment at
`smsf-main.c:67-73` has the telephone in line 1 and the connection in line 2, and
does not describe the code. `FailureShown` is about set-ups that end with a text
("Modem error", "No connection"). A set-up that finds no number to forward to
(`smsf-flow.c:453`) notifies nothing and is repeated for ever; it is `NoAddress`
in the model, and a hazard no property covers.

`daemon` has three processes: two that start and one that kills, or three that
start. Each pid is used by the program once and at most one is given to another
process. The processes may all have ended, so the cfg does not look for
deadlock. `overlap` is not a restriction of the run: two starts between the same
two steps do make two daemons, the property says that nothing else does.
`KillsTheDaemon` and `KillEnds` leave out a number that belongs to another
process by now: nothing keeps -K from using it, and that process may ignore
SIGTERM, in which case the loop of `kill_running()` has no end.

The five violations are disagreements between the code and a sentence of the
README or a comment; `findings` in `PROJECT.json` quotes the sentence and tells
the story of the counterexample. In short: only the last PDU's result counts;
parts are matched without their sender; the loop reads as many indexes as there
are messages although deletions leave gaps; the length of a 7-bit text is rounded
down; and the length of the destination is always eleven.

Three more kinds of failure are known and not kept as runs; they are in the
hazards. One answer that is late, or one left on the line by a reading that
failed, puts every later answer off by one: with `"late"` or with `"read"` in the
faults of `flow_promise` TLC shows a deletion that hits another message
(`DeletesWhatItRead`), so the promise is kept only while answers are read to their
end. A CMGS that gets no prompt counts as success, and
with `"noprompt"` there `ForwardedIsHandled` fails. A read that fails between
the prompt and the PDU leaves the modem in text entry, where it swallows every
command until the next PDU; with `"read"` in the faults of `flow_live` a
message stays for ever.

Fairness. `Flow`: weak fairness of `Step` - the task that runs the main loop is
scheduled, and the modem does something with what it is sent. No fairness is
assumed of the network, of a fault or of its absence; faults are limited by
`MaxFaults`, so `flow_live` says: after the last fault everything in reach is
eventually handled and erased. `NeverStuck` says "in reach" because of the gaps
`flow_unreached` shows. `Display`: weak fairness of each of the two tasks, which
FreeRTOS schedules; both block only in calls with a timeout or on the queue.
`Daemon`: weak fairness of the steps of -K and of the death of the program's own
processes of SIGTERM, whose handler exits; none of a start, a crash or the main
loop, and none of unrelated processes.

## Proofs

The assumptions are the named ASSUMEs of the modules: sizes are positive,
messages have the fields of their record and parts are numbered from 1 to their
number, options have a value in range, the limit of the user data is even and
leaves room for a header, a destination has at least eleven digits, the pages of
the display hold the scroll area. The theorems about `Flow` hold for every
sequence of messages, every SIM and cache size, every phone book and every set
of faults but those excluded below; those about `Relay` for every limit of the
user data, all lengths and numbers; those about `Display` for every queue and
scroll area below line 4; those about `Daemon` for any number of processes.

- `TypeCorrect` (`FlowProofs`): `Spec => []TypeOK`. `TypeOK` is not inductive:
  that `i` is an index of the SIM when a message is read or deleted, that a call
  has a message, and that a phone book row is positive depends on `pc`. `Placed`
  adds this; `TypeInv` is `TypeOK` with `Placed`. The proof has a lemma for each
  action; the lemmas on the modem say that whatever is pending on the line is a
  list of replies and that a search returns the value of one of them.
- `NoDuplicates` (`CacheProofs`): `Spec => []NoDuplicateEntry`. The search and
  the insertion are different steps, so the invariant needs `NewIsUnseen`: while a
  new message is being forwarded or obeyed it is still not in the cache. The lemmas
  of `FlowProofs` on the cache say that the search finds every match, that an insertion
  writes to at most one slot, and only to a free one.
- `PartsOfOneMessage` (`CacheProofs`): `Spec => []AssembledWhole` under
  `ReferencesDiffer`: parts with one reference and one number of parts are of one
  sender, and with one part number they are equal to `compare_messages()`. Nothing being twice in the
  cache, as many parts as the message has are all of it (`EveryPartCached`, a
  pigeonhole argument). `flow_mixed` shows that the hypothesis is needed: the code
  does not compare senders there.
- `CommandsAreNotSent` (`CacheProofs`): `Spec => []CommandsStay` for every set of
  faults, late answers and restarts included. The invariant `CommandInv` follows
  the number of the destination from the phone book to the test in `flow()`
  (`DestKept`) and says that no unsplit command of that number is in the cache
  unforwarded or in what is being sent. Hypotheses: every reading of the phone book
  gives the same number (`OneNumber`: -a, or one primary number), and messages
  equal to `compare_messages()` are the same command (`SameCommand`).
- `DeletesTheRightMessage` (`PromiseProofs`): `Spec => []DeletesWhatItRead` when
  neither `"late"` nor `"read"` is in `Faults` (`InTime`); the other faults may
  all happen. The invariant `InStep`
  says that nothing is pending when a line is written, so that what is found is
  the answer to this line, and that an answer to CMGR on the line tells what is
  at index i. A delivery keeps it because it only fills an empty place
  (`ArriveLeaves`); the actions that do not reach a deletion keep it because they
  drain the line (`TakeDrains`). The hypothesis is needed, see above.
- `FlagMeansHandled` and `ImplementsPromise` (`PromiseProofs`):
  `Spec => []ForwardedIsHandled` and `Spec => KeepsPromise`, the refinement of
  `Forwarding`. Hypothesis `Reliable`: no fault of the kinds late, read, noprompt
  and unanswered, each text in one PDU, no two messages equal to
  `compare_messages()`. The run `flow_partial` and the hazards show each to be
  needed. The invariant `PromiseInv` has a part for each thing the code relies on
  without testing it: a message is on the SIM once and after it came (`SimKept`);
  whatever the program deals with came (`CameKept`); during a forward the modem is
  ready for the line that is written next, what will be marked is what is being
  sent, and an answer without an error means that the network took it
  (`SendKept`); an answer to CMGR finds the modem taking commands (`ReadKept`);
  what is deleted is handled or too old, and the SIM is cleared only for a ++CLEAR
  that was obeyed (`CallKept`). Each action then maps to a step of `Forwarding` or
  to a stutter: `Deliver` to `Receive`, an accepted PDU and an obeyed command to
  `Handle`, an executed CMGD to `Erase` (because it hits the message that was
  judged) or to `EraseAll`.
- `SentOnce` and `CommandsOnce` (`OnceProofs`): `Spec => []ForwardedOnce` and
  `Spec => []ObeyedOnce`. Hypothesis `Lasting`: the program forgets nothing (no
  crash fault, no SAVED, which crashes on a free slot, and a slot for each message),
  no read fails and no answer is late (an OK that belongs to another line would
  remove the entry of a message that is still on the SIM), no two messages are
  equal to `compare_messages()`, and references differ. The other faults may all
  happen, any number of times; `flow_split` is an instance. The invariant `OnceInv`
  says what the cache must know of the past: what was handled and is on its way or
  on the SIM is in the cache or about to enter it (`Remembered`), with its flag if
  it was delivered (`Flagged`); what is being sent is all of a text and was not
  delivered before (`SendsOnce`); a CMGD that was answered OK took the message away
  for good, and its own entry is the one removed (`DeletesOnce`). Since it counts
  entries, the proof needs `NoDuplicates` for the free slot (`RoomLeft`).
- `NothingIsLost` (`PromiseProofs`): `Spec => []Promise!NothingLost` under `Reliable`,
  what the owner of the messages cares about: each one that came is on the SIM, forwarded, obeyed or too
  old. It is shown of `Forwarding` alone (`PromiseSaves`: a step of the promise
  moves no message out of these) and carried over to `Flow` by the refinement.
- `ReadFromTheBeginning` (`RelayProofs`): `Spec => []DecodedBegins`, by the
  invariant that what is in `texts` is what `decode_pdu()` makes of the part
  (`DecodeKept`); the rest is about `Reading`, `Septets` and the octets
  `decode_ucs2()` keeps: a text that fits is whole, and another one loses only
  characters that end in the last three octets of the buffer or behind it.
- `RelayTypes` (`RelayProofs`): `Spec => []TypeOK`. The other theorems of the relay
  rest on the invariant `RelayInv`, of which it is the first conjunct. The others
  are `DecodeKept`; `TextKept`: what is sent is what the parts that were read make,
  in the coding they need, to a number that is not too long; `CutKept`: after each
  round of the loop, where the next part begins; `PdusKept`: the k-th PDU is
  `NumberedPdu(k)`, full unless it is the last. That the join of texts is a text
  is not obvious to the provers, since `FlattenSeq` is a fold: it is unfolded to
  the function it chooses (`FlattenJoins`), whose existence and type are shown by
  a least counterexample, in place of the induction theorem they cannot use.
- `PartsAreRight`, `LengthsAreWithin` (`RelayProofs`): `Spec => []PartsCoverText`
  and `Spec => []LengthWithinData`, without further hypotheses. The number of parts
  computed by the division before the loop is the number of its rounds.
- `FittingIsWhole` (`RelayProofs`): `Spec => []ForwardedWhole`, the whole way of a
  UCS2 text. `WholeAssembled`: no part was cut, so the text is the header and the
  original. `PieceShown`: the telephone reads of `NumberedPdu(k)` the characters
  between two cuts at multiples of half a part. `NumberedOnce`: each number is that
  of one PDU, in whatever order they came. `FlattenPieces`: pieces that follow
  each other join to the whole. `EvenAssumption` (the limit is even, 140 in the
  code) is needed here and nowhere else: an odd one would cut a character in two.
- `SinglePduIsRight` (`RelayProofs`): `Spec => []SinglePduBegins`, for odd limits as
  well. `CommandsAreKnown`: `Spec => []CommandNumberKnown`, from the fact that
  packing and unpacking digits is the identity on numbers that fit, for the types of
  number international and subscriber, whose digits the code reads,
  (`NumberDecoded`), which twelve digits do in both buffers of the sender.
- `WhenLengthIsRight`, `WhenNumberIsReached` (`RelayProofs`): how far two of the
  disagreements of the runs go. A single PDU announces the length of its text if and
  only if this is UCS2 or has a multiple of eight septets; a number that is
  accepted is reached if and only if it has eleven digits.
- `TypesKept`, `LayoutIsKept`, `ScrollIsReady` (`DisplayProofs`): by the invariant
  `ScreenInv`. Its heart is `LineKept`: `uart_task` only ever writes 1, so a line
  that was not 3 at the switch is not 3 afterwards, and the increment of the gap
  leads from 3 to 4 or from 1 to 2; page 3 is never written. `AreaKept`: a line
  above 3 is reached only through the branch that sets up the area.
- `HeaderIsShown` (`DisplayProofs`): `Spec => []HeaderShown` for `QueueSize > 1`.
  `HeaderKept` follows the two texts of a clean set-up through the queue and the
  steps of `display_task` to their pages.
- `TypesKept`, `OneDaemon` (`DaemonProofs`): `Spec => []DaemonIsRegistered`.
  `Registered` says that without overlap at most one process starts, that the file
  names every daemon, that a start that is about to write found no daemon alive,
  and that one about to check has read the pid of the daemon, if there is one:
  an empty file can then belong only to a start, not to a daemon.
- `KillHitsTheDaemon` (`DaemonProofs`): `Spec => []KillsTheDaemon`. By `OwnPids` the
  pid in the file and every pid read from it belong to no other process, until a
  pid is given away or read from an empty file.

Only model-checked, on the instances above: liveness (`NeverStuck`,
`FailureShown`, `KillEnds`), which is out of the provers' reach. Every invariant
of a passing run is also a theorem, under the hypotheses named here.

## Not modelled

- The digits of a time stamp and its zone. A destination of less than eleven
  digits shifts the rest of the PDU; `Destinations` excludes it.
- The characters inside an answer: `read_line()` and the end of an unterminated
  line, a reply cut at the end of `_rd_buf`. A reply is found whole or not at all.
- The -c command line path, which obeys one command and exits; in `Daemon` it is
  only a process that ends by itself. The descriptors: which number the modem or the
  log gets depends on what the program was started with, and -D closes them all
  while `read_response()` goes on writing to stderr; and the banner that is still
  in the buffer of stdout then.
- Memory: in the seen branch `msg` is not freed, which ends in `abort()`; the
  abort is the crash fault. A text lost by a full queue is not freed either.
- Failures of the I2C bus, the functions of the display driver without a caller,
  its SPI and legacy variants, and that a text leaves the end of a longer one on
  its line (it can be seen in `Over`, no property speaks of it).
- Logging, which only writes; the off-line build `main-moc`, whose answers are
  constants; CRC, hex and quoting in `smsf-util.c`, whose results are values of
  the records here.

## Plan

Done: everything in the table of modules, its runs and its theorems. Left: the
buffer of `com_read()` with a reply cut at its end, as a refinement of `Readings`.
