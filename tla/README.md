# rubusd in TLA+

rubusd is a single-threaded Linux daemon. It finds Nintendo Joy-Cons through
hidraw, sets each one up with a fixed sequence of subcommands, polls them all in
a loop, and shows the host one virtual gamepad, either a uinput device or a USB
HID gadget.

## The system

| part | state | operations | interacts with |
| --- | --- | --- | --- |
| device list (`main.c`) | `joycon[15]`, `joycon_count` | `dev_list_connect_new`, `dev_list_remove`, `dev_list_contains`, `dev_list_empty` | calls `joycon.c`; called by the main loop and, for `dev_list_empty`, by the signal handler |
| command line (`main.c`) | `conf` | `parse_args` | read by `main` and by the signal handler |
| main loop (`main.c`) | `vg_usb_state`, `connect_timeout`, `usb_timeout` | the sweep over the list, the emission of a frame, the rescan | polls each Joy-Con, writes to the gamepad, calls the device list |
| signal handler (`main.c`) | `conf`, `vg_ui`, `vg_usb`, the list | `signal_handler` | interrupts the loop anywhere |
| Joy-Con session (`joycon.c`) | handle, `last_seen`, button state, calibration, the shared `jc_recv_buf` | `jc_create`, `jc_destroy`, `jc_calibrate`, `jc_set_player_lights`, `jc_set_input_mode`, `jc_input_maybe` | one write and one blocking read per subcommand |
| stick numerics (`joycon.c`) | `JoyConAnalogCal` | `jc_calibrate`, `jc_apply_input_packet` | pure |
| hidraw backend (`hid.c`, vendored) | a list of enumerated devices, a file descriptor, `blocking` | `hid_enumerate`, `hid_open_path`, `hid_write`, `hid_read(_timeout)`, `hid_close` | the kernel |
| virtual gamepad (`vg_uinput.c`, `vg_usb.c`) | a file | create, send/flush, destroy | the host |

What is hard about it: a Joy-Con may disconnect between any two exchanges; a
scan works from an enumeration that ages while other Joy-Cons are being set up;
replies and unsolicited reports arrive on one channel and are read without being
matched; the list is compacted and players renumbered on every removal; a frame
mixes the states of several Joy-Cons; the signal handler runs on whatever state
it interrupts.

What makes each part correct:

- device list: no gap below the count, no address twice, players numbered by
  position, never more than the array holds, every scan ends;
- main loop: what the host is shown comes from a Joy-Con in the list, a Joy-Con
  that is gone leaves the list, one that is linked joins it;
- files: every Joy-Con has an open file of its own, and none is lost but where
  `jc_create` fails;
- enumeration: no freed record in the list, no live one missing from it, no device
  missed that was there throughout, every record freed;
- session: no answer is taken for a subcommand further back than the inputs that
  came allow, a Joy-Con is calibrated from its own data, the input mode ends up
  full, the setup ends;
- numerics: the calibration is decoded from the right bits, every axis stays within
  the range declared to the host, is monotone and reaches both ends;
- shutdown: a signal ends the process in whatever state it came, a removal loses no
  entry, and it is known which handles are closed.

## The modules

| module | models | state → code | actions → code |
| --- | --- | --- | --- |
| `Roster` | what the device list promises | `roster`: the players in order | `Join`, `Leave` |
| `DevList` | `dev_list_connect_new`, `dev_list_remove`, `dev_list_contains` with the calls they make | `joycon`, `joycon_count`, `cur_dev` as in the code; `pc` the line of the connection sequence; `live` whether a handle still reaches its Joy-Con; `lights` what it was last told | one action for each exchange with a Joy-Con (`Open`, `Flush`, `Drain`, `AllOn`, `Calibrate`, `Number`, `Mode`); `EnumerateFails`, `StringFails`, `OpenFails`, `CreateFails` and `SetupFails` for the errors; `Remove` for `dev_list_remove` |
| `Handles` | `hid_open_path`, `hid_close` and what `jc_create` does with the file in between | `open` the process's files; `handle` the field `device_handle` of each structure; `failures` counts those of `jc_create` | `OpenFile` and `OpenFileFails` for `hid_open_path`, `CreateForgets` for the error returns of `jc_create`, `RemoveCloses` for `jc_destroy` |
| `HidEnumerate` | `hid_enumerate`, the walk over its list, `hid_free_enumeration` | `devices` udev's list; `heap` the records there are; `next`, `root`, `cur_dev`, `prev_dev`, `d` as in the code | `NoContext`, `Enumerate`, `Look`, `Read`, `ReadFails`, `Parent`, `Enumerated`: the loop of `hid_enumerate`; `Walk`: that of `dev_list_connect_new`; `Free`, `Freed`; `Unplug`, `Plug`: the devices |
| `Daemon` | `main` | `i`, `connect_timeout`, `usb_timeout` as in the code; `state` of each Joy-Con, `gamepad` what was last written to each half of it, `host` what the host was last shown; `last_seen` as an age; `inbox` the kernel's queue; `flushed` whether the last frame got through; `settings`, `stale` the settings of the clock | `Heard`, `Quiet`, `Lose`: the three ways a turn of the sweep ends; `SweepDone`: the frame and the rescan; `Connect`: a step of `DevList`; `Push`, `GoneFor`, `LinkUp`: the Joy-Cons; `Tick`, `SetForward`, `SetBack`: the clock |
| `Handshake` | one Joy-Con's session in `joycon.c` and the kernel's queue | `pc`, `step`, `answer` the reports the reads returned; `tail` what `jc_recv_buf` holds behind a short report; `mode`, `lamps` the Joy-Con's own state; `sent`, `inbox` the two channels; `blocking` | `Write` and `Read` of `jc_send_sub_command`, `Drain` and `Drained` of `jc_flush_input`, `Poll` and `GiveUp` of `jc_input_maybe`, `Relight`, `ReadRelit` and `RelightFails` of a removal elsewhere, the last on a dead handle, where the number changes and nothing is sent; `Execute`, `Press`, `Report`, `Disconnect` of the Joy-Con |
| `Stick` | `jc_calibrate`, the analog half of `jc_apply_input_packet`, and the scaling to `int8_t` in `main` | `data`: the 18 bytes of the packed calibration; `cal`: the ends of each axis; `axis`: the value sent | `jc_calibrate`, `Report` |
| `Shutdown` | the process, pointer by pointer: `parse_args`, the creation and the destruction of the gamepad and of the entries, and `signal_handler` at any point | `target` for `conf`; `heap`: which structures are freed; `frames`: the running calls of the handler; `ended`: how the process ended; the rest as in the code | `ParseArgs`, `CreateGamepad` for either gamepad, one action for each assignment of `dev_list_remove` and of `dev_list_empty`, and for each step of the handler |
| `DevListProofs`, `HandlesProofs`, `HidEnumerateProofs`, `DaemonProofs`, `HandshakeProofs`, `StickProofs`, `ShutdownProofs` | | | the theorems and their proofs |
| `RosterLemmas` | | | what leaving one out does to a sequence, cited where a removal is `Roster`'s |
| `MCDevList`, `MCHandles`, `MCHidEnumerate`, `MCDaemon`, `MCHandshake`, `MCStick`, `MCShutdown` | | | values of the constants for TLC |

How they fit together:

- `DevList` implements `Roster` (`ImplementsRoster`, checked and proved).
- `Handles` extends `DevList` with the files behind the list; every behaviour of it
  is one of `DevList` (`HandlesImplementsList`, proved).
- `Daemon` extends `DevList`. Its scan is `DevList`'s, interleaved with the
  reports of the Joy-Cons that are in the list already; its removals are those
  the loop decides on. Every behaviour of `Daemon` is one of `DevList`
  (`DaemonImplementsList`, proved), so all that holds of the list alone holds in
  the loop, and with it the promises of `Roster` (`DaemonImplementsRoster`).
- `Shutdown` takes apart what `DevList` does in one step. Without a signal it
  keeps `Roster` too (`KeepsRoster`, proved), so that one step is a sound
  abstraction of the loop over pointers.
- `Handshake` takes apart what `DevList` does in one step for each exchange.
  `DevList` has in `lights` what a connected Joy-Con was last told; `Settled`, proved, says
  that this is what it shows once it has executed what it was sent.
- `HidEnumerate` takes apart the one step in which `DevList` starts a scan, and
  shows the list of that step to be whole.
- `Stick` stands alone: its functions have no other state.

The models leave out logging and `--silent`, the packet number of `jc_next_num`
that nobody looks at, and the names of buttons: all that one Joy-Con holds is one
value. Addresses are values, with the truncation of `jc_parse_address` in the
constant `AddressOf`.

## The runs

| run | what it asks | bounds |
| --- | --- | --- |
| `list_order` | no gap below the count, every reachable Joy-Con shows its number, the list implements `Roster` | three Joy-Cons that fill an array of three and one that is not supported |
| `handles` | no address twice, the array is not overrun while there are no more addresses than entries, a newcomer stays new over its set-up, every scan tries each entry once (`ScanAdvances`) and ends or spins; every Joy-Con has an open file of its own (`OwnFile`), the open files are accounted for (`Accounted`), and run out only after that many failures (`RunsOutLate`) | three Joy-Cons, two of one address, an array of two, three files |
| `enumerate` | the list that is built is whole (`InOrder`), misses nothing that stayed (`Complete`) and is freed (`FreedOnce`) | a device of each of four kinds, in any order, that come and go at any step |
| `daemon_usb` | every frame shows what the list's Joy-Cons said (`FrameFresh`), nothing of one that left (`NoPhantom`), the host comes to show it (`HostFollows`), though frames get lost | one left and one right Joy-Con; two input states and a report of another kind; a queue of one |
| `daemon_join` | none that reports is removed (`OnlyGoneLeave`), one that is gone leaves, one that is there joins, though the clock is set | two Joy-Cons that always report the same, a queue of two, one setting of the clock |
| `session` | reads fall behind by no more than the inputs that came (`Slip`); the calibration is the Joy-Con's own (`Calibrated`); no read hangs; a polled, connected Joy-Con that has executed what it was sent is in full mode with its last number (`Settled`), and comes to be so (`Ready`) | three inputs, one change of number, a queue of two that overflows |
| `stick` | the calibration is decoded (`Decoded`); axes in range, monotone, and able to reach both ends | 3^6 calibrations from the values 0, 2048 and 4095, and four raw values |
| `shutdown` | a removal loses and repeats no entry, the handler ends the process (`SignalEnds`), with every step nearer (`WindsDown`), on its own faults from named places only, and closes half the handles | four entries, both signals, one possibly within the other's handler; four command lines |

Four runs end in a violation, each the difference between the code and what it
says of itself:

- `list_overrun`: `MAX_CONNECTIONS` sizes the array, and is compared with nothing. With
  every entry in use the next connection that is tried stores what `jc_create` returns,
  in the trace NULL, past the end.
- `list_vanish`: `con->dev < 0` never detects that `hid_open_path` returned NULL.
  `OpenFailureReported` asks about a Joy-Con that is gone when it is opened, so the
  trace has it drop between the enumeration and the opening.
- `list_spin`: the drain loop of `jc_flush_input` treats -1 as one more report.
- `session_ack`: the check that a reply acknowledges its own subcommand can fail
  after a single button press: the next read returns that input. The check only logs;
  what a calibration may then be made of is the question of `Calibrated`, in `session`.

### Why the bounds are enough

- *Joy-Cons and array.* `dev_list_remove` treats the removed entry, its
  successor and the rest alike; three entries have a first, a middle and a last,
  and `DevListProofs` removes the bound. Two Joy-Cons of one address exercise
  `dev_list_contains` in the one way in which identity and address differ.
  `Shutdown` needs four: with three, a handler interrupting the loop of a removal
  never gets as far as the second copy of the entry being moved, for the count
  it lowers stops it first. Each of the places `SafeElsewhere` names is
  needed at this bound; `ShutdownProofs` shows that there are no others for any
  number of entries.
- *Files.* One more than the array has entries: one failure of `jc_create` may be
  borne, and the second makes an opening fail for want of a file.
  `HandlesProofs` removes the bound.
- *Devices.* One of each kind `hid_enumerate` tells apart; every order puts the one
  that is taken off the list again first, last, or between two others. The USB
  device is taken off too when it has gone, so that there may be two such in a row.
  `HidEnumerateProofs` removes the bound.
- *Inputs.* `rest`, one other state, and `simple`, a report that
  `jc_apply_input_packet` ignores, tell a fresh state from a stale one and from
  none. `daemon_join` asks nothing of the inputs and has one. Where two Joy-Cons are
  of the same half, the last of them in the list has the last word; `daemon_usb` has
  one of each half, and this is covered by `DaemonFrameFresh` only.
- *Queue.* hidraw keeps 64 reports. `InboxLimit` must be no less than the number
  of Joy-Cons for `OnlyGoneLeave` and `LinkedJoin`: a removal sends new numbers
  to the Joy-Cons behind, and each of these exchanges takes one waiting report
  (see `Lose`). With 15 Joy-Cons and 64 reports the code satisfies this; with a
  smaller queue TLC finds a Joy-Con removed that was reporting.
- *Time.* `SilenceLimit` stands for 5 seconds and `RescanPeriod` 1 for 300 sweeps:
  with and without a scan after a sweep. `daemon_join` has a limit of 2, the least
  for which a silence may be shorter than the limit. In `daemon_usb` it is 1: a
  single tick is a silence, and Joy-Cons leave more often than they would.
- *Session.* `MaxPresses` 3 can put every remaining answer late; `InboxLimit` 2
  makes answers get lost to a full queue. `HandshakeProofs` removes both bounds.
- *Calibration.* The three values make the ends of an axis coincide, lie in
  order, and wrap in 16 bits. `StickProofs` removes the bound: the bytes and the
  raw values may be any.

### What the environment may do

A Joy-Con links, disconnects and links again at any time, also in the middle of
its set-up and while the devices are enumerated. It answers what it is sent, in
order, or disconnects. The clock is set forward or back, `fflush` on the USB gadget
fails, files are given out lowest first and run out. Assumed are:

- the drain of 100 ms is long enough: when it ends the Joy-Con has executed the
  subcommand before it (guard of `Drained`);
- a Joy-Con in the list that is connected sends reports far more often than once a
  second, so that within every second one of them is read or its queue fills
  (guard of `Tick`); the clock otherwise goes forward a second at a time;
- of a packet that `fflush` kept back nothing is seen until a later one succeeds,
  and that one shows the later state. `HostFollows` asks for nothing but that
  frames get through in the end;
- SIGHUP, which is caught and ignored, has no effect. glibc's `signal` lets `read` and
  `write` go on; `poll` and `usleep` return early, after which the drain loop of
  `jc_flush_input` and the main loop just go round again;
- `udev_new` fails only where there is no memory. In `HidEnumerate` it may, and the scan
  finds nothing (`NoContext`); `DevList` takes a scan to see what is there, and
  `LinkedJoin` would not hold if `udev_new` failed for ever;
- quotients in `Stick` are exact, where the code rounds to `float`;
- a signal comes between two steps of `Shutdown`, not inside `malloc`, `free` or
  `printf`, which a handler may not call safely. The use of a freed structure may
  have any outcome; the use of a NULL one faults.

A setting of the clock takes every age the Joy-Cons have past the limit, or one
second less; `MaxSettings` bounds how often in a run and not in the theorems.

### Fairness

- *The program's own step* (`ConnectStep`, `ConnectFiles`, `Program`, `Handler`):
  one thread, never disabled for good but by a read; where a read waits, the action
  is disabled and fairness says nothing.
- *`Tick`*: time passes. *`Push`*: a Joy-Con in full mode reports without being
  asked. *`Execute`*: a connected Joy-Con answers.
- None is assumed of linking, disconnecting, pressing, failing, setting the clock or
  signals.

All are weak. Strong fairness is nowhere needed.

## The proofs

All theorems hold for every value of the constants that satisfies the named
assumptions `PadsAssumption`, `MaxAssumption` (at most 15 entries, for the lights
are four bits), `FilesAssumption`, `HidAssumption`, `DaemonAssumption`,
`SessionAssumption`, `StickAssumption` and `ProcessAssumption` (the signals are
finitely many). Three of them have a hypothesis besides:
`EnoughRoom`, that there are no more addresses than entries (`ListNoOverrun`,
`HandlesRunOutLate`), and `QueueHolds`, that the kernel keeps a report for each
entry and the limit is two seconds or more (`DaemonOnlyGoneLeave`).

**Device list.** Neither `NoDuplicate` nor `LightsMatch` is inductive: that the
entry which `joycon_count++` adds has a new address and shows its number was
established many steps before. `Newcomer` carries both facts over the set-up, and
`ListInv` is the conjunction of the type invariant, `Compact`, `NoDuplicate`,
`LightsMatch` and `Newcomer`. The step of a removal rests on `GapEndIsLast`: with
no gap below the count, the loop that closes the gap always runs to the last
entry. `ListNoOverrun` adds a counting argument: a full list of distinct addresses
has every address there is, so no newcomer is new.
`ListImplementsRoster` maps every step of the list
to one of `Roster` or to a stutter; its core is that closing the gap is `RemoveAt`.
`ListScanAdvances` is the safety half of `ConnectEnds`: `StepsLeft` allows eight
steps for each entry of the enumeration and is lowered by every step of the
scan, those included in which something fails. What fairness adds is only that the
steps are taken.

**Files.** `FilesInv` strengthens `OwnFile` to all structures (`Apart`), also of a
Joy-Con that is in the list no more, and says that those rubusd works with have
one. `Accounted` is the counting that goes with it: an opening takes a free number,
a failure moves one from the Joy-Con being connected to those that are lost.
`RunsOutLate` follows from it, from `ListInv` and from `EnoughRoom`.

**Enumeration.** The linked list is described without a sequence of records: `At`
is the place of a device in udev's order, `FirstBehind(k, n)` says that n is the
first record behind place k, and `LastOf` that it is the last one. `InOrder` says
this of `root`, of every `next` and of `cur_dev`. To be inductive it needs that the
devices still to be looked at are the end of the order (`Numbered`), that all
records stand before them but the one whose USB parent is looked for, with
`prev_dev` the one before it (`Behind`): hence a record taken off again leaves
`prev_dev` the last, and `next` of it NULL. `Cursor` carries the same through
`hid_free_enumeration`, where what is freed is always the front. `Complete` rests on
`Sorted`, which says why each device that is done with has a record or has none, and
on `Noticed`: a device of the order is there or has left since.

**Main loop.** Each action of `Daemon` is one of `DevList` or leaves the list
alone, hence `DaemonImplementsList`. The types need `Between` (no sweep is under
way during a scan), in `TypeInv`. `FrameFresh` and `NoPhantom` rest on `ShownInv`,
which holds in the middle of a sweep: `Swept`, that the entries already visited
stand in the gamepad, the last of each half before the others, if none was removed;
and `Held`, that on USB what the gamepad holds is held on a Joy-Con of the list.
`OnlyGoneLeave` rests on `Waiting`: a Joy-Con at index k that reports and yet was
not heard for two seconds has at least k + 1 reports waiting. A removal before it
takes one of them and lowers k by one, so that when its turn comes there is one
left to read.

**Session.** `Slip` and `Calibrated` are about reports that were read; the invariant
is about those still to come. `Item(k)` is the report that the read for subcommand
k returned or, if the queue goes on as it is, will return, up to `Top`. `Aligned`
says that what waits to be executed is the end of what was written, that each
report fits the read it is in line for (it is an input, or the answer to a
subcommand no further back than there were inputs), and that at most that many are
inputs. `NoneToSpare` counts the two channels together: what they hold beyond the
answer that is awaited, inputs have put there. A queue that overflows drops
reports, which only brings answers forward. `Unread` and `Kept` say that nothing
was read that `answer` or the buffer's tail does not tell.

`Settled` is about what the Joy-Con was sent, and none of the above about answers
is needed for it but the types and `Aligned`: what waits to be executed is the end of
what was written. `Obeyed` says what a Joy-Con has obeyed in its set-up, all but
what still waits; `Due` says while it is polled and connected that what waits ends in
its number and in full mode, or changes neither. Connected it must be: on a dead
handle `dev_list_remove` changes the number, and the subcommand is not sent.

**Sticks.** `StickInv` says the ends of an axis are 16-bit numbers and the axis is
in range; the range follows from clamping, and needs no order of the ends, so it
holds for calibrations that wrapped or have no width. `Decoded` compares the shifts
and masks, byte by byte, with a 24-bit number cut in two. `Monotone` and
`FullTravel` follow from properties of the exact quotient.

**Process.** Until the first signal, `ProgramInv` says at each place of
`dev_list_remove` which entries are in use (`Filled`), which is there twice
(`Twice`) and which is destroyed and not yet NULL (`Destroyed`); `Shape` says they
are live and distinct but for these. A signal hands that to the handler as `Ahead`:
unless it came at one of the places `SafeElsewhere` names, what the handler has
still to look at is live, and each structure is there once. `Half` counts for
`HalfClosed`: each turn raises the index by one and lowers the count by one.

For `KeepsRoster` the list is shown to `Roster` from the destruction of an entry
on without index `j`, until the gap is closed: `Destroy` is then `Leave`, `SetUp` is
`Join`, and every other assignment leaves what is shown as it was: while an entry
stands twice, at `j` and behind it, the same is shown whichever of the two is left
out.

`WindsDown` is the safety half of `SignalEnds`. A call of the handler has at most
3 n + 2 steps for an array of n, and a signal adds a call. Signals can add only so
many, for the running calls are for different ones (`OncePerSignal`), hence at most
as many as there are signals (`AsManyAsSignals`).

## What is only model-checked

Liveness (`ConnectEnds`, `GoneLeave`, `LinkedJoin`, `HostFollows`, `ReadsEnd`,
`Ready`, `SignalEnds`), for the prover has no rules for fairness. Of three of these the
part that is not fairness is proved: `ScanAdvances`, `WindsDown` and `Settled`. Every
invariant and every action property that a passing run checks is a theorem. The four
properties that are violated are checked only, by their nature.

The types of `Handles` and of `Stick` are proved and in no run: what TLC could find
wrong with them it finds in `OwnFile`, `Accounted`, `AxisInRange` and `Decoded`.

## What is not modelled

- Of `hid.c`: what the kernel and udev do inside; what rubusd never calls (feature
  reports, strings by index, `hid_open` by serial number); the text of the strings.
- Of `joycon.c`: `jc_send_command` and `jc_wait_for_input`, which nobody calls, the
  printing, and the parsing of an address, which is the constant `AddressOf`.
- Of the gamepads: which button has which code on uinput and which bit in the USB
  packet (a table, without state), the single events of a frame on uinput, and what
  the kernel does with them; the division of a packet by the USB gadget.
- `rubusd_usb_conf.sh`, which declares reports of 3 bytes for packets of 7: a script
  run once by hand, with no state shared at run time.
- The build, the service file and the log.

`HostFollows` says nothing of a host when the last Joy-Con has left: no frame is
sent then, and on uinput nothing is let go. `GoneLeave` and `LinkedJoin` make an
exception of a *ghost*, a Joy-Con that disconnected before any report of it was
read: its `last_seen` is zero, it is never removed, and its address keeps it from
joining again. `Decoded` makes one of the left stick's vertical centre, whose low bits
come from the right stick's bytes. No property says of two Joy-Cons of one address that
both are served: `NoDuplicate` demands that one is kept out. A Joy-Con that was silent when the clock was set forward is removed
(`stale` in `OnlyGoneLeave`) and joins again. A HID device of any make that leaves
while it is looked at may end rubusd (`ReadFails`, `EnumerateFails`, `StringFails`):
the models have this fault, and what they promise holds in spite of it.

## Plan

The order follows what matters most: first what holds the device list together
(`DevList`, `Roster`, their proofs), then the loop around it, then the session with
one Joy-Con, the sticks, and the shutdown; then the files, the enumeration, the
clock, the frames that get lost, and the proofs about all of these. All these exist.
Left is:

- *Addresses*: two Joy-Cons that differ only in the bits `jc_parse_address` drops
  share an address in `handles`; what becomes of the second is still to be said.

A refinement of `DevList` by `Handshake` was weighed and given up: the exchanges of
the two are in the same order by construction, and a mapping would say little else.
What `DevList` relies on is `Settled`.

New questions go into existing runs where the bounds allow it, and a run that a
larger one covers gives way to it.
