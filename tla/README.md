# PerlOS: TLA+ models, checks and proofs

PerlOS is a bare-metal system for the Cortex-M33 (QEMU `mps2-an505` and the Raspberry Pi Pico 2)
that runs a small Perl interpreter from a ROM file system, with a C library, a heap, a serial
console and a REPL of its own. This directory holds TLA+ specifications of its parts, the TLC
configurations that model-check them on small instances, and theorems that TLAPS proves for
every size. Paths and line numbers are those of the repository, whose code is the reference: each
definition names, in `PROJECT.json` under `map`, the lines it stands for.

## 1. The system

| Part | State it keeps | Operations | Works with |
|---|---|---|---|
| Byte rings, `os/io_pico2.c:14` | `rx[]`, `tx[]`, free-running counters `rw rr tw tr`, `rc` | `putchar`, `console_write`, `getchar`, `getchar_timeout`; lines 72 and 78 of `task()` | core 0 and core 1 share them without a lock |
| USB CDC device, `os/io_pico2.c:30-79` | `pid busy stage left limit zlp addr setaddr conf notify txzlp rxlen rxpos`, the controller's registers | `task()` for ever on core 1; `setup()` and what it calls | controller, host, rings |
| Bring-up, `os/io_pico2.c:26-28,81-102` | `ready`, inter-core FIFO | `start`, `hw`, `_io_init` | boot |
| UART console, `os/io_an505.c` | none | same interface as the rings, by polling | `timer.c` |
| Heap, `libc/heap.c` | headers of the blocks, pools, `used blocks small_used`, peaks, histogram | `malloc calloc realloc free heap_get_stats heap_reset_peak` | everything (one core only) |
| Timer, `os/timer.c` | `tick` | `_systick` (interrupt), `gettick`, `msleep` | console waits, `clock` |
| Clock, `libc/time.c` | `last`, `ticks` | `clock time times gmtime mktime` | timer |
| ROM file system, `os/romfs.c` | `hdr`, `cwd`, `obj[32]`, `fds[32]` | image check, paths, `open close read write lseek dup stat chdir ...` | console, stdio, Perl |
| stdio, `libc/stdio.c` | `_file[8]`, push-back | streams, printf | ROM file system, console |
| REPL, `os/perlos.c` | `skip_lf`, line buffer, multiline block | `perlos_readline`, `perlos_repl`, XS functions | console, heap, Perl |
| Other C library | `errno`, `rand` seed | strings, sort, numbers, 64-bit and float arithmetic, `setjmp` | - |
| Input method, `example/ime.c` | one array of bytes with the text and the cursor | keys: letters, Rubout, Enter, arrows, blinking | console |
| Boot, scripts, other examples, tests | - | - | not part of the running system or no state after start |

What is hard in it, and what a test on QEMU (which has the UART and one core) never runs:

* two cores share the rings without a lock; only barriers order the bytes and the counters;
* the USB controller, the host and core 1 interleave: completions, SETUPs and resets may be seen
  in one pass of `task()` although they happened one after another, and `task()` goes on using
  the copy of `BUFF_STATUS` it made before `setup()` changed the endpoints;
* each endpoint has a data toggle on both sides, and they must never disagree;
* the end of output is told from a pause by a zero-length packet that core 0 can make unnecessary
  at any time;
* the heap keeps redundant facts (size, way back, counters, histogram, peaks, statistics) that
  long sequences of splits and joins must keep in step, over sizes that may wrap;
* the 32-bit tick wraps; core 0 sleeps while it waits, and the core or the UART that has what it
  waits for sends no event: only the interrupt of the tick is sure to wake it;
* the library's functions keep nothing, but have edges in every direction: values at the limit of
  their type, overlapping memory, paths and images at the limit of their size, ties in rounding.

What makes each part correct: a ring delivers every byte once and in order and never overwrites
one; a control transfer follows the USB protocol and ends; the two sides agree on address,
configuration and toggles; every byte written is eventually read; an allocator hands out memory
that overlaps nothing and keeps what was written; the statistics are the truth; a wait is neither
too short nor too long and ends; a library function gives what its definition in C says, or departs
from it where its module says so by name. `PROJECT.json` lists the hazards at their lines with the
properties that watch them.

## 2. Modules

```
ByteFifo  <--refined by--  Ring   <- ConsoleProofs (theorems)
                            |  (a ring is a queue, from here on)
                         UsbTask  <-  UsbConsole  <- UsbProofs (theorems)
                                      (firmware + controller + host + program)
Allocator <--refined by--  Heap   <- extends Blocks; HeapProofs (theorems of both)
Descriptors <--refined by-- RomFd  <- RomFdProofs (theorems)
LineText  <--reference of--  Readline  <- PromptProofs (theorems)
                                |  (returns a line, or -1, -2, -3)
Session  <--refined by--   Repl  <- PromptProofs (theorems)
Streams  <--refined by--   Stdio  <- LibcProofs (theorems)
Editor   <--refined by--   Ime    <- ImeProofs (theorems)
                                 KanaRules (its tables, run through convert())
Waits                      <- ConsoleProofs (theorems)
Calls  <-  Calendar        <- LibcProofs (theorems)
Calls  <-  CString, Stdlib, Aeabi <- FloatParts, RomTree, Printf <- Format, Dump
ModuloFacts: lemmas about % and about loops, for the proofs
```

**ByteFifo** is what one direction of the console promises: a bounded queue that accepts prefixes
of the buffers it is given and hands out prefixes.

**Ring** is one ring as the code has it: the array, the two counters that wrap with `unsigned`
(`M` values), the buffer the producer is copying, the loads of the consumer. `Begin`, `CopyIn`,
`StoreLands`, `PublishWrite` are `console_write` (126-135), and with a buffer of one byte
`putchar`, and line 72 of `task()`; `CopyOut`, `LoadLands`, `PublishRead` are `getchar` and line
78. Memory is weak: stores and loads of the array finish one by one in any order before the next
`mb()` of their core. A late counter store cannot be told from a slower core, so counters change
at once. The copies a core takes of the other's counter are not variables: it uses a copy that is
at most conservative (the other core only adds room or bytes).

**UsbTask** is `task()` and `setup()`. `dev` has the buffer control registers, `BUFF_STATUS`
(`done`), `SETUP_REC`, the bus reset flag, the address register and every static of the firmware
that control depends on. `Status`, `Control`, `Receive`, `Transmit`, `LastFull` are the stretches
of one pass; the controller may act between two of them. Requests are records: `kind` groups the
cases of `setup()` that do the same thing (GET_DESCRIPTOR; the short replies as `ClassGet`;
SET_ADDRESS; SET_CONFIGURATION; SET_INTERFACE; CLEAR/SET HALT; SET_LINE_CODING;
SET_CONTROL_LINE_STATE; and `Unknown` for whatever fails a check), `v` is its value and `limit`
its length. The bytes of descriptors, DTR and the line settings are left out. A ring is a queue of
`Cap` bytes: that it is one is what Ring shows.

**UsbConsole** adds the program (`Write`, `Read`), the controller's transactions and a host. The
last two are not in the repository; the module's head lists what is assumed of them, which is what
the firmware relies on: among it that no reset follows a SETUP that the firmware has not seen, so
that what line 66 leaves of such a SETUP never matters. Host transactions are atomic with the
controller's bookkeeping. The host keeps its own toggles, address and configuration and checks each
packet. It may ask for no bytes of a reply; `setup()` does not look at `wLength` there (lines 47 and
57), and what comes of it is below.

**Blocks** is the first-fit heap as functions on a map from header addresses to
`[size, used, prev]`, in words of eight bytes (the unit of `ALIGN`; a header is one word):
`Join`, `Split`, `Freed`, `Grown` are `join`, `split`, the tail of `free`, the in-place part of
`realloc`; the counters `blocks` and `used` change by what each call adds up.

**Heap** adds the pools (free lists in order), `malloc`, `calloc`, `realloc`, `free`,
`heap_reset_peak`, the walk of `heap_get_stats` with its checks, the peaks and the histogram, the
arithmetic on sizes at the width of `size_t`, and memory contents; `Client` are the pointers of a
program that fills what it is given, as the random test in `t/heap.t` does. **Allocator** is what
the program may rely on.

**RomFd** is the lower half of `os/romfs.c` (84-108): the objects `obj[]` with kind, position and
count of references, the descriptors `fds[]` that point into them, one action for each of `open`,
`close`, `dup`, `read`, `write`, `lseek` with every error in the order the code looks for it. The
lookup of a path comes before the tables are touched, so `open` is given a file, or one of the
errors of the lookup (`OpenFails`). Data is not copied; `ret` says which file a read came from and
where it started. `long` has `LongMax` for `LONG_MAX`, and sizes and positions are `size_t`, so
`AsLong` is the cast that `lseek` makes. **Descriptors** is what a caller expects: names of open
files that last until the last name is closed, without counts and without a limit on open files;
there `lseek` is the plain sum of a base and an offset.

**Readline** is `perlos_readline` a key at a time: the static `skip_lf`, the buffer (`s` is its
first `n` bytes), `too_long`, `escape`, and what the terminal shows. Keys are classes of bytes:
visible ones (with their part in an escape sequence), BS, ESC, another control character, and the
four that end a line. A byte is one column on the screen, which a TAB or a byte of a multi-byte
character is not. `getchar()` never fails on either console, so line 189 is left out. **LineText**
says what a sequence of keys spells, of the whole sequence: escape sequences are cut out by their
grammar, a character is left if no more erasures than characters follow it, and the line is too
long if at some point more is left than fits.

**Repl** is the loop of `perlos_repl` from the first prompt on, one step for each return of
`perlos_readline`: any line of `Input`, or one of its three codes (that it returns nothing else is
`TypeOK` of Readline). The block of a multiline input is memory at an address that `realloc` may
change, or refuse; the line and its newline and zero are stored byte by byte. Evaluation is the
text that Perl is given; a Perl `exit` ends the system from within and is not modelled.
**Session** is what the user of the prompt expects, without memory.

**Waits** is every loop in which core 0 waits: `_io_init` for core 1, `putchar` for room, `getchar`
for input, `msleep`, and `getchar_timeout` with both, on both boards. `Test`, `Sleep` and `Deadline`
are the three places of such a loop, so that a tick, a byte, or core 1's `ready` and `sev` can come
between any two. The loops sleep in `wfe`, `msleep` on both boards (`timer.c:14`); only `getchar` and
`getchar_timeout` of the UART console (`board = "an505"`) sleep in `wfi`. `wfe` has the event
register, which a `sev` sets and `wfe` clears: the handler of the tick makes one on both boards
(`timer.c:5`), so a tick between the test and the `wfe` is not slept over. `wfi` does not look at the
register, and forgets an interrupt that was served before it. `Arrive` and `Drain` move bytes and wake
nobody. A turn of a loop is much shorter than a millisecond, so at most one tick comes between two
looks at the clock (`looked`). `elapsed` and `age` are history: ticks since the call and since the
byte came. `WaitsItsTime` asks for the exact number of ticks, and allows one more (`Slack`) where the
loop sleeps in `wfi`.

**Stdio** is the table of streams of `libc/stdio.c`: data, position and pushed-back character of
each, beside `stdin` and `stdout`. One action makes any call of `StdioCalls` on any stream, `fopen`,
`freopen` and `fclose` included; a stream that was closed is used no more, as C has it. The lookup
of a name is the set `Content` of the files of the image. `size_t` wraps after `SizeMax`, and `long`
after `PlaceMax`: `Long` is the sum of two of them as the registers have it, on which `fseek` looks
at the sign (line 94). **Streams** is what C says of streams, without slots: the bytes that are still
to come, where the next one was, one character put in front, a mark that the end was met. Where the
library departs from C it says so by name and allows both:

* `EarlyEnd`: `feof` is true as soon as nothing is left, where C sets the mark when a read fails
  (`stdio.c:115`);
* `Typing`: `stdin` that was reopened on a file still reads the keyboard, since `fgetc` asks for the
  console by the stream's address (`stdio.c:31,52`);
* `Sinking`: a seek to before the least `long` wraps to the greatest and succeeds, where it should
  fail (`stdio.c:93-94`); a sum above the greatest wraps to a negative one and fails, as it should.

It takes the number of slots, too, for the limit of open files (`OpenMax`), and that limit is less
than what `stdio.h` promises; the run `open_max` shows it.

**Calls** has one variable: the call that is looked at. The functions that keep no state are
operators; a step picks one and its arguments, an invariant compares what the code's algorithm
returns with a definition of what it should. **CString**: `string.c`. **Stdlib**: `qsort` and the
conversions of text, characters in classes. **Aeabi**: bit-by-bit division, `rsh`, the
conversions and the comparison of doubles, which goes through float, on formats of any size. **FloatParts**: the parts of a float in `math.c`, where a
float is its fields or, in sums, its value. **Calendar**: `clock` over a tick that wraps, `gmtime`
and `mktime` with C's division. **RomTree**: what `romfs_init` accepts, the unchecked walk, `path`
the calls that look a path up, and `romfs_each`, by which an accepted image is listed. **Printf**:
the digits of a float, their rounding and layout, the padding, and `snprintf`. **Format**: how
`vfmt` reads a format and takes the arguments; `FormatsRead` puts every piece of a format (flags,
a width and a precision as digits or a star, a size, a conversion) before others and asks that each
prints its own arguments, none taken twice or left over. The text that is expected is C's and is
built without the operators of `vfmt` (`Body`, `Printed`: least digits by a precision, a string cut
by it, filled in front or, for a negative star, behind). What `vfmt` does not heed is taken out
beforehand by two operators, and nothing else is: `WidthRead`, a negative width of a star, which
should fill behind (`stdio.c:210,236`), and the width of `%c` (222); `PrecisionRead`, the precision
of a string (219-221) and of an integer (223-237). **Dump**: how the prompt prints a value. Recursion
is written where the code loops with state that is not a counter; only Calendar of these modules has
none, and theorems.

**Ime** is `example/ime.c` on bytes: one array with the text in UTF-8, in which the cursor is one
more character that blinks between two forms. Each key is an action with all that it does to the
array, the rewriting by both tables included. **Editor** is a text of characters, each with its
number of bytes, and a place in it; a column is a count of characters, as in `column()`, and not of
cells of the screen. **KanaRules** has the real tables, and types the letters of each rule.

`MC*` modules give the constants values. Definitions marked *Mutant* are plausible mistakes; each
property has one that breaks it.

## 3. Runs

| Run | Instance | What it shows |
|---|---|---|
| `ring` | array of 4, counters wrap at 8, chunks up to 3, two byte values | no overrun, refinement of ByteFifo |
| `usb_control` | packets of 2 bytes, 26 requests, 3 transfers, 1 bus reset | `BusInv` (types, and both sides agree on configuration and toggles), the control endpoint follows the protocol, replies are whole, address change after the status stage, known requests served, every transfer ends but a read of no bytes |
| `usb_stream` | 4 bytes in, 3 bytes out, rings of 2 | order and delivery both ways, ZLP logic |
| `heap` | pools of 2x1 and 1x3 words, heap of 9 words, 3 pointers, 5 sizes, 3 calloc pairs, `size_t` up to 127 | `HeapInv` (types, exact statistics, peaks, histogram), well-formed blocks, no lost space, refinement of Allocator, steps are those of Blocks |
| `romfd` | 5 descriptors (two beside the console), one file of the largest size and one larger, `long` -3..2, all offsets, lengths 0 to 3, descriptors -1 to 5 | `FdInv` (types, exact reference counts, positions in range), an object for every free descriptor, refinement of Descriptors |
| `prompt` | buffer of 3, up to 5 keys and one that ends the call, calls in a row; lines of 0 to 2 bytes and every command, blocks of at most 8 bytes, 2 addresses | the buffer holds the line and its zero; what is returned is what the keys spell by LineText, and the screen shows it; no block lost, dangling or overrun; refinement of Session |
| `waits` | tick of 5 values, waits of 0 to 3 ms, both boards | no wait is too short or, but by the tick a `wfi` misses, too long, a byte that came early is not missed, every wait ends |
| `libc` | 2 stream slots, 2 files, `size_t` 0..3, `long` -4..3; every argument of `MCLibc` for the functions without state | refinement of Streams, with its departures from C; strings, sort, conversions, arithmetic, dates, images, paths, printed numbers and values |
| `ime` | array of 10 bytes, a table of each kind, 2 letters; all real rules | whole characters and one cursor, refinement of Editor, every rule does what it says or is hidden by an earlier one |
| `usb_wedged` | violation | see below |
| `usb_stale` | violation | see below |
| `open_max` | violation: 8 stream slots and an empty file | see below |

**Why the bounds are enough.** In the ring the counters wrap at twice the array, the least
multiple at which full and empty differ, and the theorems lift the result to every size. Two bytes
per packet give replies of less than, exactly and more than a packet, truncated or not, and a ring
of one packet gives an OUT packet that fits only in part. Three control transfers are one that
configures the device (from any starting point), one that is cut short and one that follows it;
one reset can come anywhere among them. `MaxIn`, `MaxOut` allow a full packet followed by a full,
a short and an empty one. In the heap nine words hold up to four blocks with headers: three in use
around a free one, so that both neighbours of a freed block may be free, used or the edge; the
sizes include one that has to be rounded, one that no pool has, one that never fits, one that
wraps when rounded, and products that wrap to a small number. Two descriptors beside the console
can name one file twice, two opens of it, or copies of a console descriptor, and both be used up;
the offsets are all of `long`, so that every sum that can overflow does. Five keys are more than
fill a buffer of two characters, erase them, or make a whole escape sequence; only the last key of
a call bears on the next. Eight bytes are four empty lines or fewer longer ones, so that the limit
is met exactly and exceeded, after blocks of every shape; two addresses are enough for a block to
move or stay. In `prompt` the loop may end, so deadlock is not checked there; the same holds for
`ime`, where Ctrl-C ends the program.

A tick of five values wraps during every wait of two ms or more from some start, and no wait is
longer than the tick can tell (`MaxMs <= Ticks - 2`). Two stream slots are one in use and one free, or
none; the files are one of two lines and an empty one; the offsets of a seek are both ends of `long`
and those around 0, so that sums overflow at either end, and places are any that `long` can tell.
The formats of Aeabi have 3 and 6 mantissa bits and a few exponents, so that every tie, carry,
subnormal and overflow occurs; integers of 6 bits are divided in all pairs. Images have up to eight
cells, alone and behind an entry: enough for every field to be too large by one. Paths of up to six
characters with a limit of six, from every directory, reach the limit with and without a slash. The
years are those around the centuries and eras of 400 years, every day of each. An array of ten
bytes holds two characters of three bytes, the cursor and the NUL, so that a replacement that does not
fit and one that just fits both occur.

**Bounds by name.** `MaxSetups`, `MaxResets`, `MaxIn`, `MaxOut` (UsbConsole), `PutMax`, `GetMax`
(Ring), `Bytes`, `Arrays`, `Client` (Heap), `Fds`, `Counts`, `Offsets` (RomFd),
`MaxKeys`, `Cap` (Readline), `Input`, `Limit`, `Address` (Repl), `MaxMs` (Waits), `Offsets`,
`Pushes`, `Counts` (Stdio: how far a seek goes, what is pushed back, how much is read), `SIZE` (Ime),
and the `Max...`, `...Tried` and value sets of `MCLibc.cfg`. Clients are symmetric: they differ in nothing but the
value they write. The heap properties are safety properties, with which symmetry is sound.

**Fairness** (UsbConsole). `WF(Core1)`: core 1 does nothing but `for(;;)task()` (line 100).
`WF(HostControl)`, `WF(PollNotification)`, `WF(BulkIn)`: the host finishes the transfers it starts
and polls the IN endpoints, which a host with an open port does; without it no console delivers.
`WF(Read)`: the program reads its input. Nothing is assumed of `Write`, `BulkOut`, `SendSetup` and
`BusReset`, which may never happen. Weak fairness is enough: none of these steps is disabled by
anything but itself, a reset or the end of its transfer.

**Fairness** (Waits). `WF(Core0)`: the core goes on when it is awake. `WF(SysTick)`: the interrupt
comes every millisecond (`kernel.c:14`). `WF(SetReady)` and `WF(SendEvent)`: core 1 ends `hw()` and
makes its `sev`. Nothing is assumed of `Arrive` and `Drain`: `WaitEnds` says of `getchar` and
`putchar` only that they end once the byte or the room is there. With the tick's wakeup taken away
(the mutant of `WaitEnds`) a byte that arrives is never read.

`TxDelivered` is checked in `usb_stream` without requests after the configuration; with them it is
violated (`usb_wedged`). `RxInOrder` is checked without requests that reset endpoint 5; with them
`RxNothingInvented` is violated (`usb_stale`). The host sends nothing but control transfers in
`usb_control` (`MaxOut = 0` excludes the empty packet, too): a packet that endpoint 5 has received
and the firmware has not seen when such a request comes arms the buffer twice, and the second time
with the toggle that `ToggleAgreed` excludes. It is the same disagreement.

### What the violations show

* **Output stops** (`os/io_pico2.c:68`). In a pass that handles a SETUP only bits 0 and 1 leave
  `busy`, but line 67 has cleared all of `BUFF_STATUS`: a bulk IN completion seen in the same
  pass is forgotten and bit 16 stays, so line 76 returns in every later pass. Taking `s` out of
  `busy` in both cases, before `setup()`, avoids it.
* **Invented input** (`os/io_pico2.c:71`). `setup()` cancels and rearms endpoint 5 (lines 39, 40,
  56), but the copy of `BUFF_STATUS` still has bit 32, and `B(5)` now has the length of the new
  arm: 64 bytes of what the buffer happens to hold go to the program, and the buffer is armed
  twice.
* **Eleven files** (`libc/stdio.c:7`). `stdio.h:12` says `FOPEN_MAX` is 32, which in C is how many
  files a program can count on having open. `fopen` has eight slots (line 20) beside the three
  streams of the console, and refuses the ninth file (`OpensAsPromised`).

Disagreements that the models account for, without a run of their own:

* `os/io_pico2.c:47,57`: a descriptor, or the line coding, that is asked for with `wLength` 0 leaves
  `send()` (line 38) with `left` and `zlp` 0, so `next()` (37) arms the OUT status stage, while the
  status stage of a transfer without data is IN. The host is refused until it resets the bus or gives
  the transfer up. `ControlEnds` excepts just this (`ReadsNothing`), and the theorems of UsbProofs
  cover the requests that lead there (`Stuck`).
* the departures of the streams and of `vfmt` from C, which Streams and Format name (section 2).
* `libc/heap.c:231` against `libc/heap.h:17`: the free slots of the pools count in `free` but not in
  `largest`, so a request for more than `largest` can succeed.
* `t/heap.t:25` expects `realloc` of a 24-byte pointer to grow in place, but the test is built with
  the pools (`Makefile:14`), where it lies in a slot and always moves (`heap.c:206,216`); `CanStay`.
* `libc/time.c:13,18`: the 64-bit sum of `clock()` is cut off to a `clock_t` of 32 bits, so that it
  is the tick again, and `time()` is negative from 2^31 ms after boot (line 16: "epoch 0 is boot").
  `TimeAgrees` says what holds until then.
* `libc/math.c:17`: `roundf` adds a half in floating point. It gives 1 for the float just below 0.5
  and the next even number for odd integers from 2^23 to 2^24; `PartsExact` names just these.
* `os/perlos.c:43`: `pwd()` has a buffer of `PATH_MAX`, and `getcwd` needs one more for the longest
  directory; nothing is printed for it (the last line of `PathIsNormal`).
* `os/perlos.c:158`: `dump_sv` follows references without an end when data contains itself; Dump has
  values that do not.
* `example/ime.c:62`: "tsu" comes before "xtsu" in the table, so the rule for the small tsu can
  never apply; `RulesReached` excepts it.
* `libc/aeabi.c:75`: a double between half the least subnormal float and it becomes 0, where the
  nearest float is the subnormal; `NumbersExact` excepts it.

## 4. Proofs

TLAPS checks these for every value of the constants; the assumptions are the named `ASSUME`s of
the modules and no others.

| Theorem | Statement | Assumptions |
|---|---|---|
| `RingInvariant` | `Spec => []RingInv` | `M % N = 0`, `M > N`, positive sizes |
| `RingTypeCorrect` | `Spec => []TypeOK` | (in no run) |
| `RingNoOverrun` | `Spec => []NoOverrun` | |
| `RingImplementsFifo` | `Spec => ImplementsFifo` | |
| `UsbTypeCorrect` | `Spec => []TypeOK` | packets and rings of a byte at least; requests are `Requests` |
| `UsbControlConforms`, `UsbReplyWhole`, `UsbSidesAgree` | `Spec => []...` of the same name | |
| `UsbAddressAfterStatus`, `UsbKnownServed` | `Spec => ...` (action properties) | |
| `UsbSendsInTurn` | toggles of endpoints 2 and 4 | |
| `UsbBusAgrees` | `Spec => []BusInv` | `RxUndisturbed` |
| `UsbReceivesInOrder` | `Spec => []RxInOrder` | `NoRestart` |
| `UsbSendsInOrder` | `Spec => []TxInOrder` | `NoTxRestart` |
| `BlocksWellFormed` | `BlocksSpec => []WellFormed` | `Capacity >= 2` |
| `BlocksOthersKept` | `BlocksSpec => OthersKept` | |
| `BlocksCounted` | `blocks` is the number of headers | |
| `HeapOwns` | `Spec => []OwnInv` | pools one behind the other from 0; `SizeMax` is of the form `8k + 7` and more than the memory |
| `HeapUsesBlocks` | `Spec => UsesBlocks` | |
| `HeapWellFormed`, `HeapOthersKept` | the same for the heap with its pools | |
| `HeapServesWhatFits` | `Spec => []ServesWhatFits` | |
| `HeapPeakSound`, `HeapHistExact` | `Spec => []...` of the same name | |
| `HeapInvariant` | `Spec => []HeapInv`: types, statistics, peaks, histogram | |
| `HeapCountersExact` | `used`, `small_used`, `blocks`, each pool's `used` | |
| `HeapImplementsAllocator` | `Spec => ImplementsAllocator` | |
| `RomFdInvariant` | `Spec => []FdInv` | `NFD >= 3`; sizes, lengths and offsets fit their C types |
| `RomFdObjectForSlot` | `Spec => []ObjectForSlot` | |
| `RomFdImplementsDescriptors` | `Spec => ImplementsDescriptors` | |
| `WaitsInvariant` | `WaitsSpec => []WaitsInv` | `Ticks > 2`, `MaxMs <= Ticks - 2` |
| `WaitsTakeTheirTime` | `WaitsSpec => []WaitsItsTime`: on time on both boards, but for the tick a `wfi` misses | |
| `ReadlineTypeCorrect` | `Spec => []TypeOK` | buffer of one byte at least |
| `ReadlineReturnsWhatIsTyped` | `Spec => []ReturnsWhatIsTyped` | the same; `Intro` and `Final` are visible, control keys are not |
| `ReplBlockOwned` | `ReplSpec => []BlockOwned` | null is no address; memory has room for a block at each |
| `ReplImplementsSession` | `ReplSpec => ImplementsSession` | |
| `StreamsImplemented` | `StdioSpec => ImplementsStreams`: C's streams with the three departures of Streams | files are sequences of bytes no longer than `long` can tell, the end of file is no byte; `long` is no wider than `size_t`, offsets are of `long` |
| `CalendarKept` | `CalendarSpec => []TimeAgrees` | the tick, the second, the hour and the day have a length; years are integers |
| `GmtimeUndone` | `mktime(gmtime(t)) = t` for every `t` | the same |
| `ImeKeepsCharacters` | `Spec => []WholeCharacters` | a cursor is a character of 3 bytes and has two shapes; `SIZE > 3`; rules replace one character or more, and neither side has a cursor; letters and the newline are ASCII |
| `ImeImplementsEditor` | `Spec => ImplementsEditor` | the same |

**Ring.** `NoOverrun` is not inductive: it says nothing of how many bytes are in flight.
`RingInv` adds that readable bytes and bytes being copied fit together (`Bounded`), that loads are
of published bytes (`ReadsPublished`), that a store that has landed stays (`Copied`) and that a
load that has finished read what is still there (`Loaded`). The argument is that two counter values
less than `N` apart have different slots although both wrap; `ModuloFacts` proves the arithmetic of
`%` it needs, since the provers know little of it. `M % N = 0` is essential: with 2^32 and 64 it
holds, and without it slots would jump at the wrap. For the refinement each step of Ring is mapped
to one of ByteFifo or a stutter: `CopyIn`, `StoreLands`, `CopyOut` and `LoadLands` stutter, the
publishing steps are `Put` and `Get`.

**Blocks.** `WellFormed` is `Tiled` (starts at the start, each block ends at the next, no
overlap), `Linked` (prev is the way back) and `Coalesced` (no two free neighbours). `join` and
`split` pass through states that are not coalesced, so the lemmas are about
`Whole(f) = Tiled(f) /\ Linked(f) /\ Apart(f, {})`, where `Apart(f, X)` excuses the blocks in `X`:
`MergedGood` and `CutGood` are the two surgeries, `JoinApart` and `SplitGood` what `join()` and
`split()` leave, and `TakenWhole`, `FreedWhole`, `ResizedWhole` and `MovedFine` the operations. The
search is up through the blocks, which is the least fitting address: `FirstFitFits` gets it from
the well-foundedness of the naturals.
What is proved of Blocks holds of Heap because Heap's steps are steps of Blocks or leave it alone
(`HeapUsesBlocks`), within their preconditions also where a request wraps.

**Heap.** `OwnInv` says that what the program owns is exactly what the blocks in use and the slots
off their lists hand out (`Out`), one pointer each, and that each piece is large enough. Every
operation *trades* one address for another, in the blocks or in a pool (`Traded`, with `Gives` and
`Drops` for what comes and goes), and the other pieces keep their place and size, so one lemma for
each trade serves all operations. The rest stands on it, each with its own strengthening: `PeakInv`;
`HistInv` (a bin has the pointers whose piece has its size); `UsedInv`, `PoolCount` and `Headers` for
the counters, which are sizes of sets of words and of headers; `MemInv` for Allocator, that memory
holds what was written where it is owned. `heap_get_stats()` is recursive in Walk, a function on the
places a walk can be in. The proof names what it should have found from a place on (`Found`), shows
that this satisfies the equation that defines Walk wherever a walk of these blocks gets to
(`FoundStep`), and that only one function does, by the least place where another would differ
(`MetOn`, `WalkFinds`). The sums over pools and pointers are treated the same way: `SumCounts`
says that the sum of the sizes of sets that are apart is the size of their union, and then
`StatsAgree` is that two unions are the same set of words. Walk takes one record instead of three
arguments because the SMT solver does not see functions of several arguments.

**USB.** `CtlInv` has one predicate for each place the host can be in (`HostNow`): which buffer of
endpoint 0 is armed, with what toggle and length, what is left to send and which completions the
firmware may still not have read. The hard places are those where completions of the transfer
before are unread when its successor's SETUP comes. `UsbControlConforms`, `UsbReplyWhole`,
`UsbSidesAgree` and the action properties follow from it. For the other endpoints `Expect(k)` is the
toggle the host uses next once the transfer in progress has ended; `BulkInv` says that what is armed
to be sent has it; `RxInv` that the buffer of endpoint 5 has it and that a packet is in one place
only: under way, reported but unread, or being unpacked (`rxlen`). `RxSeq` and `TxSeq` follow the
numbers of the bytes through every place where they wait. Each of these was a TLC invariant of the
runs' instances before it was proved. Three theorems have a hypothesis on the requests made once the
device is configured, because without it they are false:

* `RxUndisturbed` (no such request resets endpoint 5, or the host sends no data), and `NoRestart` (no
  such request resets endpoint 5): such a request breaks toggles and bytes, as `usb_stale` shows;
* `NoTxRestart` (no bus reset, and no such request resets endpoint 4): either discards a packet that
  the host has not fetched, which it is meant to, so that bytes are missing. `TxInOrder` speaks of a
  port that is left open.

**RomFd.** `RefsExact` needs `ConsoleStays` (descriptors 0, 1, 2 keep their objects: otherwise
closing copies could free one) and `PosFits` needs `OthersAreFiles` (what is read or moved has a
file that `long` can address). The counting is in two lemmas, `NamingAdd` and `NamingDrop`: a
descriptor that is given or closed changes the number of names of one object by one and of no
other. `InvObject` gets `ObjectForSlot` from `FdInv` by the pigeonhole principle: were there no free
object, each of the `NFD - 3` would have a descriptor of its own among the fewer that are taken.
So `return fail(ENFILE)` at line 90 is never reached.

**Waits.** `WaitsItsTime` speaks of the end of a wait only. `WaitsInv` says at every place of the
loop how much has passed: `Counted` has the difference of ticks equal to `elapsed`, and a core that
has looked at the clock, or sleeps in `wfe`, before its deadline; a tick since that look has
left an event if the core has still to pass `wfe`, so that it does not sleep over its deadline, in
`msleep` on either board.
`ByteIsNew` says that a byte which is there behind the test came after it. The assumption is that a
wait and the tick that `wfi` may miss are less than a turn of the tick (`TickCounts`, with the facts
of `ModuloFacts`). The step that matters is `SysTickInv`.

`RomFdImplementsDescriptors` maps a descriptor to the object it names and forgets the counts; the
step that matters is `close`, where only the exact count says whether the object has another name,
and `open` and `dup`, where the object or the name that is given must be nobody's.

**Readline and Repl.** `TypeOK` of Readline says that the text is always shorter than the buffer;
`ReadInv` adds only what the bound on keys needs. `ReturnsWhatIsTyped` compares the key-by-key code
with LineText, which reads the whole sequence of keys, and needs `TypedInv`: the parser that takes
the escape sequences out is where `escape` says (`At`), the buffer holds the text of the keys so far,
unless it has been too short for it (`Spelt`), and `skip_lf` is about the key before. That one key
more changes the parse only at its end is not obvious from `Plain`, which is recursive from the
front: first `Plain` is shown to be the one solution of its equation (`ParseOnce`, `ParseSome`, by a
shortest counterexample), then that what is done with is parsed apart from what follows (`Done`,
`Unfinished`, `AtKey`, `AtEscape`). Likewise LineText says which keys are left by counting erasures
and characters after each of them; the balance of the two (`Bal`) shows that BS takes the last one
away that is left, and nothing when none is (`LeftErase`, `TextErase`), and that another key adds
one or none (`TextAppend`, `TextSame`). The bound `MaxKeys` is a constant of the theorem, so it
holds for calls of any length. `BlockOwned` of Repl is inductive with the types of the block
(`ReplInv`); the step that matters is `CollectInv`, where the grown block is shown to
have room for all that is stored in it, whatever `realloc` did. For `ReplImplementsSession` the
text of the block is what Session has collected, so every step has to be a step of Session on it,
a failed `realloc` included.

**Stdio.** `fread` and `fgets` loop over `fgetc`, and Streams takes the front of what is still to be
read at once. `GatherShape` goes turn by turn: after `i` turns the loop has the first `i` characters
of a rest, or stopped at its end or at a new line, and the stream's place has moved by as many
(`OneTurn`, `NextCharacter`). The character pushed back is one less in the place and first in the
rest, which `Moved` says once for all of them. A count that wraps (`Bytes`) reads less than was asked
for, and Streams allows just that. The rest is the mapping `Seen` of a slot to a stream, and for
each call that it changes one stream (`SeenChanged`) or none (`SeenSame`). A seek needs the invariant
that places stay where `long` can tell them (`PlacesFit`): then a sum overflows by less than a turn,
and comes out negative if it passed the greatest `long`.

**Calendar.** `CalendarSpec` makes any calls: `clock()` at any ticks, `gmtime` of any day's last second,
`mktime` of any fields. `TimeAgrees` speaks of one of them at a time, so there is no invariant to
strengthen, but arithmetic with truncating division to be shown. `days` counts from 1 March of a year 0, and a day is always
day `n` of such a year (`Start`, `MarchLength`): the year that `gmtime` computes from the day of an
era is that year (its four quotients are what the leap days before it add up to), the month is the
one in whose days `n` lies (`MonthFound`), and `GmtimeIs` puts the date together. `GmtimeUndone` is
then that `days` of that date is the day again. The next day is day `n + 1` or the first of the next
year, which is the rule of `Tomorrow`. The theorem is about integers: it leaves out the check of line
53, that the year fits an `int`.

**Ime.** The invariant (`ImeInv`) is that the array is the bytes of a text with a cursor in it
(`Text`: the characters before, the cursor's shape, the characters after) and shorter than `SIZE`.
The code knows bytes only, so the work is to show that whatever it finds is a place between
characters: `Off(cs, i)` is the number of bytes before character `i + 1`. A byte that continues no
character starts one (`Starts`), so a match of whole characters in the bytes starts at one
(`Finds`) although bytes are compared; `prev_char`, `column`, the line's start and end and the walk across
a line come out at `Off` of what Editor counts in characters (`Previous`, `ColumnIs`, `LineStartIs`,
`LineEndIs`, `AcrossIs`). A rule that held a cursor could match across it, and one
that replaced nothing anywhere; no rule of the tables does, and `ImeAssumption` says so. Then a match
is all before the cursor or all after it (`MatchesAround`), those before are found first
(`RuleApplies`), and the chain of both tables is the chain of Editor's rules (`TablesConvert`). Each key has one lemma (`LeftDoes`, `RightDoes`, `UpDoes`,
`DownDoes`, `BlinkDoes`, `EnterKeeps`, `TypeKeeps`); `CharsIs` says that the reading of the array as
characters, from which `View` is made, gives back what it was put together from. The recursive functions
of the code and of Editor are reached by `Recursion` of `ModuloFacts`: a definition whose steps make
a number smaller has exactly one solution.

**Only model-checked.** The other functions without state (CString, Stdlib, Aeabi, FloatParts,
RomTree, Printf, Format, Dump), which are compared with their definitions over bounded arguments;
`RulesReached` of KanaRules, which is about the real tables; `UsbConsole` where a request resets an
endpoint in use.

**Out of the prover's reach.** Liveness under fairness and `ENABLED` (so `ControlEnds`,
`TxDelivered`, `TxDeliveredAlone`, `RxDelivered`, `WaitEnds`); induction over data by the library's
theorems, which take an operator parameter (where a theorem above needs one it takes the least
counterexample instead); `RECURSIVE` operators, of which the modules with theorems have none, and
which the modules of the library functions need.

## 5. Not modelled

* **Bring-up** (`os/io_pico2.c:26-28,81-98`): clocks, PLL and resets are a straight line of writes
  and polls. `start()` exchanges six words with the boot ROM, and starts again when an answer is
  wrong; what the ROM answers is not in the repository, so a model would check an assumption.
* **Heap**: the diagnostics of the last failure, the call counters, the peak and maximum histograms.
* **Calendar**: years that do not fit an `int` (`time.c:53`).
* **stdio**: infinities and NaN, the capital digits of `%X`, the wrap of a width of ten digits.
* **math**: series and approximations (`sinf`, `expf`, `powf`, `fmodf` ...). Their error is a matter
  of real analysis; a small format says nothing of it. `poom.c` and `rocket.c` are drawings made of
  them.
* **Small functions** that are one expression or a loop over it: `rand`, `abs`, `div`, `memset`,
  `strcpy`, the texts of `strerror`, the calls of the ROM file system that only fail with `EROFS`.
* **setjmp**, boot, linker scripts, the Perl interpreter with its XS glue, and the host's build
  scripts: registers and memory layout, code that is not in the repository, or not in the system.
