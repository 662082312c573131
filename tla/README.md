# Verification of the bin-os kernel

TLA+ models of the kernel in `kernel/src`, checked with TLC and, where stated,
proved with TLAPS.  Paths below are relative to `kernel/src` unless they begin
with `kernel/`.

The kernel is small: a boot sequence, an interrupt path for two lines, a heap,
a keyboard driver and a shell that runs inside the keyboard interrupt, draws on
the framebuffer and logs to the serial port.  Nothing
is persisted and there is one CPU, so what is hard is the order in which things
happen (interrupts at any instruction, two contexts over one set of variables,
devices with state of their own) and long sequences of legal calls on a data
structure (the free list, the input line, the history ring).

## 1. Inventory

| Component | State | Operations | Hard behaviour | What makes it correct |
|---|---|---|---|---|
| Heap, `memory.c` | `heap_memory`, `heap_start`, headers `{size,is_free,next}` inside the array | `init_heap`, `malloc`, `calloc`, `realloc`, `free`, `get_heap_stats` | long sequences of splits and merges; size arithmetic at the edge; a `realloc` that fails half-way | the blocks tile the array; grants are disjoint; contents survive `realloc`; nothing is lost; nothing that fits is refused |
| IDT and IRQ dispatch, `cpu/interrupts/*` | the IDT, the IDT register, the CPU's interrupt flag, frames on the stack | `idt_init`, `install_exceptions`, `install_irq_common`, `install_irq_handler`, `idt_load`, stubs of `isr.asm`, `irq_handler` | an interrupt at any instruction; the order of boot; two EOIs for one timer interrupt | no interrupt without a handler; an EOI ends the service it is meant for |
| 8259 PICs, `cpu/pic/pic.c` | vector base, mask (request and in-service in the chip) | `init_pic`, `pic_enable_irq`, `PIC_sendEOI` | requests latched before or across the initialisation | as above |
| PIT, `timing/timer.c`, `timer.h` | `timer_ticks` | `on_irq0`, `timer_wait` and its three units, `init_timer*` | a tick between `timer_wait`'s test and its `hlt`; rounding and wrapping of the units | `timer_wait` returns, and not early |
| PS/2 keyboard, `ps2_keyboard/keyboard.c` | modifier flags, `extended_scancode` (the output buffer in the controller) | `init_keyboard`, `keyboard_handler` | a byte stuck in the controller; a prefix and its code in two interrupts; keys that overlap; an event cut in two when `init_keyboard` empties the controller | every byte is taken once, in order, and decoded with the right map; no modifier sticks |
| Shell, `shell/shell.c` | `input_buffer`, `input_index`, `cursor_pos`, `command_buffer`, `history` and its two indices | `input`, backspace/delete/kill/cursor operations, history up/down, `parse_args`, `parse_command` | array, two indices and a terminator through any mixture of edits; the ring wrapping; `shell_init` with interrupts on | the array and indices behave as a line with a cursor; the ring as a log |
| Boot, `main.c` | - | `kmain` | the order of its calls | see interrupts; `shell_init` |
| Real-time clock, `timing/rtc/rtc.c` | none that survives a call | `read_rtc_time`, `get_rtc_time_12hour`, `display_current_time` | the clock carries between two register reads | what is displayed is a time the clock showed |
| ACPI glue, `acpi/*` | none | the callbacks of uACPI | a status handed from one convention to another | success is reported as success |
| Screen, `draw/draw.c` and the printing of `shell.c` | framebuffer, text cursor | `draw_rect`, `draw_string`, `move_cursor_*`, `clear_screen`, `shell_print_color`, `shell_newline`, `shell_scroll_up`, `shell_draw_input_line` | wrapping and scrolling at the bottom; the prompt's place computed from the text cursor; a key while `shell_init` prints | the typed line is shown as it is; output stays; nothing is drawn on other text |
| Serial port, `serial/serial.c`, and `utility.c` | the UART's registers | `init_serial`, `write_serial_char`, `serial_printf`, `to_string` | an interrupt that prints between `kmain`'s poll and its write; a loopback test that fails; conversions at their limits, INT_MIN above all | nothing printed is lost or reordered; numbers read back |
| GDT, speaker, CPUID, `io.h` | constants, ports | set-up, port I/O | none that is reached | not modelled |
| `fs/`, `ide/`, `pci/` | - | empty source files | - | nothing to model |

How they interact.  `kmain` calls everything once and then halts in a loop.
From `sti` on the PIC raises line 0 or 1, `isr.asm` enters `irq_handler`, which
calls `on_irq0` or `keyboard_handler`; the latter reads the controller, decodes
the byte and calls the shell, which runs the command before the interrupt ends.
Gates are interrupt gates, so handlers do not nest: shared state is touched by
at most one handler and by `kmain`.  The heap is called by `kmain` and, at
boot, by uACPI; no handler allocates.  The serial port is written by `kmain`
and by the keyboard handler with nothing but the line status between them.  On the
screen `shell_init` prints with interrupts on, so that the handler may print in
the middle of it; after that the handler is alone.

The hazards of this code, each at its line with the properties that would see
it go wrong, are the list `hazards` of `PROJECT.json`.

## 2. Modules

| Module | Models | Relation to others |
|---|---|---|
| `Allocator` | what a client of `malloc`, `calloc`, `realloc`, `free` relies on; no list, no headers | abstract specification of `Heap` |
| `Heap` | `memory.c`: the free list, the cells, the calls | implements `Allocator` |
| `HeapLoops` | the loops of `memory.c`, one iteration at a time, as a reference for `Heap`'s closed forms; the two directions of `memmove`; `get_heap_stats` | extends `Heap` |
| `HeapProofs` | theorems about `Heap`, its refinement of `Allocator`, and the loops | extends `HeapLoops` |
| `DataLemmas` | least and greatest elements, induction and recursion over numbers, sequences given as functions | used by `HeapProofs`, `ShellProofs`, `SerialProofs` |
| `Interrupts` | `main.c` (boot), `idt.c`, `isr.asm`, `pic.c`, `timer.c`, `timer.h`, the controller side of `keyboard.c`, `acpi_init`'s outcome | stands alone; scancodes are numbers |
| `InterruptsProofs` | theorems about `Interrupts` | extends `Interrupts` |
| `LineEditor` | a line of text as what is before and what is after the cursor, and a log of commands | abstract specification of `Shell` |
| `Shell` | `shell.c`: line, history, arguments, dispatch | implements `LineEditor` |
| `MCShell` | two characters, a command | instance for TLC |
| `ShellProofs` | theorems about `Shell` | extends `Shell` |
| `ShellBoot`, `MCShellBoot` | `shell_init` store by store, with the keyboard handler in between | extends `Shell` |
| `Keyboard` | `keyboard.c`: scancode decoding, modifiers, key actions | drives an `INSTANCE` of `Shell` |
| `KeyboardProofs` | theorems about `Keyboard` | extends `Keyboard` |
| `Screen` | `draw.c` and the printing of `shell.c` | what `Shell`'s operations draw; any edit may leave any line |
| `MCScreen` | four lines of text | instance for TLC |
| `ScreenProofs` | theorems about `Screen` | extends `Screen` |
| `Serial` | `serial.c`, `utility.c` | stands alone |
| `SerialProofs` | theorems about `Serial` | extends `Serial` |
| `RTC` | `rtc.c`: the double reading, the conversions | stands alone |
| `RTCProofs` | theorems about `RTC` | extends `RTC` |

How they correspond to the code:

* **`Heap`.**  An address is an offset into `heap_memory`.  `blocks` maps the
  address of each linked header to its three fields; `mem` is the array, cell by
  cell, where writing a header fills `sizeof(block_t)` cells with `HdrCell`, so
  that a header over a payload and a payload over a header are both visible.
  `live` is a history variable: the pointers the callers hold and the sizes they
  asked for, which for `calloc` is `num * size` itself, whereas what it is
  granted is the product taken modulo `SizeMod`, the width of `size_t`
  (`memory.c:98` does not check).  A caller who fills the whole product
  overwrites the headers behind its block; `overrun` records that, and no call
  is followed after it, as the lists in the array are then what the caller
  wrote. Until then such a block is held, moved and freed like any other.  Each
  call is one action, with everything it does: `malloc` initialises the heap
  when needed, splits and marks; `free` ends in `coalesce`; `realloc` that moves
  is malloc, copy and free.  The walks over the list are closed forms (the
  lowest block that fits; every run of free blocks collapsed), and so are the
  copies.  `HeapLoops` has the loops as they run, as recursive functions of the
  block or of the number of iterations, and `LoopsAgree` says that the two are
  the same.  In `Allocator` the same promise is weaker for a grant of `Limit`
  cells or more: it disturbs nobody, but its owner may not use all of it
  (`GrantShort`, `Trespass`).
* **`Interrupts`.**  A step is one instruction that touches a device or a
  variable shared by two contexts, so an interrupt may come between any two.
  `BootOrder` is `kmain`'s list of calls; `frames` holds the handler in
  progress and how far it is; `imr`, `irr`, `isr` are the PICs' registers;
  `obf` is the controller's output buffer.  The PIC (edge-triggered, fixed
  priority, non-specific EOI), the PIT, the controller and the keyboard are
  external and modelled as the code uses them.  Firmware may have left
  requests latched, the keyboard enabled and a byte in the controller.
  `timer_wait` is called from `kmain`'s context; in the source only `beep`
  calls it.  The three conversions of `timer.h` are functions of the number
  asked for, in unsigned arithmetic of `UIntMod`, each with a constant for the
  unit (10000 microseconds, 10 milliseconds, 100 ticks in a second).
* **`Shell`.**  An action is one call, which is atomic because it happens in
  the keyboard handler with interrupts off.  `input_buffer` keeps its stale
  characters; `history` and `command_buffer` are only ever read as strings and
  are sequences.  The history, home/end, delete and kill operations are part of
  the interface of `shell.c` although `keyboard.c` does not call all of them
  yet; they are modelled as the interface offers them.  `parse_args` is a
  recursive function over the places where its loop begins an argument, with
  both of its limits, and `cmd_history` one over the slots its loop prints.
  `Letters`, `Words` and `Joined` belong to the property `ArgsKeepText`: they say
  what a line's text and words are, with no regard to how it is parsed.
* **`Keyboard`.**  `keyboard_handler` is one action per byte.  The keyboard is
  external: keys physically down, and the bytes on the wire with auto-repeat,
  E0 prefixes and the fake shifts of PrintScreen.  The scancode maps keep one
  entry for each way the driver has of treating a key.  The model begins when
  `init_keyboard` has emptied the controller, which it may do in the middle of an
  event: the rest of that event is still on the wire, and keys may be down.
  `cut` is a history variable that says whether the prefix of the first byte, or
  of the fake shift that is now on, is what was thrown away.
* **`ShellBoot`.**  `kmain` calls `shell_init` after `sti`; the variables are
  not volatile, so the stores before `memset` may be made in any order.
* **`RTC`.**  One action per register read.  Seconds, minutes and hours stand
  for the seven registers, which are read and compared in the same way.  During
  an update a register reads as its old value, its new value or junk.  Both
  functions that turn the hour into one of twelve are translated.
* **`Screen`.**  `fb` is the framebuffer, pixel by pixel with its pitch, so that
  the arithmetic of `shell_scroll_up` and of the two edges is the code's own.  A
  pixel holds the character whose ink it shows; a character inks its whole cell,
  and ink on other ink gives `Mixed`.  A key is one action that changes `line`
  and queues in `todo` what its handler prints, in the code's order; the steps of
  `PrintItem` take the queue character by character, each with its wrapping and
  scrolling, so every intermediate screen is a state.  `boot` is what `kmain` has
  still to do of `shell_init`: a key may come before it and between any two steps
  of it, and `kmain` goes on when the handler is done, wherever that has left the
  text cursor.  The steps are whole characters and whole lines; an interrupt in
  the middle of one, between two pixels or between drawing a character and moving
  the cursor, is not followed.  `early` counts the keys since one was handled in
  `shell_init`; while it is not 0 the screen is `Disturbed`, until the shell
  clears it and `kmain` is done.  Scrolling is a function on all the memory it
  writes to, so that a write outside the framebuffer violates `TypeOK`.  A message
  of several words is one letter.
* **`Serial`.**  The loop that waits for the transmitter and the `outb` after it
  are two steps, `Poll` and `Write`; the keyboard interrupt comes between any two
  steps of `kmain` and runs to its end.  The UART is external: a FIFO of `Depth`
  characters, sent to the wire or, in loopback, to its own receiver.  What a
  call of `serial_printf` writes is computed by the conversions as the code makes
  them: remainder by remainder, in C's division, with pointers cut to `int`.
  `%d` takes every `int`.  For INT_MIN the code's negation is undefined, and what
  is printed after the sign is any of the outcomes that gcc produces: some of the
  leading digits, and from then on bytes from in front of the literal (`Garbled`).

Operators introduced as *faulty variants* are no part of any model.  Each is
what a plausible slip would make of the operator after it (a dropped guard, an
off-by-one, a swapped order) and serves to see that a property tells the two
apart; `mutants` in `PROJECT.json` pairs each property with one.

## 3. What the runs check

| Run | Instance | Shows |
|---|---|---|
| `heap` | 13 cells, header of 2, 4-bit sizes, requests 0, 1 and 6, two-valued cells; 7,652 states | `Tiles`: no gap, no overlap, no lost link. `NoAdjacentFree`: although only `free` coalesces. `EmptyHeapIsWhole`: the heap forgets every history. `NoFalseExhaustion`: a request is refused only if no hole has room for it and a header. `LoopsAgree`: the closed forms are what the loops compute, and `memmove` copies between overlapping places. `StatsAddUp`. `UsedIsLive`: no leak, no block both free and held, none smaller than asked for but by `calloc` of a product that wraps. `HeadersIntact`: no access damages a header until a caller fills such a product. `AllocatorSpec`: the heap implements `Allocator`, contents included |
| `interrupts` | 3 scancodes, a wait of 2 ticks; 11,257 states, with fairness | `ServiceMatches`: the timer's second EOI never ends another line's service. `NoWedge`: no byte sits in the controller without a request for it. `TakesInOrder`, `CpuAlive`, `WaitsLongEnough`. `WaitsAsAsked`: the same in microseconds, milliseconds and, unless their ticks wrap, seconds; live: `ScancodesHandled`, `WaitReturns` |
| `interrupts_sci` | expected violation of `InstallReported` | finding 1 |
| `shell` | 3 characters of text, ring of 2, 2 arguments of 1 character; 98,410 states | `LineSound`: terminator, length and cursor agree and nothing stale shows. `NoHoles`: history-up never stops before the oldest command. `ArgsKeepText`: arguments put together are the text without its spaces, and the words when those fit. `EditorSpec`: `Shell` implements `LineEditor` |
| `keyboard` | 6 keys, 4 bytes on the wire, any part of an event left by `init_keyboard`; 4,370,332 states | `PrefixInStep`: each code is looked up in the map it was sent for, but for one whose prefix `init_keyboard` threw away. `NoStuckModifier`: no modifier is on without a key of its kind, but for a fake shift that lost its prefix so |
| `keyboard_help` | expected violation of `HelpHome` | finding 2 |
| `shell_boot` | expected violation of `CursorInText` | finding 3 |
| `screen` | 4 columns, 5 lines of 4 pixel rows, keys also before and in `shell_init`, 2 that are followed until the screen is cleared; 762,350 states | `TypeOK`: nothing is drawn outside the framebuffer, whenever a key comes. Of a screen that no key has disturbed in `shell_init`, or that was cleared since: `CursorInside`: after wrapping and scrolling there is room for one more character, so nothing is lost at an edge. `LineShown`: while the shell waits, its line shows the prompt and the text and nothing else, scrolled or not. `LegibleUntilScroll`: nothing is drawn on other text before the first scrolling. Of every screen: `OutputStays`: a step changes nothing but the text cursor's line, except one that clears the screen or scrolls |
| `screen_scroll` | expected violation of `OutputLegible` | finding 4 |
| `serial` | FIFO of 2, 5-bit integers, 6-bit pointers, 2 interrupts; 473,971 states, with fairness | `TypeOK`: no number but INT_MIN indexes outside the digits. `NoOverrun`: an interrupt between poll and write never makes the write overrun the FIFO. `NothingLost`: each writer's characters go out once and in order, INT_MIN's too. `ReadsBack`: every number but INT_MIN reads back, in all conversions. `GetsOut`: nobody waits for ever, not even after a loopback test that failed |
| `serial_min` | the same without interrupts; expected violation of `NegativesReadBack` | finding 5 |
| `rtc` | every hour, 2 minutes, 3 seconds, all four modes; 822,912 states, with fairness | `NeverTorn`: what is read is one instant's time. `DisplaysTime`: and it is displayed rightly. `Returns`: the loop ends |

### Bounds, and why they are enough

* `heap`: 13 cells hold four one-cell blocks, so a freed block can have free or
  used neighbours on both sides, runs of three free blocks arise in `coalesce`,
  and `realloc` can move to the left, to the right or fail.  A request of 6 for a
  hole of 8 leaves exactly a header, and one of 1 for a hole of 4 a cell more, which
  is the boundary of `Splits`.  `6 * 6` wraps in four bits and is granted 4 cells;
  `1 * 6` does not wrap.  Contents need two values to be told apart.  The theorems
  of section 5 lift the bound.
* `interrupts`: a byte in the handler, one in the controller and one on its way
  is all that the one-byte controller can distinguish.  `timer_wait(2)` is the
  shortest with a tick that is neither first nor last.  Counters are cut off at
  `Wait`, beyond which nothing depends on them.  Units of 3, 3 and 2 modulo 16
  make every rounding and every wrap of `timer.h` happen.
* `shell`: a text of three characters is the shortest with a cursor strictly
  inside and a shift of more than one character on one side; two characters
  make spaces and words; a ring of two wraps and has a repeat that is not the
  slot about to be written.  With `MAX_ARGS` and `MAX_ARG_LENGTH` of 2 a text of
  three reaches both limits: two arguments, and a word too long for one.  All
  five properties are proved for every size.
* `keyboard`: two keys for one flag, a prefixed Ctrl, a key whose codes contain a
  fake shift, a letter with a Ctrl action, and Enter; four bytes hold PrintScreen's
  make sequence or two prefixed events in flight, and `init_keyboard` may have
  taken any number of the bytes of any event.  Both properties are proved for all
  keys.
* `screen`: a line of four characters wraps in the middle of a command's output,
  the longest of the four lines does not fit behind the prompt, and of the five
  lines the welcome and the prompt take four, so that the first command scrolls
  at once; after a clear there are four lines before it comes to that.  `MaxEarly`
  of 2 lets a second key come on a screen that the first has disturbed, and a third
  if it clears the screen, in all places of `shell_init`.  A line is
  four pixel rows high because `shell_scroll_up` is wrong by a factor of four.
  Every safety property of the run is proved for all sizes.
* `serial`: a FIFO of 2 is the least for which `NoOverrun` can hold, so the proof's
  bound is met exactly; five-bit integers have two digits in base 10 and in base
  16, both signs, INT_MIN and its neighbours, and pointers that do not fit; two
  interrupts come in one call.
* `rtc`: a carry from seconds to minutes, from minutes to hours and over
  midnight, with every hour, as the conversion depends on it.

### Fairness, and why the code justifies it

* `interrupts`: `Boot`, the handlers and the controller are weakly fair: the
  CPU executes and devices go on.  `timer_wait`'s own steps are strongly fair:
  `kmain` gets to run between two ticks, as a handler takes far less than the
  ten milliseconds between them.  Delivery of the timer is weakly fair (it has
  the highest priority and interrupts are on whenever no handler runs).
  Delivery of the keyboard line is strongly fair, because a tick may get in
  before it; `ScancodesHandled` moreover assumes `HandlersLeaveTime`, that not
  every instant has a tick pending.  Typing is not fair.
* `rtc`: `kmain` executes, and an update that was announced begins and ends.
  A further update is announced only after the reader had time for a body of
  the loop, which takes microseconds of the second between two updates; it may
  still fall anywhere in a body.
* `serial`: the UART sends what it holds; `StartTest`, `ReadTest`, `Poll`,
  `Write` and `Return` are weakly fair, as the processor goes on with whoever
  runs.  An interrupt stops `kmain`'s steps only until its handler returns, and
  `MaxIrqs` of them come.  Printing and pressing keys are not fair.
* The other runs check safety only.

## 4. Findings

1. `uacpi_kernel_install_interrupt_handler` (`acpi/uacpi_helpers.c:209`)
   returns OK exactly when `install_irq_handler` returns nonzero, but that
   function returns 0 for "Success" (`cpu/interrupts/idt.c:111`).  On a machine
   whose firmware has a system control interrupt boot ends in `hcf`.
2. The help text (`shell/shell.c:385`, `:391`) promises that Ctrl+A and Home
   move to the beginning of the line; `keyboard.c` does nothing for them.
3. `shell_init` runs after `sti`.  A key handled between its stores leaves the
   cursor beyond the text, and what is typed next goes behind a terminator.
4. `shell_scroll_up` (`shell/shell.c:107`) divides `fb_pitch` by four, but
   `init_framebuffer` stored it in pixels already (`draw/draw.c:79`).  It moves a
   quarter of the screen by a quarter of a line and leaves the bottom line, on
   which the next line of output is then drawn.  It does not leave the
   framebuffer (`TypeCorrect`), and the input line itself, which is wiped before
   it is drawn, stays right (`LineIsShown`).
5. `int_to_string` takes care of negative numbers by `value = -value`
   (`serial/serial.c:52-53`), which for INT_MIN is none: `:63` then indexes the
   digits with remainders below zero.  `serial_printf("%d", INT_MIN)` writes a sign
   and bytes from in front of the literal: with gcc 12 and the flags of
   `kernel/GNUmakefile` the last digit is wrong, without optimisation all are.
   `to_string` (`utility.c:8-10`) has the same negation.

Met while modelling, and not checked by a run because no text of the repository
says otherwise or nothing depends on it: `calloc` does not check its product
(`memory.c:98`), so a caller that fills what it asked for may overwrite the headers
behind its block (`UsedIsLive` and `HeadersIntact` state this exception); a key
handled while `shell_init` prints draws its line at `kmain`'s text cursor, also two
columns left of the left edge, and `kmain` prints on over it, so that output and the
input line are mixed until the screen is next cleared (`Disturbed`); when
`init_keyboard` throws away the E0 of an event and not the rest
(`keyboard.c:241-243`), the rest is taken for another key, and the fake shift of
PrintScreen leaves Shift on until the next event of a Shift key (`cut`);
`timer_wait_seconds` wraps at 32 bits and then waits too short, and
`timer_wait_micros` does not wait at all for the last 9999 numbers of microseconds
(`timer.h:19`, `:28`; `WaitsAsAsked`); 12-hour mode shows the hour between
twelve and one wrongly at noon and at midnight (`rtc.c:76-78`; `DisplaysTime`
states this exception); the year is an `unsigned char` and overflows
(`rtc.c:81`); letting go of one Shift turns the flag off while the other is
held (`NoStuckModifier` states one direction only, for that reason); `exit`
prints a message and the shell stays (`shell.c:443`), with the text cursor in
column 0, so that the prompt of the next line is drawn left of the screen, that
is not at all (`LineShown` states this exception); history-down at rest clears
the line; the test of a vector against 256 in `idt.c:98` cannot fire as the
vector is a `uint8_t`; the comment `main.c:73` that a request should reuse freed
space holds only when first fit comes to it; `serial_printf` writes `%zu` as it
stands and cuts a pointer to an `int` (`serial.c:158`); a line longer than the
screen is cut at its edge; `wait_for_rtc_interrupt` and `timer_wait` would not
return if a command called them, as commands run with interrupts off, but none
does.

## 5. What is proved

All theorems hold for every value of the constants that satisfies the named
assumption of the module.

| Theorem | States | Module |
|---|---|---|
| `HeapInvariant` | `Spec => []IInv` | `HeapProofs` |
| `HeapTypes`, `HeapTiles`, `HeapCoalesced`, `HeapUsedIsLive`, `HeapHeadersIntact`, `HeapForgets`, `HeapNoFalseExhaustion`, `HeapLoopsAgree`, `HeapStatsAddUp` | the safety invariants of `heap` | `HeapProofs` |
| `HeapImplementsAllocator` | `Spec => AllocatorSpec` | `HeapProofs` |
| `InterruptsInvariant` | `Spec => []InterruptsInv` | `InterruptsProofs` |
| `InterruptsTypes`, `InterruptsService`, `InterruptsNoWedge`, `InterruptsTakesInOrder`, `InterruptsCpuAlive`, `InterruptsWaits`, `InterruptsWaitsAsAsked` | the safety invariants of `interrupts` | `InterruptsProofs` |
| `ShellInvariant` | `Spec => []ShellInv` | `ShellProofs` |
| `ShellTypes`, `ShellLineSound`, `ShellNoHoles`, `ShellArgsKeepText` | the safety invariants of `shell` | `ShellProofs` |
| `ShellImplementsEditor` | `Spec => EditorSpec` | `ShellProofs` |
| `KeyboardPrefix`, `KeyboardNoStuckModifier` | the two properties of `keyboard` | `KeyboardProofs` |
| `TypeCorrect`, `StaysInside`, `OnlyOneLineChanges`, `LegibleBeforeScrolling`, `LineIsShown` | the five properties of `screen` | `ScreenProofs` |
| `NeverOverrun`, `SerialTypes`, `SerialLosesNothing`, `SerialReadsBack` | the safety invariants of `serial` | `SerialProofs` |
| `ReadingIsGenuine`, `DisplayIsTime` | `NeverTorn` and `DisplaysTime` of `rtc` | `RTCProofs` |

Every safety property that a passing run checks is thus also a theorem.

**Heap.**  `HeapAssumption` asks for a header of at least one cell, an arena
larger than a header and no larger than a `size_t` can say, requests that are
each a `size_t`, a null pointer that is no integer and a header cell that is no
byte.  The inductive invariant `IInv` joins `TypeOK`, `Tiles`, `NoAdjacentFree`,
`UsedIsLive` and `HeadersIntact`.  None of these is inductive alone: `free`
takes the pointer's block from `live`, so it needs `UsedIsLive` to find a header
and `Tiles` to know what the neighbours are; `HeadersIntact` needs that payloads
end where the next header begins, and that only a caller with a product beyond
every `size_t` writes further; `realloc` that moves splits one block, copies
into it and frees another, and needs all of them between its steps.
`HeapProofs` therefore proves facts about the *operators* first (`FirstFit`,
`TakenOK` for split and mark, `CoalesceOK`, and one lemma per call) for an
arbitrary well-formed list, and the step of each action then cites one of them.
`EmptyHeapIsWhole` and `NoFalseExhaustion` are consequences of the invariant:
with no neighbouring free blocks, a hole between used blocks is a single free
block.

**Refinement.**  `AllocatorSpec` maps `owned` to `live`, `cells` to `mem`,
`trespassed` to `overrun` and `Limit` to `SizeMod`.
Each call that succeeds maps to a grant, a zeroed grant, a short grant, a move, a
resize or a release; one that is refused or returns early maps to a stutter or to
housekeeping in cells nobody holds (the header `init_heap` writes).

**The loops.**  The recursive functions of the models are defined by CHOOSE, so a
fact about one needs that a function with its equations exists, and then an
induction.  `DataLemmas` derives both from the least element of a set of numbers
and states them about *sets and functions* (`InductionNat`, `StrongInductionNat`:
a set that contains what the induction says; `Recursion`, `Descent`: a function of
the number of steps, or of a place nearer to an end), since the provers cannot
instantiate a theorem with an operator as a parameter.  For the heap
`ListInduction` and `ListRecursion` do this along the list, from its end.
`WalkFinds` and `StatsOfList` use them directly.  The pass of `coalesce`
(`LoopCoalesces`) needs an invariant of the loop: when it has come to block `c`,
which has swallowed the free blocks up to `b`, the list is `SoFar(h, c, b)`, the
result before `c` and the original after `b`; an iteration takes in the next
block (`CoalesceMerges`), moves on to it (`CoalesceMoves`, where `Settled` says
that `c` is then what it will be in the result) or has ended (`CoalesceEnds`), and
each comes nearer to the end of the heap.  `AscendCopies` and `DescendCopies` state
what each direction of `memmove` needs: that no cell is read after it was written.

**Interrupts.**  `InterruptsAssumption` asks only that the number of scancodes
is a natural number and the wait at least one tick.  `InterruptsInv` adds to
the types: `BootInv`, what is set up by each step of `kmain` (the gates, the
IDT register and the vector base all come before `sti`, which is why no
interrupt can kill the CPU); `FrameInv`, that at most one handler is in progress
and the lines in service are its own until its first EOI (so the second EOI of
the timer finds nothing in service); `ByteInv`, that thrown away, handled, held
by the controller and queued scancodes are, end to end, the numbers sent;
`WedgeInv`, that a held byte has a request or a reader; `WaitInv`, that a tick
counted, latched or being counted had its pulse, but for one.  `FrameInv` is
what makes the others inductive: `ServiceMatches` and `NoWedge` say nothing
about how the handler got where it is, and `TakesInOrder` needs `ByteInv`'s
account of the bytes still to come, and that a handler about to read has a byte
to read.  `WaitsAsAsked` follows from the bound on pulses by the arithmetic of the
conversions, for every unit and every argument but the seconds that wrap; the
microseconds whose rounding wraps are less than a tick (`WrappedRounding`).

**Shell.**  `ShellAssumption` asks for a buffer of at least one cell, a ring of
at least one entry and an alphabet that has the space and not the terminator.
`ShellInv` joins the types of the line, of the history and of the command with
`LineSound`; they are inductive only together.  The bound on `input_index` is
what keeps the terminator in the array; the terminator is what makes the
command that Enter copies out of the array a string of that length, and so the
entry that goes into the ring one that fits when history-up loads it again.

`RingInv` says that the slots in use are one run that ends before
`history_index`, which gives what `cmd_history` prints (`HistoryIs`) and with it
`NoHoles`.  The refinement of `LineEditor` takes `Left` and `Right`, the parts of
the array on either side of the cursor, as texts (`Text` in `DataLemmas`): each
shift of the array is a fact about texts, one lemma for each call, and the
ring's new entry, with the oldest pushed out, is the log's (`LogPush`).

`ArgsKeepText` is about the parser alone.  `Pieces` is a third account of a line,
between the property's and the parser's: what the line's characters make of the
arguments one by one, each opening a word, extending one, or opening the next when the
argument is full.  The pieces fit, put together are the letters, and are the words
when all fit (`PiecesFit`, `PiecesJoined`, `PiecesAreWords`); `ArgumentsArePieces`
shows by induction from the end of the line that `parse_args` makes the first of
them.

**Keyboard.**  For any set of keys and any bound on the wire.  `Stream` says that
the bytes on the wire are those of whole events but perhaps the first, so that the
byte after a prefix is one the prefix belongs to (`SuffixStream` for what
`init_keyboard` leaves of an event); `PrefixInv` adds that `extended_scancode` is
the `prefixed` of the first byte unless its prefix was thrown away, and gives
`PrefixInStep`.  `NoStuckModifier` speaks
of the instant when the wire is empty; `ModifierInv` carries it there: for each
flag, either a key of its kind is held, or the last byte about such a key is a
release, or there is none and the flag is off (`Settles`).  It needs `PrefixInv`:
with the wrong map a release would reach the wrong flag.  The one byte that is
looked up in the wrong map can set Shift, but not Ctrl or Alt, which mean the same
in both (`HandlerMeaning`); `TrueShift` is the flag without that.

**Screen.**  `ScreenAssumption` asks for a screen wider than three characters and
higher than four lines (the welcome and the prompt fit), a pitch of at least the
width and less than about four times that, so that `shell_scroll_up`, wrong as it
is, writes nowhere outside the framebuffer (`ScrollInside`), and that scrolling
never moves a line onto one still to be moved.  `TypeOK` needs nothing else: the
clipping of `draw.c` and the clamping of the cursor keep whatever is drawn inside,
also when a key disturbs `shell_init` (`TypesPrint`, `TypesKey`).  The other
invariants speak of a screen that is not `Disturbed`.  There what is to be printed
before the next key is one queue, of `kmain` or of the handler (`Queue`); a clear
that ends a disturbance leaves only a prompt, and a line that is empty or printed
after it, so that the invariants begin anew there (`AfterClear`).  `CursorInside`
needs `AtMargin`: the prompt is drawn without a look at the edge, so it is printed
only where a line begins.
`Ahead` gives legibility: until the first scrolling everything below the text
cursor is blank, and so is what is right of it, unless what comes next begins a
new line or wipes this one; a line too long for the screen is why the typed line
must be printed last.  `LineInv` gives `LineShown`, scrolled or not: the line is
drawn at the left edge or behind a prompt, after a rectangle that covers exactly
what it may ink (`Poised`); the two prompts without a line after them, of the
welcome and of Ctrl+L, come on a blank line (`BarePrompt`).

**Serial.**  `SerialAssumption` asks for a FIFO of at least two and integers of
at least one bit.  The invariant says what the transmitter holds between a
writer's poll and its write: nothing for the handler, which is not interrupted,
and at most one character for `kmain`, since a handler in between waits for an
empty transmitter before each of its own. `NothingLost` needs `SInv`: wire, FIFO
and the rest of the message are end to end what each writer was told to print,
with the writers' characters told apart by `By`, which does not care how they
interleave; before the loopback test is over nobody has written.  `TypeOK` needs
that every remainder of a number that is not negative is a digit.  `ReadsBack`
follows from the types alone: the loop of `uint_to_string` makes as many digits
as the number has, in order (`UintIs`), the loop that reads them is an
evaluation in the base (`ValueIs`), and one digit more is one division more
(`ValueOfUint`); `to_string`, which makes them from the last on, gives the same
text (`ToStringIs`).

**Clock.**  `RTCAssumption` gives the range of junk and the lengths of minute and
hour, which are at most a hundred, as a register in BCD holds two digits.
`ReadingInv` follows a pass through the loop: the first reading is what the
registers hold, unless an update has come in this pass; if one has, no other
follows before the pass ends, so the second reading, made after the wait, is what
the registers hold.  One of the two is therefore genuine, and equality makes the
other so.  `DisplaysTime` adds to that the conversions: BCD is undone by
`bcd_to_binary` (`BcdIs`), and the bit of the afternoon comes off and goes back on
(`HourIs`), but at noon and at midnight.

### What is model-checked only

* Liveness (`ScancodesHandled`, `WaitReturns`, `Returns`, `GetsOut`): fairness
  and ENABLED are outside what the proof system handles.
* What the expected violations show, which is one behaviour each.

## 6. What is not modelled, and why

* `draw.c`: the functions with a background and the centring ones,
  `move_cursor_left` and `move_cursor_down` have no caller.  The block cursor is
  never drawn, as nothing sets `cursor_visible` or calls `shell_update_cursor`;
  tab and carriage return are never printed.  The shapes of glyphs do not matter
  to where they are drawn.
* `pic.c`: `PIC_remap`, `pic_disable`, the mask functions and the register reads
  have no caller.  The slave's lines: whether one can reach the CPU (line 2 stays
  masked) and whether a C function can be a gate is settled only after finding 1
  is, before which boot stops.
* `rtc.c`: date and year, which nothing reads; the periodic interrupt
  (`enable_irq8`, `set_rtc_frequency`, `wait_for_rtc_interrupt`), which nothing
  calls.
* `main.c:37-93`, the allocator's self-test: a client of `Heap` with fixed
  requests, all of which the properties of `heap` cover.
* `keyboard.c`: the polling of `keyboard_wait_input` around the one command that is
  sent; the controller is taken to accept commands.
* `memory.c`: `memcmp` and the string functions, except where `Heap` or `Shell`
  uses them.
* The GDT (`gdt.c`) and the encoding of a descriptor: constants that are stored
  once.  The speaker: two port writes around `timer_wait`, without a caller.
* Log text, single instructions (CPUID, port I/O), linker scripts and build files,
  uACPI itself (a submodule), the empty `fs`, `ide` and `pci` sources.

What could come next: the slave PIC's lines once installing a handler succeeds,
the periodic interrupt of the clock once something enables it, and `Keyboard`
driving `Screen` as well as `Shell`.
