----------------------------- MODULE Interrupts -----------------------------
(***************************************************************************)
(* Boot and interrupt handling: kmain (main.c) sets up the IDT (idt.c),    *)
(* the two 8259 PICs (pic.c), the PIT (timer.c) and the PS/2 controller    *)
(* (keyboard.c), enables interrupts and then halts in a loop; from then on *)
(* everything runs inside the IRQ stubs of isr.asm.                        *)
(*                                                                         *)
(* A step is one instruction that touches a device or a variable both      *)
(* contexts use; an interrupt may arrive between any two of them while the *)
(* interrupt flag is set.  The devices are external: the PIC latches       *)
(* edges, serves the lowest line first and drops the highest-priority      *)
(* in-service bit on an EOI; the keyboard controller holds one byte,       *)
(* raises line 1 when it loads it and loads the next one after it is read. *)
(*                                                                         *)
(* Scancodes are numbered in the order the keyboard sends them; what a     *)
(* scancode does to the shell is the business of other modules.            *)
(***************************************************************************)
EXTENDS Integers, Sequences, FiniteSets

CONSTANTS
    MaxBytes,   \* bound: scancodes the keyboard sends
    Wait,       \* argument of timer_wait, in ticks
    TickMicros, \* a period of the PIT in microseconds ...
    TickMillis, \* ... and in milliseconds
    Frequency,  \* ticks in a second
    UIntMod     \* one more than the greatest unsigned int

ASSUME InterruptsAssumption == MaxBytes \in Nat /\ Wait \in Nat \ {0}

ASSUME UnitsAssumption ==
    {TickMicros, TickMillis, Frequency, UIntMod} \subseteq Nat \ {0}

VARIABLES
    step,       \* kmain: index in BootOrder of what it does next
    drain,      \* kmain in init_keyboard: about to "test" or to "read"
    acpi,       \* what uACPI was told of its handler: "none", "ok", "error"
    iflag,      \* the CPU's interrupt flag, seen by kmain
    halted,     \* kmain is in hlt and no interrupt has come since
    dead,       \* a vector without a usable gate was raised: cli; hlt
    gates,      \* vectors with an IDT entry
    idtr,       \* lidt has been executed
    base,       \* vector of line 0 of the master PIC
    imr, irr, isr,  \* mask, request and in-service lines of the PICs
    queue,      \* scancodes the keyboard has not handed to the controller
    obf,        \* output buffer of the controller, 0 when empty
    latch,      \* what reading the data port returns when it is empty
    kbd_on,     \* keyboard interface enabled (command 0xAE)
    sent,       \* scancodes sent so far
    drained,    \* scancodes init_keyboard threw away
    handled,    \* scancodes keyboard_handler took, in order
    frames,     \* interrupt handlers in progress, innermost last
    wait,       \* timer_wait: "none", "test", "hlt" or "done"
    elapsed,    \* timer_ticks - start_ticks, up to Wait
    pulses      \* pulses of the PIT since timer_wait was called, up to Wait

kmainVars == <<step, drain, acpi>>
cpuVars == <<iflag, halted, dead, gates, idtr>>
picVars == <<base, imr, irr, isr>>
kbcVars == <<queue, obf, latch, kbd_on, sent>>
takenVars == <<drained, handled>>
timerVars == <<wait, elapsed, pulses>>
vars == <<kmainVars, cpuVars, picVars, kbcVars, takenVars, frames, timerVars>>

Timer == 0
Keyboard == 1
Cascade == 2
Sci == 9
Lines == {Timer, Keyboard, Cascade, Sci}

Exceptions == 0..31

Least(S) == CHOOSE x \in S : \A y \in S : x <= y

\* Counters are followed up to Wait: nothing depends on more.
UpToWait(n) == IF n < Wait THEN n ELSE Wait

----------------------------------------------------------------------------
(* kmain.                                                                  *)

\* Faulty variant: the IRQ gates are installed after interrupts are enabled.
BootOrder_gates_last ==
    <<"idt_init", "install_exceptions", "idt_load", "init_pic", "acpi_init",
      "init_keyboard", "kbd_enable", "enable_keyboard_irq",
      "init_timer_interrupts", "sti", "init_timer_irq", "init_keyboard_irq">>

\* Faulty variant: the keyboard is set up before the PIC is.
BootOrder_keyboard_first ==
    <<"idt_init", "install_exceptions", "init_timer_irq", "init_keyboard_irq",
      "idt_load", "init_keyboard", "kbd_enable", "enable_keyboard_irq",
      "init_pic", "acpi_init", "init_timer_interrupts", "sti">>

\* What kmain does to the interrupt hardware, in its order.  init_keyboard
\* stands for the loop that empties the controller, kbd_enable for the
\* command after it.
BootOrder ==
    <<"idt_init", "install_exceptions", "init_timer_irq", "init_keyboard_irq",
      "idt_load", "init_pic", "acpi_init", "init_keyboard", "kbd_enable",
      "enable_keyboard_irq", "init_timer_interrupts", "sti">>

Booted == step > Len(BootOrder)

\* kmain is the one running, and it has come to s.
AtBoot(s) ==
    /\ frames = <<>> /\ ~halted /\ ~dead
    /\ ~Booted
    /\ BootOrder[step] = s

Advance == step' = step + 1

\* Install a gate for v.
Gate(s, v) ==
    /\ AtBoot(s)
    /\ gates' = gates \cup v
    /\ Advance
    /\ UNCHANGED <<drain, acpi, iflag, halted, dead, idtr, picVars, kbcVars,
                   takenVars, frames, timerVars>>

idt_init ==
    /\ AtBoot("idt_init")
    /\ gates' = {}
    /\ Advance
    /\ UNCHANGED <<drain, acpi, iflag, halted, dead, idtr, picVars, kbcVars,
                   takenVars, frames, timerVars>>

install_exceptions == Gate("install_exceptions", Exceptions)
init_timer_irq == Gate("init_timer_irq", {32})
init_keyboard_irq == Gate("init_keyboard_irq", {33})

idt_load ==
    /\ AtBoot("idt_load")
    /\ idtr' = TRUE
    /\ Advance
    /\ UNCHANGED <<drain, acpi, iflag, halted, dead, gates, picVars, kbcVars,
                   takenVars, frames, timerVars>>

\* The initialisation sequence resets the edge detectors: a line that is
\* already high requests nothing until it has been low.
init_pic ==
    /\ AtBoot("init_pic")
    /\ base' = 32
    /\ imr' = Lines \ {Timer, Keyboard}
    /\ irr' = {}
    /\ isr' = {}
    /\ Advance
    /\ UNCHANGED <<drain, acpi, cpuVars, kbcVars, takenVars, frames, timerVars>>

\* uacpi_kernel_install_interrupt_handler: install_irq_handler writes the
\* gate, unmasks the line and returns 0, which is read as a failure.
install_irq_handler(irq) ==
    /\ gates' = gates \cup {irq + 32}
    /\ imr' = imr \ {irq}

StatusOf(ret) == IF ret # 0 THEN "ok" ELSE "error"

\* acpi_init: uACPI installs a handler for its interrupt on a machine that
\* has one, and gives up when it is told that it could not be installed.
\* On any error kmain stops for good (hcf).
acpi_init ==
    /\ AtBoot("acpi_init")
    /\ \/ /\ install_irq_handler(Sci)
          /\ acpi' = StatusOf(0)
       \/ /\ UNCHANGED <<gates, imr>>
          /\ acpi' \in {"none", "error"}
    /\ halted' = (acpi' = "error")
    /\ Advance
    /\ UNCHANGED <<drain, iflag, dead, idtr, base, irr, isr, kbcVars,
                   takenVars, frames, timerVars>>

----------------------------------------------------------------------------
(* The keyboard controller.                                                *)

\* inb(0x60).  The line falls with the buffer; whether a request that was
\* latched and never served survives that is up to the PIC.
ReadData ==
    /\ obf' = 0
    /\ latch' = IF obf = 0 THEN latch ELSE obf
    /\ irr' \in IF obf = 0 THEN {irr} ELSE {irr, irr \ {Keyboard}}
    /\ UNCHANGED <<queue, kbd_on, sent>>

Data == IF obf = 0 THEN latch ELSE obf

\* while (inb(KB_STATUS_PORT) & KB_STATUS_OUTPUT_FULL)
TestStatus == IF obf = 0 THEN "kbd_enable" ELSE "read"

init_keyboard_test ==
    /\ AtBoot("init_keyboard")
    /\ drain = "test"
    /\ IF TestStatus = "read"
       THEN drain' = "read" /\ UNCHANGED step
       ELSE Advance /\ UNCHANGED drain
    /\ UNCHANGED <<acpi, cpuVars, picVars, kbcVars, takenVars, frames, timerVars>>

init_keyboard_read ==
    /\ AtBoot("init_keyboard")
    /\ drain = "read"
    /\ ReadData
    /\ drained' = drained + 1
    /\ drain' = "test"
    /\ UNCHANGED <<step, acpi, cpuVars, base, imr, isr, handled, frames, timerVars>>

\* keyboard_wait_input, before and after, only waits for the controller to be
\* ready for a command, which here it always is.
kbd_enable ==
    /\ AtBoot("kbd_enable")
    /\ kbd_on' = TRUE
    /\ Advance
    /\ UNCHANGED <<drain, acpi, cpuVars, picVars, queue, obf, latch, sent,
                   takenVars, frames, timerVars>>

Unmask(s, line) ==
    /\ AtBoot(s)
    /\ imr' = imr \ {line}
    /\ Advance
    /\ UNCHANGED <<drain, acpi, cpuVars, base, irr, isr, kbcVars, takenVars,
                   frames, timerVars>>

enable_keyboard_irq == Unmask("enable_keyboard_irq", Keyboard)
init_timer_interrupts == Unmask("init_timer_interrupts", Timer)

sti ==
    /\ AtBoot("sti")
    /\ iflag' = TRUE
    /\ Advance
    /\ UNCHANGED <<drain, acpi, halted, dead, gates, idtr, picVars, kbcVars,
                   takenVars, frames, timerVars>>

----------------------------------------------------------------------------
(* kmain after boot, and timer_wait.                                       *)

Running == frames = <<>> /\ ~halted /\ ~dead /\ Booted

Hlt == halted' = TRUE

\* while (1) hlt;
idle ==
    /\ Running
    /\ wait \in {"none", "done"}
    /\ Hlt
    /\ UNCHANGED <<kmainVars, iflag, dead, gates, idtr, picVars, kbcVars,
                   takenVars, frames, timerVars>>

\* timer_wait(Wait), from kmain's context: start_ticks = timer_ticks.
timer_wait ==
    /\ Running
    /\ wait \in {"none", "done"}
    /\ wait' = "test"
    /\ elapsed' = 0
    /\ pulses' = 0
    /\ UNCHANGED <<kmainVars, cpuVars, picVars, kbcVars, takenVars, frames>>

\* Faulty variant: the microseconds are not rounded up.
timer_wait_micros_down(microseconds) == microseconds \div TickMicros

\* The ticks that timer_wait is called with for a time in another unit; for
\* 0 microseconds it is not called.
timer_wait_micros(microseconds) ==
    IF microseconds = 0 THEN 0
    ELSE ((microseconds + TickMicros - 1) % UIntMod) \div TickMicros

timer_wait_ms(milliseconds) == milliseconds \div TickMillis

timer_wait_seconds(seconds) == (seconds * Frequency) % UIntMod

\* Faulty variant: one tick short.
KeepsWaiting_shorter == elapsed + 1 < Wait

\* timer_ticks < start_ticks + ticks
KeepsWaiting == elapsed < Wait

timer_wait_test ==
    /\ Running
    /\ wait = "test"
    /\ wait' = IF KeepsWaiting THEN "hlt" ELSE "done"
    /\ UNCHANGED <<kmainVars, cpuVars, picVars, kbcVars, takenVars, frames,
                   elapsed, pulses>>

\* Faulty variant: the test and the hlt are guarded by cli, and nothing sets
\* the flag again before the hlt.
timer_wait_hlt_cli ==
    /\ Running
    /\ wait = "hlt"
    /\ wait' = "test"
    /\ Hlt
    /\ iflag' = FALSE
    /\ UNCHANGED <<kmainVars, dead, gates, idtr, picVars, kbcVars,
                   takenVars, frames, elapsed, pulses>>

timer_wait_hlt ==
    /\ Running
    /\ wait = "hlt"
    /\ wait' = "test"
    /\ Hlt
    /\ UNCHANGED <<kmainVars, iflag, dead, gates, idtr, picVars, kbcVars,
                   takenVars, frames, elapsed, pulses>>

----------------------------------------------------------------------------
(* Interrupt handlers.                                                     *)

\* Faulty variant: trap gates (0x8F), which leave the interrupt flag alone.
FlagInHandler_trap == TRUE

\* idt_add_entry(.., 0x8E): an interrupt gate clears the interrupt flag.
FlagInHandler == FALSE

\* The requests the PIC may raise: not masked, and of a higher priority than
\* every line in service.
Raised == {l \in irr \ imr : \A s \in isr : l < s}

\* The CPU takes line l between two instructions.  The vector must have a
\* gate of a handler that ends in an EOI and an iretq; an exception handler
\* ends in cli; hlt, and a missing gate in one.
Deliver(l) ==
    /\ ~dead
    /\ IF frames = <<>> THEN iflag ELSE FlagInHandler
    /\ l \in Raised
    /\ l = Least(Raised)
    /\ irr' = irr \ {l}
    /\ isr' = isr \cup {l}
    /\ halted' = FALSE
    /\ IF idtr /\ base + l \in gates \ Exceptions
       THEN /\ frames' = Append(frames,
                  [line |-> l, at |-> IF l = Timer THEN "tick" ELSE "status"])
            /\ UNCHANGED dead
       ELSE dead' = TRUE /\ UNCHANGED frames
    /\ UNCHANGED <<kmainVars, iflag, gates, idtr, base, imr, kbcVars, takenVars,
                   timerVars>>

\* The innermost handler serves l and is at a.
AtHandler(l, a) ==
    /\ ~dead
    /\ frames # <<>>
    /\ frames[Len(frames)] = [line |-> l, at |-> a]

Goes(a) == frames' = [frames EXCEPT ![Len(frames)].at = a]

\* A non-specific EOI.
Ended(s) == IF s = {} THEN {} ELSE s \ {Least(s)}

\* on_irq0: timer_ticks++
on_irq0 ==
    /\ AtHandler(Timer, "tick")
    /\ elapsed' = UpToWait(elapsed + 1)
    /\ Goes("PIC_sendEOI")
    /\ UNCHANGED <<kmainVars, cpuVars, picVars, kbcVars, takenVars, wait, pulses>>

\* on_irq0: PIC_sendEOI(0)
PIC_sendEOI ==
    /\ AtHandler(Timer, "PIC_sendEOI")
    /\ isr' = Ended(isr)
    /\ Goes("eoi")
    /\ UNCHANGED <<kmainVars, cpuVars, base, imr, irr, kbcVars, takenVars, timerVars>>

\* Faulty variant: keyboard_handler does not look at the status port.
HandlerSees_always == TRUE

\* if (!(inb(KB_STATUS_PORT) & KB_STATUS_OUTPUT_FULL)) return;
HandlerSees == obf # 0

keyboard_handler_test ==
    /\ AtHandler(Keyboard, "status")
    /\ Goes(IF HandlerSees THEN "read" ELSE "eoi")
    /\ UNCHANGED <<kmainVars, cpuVars, picVars, kbcVars, takenVars, timerVars>>

keyboard_handler_read ==
    /\ AtHandler(Keyboard, "read")
    /\ handled' = Append(handled, Data)
    /\ ReadData
    /\ Goes("eoi")
    /\ UNCHANGED <<kmainVars, cpuVars, base, imr, isr, drained, timerVars>>

\* Faulty variant: no EOI after the switch.
irq_handler_eoi_missing ==
    /\ \E l \in {Timer, Keyboard} : AtHandler(l, "eoi")
    /\ Goes("iretq")
    /\ UNCHANGED <<kmainVars, cpuVars, picVars, kbcVars, takenVars, timerVars>>

\* irq_handler after the switch: EOI to the master PIC, for either line.
irq_handler_eoi ==
    /\ \E l \in {Timer, Keyboard} : AtHandler(l, "eoi")
    /\ isr' = Ended(isr)
    /\ Goes("iretq")
    /\ UNCHANGED <<kmainVars, cpuVars, base, imr, irr, kbcVars, takenVars, timerVars>>

iretq ==
    /\ \E l \in {Timer, Keyboard} : AtHandler(l, "iretq")
    /\ frames' = SubSeq(frames, 1, Len(frames) - 1)
    /\ UNCHANGED <<kmainVars, cpuVars, picVars, kbcVars, takenVars, timerVars>>

----------------------------------------------------------------------------
(* The devices.                                                            *)

\* An edge on line 0, ten milliseconds after the last.  One that finds the
\* last one still latched is lost.
Pulse ==
    /\ irr' = irr \cup {Timer}
    /\ pulses' = UpToWait(pulses + 1)
    /\ UNCHANGED <<kmainVars, cpuVars, base, imr, isr, kbcVars, takenVars, frames,
                   wait, elapsed>>

\* A key goes down or up.
KeySend ==
    /\ sent < MaxBytes
    /\ sent' = sent + 1
    /\ queue' = Append(queue, sent + 1)
    /\ UNCHANGED <<kmainVars, cpuVars, picVars, obf, latch, kbd_on, takenVars,
                   frames, timerVars>>

\* The controller takes the next scancode and raises line 1.
KbcLoad ==
    /\ kbd_on
    /\ obf = 0
    /\ queue # <<>>
    /\ obf' = Head(queue)
    /\ queue' = Tail(queue)
    /\ irr' = irr \cup {Keyboard}
    /\ UNCHANGED <<kmainVars, cpuVars, base, imr, isr, latch, kbd_on, sent,
                   takenVars, frames, timerVars>>

----------------------------------------------------------------------------
\* The boot loader enters kmain with interrupts off and every line masked;
\* the firmware may have left requests latched, the keyboard enabled and a
\* scancode in the controller.
Init ==
    /\ step = 1 /\ drain = "test" /\ acpi = "none"
    /\ iflag = FALSE /\ halted = FALSE /\ dead = FALSE
    /\ gates = {} /\ idtr = FALSE
    /\ base = 8 /\ imr = Lines /\ isr = {}
    /\ irr \in SUBSET {Timer, Keyboard}
    /\ queue = <<>> /\ latch = 0 /\ kbd_on \in BOOLEAN
    /\ sent \in {0, 1} /\ sent <= MaxBytes /\ obf = sent
    /\ drained = 0 /\ handled = <<>>
    /\ frames = <<>>
    /\ wait = "none" /\ elapsed = 0 /\ pulses = 0

Boot ==
    \/ idt_init \/ install_exceptions \/ init_timer_irq \/ init_keyboard_irq
    \/ idt_load \/ init_pic \/ acpi_init
    \/ init_keyboard_test \/ init_keyboard_read \/ kbd_enable
    \/ enable_keyboard_irq \/ init_timer_interrupts \/ sti

Waiting == timer_wait_test \/ timer_wait_hlt

Handling ==
    \/ on_irq0 \/ PIC_sendEOI
    \/ keyboard_handler_test \/ keyboard_handler_read
    \/ irq_handler_eoi \/ iretq

Next ==
    \/ Boot
    \/ idle \/ timer_wait \/ Waiting
    \/ \E l \in {Timer, Keyboard} : Deliver(l)
    \/ Handling
    \/ Pulse \/ KeySend \/ KbcLoad

Spec == Init /\ [][Next]_vars

\* The CPU goes on executing: handlers finish, and kmain gets on between two
\* interrupts, as a tick takes far less than the ten milliseconds to the next
\* one.  A request that could be taken again and again is taken, the PIT ticks
\* and the controller hands on what it has.
FairSpec ==
    /\ Spec
    /\ WF_vars(Boot) /\ SF_vars(Waiting) /\ WF_vars(Handling)
    /\ WF_vars(Deliver(Timer)) /\ SF_vars(Deliver(Keyboard))
    /\ WF_vars(Pulse) /\ WF_vars(KbcLoad)

----------------------------------------------------------------------------
(* Properties.                                                             *)

Positions == {"tick", "PIC_sendEOI", "status", "read", "eoi", "iretq"}

TypeOK ==
    /\ step \in 1..(Len(BootOrder) + 1)
    /\ drain \in {"test", "read"}
    /\ acpi \in {"none", "ok", "error"}
    /\ iflag \in BOOLEAN /\ halted \in BOOLEAN /\ dead \in BOOLEAN
    /\ idtr \in BOOLEAN /\ kbd_on \in BOOLEAN
    /\ gates \subseteq 0..255
    /\ base \in {8, 32}
    /\ imr \subseteq Lines
    /\ irr \subseteq {Timer, Keyboard}
    /\ isr \subseteq {Timer, Keyboard}
    /\ queue \in Seq(1..MaxBytes)
    /\ obf \in 0..MaxBytes
    /\ latch \in 0..MaxBytes
    /\ sent \in 0..MaxBytes
    /\ drained \in 0..MaxBytes
    /\ handled \in Seq(0..MaxBytes)
    /\ frames \in Seq([line : {Timer, Keyboard}, at : Positions])
    /\ Len(frames) <= 1
    /\ wait \in {"none", "test", "hlt", "done"}
    /\ elapsed \in 0..Wait
    /\ pulses \in 0..Wait

\* The handler of frame f has not sent the EOI that ends its own service.
\* The timer handler's first EOI is that one; irq_handler sends a second.
Unended(f) ==
    \/ f.line = Timer /\ f.at \in {"tick", "PIC_sendEOI"}
    \/ f.line = Keyboard /\ f.at \in {"status", "read", "eoi"}

\* The lines in service are the ones whose handlers have not ended them: the
\* timer's second EOI never ends a keyboard interrupt half-way, although a
\* non-specific EOI ends whatever is in service.
ServiceMatches ==
    ~dead => isr = {frames[i].line : i \in {j \in 1..Len(frames) : Unended(frames[j])}}

\* Once init_keyboard has emptied the controller, a byte in the output buffer
\* has a request latched or a handler on its way to read it.  Otherwise line
\* 1 stays high, no edge ever comes and the keyboard is dead until reset.
KbdReady == \E i \in 1..(step - 1) : BootOrder[i] = "init_keyboard"

NoWedge ==
    KbdReady /\ obf # 0 =>
        \/ Keyboard \in irr
        \/ dead
        \/ \E i \in 1..Len(frames) :
              frames[i].line = Keyboard /\ frames[i].at \in {"status", "read"}

\* keyboard_handler takes every scancode that init_keyboard did not throw
\* away, in order, once: a stale request never makes it read a byte again.
TakesInOrder == handled = [i \in 1..Len(handled) |-> drained + i]

\* No interrupt arrives at a vector without a handler of its own, and kmain
\* never executes hlt with interrupts off except in hcf.
CpuAlive ==
    /\ ~dead
    /\ halted => iflag \/ acpi = "error"

\* timer_wait(n) does not return before n ticks have begun: at least n - 1
\* periods of the PIT, as the first tick may have been latched already.
WaitsLongEnough == wait = "done" => pulses >= Wait - 1

\* In the units of timer.h, give or take the tick that was latched already:
\* timer_wait is late enough for the microseconds that were asked for, also when
\* their rounding wraps (then there is nothing to wait for), and for the seconds
\* unless their number of ticks wraps, when it is not; it is one more tick short
\* for milliseconds, which are rounded down.
WaitsAsAsked ==
    wait = "done" =>
        \A n \in 0..(UIntMod - 1) :
            /\ timer_wait_micros(n) = Wait => n <= (pulses + 1) * TickMicros
            /\ timer_wait_ms(n) = Wait => n < (pulses + 2) * TickMillis
            /\ timer_wait_seconds(n) = Wait =>
                  n * Frequency <= pulses + 1 \/ n * Frequency >= UIntMod

\* The handlers leave kmain and the lower-priority line some time: not every
\* instant has a tick pending or being served.
HandlersLeaveTime == []<>(frames = <<>> /\ Timer \notin irr)

\* Every scancode that reaches the controller after boot is handled.
ScancodesHandled ==
    HandlersLeaveTime =>
        \A b \in 1..MaxBytes :
            (Booted /\ b <= sent /\ b > drained)
                ~> \E i \in 1..Len(handled) : handled[i] = b

\* timer_wait returns, although an interrupt may fall between its test and
\* its hlt.
WaitReturns == wait = "test" ~> wait = "done"

\* What idt.c calls success (return 0) is reported to uACPI as success.
InstallReported == Sci + 32 \in gates => acpi = "ok"

=============================================================================
