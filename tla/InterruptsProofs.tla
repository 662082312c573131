-------------------------- MODULE InterruptsProofs --------------------------
(***************************************************************************)
(* Proofs about boot and interrupt handling for any number of scancodes    *)
(* and any length of timer_wait.                                           *)
(***************************************************************************)
EXTENDS Interrupts, SequenceTheorems, TLAPS

----------------------------------------------------------------------------
(* The inductive invariant.                                                *)

\* Where the handler of each line can be.
Stages(l) == IF l = Timer THEN {"tick", "PIC_sendEOI", "eoi", "iretq"}
             ELSE {"status", "read", "eoi", "iretq"}

Frame(l, a) == [line |-> l, at |-> a]

\* The one handler in progress serves l and is at a.
Serving(l, a) == frames = <<Frame(l, a)>>

\* What kmain has done by the time it is at step: the gates are there before
\* interrupts are on, so that nothing can kill the CPU.
BootInv ==
    /\ step > 3 => 32 \in gates
    /\ step > 4 => 33 \in gates
    /\ step > 5 => idtr
    /\ step > 6 => base = 32
    /\ iflag <=> step > 12
    /\ ~dead
    /\ halted => iflag \/ acpi = "error"

\* At most one handler is in progress, and the line in service is its own
\* until it has ended it.
FrameInv ==
    \/ frames = <<>> /\ isr = {}
    \/ \E l \in {Timer, Keyboard} : \E a \in Stages(l) :
          /\ Serving(l, a)
          /\ step > 12
          /\ isr = IF Unended(Frame(l, a)) THEN {l} ELSE {}

\* What the keyboard sent is, in this order: thrown away, handled, in the
\* controller, on its way.
Held == IF obf = 0 THEN 0 ELSE 1

ByteInv ==
    /\ drained + Len(handled) + Held + Len(queue) = sent
    /\ obf # 0 => obf = drained + Len(handled) + 1
    /\ \A i \in 1..Len(queue) : queue[i] = drained + Len(handled) + Held + i
    /\ \A i \in 1..Len(handled) : handled[i] = drained + i
    /\ step <= 8 => handled = <<>>
    /\ drain = "read" => obf # 0 /\ step = 8
    /\ Serving(Keyboard, "read") => obf # 0

\* A byte in the controller has a request or a handler that will read it.
WedgeInv ==
    step > 8 /\ obf # 0 =>
        Keyboard \in irr \/ Serving(Keyboard, "status") \/ Serving(Keyboard, "read")

\* A tick is counted, latched or being counted only after its pulse, but for
\* one that came before timer_wait was called.
WaitInv ==
    /\ \/ pulses = Wait
       \/ elapsed + (IF Timer \in irr THEN 1 ELSE 0)
                  + (IF Serving(Timer, "tick") THEN 1 ELSE 0) <= pulses + 1
    /\ wait = "done" => elapsed >= Wait

\* The types, flags and data apart: the provers treat the two differently.
FlagTypes ==
    /\ iflag \in BOOLEAN /\ halted \in BOOLEAN /\ dead \in BOOLEAN
    /\ idtr \in BOOLEAN /\ kbd_on \in BOOLEAN

DataTypes ==
    /\ step \in 1..13
    /\ drain \in {"test", "read"}
    /\ acpi \in {"none", "ok", "error"}
    /\ gates \subseteq 0..255
    /\ base \in {8, 32}
    /\ imr \subseteq Lines
    /\ irr \subseteq {Timer, Keyboard}
    /\ isr \subseteq {Timer, Keyboard}
    /\ queue \in Seq(1..MaxBytes)
    /\ obf \in 0..MaxBytes
    /\ latch \in 0..MaxBytes
    /\ sent \in 0..MaxBytes
    /\ drained \in 0..MaxBytes
    /\ handled \in Seq(0..MaxBytes)
    /\ frames \in Seq([line : {Timer, Keyboard}, at : Positions])
    /\ Len(frames) <= 1
    /\ wait \in {"none", "test", "hlt", "done"}
    /\ elapsed \in 0..Wait
    /\ pulses \in 0..Wait

InterruptsInv ==
    FlagTypes /\ DataTypes /\ BootInv /\ FrameInv /\ ByteInv /\ WedgeInv /\ WaitInv

----------------------------------------------------------------------------
(* Lemmas.                                                                 *)

\* Where kmain is.
LEMMA BootAt ==
    ASSUME step \in 1..13
    PROVE  /\ Len(BootOrder) = 12
           /\ Booted <=> step = 13
           /\ AtBoot("idt_init") => step = 1
           /\ AtBoot("install_exceptions") => step = 2
           /\ AtBoot("init_timer_irq") => step = 3
           /\ AtBoot("init_keyboard_irq") => step = 4
           /\ AtBoot("idt_load") => step = 5
           /\ AtBoot("init_pic") => step = 6
           /\ AtBoot("acpi_init") => step = 7
           /\ AtBoot("init_keyboard") => step = 8
           /\ AtBoot("kbd_enable") => step = 9
           /\ AtBoot("enable_keyboard_irq") => step = 10
           /\ AtBoot("init_timer_interrupts") => step = 11
           /\ AtBoot("sti") => step = 12
BY DEF BootOrder, Booted, AtBoot

\* A handler that is at a has just one frame, and moves on in it.
LEMMA FrameFacts ==
    ASSUME NEW l, NEW a, FrameInv, AtHandler(l, a)
    PROVE  /\ Serving(l, a)
           /\ \A b : Goes(b) => frames' = <<Frame(l, b)>>
           /\ SubSeq(frames, 1, Len(frames) - 1) = <<>>
           /\ l \in {Timer, Keyboard} /\ a \in Stages(l) /\ step > 12
           /\ isr = IF Unended(Frame(l, a)) THEN {l} ELSE {}
<1>1. PICK k \in {Timer, Keyboard} : \E b \in Stages(k) :
         /\ frames = <<Frame(k, b)>>
         /\ step > 12
         /\ isr = IF Unended(Frame(k, b)) THEN {k} ELSE {}
  BY DEF FrameInv, AtHandler, Serving
<1>0. PICK b \in Stages(k) :
         /\ frames = <<Frame(k, b)>>
         /\ step > 12
         /\ isr = IF Unended(Frame(k, b)) THEN {k} ELSE {}
  BY <1>1
<1>2. Len(frames) = 1 /\ frames[1] = Frame(k, b)
  BY <1>0
<1>3. k = l /\ b = a
  BY <1>2 DEF AtHandler, Frame
<1>4. ASSUME NEW c, Goes(c) PROVE frames' = <<Frame(l, c)>>
  <2>1. frames' = [<<Frame(l, a)>> EXCEPT ![1].at = c]
    BY <1>0, <1>2, <1>3, <1>4 DEF Goes
  <2> QED  BY <2>1 DEF Frame
<1>5. SubSeq(frames, 1, 0) = <<>>
  BY <1>0
<1> QED  BY <1>0, <1>2, <1>3, <1>4, <1>5 DEF Serving

\* Two places of a handler differ.
LEMMA ServingOne ==
    ASSUME NEW l, NEW a, NEW m, NEW b, frames = <<Frame(l, a)>>
    PROVE  Serving(m, b) <=> l = m /\ a = b
<1>1. frames[1] = Frame(l, a)
  OBVIOUS
<1>2. Serving(m, b) => frames[1] = Frame(m, b)
  BY DEF Serving
<1> QED  BY <1>1, <1>2 DEF Serving, Frame

\* Between two interrupts no handler is anywhere.
LEMMA ServingNone == frames = <<>> => \A l, a : ~Serving(l, a)
BY DEF Serving

\* What stays when the variables it is about do.
LEMMA Kept ==
    ASSUME InterruptsInv, step' \in Nat, step' >= step
    PROVE  /\ UNCHANGED <<frames, isr>> => FrameInv'
           /\ UNCHANGED <<queue, obf, sent, drained, handled, drain, frames>>
              /\ (step # 8 \/ step' = step) => ByteInv'
           /\ UNCHANGED <<step, obf, frames>> /\ irr \subseteq irr' => WedgeInv'
           /\ UNCHANGED <<timerVars, frames, irr>> => WaitInv'
<1>1. step \in Nat
  BY DEF InterruptsInv, DataTypes, BootOrder
<1> QED  BY <1>1 DEF InterruptsInv, FrameInv, ByteInv, WedgeInv, WaitInv, Held, Serving, timerVars

\* The non-specific EOI of a handler ends its own line.
LEMMA EndedOwn == Ended({}) = {} /\ \A l \in Int : Ended({l}) = {}
<1>1. \A l \in Int : Least({l}) = l
  BY DEF Least
<1> QED  BY <1>1 DEF Ended

\* The boot loader's hand-over satisfies the invariant.
LEMMA InterruptsInvInit == Init => InterruptsInv
<1> SUFFICES ASSUME Init PROVE InterruptsInv
  OBVIOUS
<1> USE InterruptsAssumption
<1> USE DEF Init
<1>1. Len(BootOrder) = 12
  BY DEF BootOrder
<1>0. FlagTypes
  BY Zenon DEF FlagTypes
<1>2. DataTypes
  BY <1>1 DEF DataTypes, Lines, Timer, Keyboard, Cascade, Sci
<1>3. BootInv
  BY DEF BootInv
<1>4. FrameInv
  BY DEF FrameInv
<1>5. ByteInv
  BY ServingNone DEF ByteInv, Held
<1>6. WedgeInv
  BY DEF WedgeInv
<1>7. WaitInv
  BY ServingNone DEF WaitInv
<1> QED  BY <1>0, <1>2, <1>3, <1>4, <1>5, <1>6, <1>7 DEF InterruptsInv

----------------------------------------------------------------------------
(* Each step preserves the invariant.                                      *)

\* The part of it that kmain's steps may disturb at boot, where no handler
\* has run yet.
LEMMA BootStep == InterruptsInv /\ Boot => InterruptsInv'
<1> SUFFICES ASSUME InterruptsInv, Boot PROVE InterruptsInv'
  OBVIOUS
<1> USE InterruptsAssumption
<1>1. step \in 1..13 /\ Len(BootOrder) = 12
  BY DEF InterruptsInv, DataTypes, BootOrder
<1>2. FlagTypes /\ DataTypes /\ BootInv /\ FrameInv /\ ByteInv /\ WedgeInv /\ WaitInv
  BY DEF InterruptsInv
<1>3. frames = <<>>
  BY DEF Boot, Gate, Unmask, AtBoot, idt_init, install_exceptions, init_timer_irq,
     init_keyboard_irq, idt_load, init_pic, acpi_init, init_keyboard_test,
     init_keyboard_read, kbd_enable, enable_keyboard_irq, init_timer_interrupts, sti
<1>4. isr = {}
  BY <1>2, <1>3 DEF FrameInv, Serving
<1> USE DEF kmainVars, cpuVars, picVars, kbcVars, takenVars, timerVars
<1>5. CASE idt_init \/ install_exceptions \/ init_timer_irq \/ init_keyboard_irq
  <2>1. /\ step' = step + 1 /\ step \in 1..4
        /\ idt_init => step = 1 /\ gates' = {}
        /\ install_exceptions => step = 2 /\ gates' = gates \cup Exceptions
        /\ init_timer_irq => step = 3 /\ gates' = gates \cup {32}
        /\ init_keyboard_irq => step = 4 /\ gates' = gates \cup {33}
        /\ UNCHANGED <<drain, acpi, iflag, halted, dead, idtr, picVars, kbcVars,
                       takenVars, frames, timerVars>>
    BY <1>1, <1>5, BootAt DEF idt_init, install_exceptions, init_timer_irq,
       init_keyboard_irq, Gate, Advance
  <2>2. FlagTypes' /\ DataTypes'
    <3>1. FlagTypes'
      BY <1>1, <1>2, <1>5, <2>1, Zenon DEF FlagTypes
    <3>0. gates \subseteq 0..255
      BY <1>2 DEF DataTypes
    <3>4. Exceptions \subseteq 0..255 /\ {32} \subseteq 0..255 /\ {33} \subseteq 0..255
      BY DEF Exceptions
    <3>5. \/ gates' = {} \/ gates' = gates \cup Exceptions
          \/ gates' = gates \cup {32} \/ gates' = gates \cup {33}
      BY <1>5, <2>1, Zenon
    <3>6. gates' \subseteq 0..255
      <4> SUFFICES ASSUME NEW v \in gates' PROVE v \in 0..255
        OBVIOUS
      <4>1. v \in gates \/ v \in Exceptions \/ v \in {32} \/ v \in {33}
        BY <3>5
      <4> QED  BY <3>0, <3>4, <4>1, Zenon
    <3>7. step' \in 1..13
      BY <2>1
    <3>2. gates' \subseteq 0..255 /\ step' \in 1..13
      BY <3>6, <3>7
    <3>3. DataTypes'
      BY <1>2, <2>1, <3>2 DEF DataTypes
    <3> QED  BY <3>1, <3>3
  <2>3. BootInv'
    BY <1>1, <1>2, <1>5, <2>1 DEF BootInv
  <2>4. WedgeInv'
    BY <1>1, <1>5, <2>1 DEF WedgeInv
  <2> QED  BY <1>1, <2>1, <2>2, <2>3, <2>4, Kept DEF InterruptsInv
<1>6. CASE idt_load
  <2>1. step = 5
    BY <1>1, <1>6, BootAt DEF idt_load
  <2>2. FlagTypes' /\ DataTypes'
    <3>1. FlagTypes'
      BY <1>1, <1>2, <1>6, <2>1, Zenon DEF FlagTypes, idt_load, Advance
    <3>2. DataTypes'
      BY <1>1, <1>2, <1>6, <2>1 DEF idt_load, Advance, DataTypes
    <3> QED  BY <3>1, <3>2
  <2>3. BootInv' /\ WedgeInv'
    BY <1>2, <1>6, <2>1 DEF idt_load, Advance, BootInv, WedgeInv
  <2> QED  BY <1>1, <1>6, <2>1, <2>2, <2>3, Kept DEF InterruptsInv, idt_load, Advance
<1>7. CASE init_pic
  <2>1. step = 6
    BY <1>1, <1>7, BootAt DEF init_pic
  <2>2. FlagTypes' /\ DataTypes'
    <3>1. FlagTypes'
      BY <1>1, <1>2, <1>7, <2>1, Zenon DEF FlagTypes, init_pic, Advance
    <3>2. DataTypes'
      BY <1>1, <1>2, <1>7, <2>1 DEF init_pic, Advance, DataTypes, Lines, Timer, Keyboard
    <3> QED  BY <3>1, <3>2
  <2>3. BootInv' /\ WedgeInv'
    BY <1>2, <1>7, <2>1 DEF init_pic, Advance, BootInv, WedgeInv
  <2>4. FrameInv'
    BY <1>3, <1>4, <1>7 DEF init_pic, FrameInv
  <2>5. WaitInv'
    <3>1. elapsed \in Int /\ pulses \in Int
      BY <1>2 DEF DataTypes
    <3> QED  BY <1>2, <1>3, <1>7, <3>1 DEF init_pic, WaitInv, Serving
  <2> QED  BY <1>1, <1>7, <2>1, <2>2, <2>3, <2>4, <2>5, Kept DEF InterruptsInv, init_pic, Advance
<1>8. CASE acpi_init
  <2>1. step = 7
    BY <1>1, <1>8, BootAt DEF acpi_init
  <2>2. /\ step' = 8
        /\ gates \subseteq gates' /\ gates' \subseteq 0..255
        /\ imr' \subseteq Lines
        /\ acpi' \in {"none", "ok", "error"}
        /\ halted' \in BOOLEAN
        /\ halted' <=> acpi' = "error"
        /\ UNCHANGED <<drain, iflag, dead, idtr, base, irr, isr, kbcVars,
                       takenVars, frames, timerVars>>
    <3>1. step' = 8 /\ halted' = (acpi' = "error")
          /\ UNCHANGED <<drain, iflag, dead, idtr, base, irr, isr, kbcVars,
                         takenVars, frames, timerVars>>
      BY <1>8, <2>1 DEF acpi_init, Advance
    <3>2. halted' \in BOOLEAN /\ (halted' <=> acpi' = "error")
      BY <3>1, Zenon
    <3>3. acpi' \in {"none", "ok", "error"}
      BY <1>8 DEF acpi_init, StatusOf
    <3>4. gates \subseteq 0..255 /\ imr \subseteq Lines
      BY <1>2 DEF DataTypes
    <3>5. \/ gates' = gates \cup {Sci + 32} /\ imr' = imr \ {Sci}
          \/ gates' = gates /\ imr' = imr
      BY <1>8, Zenon DEF acpi_init, install_irq_handler
    <3>6. {Sci + 32} \subseteq 0..255
      BY DEF Sci
    <3>7. gates \subseteq gates' /\ gates' \subseteq 0..255 /\ imr' \subseteq Lines
      BY <3>4, <3>5, <3>6, Zenon
    <3> QED  BY <3>1, <3>2, <3>3, <3>7
  <2>3. FlagTypes' /\ DataTypes'
    <3>1. FlagTypes'
      BY <1>1, <1>2, <2>2, Zenon DEF FlagTypes
    <3>2. DataTypes'
      BY <1>1, <1>2, <2>2 DEF DataTypes
    <3> QED  BY <3>1, <3>2
  <2>4. BootInv' /\ WedgeInv'
    BY <1>2, <2>1, <2>2 DEF BootInv, WedgeInv
  <2> QED  BY <1>1, <2>1, <2>2, <2>3, <2>4, Kept DEF InterruptsInv
<1>9. CASE init_keyboard_test
  <2>1. step = 8 /\ drain = "test"
    BY <1>1, <1>9, BootAt DEF init_keyboard_test
  <2>2. /\ \/ obf # 0 /\ drain' = "read" /\ step' = 8
           \/ obf = 0 /\ drain' = "test" /\ step' = 9
        /\ UNCHANGED <<acpi, cpuVars, picVars, kbcVars, takenVars, frames, timerVars>>
    BY <1>9, <2>1 DEF init_keyboard_test, TestStatus, Advance
  <2>3. FlagTypes' /\ DataTypes'
    <3>1. FlagTypes'
      BY <1>1, <1>2, <2>2, Zenon DEF FlagTypes
    <3>2. DataTypes'
      BY <1>1, <1>2, <2>2 DEF DataTypes
    <3> QED  BY <3>1, <3>2
  <2>4. BootInv' /\ WedgeInv'
    BY <1>2, <2>1, <2>2 DEF BootInv, WedgeInv
  <2>5. ByteInv'
    BY <1>2, <1>3, <2>1, <2>2, ServingNone DEF ByteInv, Held, Serving
  <2> QED  BY <1>1, <2>1, <2>2, <2>3, <2>4, <2>5, Kept DEF InterruptsInv
<1>10. CASE init_keyboard_read
  <2>1. step = 8 /\ drain = "read" /\ obf # 0 /\ handled = <<>>
    BY <1>1, <1>2, <1>10, BootAt DEF init_keyboard_read, ByteInv
  <2>2. /\ obf' = 0 /\ latch' = obf /\ drained' = drained + 1 /\ drain' = "test"
        /\ irr' \subseteq irr
        /\ UNCHANGED <<queue, kbd_on, sent, step, acpi, cpuVars, base, imr, isr,
                       handled, frames, timerVars>>
    BY <1>10, <2>1 DEF init_keyboard_read, ReadData
  <2>3. ByteInv'
    <3>1. /\ drained \in Int /\ obf \in Int /\ sent \in Int /\ Len(handled) = 0
          /\ Len(queue) \in Int /\ obf = drained + 1
          /\ drained + 1 + Len(queue) = sent
          /\ \A i \in 1..Len(queue) : queue[i] = drained + 1 + i
      BY <1>2, <2>1 DEF DataTypes, ByteInv, Held
    <3> QED  BY <1>3, <2>1, <2>2, <3>1, ServingNone DEF ByteInv, Held, Serving
  <2>7. FlagTypes'
    BY <1>2, <2>2, Zenon DEF FlagTypes
  <2>4. DataTypes'
    <3>1. drained + 1 \in 0..MaxBytes
      <4>1. /\ drained \in Nat /\ Len(queue) \in Nat /\ sent \in 0..MaxBytes
            /\ Len(handled) = 0
        BY <1>2, <2>1 DEF DataTypes
      <4> QED  BY <1>2, <2>1, <4>1 DEF ByteInv, Held
    <3> QED  BY <1>1, <1>2, <2>1, <2>2, <3>1 DEF DataTypes
  <2>5. BootInv' /\ WedgeInv'
    BY <1>2, <2>1, <2>2 DEF BootInv, WedgeInv
  <2>6. WaitInv'
    <3>1. elapsed \in Int /\ pulses \in Int
      BY <1>2 DEF DataTypes
    <3> QED  BY <1>2, <1>3, <2>2, <3>1 DEF WaitInv, Serving
  <2> QED  BY <1>1, <2>2, <2>3, <2>4, <2>5, <2>6, <2>7, Kept DEF InterruptsInv
<1>11. CASE kbd_enable \/ enable_keyboard_irq \/ init_timer_interrupts \/ sti
  <2>1. /\ kbd_enable => step = 9
        /\ enable_keyboard_irq => step = 10
        /\ init_timer_interrupts => step = 11
        /\ sti => step = 12
    BY <1>1, BootAt DEF kbd_enable, enable_keyboard_irq, init_timer_interrupts, sti, Unmask
  <2>2. /\ step' = step + 1
        /\ iflag' \in BOOLEAN
        /\ iflag' <=> iflag \/ step = 12
        /\ step \in 9..12
        /\ imr' \subseteq imr
        /\ kbd_on' \in BOOLEAN
        /\ UNCHANGED <<drain, acpi, halted, dead, gates, idtr, base, irr, isr, queue,
                       obf, latch, sent, takenVars, frames, timerVars>>
    <3>1. /\ step' = step + 1
          /\ imr' = imr \/ imr' = imr \ {Keyboard} \/ imr' = imr \ {Timer}
          /\ UNCHANGED <<drain, acpi, halted, dead, gates, idtr, base, irr, isr, queue,
                         obf, latch, sent, takenVars, frames, timerVars>>
      BY <1>11 DEF kbd_enable, enable_keyboard_irq, init_timer_interrupts, sti, Unmask, Advance
    <3>2. kbd_on' = kbd_on \/ kbd_on' = TRUE
      BY <1>11, Zenon DEF kbd_enable, enable_keyboard_irq, init_timer_interrupts, sti, Unmask
    <3>3. iflag \in BOOLEAN /\ kbd_on \in BOOLEAN
      BY <1>2 DEF FlagTypes
    <3>5. step \in 9..12 /\ (step = 12 <=> sti)
      BY <1>11, <2>1
    <3>8. sti => iflag' = TRUE
      BY Zenon DEF sti
    <3>9. kbd_enable \/ enable_keyboard_irq \/ init_timer_interrupts => iflag' = iflag
      BY Zenon DEF kbd_enable, enable_keyboard_irq, init_timer_interrupts, Unmask
    <3>4. kbd_on' \in BOOLEAN /\ iflag' \in BOOLEAN
      BY <1>11, <3>2, <3>3, <3>8, <3>9, Zenon
    <3>10. sti => iflag'
      BY <3>8, Zenon
    <3>11. kbd_enable \/ enable_keyboard_irq \/ init_timer_interrupts => (iflag' <=> iflag)
      BY <3>9, Zenon
    <3>6. iflag' <=> iflag \/ sti
      BY <1>11, <3>10, <3>11, Zenon
    <3>7. imr' \subseteq imr
      BY <3>1
    <3> QED  BY <3>1, <3>4, <3>5, <3>6, <3>7
  <2>3. FlagTypes' /\ DataTypes'
    <3>1. FlagTypes'
      BY <1>1, <1>2, <1>11, <2>1, <2>2, Zenon DEF FlagTypes
    <3>2. DataTypes'
      BY <1>1, <1>2, <1>11, <2>1, <2>2 DEF DataTypes
    <3> QED  BY <3>1, <3>2
  <2>4. BootInv' /\ WedgeInv'
    <3>1. step \in 9..12
      BY <1>11, <2>1
    <3> QED  BY <1>2, <2>2, <3>1 DEF BootInv, WedgeInv, Serving
  <2> QED  BY <1>1, <2>2, <2>3, <2>4, Kept DEF InterruptsInv
<1> QED  BY <1>5, <1>6, <1>7, <1>8, <1>9, <1>10, <1>11 DEF Boot

\* kmain after boot.
LEMMA KmainStep == InterruptsInv /\ (idle \/ timer_wait \/ Waiting) => InterruptsInv'
<1> SUFFICES ASSUME InterruptsInv, idle \/ timer_wait \/ Waiting PROVE InterruptsInv'
  OBVIOUS
<1> USE InterruptsAssumption
<1>1. step \in 1..13 /\ Len(BootOrder) = 12
  BY DEF InterruptsInv, DataTypes, BootOrder
<1>2. FlagTypes /\ DataTypes /\ BootInv /\ FrameInv /\ ByteInv /\ WedgeInv /\ WaitInv
  BY DEF InterruptsInv
<1> USE DEF kmainVars, cpuVars, picVars, kbcVars, takenVars, timerVars
<1>3. /\ frames = <<>> /\ step = 13
      /\ UNCHANGED <<kmainVars, iflag, dead, gates, idtr, picVars, kbcVars,
                     takenVars, frames>>
      /\ halted' \in BOOLEAN
  BY <1>1, <1>2, BootAt DEF FlagTypes, idle, timer_wait, Waiting, timer_wait_test, timer_wait_hlt, Running, Hlt
<1>4. /\ wait' \in {"none", "test", "hlt", "done"}
      /\ \/ UNCHANGED <<elapsed, pulses>>
         \/ elapsed' = 0 /\ pulses' = 0
      /\ wait' = "done" => elapsed' = elapsed /\ (wait = "done" \/ elapsed >= Wait)
  <2>1. elapsed \in Int
    BY <1>2 DEF DataTypes
  <2> QED  BY <1>2, <2>1 DEF idle, timer_wait, Waiting, timer_wait_test, timer_wait_hlt,
              KeepsWaiting, DataTypes
<1>5. FlagTypes' /\ DataTypes'
  <2>1. FlagTypes'
    BY <1>2, <1>3, Zenon DEF FlagTypes
  <2>2. DataTypes'
    BY <1>1, <1>2, <1>3, <1>4 DEF DataTypes
  <2> QED  BY <2>1, <2>2
<1>6. BootInv'
  BY <1>2, <1>3 DEF BootInv
<1>7. WaitInv'
  <2>1. elapsed \in Int /\ pulses \in Int
    BY <1>2 DEF DataTypes
  <2> QED  BY <1>2, <1>3, <1>4, <2>1, ServingNone DEF WaitInv, Serving
<1> QED  BY <1>2, <1>3, <1>5, <1>6, <1>7, Kept DEF InterruptsInv

\* An interrupt is taken only when no handler is in progress, and its vector
\* has a gate.
LEMMA DeliverStep ==
    InterruptsInv /\ (\E l \in {Timer, Keyboard} : Deliver(l)) => InterruptsInv'
<1> SUFFICES ASSUME InterruptsInv, NEW l \in {Timer, Keyboard}, Deliver(l)
             PROVE  InterruptsInv'
  OBVIOUS
<1> USE InterruptsAssumption
<1>1. step \in 1..13 /\ Len(BootOrder) = 12
  BY DEF InterruptsInv, DataTypes, BootOrder
<1>2. FlagTypes /\ DataTypes /\ BootInv /\ FrameInv /\ ByteInv /\ WedgeInv /\ WaitInv
  BY DEF InterruptsInv
<1> USE DEF kmainVars, cpuVars, picVars, kbcVars, takenVars, timerVars
<1> DEFINE a == IF l = Timer THEN "tick" ELSE "status"
<1>3. frames = <<>> /\ iflag /\ step = 13 /\ isr = {}
  <2>1. frames = <<>> /\ iflag
    BY Zenon DEF Deliver, FlagInHandler
  <2>2. step = 13
    BY <1>1, <1>2, <2>1 DEF BootInv
  <2>3. isr = {}
    BY <1>2, <2>1 DEF FrameInv, Serving
  <2> QED  BY <2>1, <2>2, <2>3
<1>4. idtr /\ base + l \in gates \ Exceptions
  BY <1>2, <1>3 DEF BootInv, Timer, Keyboard, Exceptions
<1>5. /\ irr' = irr \ {l} /\ isr' = {l} /\ halted' = FALSE
      /\ frames' = <<Frame(l, a)>>
      /\ UNCHANGED <<kmainVars, iflag, dead, gates, idtr, base, imr, kbcVars,
                     takenVars, timerVars>>
  BY <1>3, <1>4 DEF Deliver, Frame
<1>6. a \in Stages(l) /\ Unended(Frame(l, a))
  BY DEF Stages, Unended, Frame, Timer, Keyboard
<1> HIDE DEF a
<1>7. FlagTypes' /\ DataTypes'
  <2>0. FlagTypes'
    BY <1>2, <1>5, Zenon DEF FlagTypes
  <2>1. Frame(l, a) \in [line : {Timer, Keyboard}, at : Positions]
    BY <1>6 DEF Frame, Stages, Positions
  <2>2. frames' \in Seq([line : {Timer, Keyboard}, at : Positions]) /\ Len(frames') = 1
    BY <1>5, <2>1
  <2>3. isr' \subseteq {Timer, Keyboard} /\ irr' \subseteq {Timer, Keyboard}
    BY <1>2, <1>5 DEF DataTypes
  <2>4. DataTypes'
    BY <1>2, <1>5, <2>2, <2>3 DEF DataTypes
  <2> QED  BY <2>0, <2>4
<1>8. BootInv'
  BY <1>2, <1>3, <1>5 DEF BootInv
<1>9. FrameInv'
  BY <1>3, <1>5, <1>6 DEF FrameInv, Serving
<1>10. ByteInv'
  <2>1. ~Serving(Keyboard, "read")'
    <3>1. a # "read"
      BY DEF a
    <3>2. frames'[1].at = a
      BY <1>5 DEF Frame
    <3> QED  BY <3>1, <3>2 DEF Serving, Frame
  <2> QED  BY <1>2, <1>5, <2>1 DEF ByteInv, Held
<1>11. WedgeInv'
  <2>1. CASE l = Timer
    BY <1>2, <1>3, <1>5, <2>1, ServingNone DEF WedgeInv, Timer, Keyboard
  <2>2. CASE l = Keyboard
    <3>1. Serving(Keyboard, "status")'
      BY <1>5, <2>2 DEF Serving, a, Timer, Keyboard
    <3> QED  BY <3>1 DEF WedgeInv
  <2> QED  BY <2>1, <2>2
<1>12. WaitInv'
  <2>1. elapsed \in Int /\ pulses \in Int
    BY <1>2 DEF DataTypes
  <2>2. CASE l = Timer
    <3>1. Timer \in irr /\ Timer \notin irr'
      BY <1>5, <2>2 DEF Deliver, Raised
    <3> QED  BY <1>2, <1>3, <1>5, <2>1, <3>1, ServingNone DEF WaitInv
  <2>3. CASE l = Keyboard
    <3>1. ~Serving(Timer, "tick")'
      <4>1. frames'[1].line = Keyboard
        BY <1>5, <2>3 DEF Frame
      <4> QED  BY <4>1 DEF Serving, Frame, Timer, Keyboard
    <3>2. Timer \in irr' <=> Timer \in irr
      BY <1>5, <2>3 DEF Timer, Keyboard
    <3> QED  BY <1>2, <1>3, <1>5, <2>1, <3>1, <3>2, ServingNone DEF WaitInv
  <2> QED  BY <2>2, <2>3
<1> QED  BY <1>7, <1>8, <1>9, <1>10, <1>11, <1>12 DEF InterruptsInv

\* The handlers.
LEMMA HandlerStep == InterruptsInv /\ Handling => InterruptsInv'
<1> SUFFICES ASSUME InterruptsInv, Handling PROVE InterruptsInv'
  OBVIOUS
<1> USE InterruptsAssumption
<1>1. step \in 1..13 /\ Len(BootOrder) = 12
  BY DEF InterruptsInv, DataTypes, BootOrder
<1>2. FlagTypes /\ DataTypes /\ BootInv /\ FrameInv /\ ByteInv /\ WedgeInv /\ WaitInv
  BY DEF InterruptsInv
<1> USE DEF kmainVars, cpuVars, picVars, kbcVars, takenVars, timerVars
<1>3. step = 13
  BY <1>1, <1>2 DEF FrameInv, Handling, on_irq0, PIC_sendEOI, keyboard_handler_test,
     keyboard_handler_read, irq_handler_eoi, iretq, AtHandler
<1>4. elapsed \in Int /\ pulses \in Int
  BY <1>2 DEF DataTypes
\* What a move to b within the handler of k leaves to show.
<1>5. ASSUME NEW k \in {Timer, Keyboard}, NEW b \in Stages(k),
             Serving(k, b)',
             isr' = IF Unended(Frame(k, b)) THEN {k} ELSE {},
             UNCHANGED <<kmainVars, cpuVars, base, imr, kbd_on, queue, sent, drained>>,
             irr' \subseteq {Timer, Keyboard},
             obf' \in 0..MaxBytes, latch' \in 0..MaxBytes,
             handled' \in Seq(0..MaxBytes),
             wait' = wait, elapsed' \in 0..Wait, pulses' = pulses
      PROVE  FlagTypes' /\ DataTypes' /\ BootInv' /\ FrameInv'
  <2>1. Frame(k, b) \in [line : {Timer, Keyboard}, at : Positions]
    BY <1>5 DEF Frame, Stages, Positions
  <2>2. frames' \in Seq([line : {Timer, Keyboard}, at : Positions]) /\ Len(frames') = 1
    BY <1>5, <2>1 DEF Serving
  <2>3. isr' \subseteq {Timer, Keyboard}
    BY <1>5
  <2>4. FlagTypes' /\ DataTypes'
    <3>1. FlagTypes'
      BY <1>2, <1>5, <2>2, <2>3, Zenon DEF FlagTypes
    <3>2. DataTypes'
      BY <1>2, <1>5, <2>2, <2>3 DEF DataTypes
    <3> QED  BY <3>1, <3>2
  <2>5. BootInv'
    BY <1>2, <1>5 DEF BootInv
  <2>6. FrameInv'
    <3>1. step' > 12
      BY <1>3, <1>5
    <3> QED  BY <1>5, <3>1, Zenon DEF FrameInv
  <2> QED  BY <2>4, <2>5, <2>6
<1>6. CASE on_irq0
  <2>1. /\ Serving(Timer, "tick") /\ Serving(Timer, "PIC_sendEOI")'
        /\ isr = {Timer} /\ isr' = isr
        /\ elapsed' = UpToWait(elapsed + 1)
        /\ UNCHANGED <<kmainVars, cpuVars, picVars, kbcVars, takenVars, wait, pulses>>
    BY <1>2, <1>6, FrameFacts DEF on_irq0, Serving, Unended, Frame
  <2>2. elapsed' \in 0..Wait
    BY <1>2, <2>1 DEF DataTypes, UpToWait
  <2>3. FlagTypes' /\ DataTypes' /\ BootInv' /\ FrameInv'
    <3>1. "PIC_sendEOI" \in Stages(Timer) /\ Unended(Frame(Timer, "PIC_sendEOI"))
      BY DEF Stages, Unended, Frame
    <3> QED  BY <1>2, <1>5, <2>1, <2>2, <3>1 DEF DataTypes
  <2>4. /\ ~Serving(Keyboard, "read")' /\ ~Serving(Timer, "tick")'
        /\ ~Serving(Keyboard, "status") /\ ~Serving(Keyboard, "read")
    BY <2>1, ServingOne DEF Serving, Frame, Timer, Keyboard
  <2>5. ByteInv' /\ WedgeInv'
    BY <1>2, <2>1, <2>4 DEF ByteInv, Held, WedgeInv
  <2>6. WaitInv'
    BY <1>2, <1>4, <2>1, <2>4 DEF WaitInv, UpToWait
  <2> QED  BY <2>3, <2>5, <2>6 DEF InterruptsInv
<1>7. CASE PIC_sendEOI \/ irq_handler_eoi
  <2>1. PICK k \in {Timer, Keyboard}, c \in {"PIC_sendEOI", "eoi"}, b \in {"eoi", "iretq"} :
          /\ AtHandler(k, c) /\ Goes(b) /\ b \in Stages(k) /\ ~Unended(Frame(k, b))
          /\ isr' = Ended(isr)
          /\ UNCHANGED <<kmainVars, cpuVars, base, imr, irr, kbcVars, takenVars, timerVars>>
    BY <1>7 DEF PIC_sendEOI, irq_handler_eoi, Stages, Unended, Frame, Timer, Keyboard
  <2>2. /\ Serving(k, c) /\ Serving(k, b)'
        /\ isr = {k} \/ isr = {}
    BY <1>2, <2>1, FrameFacts DEF Serving
  <2>3. isr' = {}
    BY <2>1, <2>2, EndedOwn DEF Timer, Keyboard
  <2>4. FlagTypes' /\ DataTypes' /\ BootInv' /\ FrameInv'
    BY <1>2, <1>5, <2>1, <2>2, <2>3 DEF DataTypes
  <2>5. /\ ~Serving(Keyboard, "read")' /\ ~Serving(Timer, "tick")'
        /\ ~Serving(Keyboard, "status") /\ ~Serving(Keyboard, "read") /\ ~Serving(Timer, "tick")
    BY <2>1, <2>2, ServingOne DEF Serving, Frame
  <2>6. ByteInv' /\ WedgeInv' /\ WaitInv'
    BY <1>2, <2>1, <2>5 DEF ByteInv, Held, WedgeInv, WaitInv
  <2> QED  BY <2>4, <2>6 DEF InterruptsInv
<1>8. CASE keyboard_handler_test
  <2>1. /\ Serving(Keyboard, "status") /\ isr = {Keyboard}
        /\ Serving(Keyboard, IF obf # 0 THEN "read" ELSE "eoi")'
        /\ UNCHANGED <<kmainVars, cpuVars, picVars, kbcVars, takenVars, timerVars>>
    <3>1. AtHandler(Keyboard, "status") /\ Goes(IF obf # 0 THEN "read" ELSE "eoi")
      BY <1>8 DEF keyboard_handler_test, HandlerSees
    <3>2. Unended(Frame(Keyboard, "status"))
      BY DEF Unended, Frame
    <3>3. frames' = <<Frame(Keyboard, IF obf # 0 THEN "read" ELSE "eoi")>>
      BY <1>2, <3>1, FrameFacts
    <3>4. obf' = obf
      BY <1>8 DEF keyboard_handler_test
    <3>5. Serving(Keyboard, "status") /\ isr = {Keyboard}
      BY <1>2, <3>1, <3>2, FrameFacts
    <3> QED  BY <1>8, <3>3, <3>4, <3>5 DEF keyboard_handler_test, Serving
  <2>2. FlagTypes' /\ DataTypes' /\ BootInv' /\ FrameInv'
    <3>1. \A b \in {"read", "eoi"} : b \in Stages(Keyboard) /\ Unended(Frame(Keyboard, b))
      BY DEF Stages, Unended, Frame, Timer, Keyboard
    <3> QED  BY <1>2, <1>5, <2>1, <3>1 DEF DataTypes
  <2>3. /\ ~Serving(Timer, "tick")' /\ ~Serving(Timer, "tick")
        /\ Serving(Keyboard, "read")' <=> obf # 0
    BY <2>1, ServingOne DEF Serving, Frame, Timer, Keyboard
  <2>4. ByteInv' /\ WedgeInv' /\ WaitInv'
    BY <1>2, <2>1, <2>3 DEF ByteInv, Held, WedgeInv, WaitInv
  <2> QED  BY <2>2, <2>4 DEF InterruptsInv
<1>9. CASE keyboard_handler_read
  <2>1. /\ Serving(Keyboard, "read") /\ Serving(Keyboard, "eoi")' /\ isr = {Keyboard}
        /\ isr' = isr
        /\ Unended(Frame(Keyboard, "eoi")) /\ "eoi" \in Stages(Keyboard)
    BY <1>2, <1>9, FrameFacts DEF keyboard_handler_read, Serving, Unended, Frame, Stages,
       Timer, Keyboard
  <2>2. obf # 0
    BY <1>2, <2>1 DEF ByteInv
  <2>3. /\ handled' = Append(handled, obf)
        /\ obf' = 0 /\ latch' = obf
        /\ irr' = irr \/ irr' = irr \ {Keyboard}
        /\ UNCHANGED <<kmainVars, cpuVars, base, imr, queue, kbd_on, sent, drained, timerVars>>
    BY <1>9, <2>2 DEF keyboard_handler_read, ReadData, Data
  <2>4. FlagTypes' /\ DataTypes' /\ BootInv' /\ FrameInv'
    <3>1. /\ handled \in Seq(0..MaxBytes) /\ obf \in 0..MaxBytes
          /\ irr \subseteq {Timer, Keyboard} /\ elapsed \in 0..Wait /\ 0 \in 0..MaxBytes
      BY <1>2 DEF DataTypes
    <3>2. handled' \in Seq(0..MaxBytes)
      BY <2>3, <3>1
    <3>3. irr' \subseteq {Timer, Keyboard}
      BY <2>3, <3>1
    <3> QED  BY <1>5, <2>1, <2>3, <3>1, <3>2, <3>3
  <2>5. /\ ~Serving(Timer, "tick")' /\ ~Serving(Timer, "tick")
        /\ ~Serving(Keyboard, "read")'
    BY <2>1, ServingOne DEF Serving, Frame, Timer, Keyboard
  <2>6. ByteInv'
    <3>1. /\ drained \in Nat /\ Len(handled) \in Nat /\ Len(queue) \in Nat
          /\ handled \in Seq(0..MaxBytes) /\ obf \in 0..MaxBytes
      BY <1>2 DEF DataTypes
    <3>2. /\ Len(handled') = Len(handled) + 1
          /\ handled'[Len(handled) + 1] = obf
          /\ \A i \in 1..Len(handled) : handled'[i] = handled[i]
      BY <2>3, <3>1
    <3>3. /\ obf = drained + Len(handled) + 1
          /\ drained + Len(handled) + 1 + Len(queue) = sent
          /\ \A i \in 1..Len(queue) : queue[i] = drained + Len(handled) + 1 + i
          /\ \A i \in 1..Len(handled) : handled[i] = drained + i
      BY <1>2, <2>2 DEF ByteInv, Held
    <3>4. ASSUME NEW i \in 1..Len(handled') PROVE handled'[i] = drained + i
      <4>1. i \in 1..Len(handled) \/ i = Len(handled) + 1
        BY <3>1, <3>2
      <4>2. CASE i \in 1..Len(handled)
        BY <3>2, <3>3, <4>2
      <4>3. CASE i = Len(handled) + 1
        BY <3>1, <3>2, <3>3, <4>3
      <4> QED  BY <4>1, <4>2, <4>3
    <3>5. drain # "read"
      BY <1>2, <1>3 DEF ByteInv, BootInv, DataTypes
    <3> QED  BY <1>3, <2>3, <2>5, <3>1, <3>2, <3>3, <3>4, <3>5 DEF ByteInv, Held
  <2>7. WedgeInv'
    BY <2>3 DEF WedgeInv
  <2>8. WaitInv'
    BY <1>2, <2>3, <2>5 DEF WaitInv, Timer, Keyboard
  <2> QED  BY <2>4, <2>6, <2>7, <2>8 DEF InterruptsInv
<1>10. CASE iretq
  <2>1. PICK k \in {Timer, Keyboard} : AtHandler(k, "iretq")
    BY <1>10 DEF iretq
  <2>2. /\ Serving(k, "iretq") /\ isr = {}
        /\ frames' = <<>>
        /\ UNCHANGED <<kmainVars, cpuVars, picVars, kbcVars, takenVars, timerVars>>
    BY <1>2, <1>10, <2>1, FrameFacts DEF iretq, Unended, Frame
  <2>3. FlagTypes' /\ DataTypes' /\ BootInv' /\ FrameInv'
    <3>1. FlagTypes'
      BY <1>2, <2>2, Zenon DEF FlagTypes
    <3>2. DataTypes'
      BY <1>2, <2>2 DEF DataTypes
    <3>3. BootInv' /\ FrameInv'
      BY <1>2, <2>2 DEF BootInv, FrameInv
    <3> QED  BY <3>1, <3>2, <3>3
  <2>4. /\ ~Serving(Keyboard, "read")' /\ ~Serving(Timer, "tick")'
        /\ ~Serving(Keyboard, "status") /\ ~Serving(Keyboard, "read") /\ ~Serving(Timer, "tick")
    BY <2>2, ServingOne DEF Serving, Frame
  <2>5. ByteInv' /\ WedgeInv' /\ WaitInv'
    BY <1>2, <2>2, <2>4 DEF ByteInv, Held, WedgeInv, WaitInv
  <2> QED  BY <2>3, <2>5 DEF InterruptsInv
<1> QED  BY <1>6, <1>7, <1>8, <1>9, <1>10 DEF Handling

\* The devices: a pulse of the PIT, a key, a scancode handed to the controller.
LEMMA DeviceStep == InterruptsInv /\ (Pulse \/ KeySend \/ KbcLoad) => InterruptsInv'
<1> SUFFICES ASSUME InterruptsInv, Pulse \/ KeySend \/ KbcLoad PROVE InterruptsInv'
  OBVIOUS
<1> USE InterruptsAssumption
<1>1. step \in 1..13 /\ Len(BootOrder) = 12
  BY DEF InterruptsInv, DataTypes, BootOrder
<1>2. FlagTypes /\ DataTypes /\ BootInv /\ FrameInv /\ ByteInv /\ WedgeInv /\ WaitInv
  BY DEF InterruptsInv
<1>3. /\ drained \in Nat /\ handled \in Seq(0..MaxBytes) /\ queue \in Seq(1..MaxBytes)
      /\ Len(handled) \in Nat /\ Len(queue) \in Nat
      /\ obf \in 0..MaxBytes /\ sent \in 0..MaxBytes
      /\ elapsed \in 0..Wait /\ pulses \in 0..Wait
      /\ irr \subseteq {Timer, Keyboard}
  BY <1>2 DEF DataTypes
<1> USE DEF kmainVars, cpuVars, picVars, kbcVars, takenVars, timerVars
<1>4. CASE Pulse
  <2>1. /\ irr' = irr \cup {Timer} /\ pulses' = UpToWait(pulses + 1)
        /\ UNCHANGED <<kmainVars, cpuVars, base, imr, isr, kbcVars, takenVars, frames,
                       wait, elapsed>>
    BY <1>4 DEF Pulse
  <2>2. FlagTypes'
    BY <1>2, <2>1, Zenon DEF FlagTypes
  <2>3. DataTypes'
    <3>1. irr' \subseteq {Timer, Keyboard} /\ pulses' \in 0..Wait
      BY <1>3, <2>1 DEF UpToWait
    <3> QED  BY <1>2, <2>1, <3>1 DEF DataTypes
  <2>4. BootInv'
    BY <1>2, <2>1 DEF BootInv
  <2>5. WaitInv'
    BY <1>2, <1>3, <2>1 DEF WaitInv, UpToWait, Serving
  <2> QED  BY <1>1, <2>1, <2>2, <2>3, <2>4, <2>5, Kept DEF InterruptsInv
<1>5. CASE KeySend
  <2>1. /\ sent' = sent + 1 /\ queue' = Append(queue, sent + 1) /\ sent + 1 \in 1..MaxBytes
        /\ UNCHANGED <<kmainVars, cpuVars, picVars, obf, latch, kbd_on, takenVars,
                       frames, timerVars>>
    BY <1>3, <1>5 DEF KeySend
  <2>2. FlagTypes'
    BY <1>2, <2>1, Zenon DEF FlagTypes
  <2>3. /\ queue' \in Seq(1..MaxBytes) /\ Len(queue') = Len(queue) + 1
        /\ \A i \in 1..Len(queue) : queue'[i] = queue[i]
        /\ queue'[Len(queue) + 1] = sent + 1
    BY <1>3, <2>1, AppendProperties
  <2>4. DataTypes'
    BY <1>2, <2>1, <2>3 DEF DataTypes
  <2>5. BootInv'
    BY <1>2, <2>1 DEF BootInv
  <2>6. ByteInv'
    <3>1. Held \in {0, 1} /\ Held' = Held
      BY <2>1 DEF Held
    <3>2. ASSUME NEW i \in 1..Len(queue')
          PROVE  queue'[i] = drained + Len(handled) + Held + i
      <4>1. CASE i \in 1..Len(queue)
        BY <1>2, <2>3, <4>1 DEF ByteInv
      <4>2. CASE i = Len(queue) + 1
        BY <1>2, <1>3, <2>3, <3>1, <4>2 DEF ByteInv
      <4> QED  BY <1>3, <2>3, <4>1, <4>2
    <3>3. drained + Len(handled) + Held + Len(queue') = sent'
      BY <1>2, <1>3, <2>1, <2>3, <3>1 DEF ByteInv
    <3> QED  BY <1>2, <2>1, <3>1, <3>2, <3>3 DEF ByteInv, Serving
  <2> QED  BY <1>1, <2>1, <2>2, <2>4, <2>5, <2>6, Kept DEF InterruptsInv
<1>6. CASE KbcLoad
  <2>1. /\ obf = 0 /\ queue # <<>>
        /\ obf' = Head(queue) /\ queue' = Tail(queue) /\ irr' = irr \cup {Keyboard}
        /\ UNCHANGED <<kmainVars, cpuVars, base, imr, isr, latch, kbd_on, sent,
                       takenVars, frames, timerVars>>
    BY <1>6 DEF KbcLoad
  <2>2. FlagTypes'
    BY <1>2, <2>1, Zenon DEF FlagTypes
  <2>3. /\ Head(queue) \in 1..MaxBytes /\ Head(queue) = queue[1] /\ Len(queue) > 0
        /\ queue' \in Seq(1..MaxBytes) /\ Len(queue') = Len(queue) - 1
        /\ \A i \in 1..Len(queue') : queue'[i] = queue[i + 1]
    BY <1>3, <2>1, HeadTailProperties
  <2>4. DataTypes'
    <3>1. irr' \subseteq {Timer, Keyboard} /\ obf' \in 0..MaxBytes
      BY <1>3, <2>1, <2>3
    <3> QED  BY <1>2, <2>1, <2>3, <3>1 DEF DataTypes
  <2>5. BootInv' /\ FrameInv'
    BY <1>1, <1>2, <2>1, Kept DEF BootInv
  <2>6. ByteInv'
    <3>1. Held = 0 /\ Held' = 1 /\ obf' # 0
      BY <1>3, <2>1, <2>3 DEF Held
    <3>2. obf' = drained + Len(handled) + 1
      BY <1>2, <1>3, <2>1, <2>3, <3>1 DEF ByteInv
    <3>3. ASSUME NEW i \in 1..Len(queue')
          PROVE  queue'[i] = drained + Len(handled) + 1 + i
      BY <1>2, <1>3, <2>3, <3>1 DEF ByteInv
    <3>4. drained + Len(handled) + 1 + Len(queue') = sent'
      BY <1>2, <1>3, <2>1, <2>3, <3>1 DEF ByteInv
    <3>5. drain # "read"
      BY <1>2, <2>1 DEF ByteInv
    <3> QED  BY <1>2, <2>1, <3>1, <3>2, <3>3, <3>4, <3>5 DEF ByteInv
  <2>7. WedgeInv'
    BY <2>1 DEF WedgeInv
  <2>8. WaitInv'
    BY <1>2, <2>1 DEF WaitInv, Serving, Timer, Keyboard
  <2> QED  BY <2>2, <2>4, <2>5, <2>6, <2>7, <2>8 DEF InterruptsInv
<1> QED  BY <1>4, <1>5, <1>6

\* Every step, or none, preserves the invariant.
LEMMA InterruptsInvNext == InterruptsInv /\ [Next]_vars => InterruptsInv'
<1> SUFFICES ASSUME InterruptsInv, UNCHANGED vars PROVE InterruptsInv'
  BY BootStep, KmainStep, DeliverStep, HandlerStep, DeviceStep DEF Next
<1> USE DEF vars, kmainVars, cpuVars, picVars, kbcVars, takenVars, timerVars
<1>1. FlagTypes'
  BY Zenon DEF InterruptsInv, FlagTypes
<1>2. DataTypes'
  BY DEF InterruptsInv, DataTypes
<1>3. BootInv'
  BY DEF InterruptsInv, BootInv
<1>4. step' \in Nat /\ step' >= step
  BY DEF InterruptsInv, DataTypes
<1> QED  BY <1>1, <1>2, <1>3, <1>4, Kept DEF InterruptsInv

----------------------------------------------------------------------------
(* The theorems.                                                           *)

\* The invariant holds of every behaviour: it is what makes each of the
\* properties below inductive.
THEOREM InterruptsInvariant == Spec => []InterruptsInv
BY InterruptsInvInit, InterruptsInvNext, PTL DEF Spec

\* The state of kmain, the CPU, the PICs, the controller and the handlers is
\* always well formed, and interrupts never nest.
THEOREM InterruptsTypes == Spec => []TypeOK
<1>1. InterruptsInv => TypeOK
  <2> SUFFICES ASSUME InterruptsInv PROVE TypeOK
    OBVIOUS
  <2>1. step \in 1..13 => step \in 1..(Len(BootOrder) + 1)
    BY DEF BootOrder
  <2> QED  BY <2>1, Zenon DEF InterruptsInv, FlagTypes, DataTypes, TypeOK
<1> QED  BY <1>1, InterruptsInvariant, PTL

\* The line in service is the one whose handler has not ended it: the timer's
\* two EOIs never end a keyboard interrupt half-way.
THEOREM InterruptsService == Spec => []ServiceMatches
<1>1. InterruptsInv => ServiceMatches
  <2> SUFFICES ASSUME InterruptsInv
               PROVE isr = {frames[i].line : i \in {j \in 1..Len(frames) : Unended(frames[j])}}
    BY DEF ServiceMatches
  <2>1. CASE frames = <<>> /\ isr = {}
    <3>1. {j \in 1..Len(frames) : Unended(frames[j])} = {}
      BY <2>1
    <3> QED  BY <2>1, <3>1
  <2>2. ASSUME NEW l \in {Timer, Keyboard}, NEW a \in Stages(l), Serving(l, a),
               isr = IF Unended(Frame(l, a)) THEN {l} ELSE {}
        PROVE isr = {frames[i].line : i \in {j \in 1..Len(frames) : Unended(frames[j])}}
    <3>1. Len(frames) = 1 /\ frames[1] = Frame(l, a) /\ frames[1].line = l
      BY <2>2 DEF Serving, Frame
    <3>2. {j \in 1..Len(frames) : Unended(frames[j])} = IF Unended(Frame(l, a)) THEN {1} ELSE {}
      BY <3>1
    <3> QED  BY <2>2, <3>1, <3>2
  <2> QED  BY <2>1, <2>2 DEF InterruptsInv, FrameInv
<1> QED  BY <1>1, InterruptsInvariant, PTL

\* Once init_keyboard has emptied the controller, a byte in it has a request
\* or a handler on its way: the keyboard never wedges.
THEOREM InterruptsNoWedge == Spec => []NoWedge
<1>1. InterruptsInv => NoWedge
  <2> SUFFICES ASSUME InterruptsInv, KbdReady, obf # 0, Keyboard \notin irr
               PROVE \E i \in 1..Len(frames) :
                       frames[i].line = Keyboard /\ frames[i].at \in {"status", "read"}
    BY DEF NoWedge
  <2>1. step \in 1..13
    BY DEF InterruptsInv, DataTypes
  <2>2. step > 8
    BY <2>1 DEF KbdReady, BootOrder
  <2>3. Serving(Keyboard, "status") \/ Serving(Keyboard, "read")
    BY <2>2 DEF InterruptsInv, WedgeInv
  <2>4. Len(frames) = 1 /\ frames[1].line = Keyboard /\ frames[1].at \in {"status", "read"}
    BY <2>3 DEF Serving, Frame
  <2> QED  BY <2>4
<1> QED  BY <1>1, InterruptsInvariant, PTL

\* keyboard_handler takes what the keyboard sent after init_keyboard's loop,
\* in order, none twice and none skipped.
THEOREM InterruptsTakesInOrder == Spec => []TakesInOrder
<1>1. InterruptsInv => TakesInOrder
  <2> SUFFICES ASSUME InterruptsInv PROVE handled = [i \in 1..Len(handled) |-> drained + i]
    BY DEF TakesInOrder
  <2>1. handled \in Seq(0..MaxBytes) /\ \A i \in 1..Len(handled) : handled[i] = drained + i
    BY DEF InterruptsInv, DataTypes, ByteInv
  <2> QED  BY <2>1
<1> QED  BY <1>1, InterruptsInvariant, PTL

\* No interrupt comes at a vector without a gate, and kmain halts with
\* interrupts off only in hcf.
THEOREM InterruptsCpuAlive == Spec => []CpuAlive
<1>1. InterruptsInv => CpuAlive
  BY DEF InterruptsInv, BootInv, CpuAlive
<1> QED  BY <1>1, InterruptsInvariant, PTL

\* timer_wait returns no earlier than it may.
THEOREM InterruptsWaits == Spec => []WaitsLongEnough
<1>1. InterruptsInv => WaitsLongEnough
  <2> SUFFICES ASSUME InterruptsInv, wait = "done" PROVE pulses >= Wait - 1
    BY DEF WaitsLongEnough
  <2>1. elapsed \in 0..Wait /\ pulses \in 0..Wait /\ Wait \in Nat
    BY InterruptsAssumption DEF InterruptsInv, DataTypes
  <2> QED  BY <2>1 DEF InterruptsInv, WaitInv
<1> QED  BY <1>1, InterruptsInvariant, PTL

\* A quotient bounds what was divided.
LEMMA QuotientBounds ==
    ASSUME NEW a \in Nat, NEW b \in Nat \ {0}, NEW w \in Nat, a \div b = w
    PROVE  a < (w + 1) * b
<1>1. a = b * w + (a % b) /\ a % b < b
  OBVIOUS
<1> QED  BY <1>1

\* More periods are longer.
LEMMA PeriodsGrow ==
    ASSUME NEW a \in Nat, NEW b \in Nat, a <= b, NEW c \in Nat
    PROVE  a * c <= b * c /\ a * c \in Nat /\ b * c \in Nat
<1>1. PICK d \in Nat : b = a + d
  <2>1. b - a \in Nat /\ b = a + (b - a)
    OBVIOUS
  <2> QED  BY <2>1
<1>2. b * c = a * c + d * c /\ d * c \in Nat /\ a * c \in Nat
  BY <1>1
<1> QED  BY <1>2

\* Microseconds whose rounding wraps are less than a tick.
LEMMA WrappedRounding ==
    ASSUME NEW a \in Nat, NEW b \in Nat \ {0}, NEW u \in Nat \ {0}, u <= a, a < u + b
    PROVE  (a % u) \div b = 0
<1> DEFINE q == a \div u
           r == a % u
           d == r \div b
<1>1. a = u * q + r /\ q \in Nat /\ r \in Nat /\ r < u
  OBVIOUS
<1>2. r = b * d + (r % b) /\ d \in Nat /\ r % b \in Nat
  BY <1>1
<1> HIDE DEF q, r, d
<1>3. q # 0
  BY <1>1
<1>4. 1 * u <= q * u
  BY <1>1, <1>3, PeriodsGrow
<1>5. r < b
  BY <1>1, <1>4
<1>6. d # 0 => 1 * b <= d * b
  BY <1>2, PeriodsGrow
<1>7. d = 0
  BY <1>2, <1>5, <1>6
<1> QED  BY <1>7 DEF d, r

\* In whatever unit it is called, timer_wait is early by no more than the
\* latched tick and the rounding of milliseconds, for every period of the PIT
\* and every argument but the seconds whose number of ticks wraps.
THEOREM InterruptsWaitsAsAsked == Spec => []WaitsAsAsked
<1>1. InterruptsInv => WaitsAsAsked
  <2> SUFFICES ASSUME InterruptsInv, wait = "done", NEW n \in 0..(UIntMod - 1)
               PROVE  /\ timer_wait_micros(n) = Wait => n <= (pulses + 1) * TickMicros
                      /\ timer_wait_ms(n) = Wait => n < (pulses + 2) * TickMillis
                      /\ timer_wait_seconds(n) = Wait =>
                            n * Frequency <= pulses + 1 \/ n * Frequency >= UIntMod
    BY DEF WaitsAsAsked
  <2>1. elapsed \in 0..Wait /\ pulses \in 0..Wait /\ Wait \in Nat \ {0}
    BY InterruptsAssumption DEF InterruptsInv, DataTypes
  <2>2. Wait <= pulses + 1
    BY <2>1 DEF InterruptsInv, WaitInv
  <2>3. /\ TickMicros \in Nat \ {0} /\ TickMillis \in Nat \ {0}
        /\ Frequency \in Nat \ {0} /\ UIntMod \in Nat \ {0} /\ n \in Nat
    BY UnitsAssumption
  <2>4. ASSUME timer_wait_micros(n) = Wait
        PROVE  n <= (pulses + 1) * TickMicros
    <3> DEFINE a == n + TickMicros - 1
    <3>1. n # 0 /\ a \in Nat /\ a < UIntMod + TickMicros
          /\ (a % UIntMod) \div TickMicros = Wait
      BY <2>1, <2>3, <2>4 DEF timer_wait_micros
    <3>2. a % UIntMod = a
      <4> HIDE DEF a
      <4>1. a < UIntMod
        BY <2>1, <2>3, <3>1, WrappedRounding
      <4> QED  BY <2>3, <3>1, <4>1
    <3>3. a \div TickMicros = Wait
      BY <3>1, <3>2
    <3>4. a < (Wait + 1) * TickMicros
      <4> HIDE DEF a
      <4> QED  BY <2>1, <2>3, <3>1, <3>3, QuotientBounds
    <3>5. (Wait + 1) * TickMicros = Wait * TickMicros + TickMicros
      BY <2>1, <2>3
    <3>6. Wait * TickMicros <= (pulses + 1) * TickMicros /\ Wait * TickMicros \in Nat
          /\ (pulses + 1) * TickMicros \in Nat
      BY <2>1, <2>2, <2>3, PeriodsGrow
    <3> QED  BY <2>3, <3>4, <3>5, <3>6
  <2>5. ASSUME timer_wait_ms(n) = Wait
        PROVE  n < (pulses + 2) * TickMillis
    <3>1. n < (Wait + 1) * TickMillis
      BY <2>1, <2>3, <2>5, QuotientBounds DEF timer_wait_ms
    <3>2. (Wait + 1) * TickMillis <= (pulses + 2) * TickMillis
          /\ (Wait + 1) * TickMillis \in Nat /\ (pulses + 2) * TickMillis \in Nat
      BY <2>1, <2>2, <2>3, PeriodsGrow
    <3> QED  BY <2>3, <3>1, <3>2
  <2>6. ASSUME timer_wait_seconds(n) = Wait
        PROVE  n * Frequency <= pulses + 1 \/ n * Frequency >= UIntMod
    <3> DEFINE a == n * Frequency
    <3>1. a \in Nat /\ a % UIntMod = Wait
      BY <2>3, <2>6 DEF timer_wait_seconds
    <3> HIDE DEF a
    <3>2. CASE a < UIntMod
      <4>1. a = Wait
        BY <2>3, <3>1, <3>2
      <4> QED  BY <2>2, <4>1 DEF a
    <3>3. CASE a >= UIntMod
      BY <3>3 DEF a
    <3> QED  BY <2>3, <3>1, <3>2, <3>3
  <2> QED  BY <2>4, <2>5, <2>6
<1> QED  BY <1>1, InterruptsInvariant, PTL

=============================================================================
