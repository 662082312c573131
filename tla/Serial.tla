------------------------------- MODULE Serial -------------------------------
(***************************************************************************)
(* The serial port of serial.c: init_serial with its loopback test, the    *)
(* polled output of a character, and what serial_printf writes; with it    *)
(* to_string of utility.c, the kernel's other conversion of a number. Both *)
(* kmain and the keyboard interrupt write, the interrupt between any two   *)
(* steps of kmain; the loop that waits for the transmitter and the outb    *)
(* that follows it are such steps.                                         *)
(*                                                                         *)
(* The UART is external: it sends what it holds when it likes, to the wire *)
(* or, in loopback, to its own receiver.                                   *)
(***************************************************************************)
EXTENDS Integers, Sequences

CONSTANTS
    Depth,      \* characters the transmitter holds with its FIFO enabled
    IntMod,     \* one more than the greatest unsigned int
    PtrMod,     \* one more than the greatest pointer
    MaxIrqs     \* bound: keyboard interrupts

ASSUME SerialAssumption ==
    /\ Depth \in Nat /\ Depth >= 2
    /\ IntMod \in Nat /\ IntMod >= 2
    /\ PtrMod \in Nat /\ IntMod <= PtrMod
    /\ MaxIrqs \in Nat

VARIABLES
    capacity,   \* characters the transmitter holds
    fifo,       \* the characters it does hold, oldest first
    loopback,   \* whether it sends to its own receiver
    received,   \* what the receiver got last
    wire,       \* what went out
    stage,      \* where kmain is: "reset", "testing", "ready", "printing"
    call,       \* what kmain prints
    left,       \* the characters that a writer has still to write
    polled,     \* whether a writer saw the transmitter empty and has not written yet
    handling,   \* whether the keyboard interrupt runs
    irqs        \* keyboard interrupts so far

uart == <<capacity, fifo, loopback, received, wire>>
kernel == <<stage, call, left, polled, handling, irqs>>
vars == <<uart, kernel>>

Writers == {"kmain", "irq"}

----------------------------------------------------------------------------
(* What serial_printf writes.                                              *)

TestByte == "test"
CRLF == <<"CR", "LF">>
Stray == "stray"
Digits == <<"0", "1", "2", "3", "4", "5", "6", "7", "8", "9",
            "a", "b", "c", "d", "e", "f">>
Capitals == [a |-> "A", b |-> "B", c |-> "C", d |-> "D", e |-> "E", f |-> "F"]
Chars == {Digits[i] : i \in 1..16} \cup {Capitals[c] : c \in DOMAIN Capitals}
            \cup {"CR", "LF", "-", "%", "z", "u", "[", "]", "0x", "K"}

\* "0123456789abcdef"[d]; beyond the literal there is no telling.
Digit(d) == IF d \in 0..15 THEN Digits[d + 1] ELSE Stray

\* Division in C.
Quotient(a, b) == IF a >= 0 THEN a \div b ELSE -((-a) \div b)

\* The do loop of uint_to_string with the reversal after it.
uint_to_string(value, base) ==
    LET digits[v \in Int] ==
            LET q == Quotient(v, base)
            IN  (IF q = 0 THEN <<>> ELSE digits[q]) \o <<Digit(v - q * base)>>
    IN  digits[value]

\* Faulty variant: the digits are those of the negative number.
int_to_string_signed(value, garbled, base) ==
    (IF value < 0 /\ base = 10 THEN <<"-">> ELSE <<>>) \o uint_to_string(value, base)

\* Faulty variant: the sign is taken off and not written.
int_to_string_unsigned(value, garbled, base) ==
    uint_to_string(IF value < 0 THEN -value ELSE value, base)

IntMin == -(IntMod \div 2)

\* What comes of the digits of INT_MIN is undefined: it has no negative, and
\* the remainders are below zero.  gcc's -O2 gets all digits right but the
\* last, without optimisation none is; the others are what lies in front of
\* the literal, where a zero ends the text.
Garbled ==
    LET digits == uint_to_string(-IntMin, 10)
    IN  UNION {{[i \in 1..n |-> IF i <= kept THEN digits[i] ELSE Stray] :
                    n \in kept..Len(digits)} : kept \in 0..(Len(digits) - 1)}

\* int_to_string.  Its loop is that of uint_to_string, on an int.
int_to_string(value, garbled, base) ==
    IF value < 0 /\ base = 10
    THEN <<"-">> \o (IF value = IntMin THEN garbled ELSE uint_to_string(-value, base))
    ELSE uint_to_string(value, base)

\* to_string: the digits from the last on, the sign behind them, and the
\* reversal.  Of INT_MIN this is what gcc's -O2 makes of it; without
\* optimisation there are no digits.
to_string(s) ==
    LET digits[n \in Nat] ==
            IF n = 0 THEN <<>> ELSE <<Digit(n % 10)>> \o digits[n \div 10]
        reversed == digits[IF s < 0 THEN -s ELSE s] \o (IF s < 0 THEN <<"-">> ELSE <<>>)
    IN  IF s = 0 THEN <<"0">>
        ELSE [i \in 1..Len(reversed) |-> reversed[Len(reversed) - i + 1]]

UpperCase(str) ==
    [i \in 1..Len(str) |-> IF str[i] \in DOMAIN Capitals THEN Capitals[str[i]] ELSE str[i]]

\* Every string, and so every number, is followed by an end of line.
write_serial(str) == str \o CRLF

\* serial_printf, one conversion.  %p prints its argument as an unsigned int;
\* %zu is not known, and its letters are written.
Converted(c) ==
    CASE c.conv \in {"d", "i"} -> write_serial(int_to_string(c.arg, c.garbled, 10))
      [] c.conv = "u" -> write_serial(uint_to_string(c.arg, 10))
      [] c.conv = "x" -> write_serial(uint_to_string(c.arg, 16))
      [] c.conv = "X" -> write_serial(UpperCase(uint_to_string(c.arg, 16)))
      [] c.conv = "p" -> write_serial(<<"0x">>)
                            \o write_serial(uint_to_string(c.arg % IntMod, 16))
      [] c.conv = "s" -> write_serial(<<"K">>)
      [] c.conv = "c" -> <<"K">>
      [] c.conv = "%" -> <<"%">>
      [] c.conv = "zu" -> <<"%", "z", "u">>

\* A conversion between two characters that are written as they are.
serial_printf(c) == <<"[">> \o Converted(c) \o <<"]">>

Arguments(conv) ==
    CASE conv \in {"d", "i"} -> IntMin..(IntMod \div 2 - 1)
      [] conv \in {"u", "x", "X"} -> 0..(IntMod - 1)
      [] conv \in {"p", "zu"} -> 0..(PtrMod - 1)
      [] conv \in {"s", "c", "%"} -> {0}

Conversions == {"d", "i", "u", "x", "X", "p", "s", "c", "%", "zu"}

\* What is passed, and what comes of the digits when that is INT_MIN.
Calls ==
    (UNION {{[conv |-> conv, arg |-> arg, garbled |-> <<>>] : arg \in Arguments(conv) \ {IntMin}} :
                conv \in Conversions})
    \cup [conv : {"d", "i"}, arg : {IntMin}, garbled : Garbled]

\* What the handler of the keyboard interrupt writes before anything else.
KeyboardMessage == write_serial(<<"K">>)

----------------------------------------------------------------------------
(* The UART.                                                               *)

\* The oldest character leaves.
Transmit ==
    /\ fifo # <<>>
    /\ fifo' = Tail(fifo)
    /\ IF loopback
       THEN received' = Head(fifo).char /\ UNCHANGED wire
       ELSE wire' = Append(wire, Head(fifo)) /\ UNCHANGED received
    /\ UNCHANGED <<capacity, loopback, kernel>>

\* outb(PORT, c).  A transmitter that is full keeps what it has.
Out(w, c) ==
    fifo' = IF Len(fifo) < capacity THEN Append(fifo, [by |-> w, char |-> c]) ELSE fifo

----------------------------------------------------------------------------
(* The kernel.                                                             *)

\* Faulty variant: the FIFO is not enabled.
StartTest_unbuffered ==
    /\ stage = "reset"
    /\ stage' = "testing"
    /\ loopback' = TRUE
    /\ Out("kmain", TestByte)
    /\ UNCHANGED <<capacity, received, wire, call, left, polled, handling, irqs>>

\* init_serial up to the test byte.  Interrupts are off.
StartTest ==
    /\ stage = "reset"
    /\ stage' = "testing"
    /\ capacity' = Depth
    /\ loopback' = TRUE
    /\ Out("kmain", TestByte)
    /\ UNCHANGED <<received, wire, call, left, polled, handling, irqs>>

\* The test byte is read at once, whether it has arrived or not.  If not,
\* the port stays in loopback, and kmain does not look at the result.
ReadTest ==
    /\ stage = "testing"
    /\ stage' = "ready"
    /\ loopback' = (received # TestByte)
    /\ UNCHANGED <<capacity, fifo, received, wire, call, left, polled, handling, irqs>>

\* kmain prints something.
Printf(c) ==
    /\ stage = "ready"
    /\ ~handling
    /\ stage' = "printing"
    /\ call' = c
    /\ left' = [left EXCEPT !["kmain"] = serial_printf(c)]
    /\ UNCHANGED <<uart, polled, handling, irqs>>

\* The keyboard interrupt, which is not interrupted itself.
Interrupt ==
    /\ stage \in {"ready", "printing"}
    /\ ~handling
    /\ irqs < MaxIrqs
    /\ handling' = TRUE
    /\ irqs' = irqs + 1
    /\ left' = [left EXCEPT !["irq"] = KeyboardMessage]
    /\ UNCHANGED <<uart, stage, call, polled>>

Return ==
    /\ handling
    /\ left["irq"] = <<>>
    /\ handling' = FALSE
    /\ UNCHANGED <<uart, stage, call, left, polled, irqs>>

Runs(w) == handling <=> (w = "irq")

\* Faulty variant: the loop is not there.
is_transmit_empty_always == TRUE

\* Faulty variant: the bit is tested the wrong way round.
is_transmit_empty_inverted == fifo # <<>>

\* Bit 5 of the line status: with the FIFO enabled, that it is empty.
is_transmit_empty == fifo = <<>>

\* write_serial_char: the loop ends, ...
Poll(w) ==
    /\ Runs(w)
    /\ left[w] # <<>>
    /\ ~polled[w]
    /\ is_transmit_empty
    /\ polled' = [polled EXCEPT ![w] = TRUE]
    /\ UNCHANGED <<uart, stage, call, left, handling, irqs>>

\* ... and the character is written.
Write(w) ==
    /\ Runs(w)
    /\ polled[w]
    /\ Out(w, Head(left[w]))
    /\ left' = [left EXCEPT ![w] = Tail(@)]
    /\ polled' = [polled EXCEPT ![w] = FALSE]
    /\ UNCHANGED <<capacity, loopback, received, wire, stage, call, handling, irqs>>

----------------------------------------------------------------------------
Init ==
    /\ capacity = 1
    /\ fifo = <<>>
    /\ loopback = FALSE
    /\ received = "nothing"
    /\ wire = <<>>
    /\ stage = "reset"
    /\ call = [conv |-> "%", arg |-> 0, garbled |-> <<>>]
    /\ left = [w \in Writers |-> <<>>]
    /\ polled = [w \in Writers |-> FALSE]
    /\ handling = FALSE
    /\ irqs = 0

Next ==
    \/ Transmit
    \/ StartTest \/ ReadTest
    \/ \E c \in Calls : Printf(c)
    \/ Interrupt \/ Return
    \/ \E w \in Writers : Poll(w) \/ Write(w)

\* The UART sends what it holds, and the processor goes on with the writer it
\* has begun.  kmain need not print, nor need a key be pressed.
Fairness ==
    /\ WF_vars(Transmit)
    /\ WF_vars(StartTest) /\ WF_vars(ReadTest) /\ WF_vars(Return)
    /\ \A w \in Writers : WF_vars(Poll(w)) /\ WF_vars(Write(w))

Spec == Init /\ [][Next]_vars
FairSpec == Spec /\ Fairness

----------------------------------------------------------------------------
(* Properties.                                                             *)

\* Characters, and for INT_MIN alone the bytes from outside the digits.
Printed == Chars \cup {c \in {Stray} : call.arg = IntMin}

\* Among the types: no remainder of any other number indexes outside the digits.
TypeOK ==
    /\ capacity \in {1, Depth}
    /\ fifo \in Seq([by : Writers, char : Printed \cup {TestByte}])
    /\ loopback \in BOOLEAN
    /\ received \in Printed \cup {TestByte, "nothing"}
    /\ wire \in Seq([by : Writers, char : Printed \cup {TestByte}])
    /\ stage \in {"reset", "testing", "ready", "printing"}
    /\ call \in Calls
    /\ left \in [Writers -> Seq(Printed)]
    /\ polled \in [Writers -> BOOLEAN]
    /\ handling \in BOOLEAN
    /\ irqs \in 0..MaxIrqs

\* No character is written to a full transmitter, although an interrupt may
\* fill it after kmain saw it empty and before kmain writes: the FIFO has room
\* for the one character that is then in it.
NoOverrun == \A w \in Writers : Runs(w) /\ polled[w] => Len(fifo) < capacity

\* The characters of w among those in s, but for the test byte.
By(w, s) ==
    LET sent[n \in 0..Len(s)] ==
            IF n = 0 THEN <<>>
            ELSE IF s[n].by = w /\ s[n].char # TestByte
                 THEN Append(sent[n - 1], s[n].char) ELSE sent[n - 1]
    IN  sent[Len(s)]

\* What w has put into the transmitter since the test, and has still to put.
Written(w) == By(w, wire \o fifo) \o left[w]

\* The messages of the handler that an interrupt cuts in with are whole.
Messages ==
    LET repeated[n \in 0..MaxIrqs] ==
            IF n = 0 THEN <<>> ELSE repeated[n - 1] \o KeyboardMessage
    IN  repeated[irqs]

\* When the loopback test was passed, every character goes out once, each
\* writer's in the order in which it wrote them, however they interleave.
NothingLost ==
    ~loopback =>
        /\ stage = "printing" => Written("kmain") = serial_printf(call)
        /\ Written("irq") = Messages

\* The number that the digits denote, in either case.
DigitValue(c) ==
    CHOOSE d \in 0..15 : c = Digits[d + 1] \/ (d >= 10 /\ c = Capitals[Digits[d + 1]])
Value(str, base) ==
    LET value[n \in 0..Len(str)] ==
            IF n = 0 THEN 0 ELSE value[n - 1] * base + DigitValue(str[n])
    IN  value[Len(str)]

\* Whoever reads a number off the port reads the argument that was printed,
\* unless that is INT_MIN; of a pointer what fits an unsigned int.  to_string,
\* the other conversion of an int, gives the same text.
ReadsBack ==
    (/\ stage = "printing" /\ ~loopback
     /\ call.conv \notin {"s", "c", "%", "zu"} /\ call.arg # IntMin) =>
        LET written == Written("kmain")
            prefix == <<"[">> \o IF call.conv = "p" THEN <<"0x">> \o CRLF
                                 ELSE IF call.arg < 0 THEN <<"-">> ELSE <<>>
            base == IF call.conv \in {"d", "i", "u"} THEN 10 ELSE 16
            digits == SubSeq(written, Len(prefix) + 1, Len(written) - 3)
        IN  /\ SubSeq(written, 1, Len(prefix)) = prefix
            /\ call.conv = "d" =>
                  written = <<"[">> \o write_serial(to_string(call.arg)) \o <<"]">>
            /\ Value(digits, base) = IF call.arg < 0 THEN -call.arg ELSE call.arg % IntMod

\* "Handle negative numbers for decimal base", serial/serial.c:52: after the
\* sign of a negative number come decimal digits, and they denote it.  Not of
\* INT_MIN, of which there come a sign and bytes from outside the digits.
NegativesReadBack ==
    (stage = "printing" /\ ~loopback /\ call.conv \in {"d", "i"} /\ call.arg < 0) =>
        LET written == Written("kmain")
            digits == SubSeq(written, 3, Len(written) - 3)
        IN  /\ SubSeq(written, 1, 2) = <<"[", "-">>
            /\ \A i \in 1..Len(digits) : \E d \in 0..9 : digits[i] = Digits[d + 1]
            /\ Value(digits, 10) = -call.arg

\* What kmain prints gets out, after a failed test into the receiver, and so
\* does what the handler writes: nobody waits for the transmitter for ever.
GetsOut == \A w \in Writers : left[w] # <<>> ~> left[w] = <<>> /\ fifo = <<>>

=============================================================================
