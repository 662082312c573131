---------------------------- MODULE SerialProofs ----------------------------
(***************************************************************************)
(* Proofs about the serial port for every size of the FIFO, every message, *)
(* any number of interrupts and every width of the integers: the FIFO is   *)
(* not overrun, nothing is lost, and every number but INT_MIN reads back.  *)
(***************************************************************************)
EXTENDS Serial, DataLemmas, TLAPS

\* What the transmitter may hold when a writer is between its poll and its
\* write.  The handler has the processor to itself and finds it empty; under
\* kmain's feet the handler may have left one character, since it waits for
\* the transmitter before each.
IInv ==
    /\ capacity \in Nat
    /\ \E S : fifo \in Seq(S)
    /\ polled \in [Writers -> BOOLEAN]
    /\ handling \in BOOLEAN
    /\ stage # "reset" => capacity >= 2
    /\ DOMAIN left = Writers
    /\ stage \in {"reset", "testing"} =>
          ~handling /\ left = [w \in Writers |-> <<>>] /\ polled = [w \in Writers |-> FALSE]
    /\ stage \in {"reset", "testing", "ready", "printing"}
    /\ polled["irq"] => handling /\ left["irq"] # <<>> /\ fifo = <<>>
    /\ polled["kmain"] => Len(fifo) <= 1

LEMMA TailLen ==
    ASSUME NEW q, \E S : q \in Seq(S), q # <<>>
    PROVE  (\E S : Tail(q) \in Seq(S)) /\ Len(Tail(q)) <= Len(q)
  OBVIOUS

LEMMA AppendLen ==
    ASSUME NEW q, NEW e, \E S : q \in Seq(S)
    PROVE  (\E S : Append(q, e) \in Seq(S)) /\ Len(Append(q, e)) = Len(q) + 1
<1>1. PICK S : q \in Seq(S)
  OBVIOUS
<1>2. q \in Seq(S \cup {e})
  BY <1>1
<1>3. Append(q, e) \in Seq(S \cup {e}) /\ Len(Append(q, e)) = Len(q) + 1
  BY <1>2
<1> QED  BY <1>3

\* The character of a writer that has the processor fits.
LEMMA InvNoOverrun == IInv => NoOverrun
<1> SUFFICES ASSUME IInv, NEW w \in Writers, Runs(w), polled[w]
             PROVE  Len(fifo) < capacity
  BY DEF NoOverrun
<1>1. stage \in {"ready", "printing"} /\ capacity >= 2 /\ capacity \in Nat
  BY DEF IInv
<1>2. CASE w = "irq"
  <2>1. fifo = <<>>
    BY <1>2 DEF IInv
  <2> QED  BY <1>1, <2>1
<1>3. CASE w = "kmain"
  <2>1. Len(fifo) <= 1 /\ Len(fifo) \in Nat
    BY <1>3 DEF IInv
  <2> QED  BY <1>1, <2>1
<1> QED  BY <1>2, <1>3 DEF Writers

LEMMA InitInv == Init => IInv
<1> SUFFICES ASSUME Init PROVE IInv
  OBVIOUS
<1>1. <<>> \in Seq({}) /\ Len(<<>>) = 0
  OBVIOUS
<1> QED  BY <1>1 DEF Init, IInv, Writers

\* A step of the UART.
LEMMA TransmitInv == IInv /\ Transmit => IInv'
<1> SUFFICES ASSUME IInv, Transmit PROVE IInv'
  OBVIOUS
<1>1. fifo # <<>> /\ fifo' = Tail(fifo) /\ UNCHANGED <<capacity, kernel>>
  BY DEF Transmit
<1>2. (\E S : fifo' \in Seq(S)) /\ Len(fifo') <= Len(fifo)
  BY <1>1, TailLen DEF IInv
<1>3. Len(fifo') \in Nat /\ Len(fifo) \in Nat
  BY <1>2 DEF IInv
<1> QED  BY <1>1, <1>2, <1>3 DEF IInv, kernel

\* A step of a writer.
LEMMA WriterInv ==
    ASSUME IInv, NEW w \in Writers, Poll(w) \/ Write(w)
    PROVE  IInv'
<1>1. CASE Poll(w)
  <2>1. /\ fifo = <<>> /\ Runs(w) /\ left[w] # <<>>
        /\ polled' = [polled EXCEPT ![w] = TRUE]
        /\ UNCHANGED <<capacity, fifo, stage, left, handling>>
    BY <1>1 DEF Poll, is_transmit_empty, uart
  <2>2. Len(fifo) = 0
    BY <2>1
  <2>3. stage \notin {"reset", "testing"}
    BY <2>1 DEF IInv, Writers
  <2> QED  BY <2>1, <2>2, <2>3 DEF IInv, Writers, Runs
<1>2. CASE Write(w)
  <2>1. /\ Runs(w) /\ polled[w]
        /\ polled' = [polled EXCEPT ![w] = FALSE]
        /\ UNCHANGED <<capacity, stage, handling>>
        /\ Out(w, Head(left[w]))
        /\ left' = [left EXCEPT ![w] = Tail(@)]
    BY <1>2 DEF Write
  <2>2. Len(fifo) < capacity
    BY <2>1, InvNoOverrun DEF NoOverrun
  <2>3. fifo' = Append(fifo, [by |-> w, char |-> Head(left[w])])
    BY <2>1, <2>2 DEF Out
  <2>4. (\E S : fifo' \in Seq(S)) /\ Len(fifo') = Len(fifo) + 1
    BY <2>3, AppendLen DEF IInv
  <2>5. stage \notin {"reset", "testing"}
    BY <2>1 DEF IInv
  <2>6. ~polled'["irq"]
    BY <2>1 DEF IInv, Writers, Runs
  <2>7. polled'["kmain"] => Len(fifo') <= 1
    <3>1. SUFFICES ASSUME polled'["kmain"] PROVE Len(fifo') <= 1
      OBVIOUS
    <3>2. w = "irq"
      BY <2>1, <3>1 DEF IInv, Writers
    <3>3. Len(fifo) = 0
      BY <2>1, <3>2 DEF IInv
    <3> QED  BY <2>4, <3>3
  <2>8. DOMAIN left' = Writers
    BY <2>1 DEF IInv
  <2> QED  BY <2>1, <2>4, <2>5, <2>6, <2>7, <2>8 DEF IInv, Writers
<1> QED  BY <1>1, <1>2

\* Everything else leaves the flags of the writers alone.
LEMMA OtherInv ==
    ASSUME IInv,
           StartTest \/ ReadTest \/ Interrupt \/ Return \/ (\E c \in Calls : Printf(c))
    PROVE  IInv'
<1>1. CASE StartTest
  <2>1. /\ stage = "reset" /\ stage' = "testing" /\ capacity' = Depth
        /\ Out("kmain", TestByte)
        /\ UNCHANGED <<left, polled, handling>>
    BY <1>1 DEF StartTest
  <2>2. \E S : fifo' \in Seq(S)
    BY <2>1, AppendLen DEF IInv, Out
  <2>3. capacity' \in Nat /\ capacity' >= 2
    BY <2>1, SerialAssumption
  <2>4. ~polled["irq"] /\ ~polled["kmain"]
    BY <2>1 DEF IInv, Writers
  <2> QED  BY <2>1, <2>2, <2>3, <2>4 DEF IInv
<1>2. CASE ReadTest
  <2>1. /\ stage = "testing" /\ stage' = "ready"
        /\ UNCHANGED <<capacity, fifo, left, polled, handling>>
    BY <1>2 DEF ReadTest
  <2>2. ~polled["irq"] /\ ~polled["kmain"]
    BY <2>1 DEF IInv, Writers
  <2> QED  BY <2>1, <2>2 DEF IInv
<1>3. CASE Interrupt
  <2>1. /\ stage \in {"ready", "printing"} /\ ~handling /\ handling' = TRUE
        /\ UNCHANGED <<capacity, fifo, stage, polled>>
        /\ left' = [left EXCEPT !["irq"] = KeyboardMessage]
    BY <1>3 DEF Interrupt, uart
  <2>2. ~polled["irq"] /\ DOMAIN left' = Writers
    BY <2>1 DEF IInv
  <2> QED  BY <2>1, <2>2 DEF IInv
<1>4. CASE Return
  <2>1. /\ handling /\ left["irq"] = <<>> /\ handling' = FALSE
        /\ UNCHANGED <<capacity, fifo, stage, left, polled>>
    BY <1>4 DEF Return, uart
  <2> QED  BY <2>1 DEF IInv
<1>5. ASSUME NEW c \in Calls, Printf(c)
      PROVE  IInv'
  <2>1. /\ stage = "ready" /\ stage' = "printing"
        /\ UNCHANGED <<capacity, fifo, polled, handling>>
        /\ left' = [left EXCEPT !["kmain"] = serial_printf(c)]
    BY <1>5 DEF Printf, uart
  <2>2. DOMAIN left' = Writers /\ left'["irq"] = left["irq"]
    BY <2>1 DEF IInv, Writers
  <2> QED  BY <2>1, <2>2 DEF IInv
<1> QED  BY <1>1, <1>2, <1>3, <1>4, <1>5

\* No character is written to a full transmitter.
THEOREM NeverOverrun == Spec => []NoOverrun
<1>1. IInv /\ [Next]_vars => IInv'
  <2>1. IInv /\ UNCHANGED vars => IInv'
    BY DEF IInv, vars, uart, kernel
  <2> QED  BY <2>1, TransmitInv, WriterInv, OtherInv DEF Next
<1> QED  BY <1>1, InitInv, InvNoOverrun, PTL DEF Spec


----------------------------------------------------------------------------
(* The digits of a number.                                                 *)

HexDigits == {Digits[i] : i \in 1..16}
Upper(c) == IF c \in DOMAIN Capitals THEN Capitals[c] ELSE c

LEMMA TheDigits ==
    /\ Digits[1] = "0" /\ Digits[2] = "1" /\ Digits[3] = "2" /\ Digits[4] = "3"
    /\ Digits[5] = "4" /\ Digits[6] = "5" /\ Digits[7] = "6" /\ Digits[8] = "7"
    /\ Digits[9] = "8" /\ Digits[10] = "9" /\ Digits[11] = "a" /\ Digits[12] = "b"
    /\ Digits[13] = "c" /\ Digits[14] = "d" /\ Digits[15] = "e" /\ Digits[16] = "f"
BY DEF Digits

LEMMA TheCapitals ==
    /\ DOMAIN Capitals = {"a", "b", "c", "d", "e", "f"}
    /\ Capitals["a"] = "A" /\ Capitals["b"] = "B" /\ Capitals["c"] = "C"
    /\ Capitals["d"] = "D" /\ Capitals["e"] = "E" /\ Capitals["f"] = "F"
BY DEF Capitals

\* No two digits look alike, in either case.
LEMMA DigitsDiffer ==
    ASSUME NEW d \in 0..15, NEW e \in 0..15
    PROVE  /\ Digits[d + 1] = Digits[e + 1] => d = e
           /\ e >= 10 => Digits[d + 1] # Capitals[Digits[e + 1]]
           /\ d >= 10 => Digits[d + 1] \in DOMAIN Capitals
           /\ d < 10 => Digits[d + 1] \notin DOMAIN Capitals
           /\ d >= 10 /\ e >= 10 /\ Capitals[Digits[d + 1]] = Capitals[Digits[e + 1]] => d = e
           /\ d >= 10 => Capitals[Digits[d + 1]] # Digits[e + 1]
BY TheDigits, TheCapitals

\* A digit denotes its place in the literal, in either case.
LEMMA DigitValueIs ==
    ASSUME NEW d \in 0..15
    PROVE  /\ DigitValue(Digits[d + 1]) = d
           /\ DigitValue(Upper(Digits[d + 1])) = d
<1>1. \A e \in 0..15 : Digits[d + 1] = Digits[e + 1]
                         \/ (e >= 10 /\ Digits[d + 1] = Capitals[Digits[e + 1]]) => e = d
  BY DigitsDiffer
<1>2. DigitValue(Digits[d + 1]) = d
  BY <1>1 DEF DigitValue
<1>3. CASE d < 10
  BY <1>2, <1>3, DigitsDiffer DEF Upper
<1>4. CASE d >= 10
  <2>1. Upper(Digits[d + 1]) = Capitals[Digits[d + 1]]
    BY <1>4, DigitsDiffer DEF Upper
  <2>2. \A e \in 0..15 : Capitals[Digits[d + 1]] = Digits[e + 1]
                    \/ (e >= 10 /\ Capitals[Digits[d + 1]] = Capitals[Digits[e + 1]]) => e = d
    BY <1>4, DigitsDiffer
  <2>3. DigitValue(Capitals[Digits[d + 1]]) = d
    BY <1>4, <2>2 DEF DigitValue
  <2> QED  BY <1>2, <2>1, <2>3
<1> QED  BY <1>3, <1>4

\* Division, in either base, comes nearer to zero.
LEMMA QuotientIs ==
    ASSUME NEW base \in {10, 16}, NEW v \in Int
    PROVE  /\ Quotient(v, base) \in Int
           /\ v >= 0 => /\ Quotient(v, base) \in Nat
                        /\ v - Quotient(v, base) * base \in 0..(base - 1)
                        /\ v - Quotient(v, base) * base \in 0..15
                        /\ Quotient(v, base) # 0 => Quotient(v, base) < v
           /\ v < 0 => Quotient(v, base) \in v..0 /\ Quotient(v, base) # v
<1>1. CASE base = 10
  BY <1>1 DEF Quotient
<1>2. CASE base = 16
  BY <1>2 DEF Quotient
<1> QED  BY <1>1, <1>2

\* uint_to_string goes round its loop once for each digit, and the digits come
\* out in order.
LEMMA UintIs ==
    ASSUME NEW base \in {10, 16}
    PROVE  \A v \in Int :
             uint_to_string(v, base) =
               (IF Quotient(v, base) = 0 THEN <<>> ELSE uint_to_string(Quotient(v, base), base))
                   \o <<Digit(v - Quotient(v, base) * base)>>
<1> DEFINE Z == Seq(HexDigits \cup {Stray})
           D(v) == Digit(v - Quotient(v, base) * base)
           m == [v \in Int |-> IF v >= 0 THEN v ELSE -v]
           q == [v \in Int |-> Quotient(v, base)]
           E == {v \in Int : Quotient(v, base) = 0}
           z == [v \in Int |-> <<D(v)>>]
           G == [v \in Int |-> [x \in Z |-> x \o <<D(v)>>]]
           IsLoop(g) == g = [v \in Int |->
                               (IF Quotient(v, base) = 0 THEN <<>> ELSE g[Quotient(v, base)])
                                   \o <<Digit(v - Quotient(v, base) * base)>>]
           g == CHOOSE f : IsLoop(f)
<1>1. \A v \in Int : uint_to_string(v, base) = g[v]
  BY DEF uint_to_string
<1>2. \A v \in Int : D(v) \in HexDigits \cup {Stray}
  <2> TAKE v \in Int
  <2> DEFINE d == v - Quotient(v, base) * base
  <2>1. d \in 0..15 => d + 1 \in 1..16
    OBVIOUS
  <2> HIDE DEF d
  <2>2. Digit(d) \in HexDigits \cup {Stray}
    BY <2>1 DEF Digit, HexDigits
  <2> QED  BY <2>2 DEF d
<1> HIDE DEF D
<1>3. m \in [Int -> Nat] /\ q \in [Int -> Int]
  BY QuotientIs
<1>4. z \in [Int -> Z] /\ G \in [Int -> [Z -> Z]]
  BY <1>2
<1>5. \A v \in Int : v \notin E => m[q[v]] < m[v]
  <2> TAKE v \in Int
  <2> HAVE v \notin E
  <2>1. PICK w \in Int : w = Quotient(v, base)
    BY QuotientIs
  <2>2. q[v] = w /\ w # 0
    BY <2>1
  <2>3. CASE v >= 0
    <3>1. w \in Nat /\ w < v
      BY <2>1, <2>2, <2>3, QuotientIs
    <3> QED  BY <2>2, <2>3, <3>1
  <2>4. CASE v < 0
    <3>1. w \in v..0 /\ w # v
      BY <2>1, <2>4, QuotientIs
    <3> QED  BY <2>2, <2>4, <3>1
  <2> QED  BY <2>3, <2>4
<1>6. PICK f \in [Int -> Z] : \A v \in Int : f[v] = IF v \in E THEN z[v] ELSE G[v][f[q[v]]]
  <2> DEFINE D0 == Int
  <2>1. /\ m \in [D0 -> Nat] /\ q \in [D0 -> D0]
        /\ E \in SUBSET D0 /\ z \in [D0 -> Z] /\ G \in [D0 -> [Z -> Z]]
        /\ \A v \in D0 : v \notin E => m[q[v]] < m[v]
    BY <1>3, <1>4, <1>5
  <2> HIDE DEF Z, m, q, E, z, G, D0
  <2>2. \E f \in [D0 -> Z] : Descends(f, D0, q, E, z, G)
    BY <2>1, Descent
  <2> QED  BY <2>2 DEF D0, Descends
<1>7. \A v \in Int : f[v] = (IF Quotient(v, base) = 0 THEN <<>> ELSE f[Quotient(v, base)]) \o <<D(v)>>
  <2> TAKE v \in Int
  <2>1. CASE Quotient(v, base) = 0
    <3>1. <<>> \o <<D(v)>> = <<D(v)>>
      BY <1>2
    <3> QED  BY <1>6, <2>1, <3>1
  <2>2. CASE Quotient(v, base) # 0
    <3>1. Quotient(v, base) \in Int /\ f[Quotient(v, base)] \in Z
      BY QuotientIs
    <3> HIDE DEF Z
    <3> QED  BY <1>6, <2>2, <3>1
  <2> QED  BY <2>1, <2>2
<1>8. IsLoop(f)
  <2>1. f = [v \in Int |-> f[v]]
    BY <1>6
  <2> QED  BY <1>7, <2>1 DEF D
<1>9. IsLoop(g)
  <2> HIDE DEF IsLoop
  <2> QED  BY <1>8
<1> HIDE DEF g
<1>10. \A v \in Int : g[v] = (IF Quotient(v, base) = 0 THEN <<>> ELSE g[Quotient(v, base)])
                                \o <<Digit(v - Quotient(v, base) * base)>>
  BY <1>9
<1> QED  BY <1>1, <1>10, QuotientIs

\* Of a number that is not negative, they are digits, and there is at least one.
LEMMA UintSeq ==
    ASSUME NEW base \in {10, 16}
    PROVE  \A v \in Nat : uint_to_string(v, base) \in Seq(HexDigits) \ {<<>>}
<1> DEFINE S == {v \in Nat : uint_to_string(v, base) \in Seq(HexDigits) \ {<<>>}}
<1>1. ASSUME NEW v \in Nat, \A u \in 0..(v - 1) : u \in S PROVE v \in S
  <2>1. PICK q \in Nat, d \in 0..15 :
            /\ q = Quotient(v, base) /\ d = v - Quotient(v, base) * base
            /\ q # 0 => q < v
    <3>1. v \in Int /\ v >= 0
      OBVIOUS
    <3>2. /\ Quotient(v, base) \in Nat
          /\ v - Quotient(v, base) * base \in 0..15
          /\ Quotient(v, base) # 0 => Quotient(v, base) < v
      BY <3>1, QuotientIs
    <3> QED  BY <3>2
  <2> DEFINE r == IF q = 0 THEN <<>> ELSE uint_to_string(q, base)
  <2>2. uint_to_string(v, base) = r \o <<Digit(d)>>
    <3>1. v \in Int
      OBVIOUS
    <3>2. uint_to_string(v, base) =
            (IF Quotient(v, base) = 0 THEN <<>> ELSE uint_to_string(Quotient(v, base), base))
                \o <<Digit(v - Quotient(v, base) * base)>>
      BY <3>1, UintIs
    <3> QED  BY <2>1, <3>2, Zenon
  <2>3. r \in Seq(HexDigits)
    BY <1>1, <2>1
  <2>4. Digit(d) \in HexDigits
    <3>1. d + 1 \in 1..16
      OBVIOUS
    <3> QED  BY <3>1 DEF Digit, HexDigits
  <2> HIDE DEF r
  <2>5. r \o <<Digit(d)>> \in Seq(HexDigits) /\ r \o <<Digit(d)>> # <<>>
    BY <2>3, <2>4
  <2> QED  BY <2>2, <2>5
<1>2. \A v \in Nat : v \in S
  <2> HIDE DEF S
  <2> QED  BY <1>1, StrongInductionNat
<1> QED  BY <1>2

\* The characters that denote a digit.
Numerals == HexDigits \cup {Upper(c) : c \in HexDigits}

LEMMA NumeralValue == \A c \in Numerals : DigitValue(c) \in 0..15
<1> SUFFICES ASSUME NEW c \in HexDigits
             PROVE  DigitValue(c) \in 0..15 /\ DigitValue(Upper(c)) \in 0..15
  BY DEF Numerals
<1>1. PICK i \in 1..16 : c = Digits[i]
  BY DEF HexDigits
<1>2. PICK d \in 0..15 : i = d + 1
  <2>1. i - 1 \in 0..15 /\ i = (i - 1) + 1
    OBVIOUS
  <2> QED  BY <2>1
<1> QED  BY <1>1, <1>2, DigitValueIs

\* The loop by which a number is read.
LEMMA ValueIs ==
    ASSUME NEW base \in {10, 16}, NEW s \in Seq(Numerals)
    PROVE  \E f \in [0..Len(s) -> Nat] :
               /\ f[0] = 0
               /\ \A i \in 1..Len(s) : f[i] = f[i - 1] * base + DigitValue(s[i])
               /\ Value(s, base) = f[Len(s)]
<1> DEFINE N == Len(s)
           G == [i \in 1..N |-> [x \in Nat |-> x * base + DigitValue(s[i])]]
           IsLoop(g) == g = [n \in 0..N |->
                               IF n = 0 THEN 0 ELSE g[n - 1] * base + DigitValue(s[n])]
           g == CHOOSE f : IsLoop(f)
<1>1. Value(s, base) = g[N]
  BY DEF Value
<1>2. N \in Nat /\ base \in Nat
  OBVIOUS
<1>3. \A i \in 1..N : DigitValue(s[i]) \in Nat
  BY NumeralValue
<1>4. G \in [1..N -> [Nat -> Nat]]
  BY <1>2, <1>3
<1>5. PICK f \in [0..N -> Nat] : f[0] = 0 /\ \A i \in 1..N : f[i] = G[i][f[i - 1]]
  <2> DEFINE Z == Nat
             z == 0
  <2>1. z \in Z /\ G \in [1..N -> [Z -> Z]] /\ N \in Nat
    BY <1>2, <1>4
  <2> HIDE DEF Z, z, G, N
  <2>2. \E f \in [0..N -> Z] : Iterates(f, N, z, G)
    BY <2>1, Recursion
  <2> QED  BY <2>2 DEF Iterates, Z, z
<1>6. \A i \in 1..N : f[i] = f[i - 1] * base + DigitValue(s[i])
  <2> TAKE i \in 1..N
  <2>1. i \in 0..N /\ i - 1 \in 0..N /\ i # 0
    BY <1>2
  <2> QED  BY <1>5, <2>1
<1>7. f[0] = 0
  BY <1>2, <1>5
<1>8. IsLoop(f)
  <2> HIDE DEF N, G
  <2>1. f = [n \in 0..N |-> f[n]]
    OBVIOUS
  <2>2. \A n \in 0..N : f[n] = IF n = 0 THEN 0 ELSE f[n - 1] * base + DigitValue(s[n])
    BY <1>2, <1>6, <1>7
  <2> QED  BY <2>1, <2>2
<1>9. IsLoop(g)
  <2> HIDE DEF IsLoop
  <2> QED  BY <1>8
<1> HIDE DEF g
<1>10. g[0] = 0 /\ \A i \in 1..N : g[i] = g[i - 1] * base + DigitValue(s[i])
  <2> HIDE DEF N
  <2>1. 0 \in 0..N /\ \A i \in 1..N : i \in 0..N /\ i # 0
    BY <1>2
  <2>2. \A n \in 0..N : g[n] = IF n = 0 THEN 0 ELSE g[n - 1] * base + DigitValue(s[n])
    BY <1>9
  <2> QED  BY <2>1, <2>2
<1>11. \A i \in 0..N : g[i] = f[i]
  <2> DEFINE S == {i \in Nat : i <= N => g[i] = f[i]}
  <2>1. 0 \in S
    BY <1>7, <1>10
  <2>2. ASSUME NEW i \in Nat, i \in S PROVE i + 1 \in S
    <3> SUFFICES ASSUME i + 1 <= N PROVE g[i + 1] = f[i + 1]
      OBVIOUS
    <3>1. PICK j \in 1..N : j = i + 1
      BY <1>2
    <3>2. i = j - 1 /\ g[i] = f[i]
      BY <1>2, <2>2, <3>1
    <3> QED  BY <1>6, <1>10, <3>1, <3>2
  <2>3. \A i \in Nat : i \in S
    <3> HIDE DEF S
    <3> QED  BY <2>1, <2>2, InductionNat
  <2> QED  BY <1>2, <2>3
<1> QED  BY <1>1, <1>2, <1>6, <1>7, <1>11

\* Numerals that denote the same digits one by one denote the same number.
LEMMA ValueSame ==
    ASSUME NEW base \in {10, 16}, NEW s \in Seq(Numerals), NEW t \in Seq(Numerals),
           Len(s) = Len(t), \A i \in 1..Len(s) : DigitValue(s[i]) = DigitValue(t[i])
    PROVE  Value(s, base) = Value(t, base)
<1> DEFINE N == Len(s)
<1>0. N \in Nat /\ N = Len(t)
  OBVIOUS
<1>1. PICK f \in [0..N -> Nat] :
          /\ f[0] = 0 /\ \A i \in 1..N : f[i] = f[i - 1] * base + DigitValue(s[i])
          /\ Value(s, base) = f[N]
  BY ValueIs
<1>2. PICK g \in [0..N -> Nat] :
          /\ g[0] = 0 /\ \A i \in 1..N : g[i] = g[i - 1] * base + DigitValue(t[i])
          /\ Value(t, base) = g[N]
  <2>1. PICK g \in [0..Len(t) -> Nat] :
          /\ g[0] = 0 /\ \A i \in 1..Len(t) : g[i] = g[i - 1] * base + DigitValue(t[i])
          /\ Value(t, base) = g[Len(t)]
    BY ValueIs
  <2> QED  BY <1>0, <2>1, Zenon
<1> DEFINE S == {i \in Nat : i <= N => f[i] = g[i]}
<1> HIDE DEF N
<1>3. 0 \in S
  BY <1>1, <1>2
<1>4. ASSUME NEW i \in Nat, i \in S PROVE i + 1 \in S
  <2> SUFFICES ASSUME i + 1 <= N PROVE f[i + 1] = g[i + 1]
    OBVIOUS
  <2>1. PICK j \in 1..N : j = i + 1
    BY <1>0
  <2>2. i = j - 1 /\ f[i] = g[i] /\ DigitValue(s[j]) = DigitValue(t[j])
    BY <1>0, <1>4, <2>1 DEF N
  <2> QED  BY <1>1, <1>2, <2>1, <2>2
<1>5. N \in S
  <2> HIDE DEF S
  <2> QED  BY <1>0, <1>3, <1>4, InductionNat
<1> QED  BY <1>0, <1>1, <1>2, <1>5

\* A digit more makes the number that many times the base, and the digit.
LEMMA ValueAppend ==
    ASSUME NEW base \in {10, 16}, NEW s \in Seq(Numerals), NEW c \in Numerals
    PROVE  Value(s \o <<c>>, base) = Value(s, base) * base + DigitValue(c)
<1> DEFINE N == Len(s)
           M == N + 1
           t == s \o <<c>>
<1>0. /\ N \in Nat /\ M \in Nat /\ M = Len(t) /\ t \in Seq(Numerals)
      /\ t[M] = c /\ \A i \in 1..N : t[i] = s[i]
  OBVIOUS
<1> HIDE DEF t
<1>1. PICK f \in [0..N -> Nat] :
          /\ f[0] = 0 /\ \A i \in 1..N : f[i] = f[i - 1] * base + DigitValue(s[i])
          /\ Value(s, base) = f[N]
  BY ValueIs
<1>2. PICK g \in [0..M -> Nat] :
          /\ g[0] = 0 /\ \A i \in 1..M : g[i] = g[i - 1] * base + DigitValue(t[i])
          /\ Value(t, base) = g[M]
  <2> HIDE DEF M
  <2> QED  BY <1>0, ValueIs
<1> DEFINE S == {i \in Nat : i <= N => f[i] = g[i]}
<1> HIDE DEF N
<1>3. 0 \in S
  BY <1>1, <1>2
<1>4. ASSUME NEW i \in Nat, i \in S PROVE i + 1 \in S
  <2> SUFFICES ASSUME i + 1 <= N PROVE f[i + 1] = g[i + 1]
    OBVIOUS
  <2>1. PICK j \in 1..N : j = i + 1
    BY <1>0
  <2>2. i = j - 1 /\ f[i] = g[i] /\ t[j] = s[j] /\ j \in 1..M
    BY <1>0, <1>4, <2>1
  <2> QED  BY <1>1, <1>2, <2>1, <2>2
<1>5. N \in S
  <2> HIDE DEF S
  <2> QED  BY <1>0, <1>3, <1>4, InductionNat
<1>6. M \in 1..M /\ M - 1 = N
  BY <1>0
<1>7. Value(t, base) = f[N] * base + DigitValue(c)
  BY <1>0, <1>2, <1>5, <1>6
<1> QED  BY <1>1, <1>7 DEF t

\* The text of a number denotes the number.
LEMMA ValueOfUint ==
    ASSUME NEW base \in {10, 16}
    PROVE  \A v \in Nat : Value(uint_to_string(v, base), base) = v
<1> DEFINE S == {v \in Nat : Value(uint_to_string(v, base), base) = v}
<1>1. ASSUME NEW v \in Nat, \A u \in 0..(v - 1) : u \in S PROVE v \in S
  <2>1. PICK q \in Nat, d \in 0..15 :
            /\ q = Quotient(v, base) /\ d = v - Quotient(v, base) * base
            /\ q # 0 => q < v
    <3>1. v \in Int /\ v >= 0
      OBVIOUS
    <3>2. /\ Quotient(v, base) \in Nat
          /\ v - Quotient(v, base) * base \in 0..15
          /\ Quotient(v, base) # 0 => Quotient(v, base) < v
      BY <3>1, QuotientIs
    <3> QED  BY <3>2
  <2> DEFINE r == IF q = 0 THEN <<>> ELSE uint_to_string(q, base)
  <2>2. uint_to_string(v, base) = r \o <<Digit(d)>>
    <3>1. v \in Int
      OBVIOUS
    <3>2. uint_to_string(v, base) =
            (IF Quotient(v, base) = 0 THEN <<>> ELSE uint_to_string(Quotient(v, base), base))
                \o <<Digit(v - Quotient(v, base) * base)>>
      BY <3>1, UintIs
    <3> QED  BY <2>1, <3>2, Zenon
  <2>3. r \in Seq(Numerals)
    <3>1. <<>> \in Seq(Numerals)
      OBVIOUS
    <3>2. uint_to_string(q, base) \in Seq(HexDigits)
      BY UintSeq
    <3>3. uint_to_string(q, base) \in Seq(Numerals)
      BY <3>2 DEF Numerals
    <3> QED  BY <3>1, <3>3
  <2>4. Value(r, base) = q
    <3>1. CASE q = 0
      <4>1. <<>> \in Seq(Numerals) /\ Len(<<>>) = 0
        OBVIOUS
      <4>2. PICK f \in [0..Len(<<>>) -> Nat] : f[0] = 0 /\ Value(<<>>, base) = f[Len(<<>>)]
        BY <4>1, ValueIs
      <4> QED  BY <3>1, <4>1, <4>2
    <3>2. CASE q # 0
      <4>1. q \in 0..(v - 1)
        BY <2>1, <3>2
      <4> QED  BY <1>1, <3>2, <4>1
    <3> QED  BY <3>1, <3>2
  <2>5. Digit(d) = Digits[d + 1] /\ Digit(d) \in Numerals
    <3>1. d + 1 \in 1..16
      OBVIOUS
    <3> QED  BY <3>1 DEF Digit, HexDigits, Numerals
  <2>6. DigitValue(Digit(d)) = d
    BY <2>5, DigitValueIs
  <2> HIDE DEF r
  <2>7. Value(r \o <<Digit(d)>>, base) = q * base + d
    BY <2>3, <2>4, <2>5, <2>6, ValueAppend
  <2>8. q * base + d = v
    BY <2>1
  <2> QED  BY <2>2, <2>7, <2>8
<1>2. \A v \in Nat : v \in S
  <2> HIDE DEF S
  <2> QED  BY <1>1, StrongInductionNat
<1> QED  BY <1>2

\* So does the text in capitals.
LEMMA UpperCaseIs ==
    ASSUME NEW s \in Seq(HexDigits)
    PROVE  /\ UpperCase(s) \in Seq(Numerals)
           /\ Len(UpperCase(s)) = Len(s)
           /\ Value(UpperCase(s), 16) = Value(s, 16)
<1> DEFINE N == Len(s)
           u == UpperCase(s)
<1>1. N \in Nat /\ \A i \in 1..N : s[i] \in HexDigits
  OBVIOUS
<1>2. u = [i \in 1..N |-> Upper(s[i])]
  BY DEF UpperCase, Upper
<1>3. \A i \in 1..N : Upper(s[i]) \in Numerals /\ s[i] \in Numerals
  BY <1>1 DEF Numerals
<1>4. u \in Seq(Numerals) /\ Len(u) = N /\ \A i \in 1..N : u[i] = Upper(s[i])
  <2> HIDE DEF u
  <2> QED  BY <1>1, <1>2, <1>3
<1>5. s \in Seq(Numerals)
  BY DEF Numerals
<1>6. \A i \in 1..N : DigitValue(u[i]) = DigitValue(s[i])
  <2> TAKE i \in 1..N
  <2>1. PICK j \in 1..16 : s[i] = Digits[j]
    BY <1>1 DEF HexDigits
  <2>2. PICK d \in 0..15 : j = d + 1
    <3>1. j - 1 \in 0..15 /\ j = (j - 1) + 1
      OBVIOUS
    <3> QED  BY <3>1
  <2> QED  BY <1>4, <2>1, <2>2, DigitValueIs
<1> HIDE DEF u
<1>7. Value(u, 16) = Value(s, 16)
  BY <1>4, <1>5, <1>6, ValueSame
<1> QED  BY <1>4, <1>7 DEF u

\* to_string's loop, which has the digits from the last on.
Backwards(s) == [i \in 1..Len(s) |-> s[Len(s) - i + 1]]

LEMMA BackwardsIs ==
    ASSUME NEW S, NEW s \in Seq(S), NEW x \in S
    PROVE  /\ Backwards(s) \in Seq(S)
           /\ Backwards(<<x>> \o s) = Backwards(s) \o <<x>>
           /\ Backwards(s \o <<x>>) = <<x>> \o Backwards(s)
<1> DEFINE n == Len(s)
           b == Backwards(s)
<1>1. n \in Nat /\ \A i \in 1..n : s[i] \in S /\ n - i + 1 \in 1..n
  OBVIOUS
<1>2. b \in Seq(S) /\ Len(b) = n /\ \A i \in 1..n : b[i] = s[n - i + 1]
  <2>1. b = [i \in 1..n |-> s[n - i + 1]]
    BY DEF Backwards
  <2> HIDE DEF b
  <2> QED  BY <1>1, <2>1
<1>3. Backwards(<<x>> \o s) = b \o <<x>>
  <2> DEFINE t == <<x>> \o s
             u == b \o <<x>>
  <2>1. t \in Seq(S) /\ Len(t) = n + 1 /\ t[1] = x /\ \A i \in 2..(n + 1) : t[i] = s[i - 1]
    BY <1>1
  <2> HIDE DEF b
  <2>2. u \in Seq(S) /\ Len(u) = n + 1 /\ u[n + 1] = x /\ \A i \in 1..n : u[i] = b[i]
    BY <1>1, <1>2
  <2>3. u = [i \in 1..(n + 1) |-> u[i]]
    BY <2>2
  <2> HIDE DEF t, u
  <2>4. \A i \in 1..(n + 1) : u[i] = t[(n + 1) - i + 1]
    <3> TAKE i \in 1..(n + 1)
    <3>1. CASE i = n + 1
      <4>1. (n + 1) - i + 1 = 1
        BY <1>1, <3>1
      <4> QED  BY <2>1, <2>2, <3>1, <4>1
    <3>2. CASE i # n + 1
      <4>1. i \in 1..n /\ (n + 1) - i + 1 \in 2..(n + 1) /\ ((n + 1) - i + 1) - 1 = n - i + 1
        BY <1>1, <3>2
      <4> QED  BY <1>2, <2>1, <2>2, <4>1
    <3> QED  BY <3>1, <3>2
  <2>5. Backwards(t) = [i \in 1..(n + 1) |-> t[(n + 1) - i + 1]]
    BY <2>1 DEF Backwards
  <2> QED  BY <2>3, <2>4, <2>5 DEF t, u
<1>4. Backwards(s \o <<x>>) = <<x>> \o b
  <2> DEFINE t == s \o <<x>>
             u == <<x>> \o b
  <2>1. t \in Seq(S) /\ Len(t) = n + 1 /\ t[n + 1] = x /\ \A i \in 1..n : t[i] = s[i]
    BY <1>1
  <2> HIDE DEF b
  <2>2. u \in Seq(S) /\ Len(u) = n + 1 /\ u[1] = x /\ \A i \in 2..(n + 1) : u[i] = b[i - 1]
    BY <1>1, <1>2
  <2>3. u = [i \in 1..(n + 1) |-> u[i]]
    BY <2>2
  <2> HIDE DEF t, u
  <2>4. \A i \in 1..(n + 1) : u[i] = t[(n + 1) - i + 1]
    <3> TAKE i \in 1..(n + 1)
    <3>1. CASE i = 1
      <4>1. (n + 1) - i + 1 = n + 1
        BY <1>1, <3>1
      <4> QED  BY <2>1, <2>2, <3>1, <4>1
    <3>2. CASE i # 1
      <4>1. PICK j \in 1..n : j = i - 1
        BY <1>1, <3>2
      <4>2. i \in 2..(n + 1) /\ (n + 1) - i + 1 = n - j + 1 /\ n - j + 1 \in 1..n
        BY <1>1, <3>2, <4>1
      <4> QED  BY <1>2, <2>1, <2>2, <4>1, <4>2
    <3> QED  BY <3>1, <3>2
  <2>5. Backwards(t) = [i \in 1..(n + 1) |-> t[(n + 1) - i + 1]]
    BY <2>1 DEF Backwards
  <2> QED  BY <2>3, <2>4, <2>5 DEF t, u
<1> QED  BY <1>2, <1>3, <1>4

\* The two conversions of an int give the same text, but for INT_MIN.
LEMMA ToStringIs == \A s \in Int \ {IntMin} : \A x : to_string(s) = int_to_string(s, x, 10)
<1> DEFINE Z == Seq(HexDigits \cup {Stray})
           m == [n \in Nat |-> n]
           q == [n \in Nat |-> n \div 10]
           E == {0}
           z == [n \in Nat |-> <<>>]
           G == [n \in Nat |-> [x \in Z |-> <<Digit(n % 10)>> \o x]]
           IsLoop(g) == g = [n \in Nat |->
                               IF n = 0 THEN <<>> ELSE <<Digit(n % 10)>> \o g[n \div 10]]
           g == CHOOSE f : IsLoop(f)
<1>1. \A s \in Int : to_string(s) =
          IF s = 0 THEN <<"0">>
          ELSE Backwards(g[IF s < 0 THEN -s ELSE s] \o (IF s < 0 THEN <<"-">> ELSE <<>>))
  BY DEF to_string, Backwards
<1>2. \A n \in Nat : n \div 10 \in Nat /\ n % 10 \in 0..15 /\ n % 10 = n - (n \div 10) * 10
                        /\ (n # 0 => n \div 10 < n)
  OBVIOUS
<1>3. \A d \in 0..15 : Digit(d) \in HexDigits
  <2> TAKE d \in 0..15
  <2>1. d + 1 \in 1..16
    OBVIOUS
  <2> QED  BY <2>1 DEF Digit, HexDigits
<1>4. PICK f \in [Nat -> Z] :
          \A n \in Nat : f[n] = IF n \in E THEN z[n] ELSE G[n][f[q[n]]]
  <2> DEFINE D0 == Nat
  <2>1. /\ m \in [D0 -> Nat] /\ q \in [D0 -> D0] /\ E \in SUBSET D0
        /\ z \in [D0 -> Z] /\ G \in [D0 -> [Z -> Z]]
    BY <1>2, <1>3
  <2>2. \A n \in D0 : n \notin E => m[q[n]] < m[n]
    BY <1>2
  <2> HIDE DEF Z, m, q, E, z, G, D0
  <2>3. \E f \in [D0 -> Z] : Descends(f, D0, q, E, z, G)
    BY <2>1, <2>2, Descent
  <2> QED  BY <2>3 DEF D0, Descends
<1>5. \A n \in Nat : f[n] = IF n = 0 THEN <<>> ELSE <<Digit(n % 10)>> \o f[n \div 10]
  <2> TAKE n \in Nat
  <2>1. f[n \div 10] \in Z
    BY <1>2
  <2> HIDE DEF Z
  <2> QED  BY <1>4, <2>1
<1>6. IsLoop(g)
  <2>1. f = [n \in Nat |-> f[n]]
    OBVIOUS
  <2>2. IsLoop(f)
    BY <1>5, <2>1
  <2> HIDE DEF IsLoop
  <2> QED  BY <2>2
<1> HIDE DEF g
<1>7. \A n \in Nat : g[n] = IF n = 0 THEN <<>> ELSE <<Digit(n % 10)>> \o g[n \div 10]
  BY <1>6
<1> DEFINE S == {n \in Nat : /\ g[n] \in Seq(HexDigits)
                             /\ n # 0 => Backwards(g[n]) = uint_to_string(n, 10)}
<1> HIDE DEF IsLoop
<1>8. ASSUME NEW n \in Nat, \A k \in 0..(n - 1) : k \in S PROVE n \in S
  <2>1. CASE n = 0
    <3>1. g[n] = <<>>
      BY <1>7, <2>1, Zenon
    <3>2. <<>> \in Seq(HexDigits)
      OBVIOUS
    <3> QED  BY <2>1, <3>1, <3>2
  <2>2. CASE n # 0
    <3>1. PICK k \in 0..(n - 1), d \in 0..15 : k = n \div 10 /\ d = n % 10
      BY <1>2, <2>2
    <3>2. g[n] = <<Digit(d)>> \o g[k]
      BY <1>7, <2>2, <3>1
    <3>3. k \in Nat /\ k \in S /\ Digit(d) \in HexDigits /\ g[k] \in Seq(HexDigits)
      BY <1>3, <1>8
    <3>4. Backwards(g[n]) = Backwards(g[k]) \o <<Digit(d)>>
      <4>1. Backwards(<<Digit(d)>> \o g[k]) = Backwards(g[k]) \o <<Digit(d)>>
        BY <3>3, BackwardsIs
      <4> QED  BY <3>2, <4>1, Zenon
    <3>5. Backwards(g[k]) = IF k = 0 THEN <<>> ELSE uint_to_string(k, 10)
      <4>1. CASE k = 0
        <5>1. g[k] = <<>>
          BY <1>7, <4>1
        <5> QED  BY <4>1, <5>1 DEF Backwards
      <4> QED  BY <3>3, <4>1
    <3>6. uint_to_string(n, 10) = (IF k = 0 THEN <<>> ELSE uint_to_string(k, 10)) \o <<Digit(d)>>
      <4>1. k = Quotient(n, 10) /\ d = n - Quotient(n, 10) * 10
        BY <1>2, <3>1 DEF Quotient
      <4>2. n \in Int /\ 10 \in {10, 16}
        OBVIOUS
      <4>3. uint_to_string(n, 10) =
              (IF Quotient(n, 10) = 0 THEN <<>> ELSE uint_to_string(Quotient(n, 10), 10))
                  \o <<Digit(n - Quotient(n, 10) * 10)>>
        BY <4>2, UintIs
      <4> QED  BY <4>1, <4>3, Zenon
    <3>7. g[n] \in Seq(HexDigits)
      BY <3>2, <3>3
    <3> QED  BY <3>4, <3>5, <3>6, <3>7
  <2> QED  BY <2>1, <2>2
<1>9. \A n \in Nat : n \in S
  <2> HIDE DEF S
  <2> QED  BY <1>8, StrongInductionNat
<1> SUFFICES ASSUME NEW s \in Int \ {IntMin}, NEW x PROVE to_string(s) = int_to_string(s, x, 10)
  OBVIOUS
<1>10. CASE s = 0
  <2>1. Quotient(0, 10) = 0 /\ 0 - Quotient(0, 10) * 10 = 0 /\ Digit(0) = "0"
    BY DEF Quotient, Digit, Digits
  <2>2. uint_to_string(0, 10) =
          (IF Quotient(0, 10) = 0 THEN <<>> ELSE uint_to_string(Quotient(0, 10), 10))
              \o <<Digit(0 - Quotient(0, 10) * 10)>>
    <3>1. 0 \in Int /\ 10 \in {10, 16}
      OBVIOUS
    <3> QED  BY <3>1, UintIs
  <2>3. uint_to_string(0, 10) = <<>> \o <<"0">>
    BY <2>1, <2>2, Zenon
  <2>4. <<>> \o <<"0">> = <<"0">>
    OBVIOUS
  <2> QED  BY <1>1, <1>10, <2>3, <2>4 DEF int_to_string
<1>11. CASE s > 0
  <2>1. s \in Nat /\ s # 0 /\ ~(s < 0)
    BY <1>11
  <2>2. g[s] \in Seq(HexDigits) /\ Backwards(g[s]) = uint_to_string(s, 10)
    BY <1>9, <2>1
  <2>3. g[s] \o <<>> = g[s]
    BY <2>2
  <2>4. to_string(s) = uint_to_string(s, 10)
    BY <1>1, <2>1, <2>2, <2>3
  <2> QED  BY <2>1, <2>4 DEF int_to_string
<1>12. CASE s < 0
  <2>1. PICK n \in Nat : n = -s /\ n # 0
    BY <1>12
  <2>2. g[n] \in Seq(HexDigits) /\ Backwards(g[n]) = uint_to_string(n, 10)
    BY <1>9, <2>1
  <2>3. Backwards(g[n] \o <<"-">>) = <<"-">> \o Backwards(g[n])
    <3>1. "-" \in HexDigits \cup {"-"} /\ g[n] \in Seq(HexDigits \cup {"-"})
      BY <2>2
    <3> QED  BY <3>1, BackwardsIs
  <2>4. to_string(s) = Backwards(g[n] \o <<"-">>)
    <3>1. s # 0
      BY <1>12
    <3>2. to_string(s) = IF s = 0 THEN <<"0">>
            ELSE Backwards(g[IF s < 0 THEN -s ELSE s] \o (IF s < 0 THEN <<"-">> ELSE <<>>))
      BY <1>1
    <3> QED  BY <1>12, <2>1, <3>1, <3>2, Zenon
  <2>5. to_string(s) = <<"-">> \o uint_to_string(n, 10)
    BY <2>2, <2>3, <2>4
  <2> QED  BY <1>12, <2>1, <2>5 DEF int_to_string
<1> QED  BY <1>10, <1>11, <1>12

----------------------------------------------------------------------------
(* What a writer has written.                                              *)

Entries == [by : Writers, char : Printed \cup {TestByte}]

\* By goes through the entries once.
LEMMA ByIs ==
    ASSUME NEW w, NEW s \in Seq(Entries)
    PROVE  \E f \in [0..Len(s) -> Seq(Printed)] :
               /\ f[0] = <<>>
               /\ \A i \in 1..Len(s) :
                     f[i] = IF s[i].by = w /\ s[i].char # TestByte
                            THEN Append(f[i - 1], s[i].char) ELSE f[i - 1]
               /\ By(w, s) = f[Len(s)]
<1> DEFINE N == Len(s)
           Z == Seq(Printed)
           Is(i) == s[i].by = w /\ s[i].char # TestByte
           G == [i \in 1..N |-> [x \in Z |-> IF Is(i) THEN Append(x, s[i].char) ELSE x]]
           IsLoop(g) == g = [n \in 0..N |->
                               IF n = 0 THEN <<>>
                               ELSE IF s[n].by = w /\ s[n].char # TestByte
                                    THEN Append(g[n - 1], s[n].char) ELSE g[n - 1]]
           g == CHOOSE f : IsLoop(f)
<1>1. By(w, s) = g[N]
  BY DEF By
<1>2. N \in Nat
  OBVIOUS
<1>3. \A i \in 1..N : Is(i) => s[i].char \in Printed
  <2> TAKE i \in 1..N
  <2>1. s[i] \in Entries
    OBVIOUS
  <2> QED  BY <2>1 DEF Entries
<1>4. G \in [1..N -> [Z -> Z]]
  <2>1. \A i \in 1..N : \A x \in Z : (IF Is(i) THEN Append(x, s[i].char) ELSE x) \in Z
    BY <1>3
  <2> HIDE DEF Z, N, Is
  <2> QED  BY <2>1
<1>5. PICK f \in [0..N -> Z] : f[0] = <<>> /\ \A i \in 1..N : f[i] = G[i][f[i - 1]]
  <2> DEFINE z == <<>>
  <2>1. z \in Z
    OBVIOUS
  <2> HIDE DEF Z, z, G, N
  <2>2. \E f \in [0..N -> Z] : Iterates(f, N, z, G)
    BY <1>2, <1>4, <2>1, Recursion
  <2> QED  BY <2>2 DEF Iterates, z
<1>6. \A i \in 1..N : f[i] = IF Is(i) THEN Append(f[i - 1], s[i].char) ELSE f[i - 1]
  <2> TAKE i \in 1..N
  <2>1. i \in 0..N /\ i - 1 \in 0..N /\ i # 0
    BY <1>2
  <2>2. f[i - 1] \in Z
    BY <2>1
  <2> HIDE DEF Z, Is
  <2> QED  BY <1>5, <2>1, <2>2
<1>7. IsLoop(f)
  <2> HIDE DEF N, G
  <2>1. f = [n \in 0..N |-> f[n]]
    OBVIOUS
  <2>2. \A n \in 0..N : n = 0 \/ (n # 0 /\ n \in 1..N)
    BY <1>2
  <2>3. f[0] = <<>>
    BY <1>5
  <2>4. \A n \in 0..N : f[n] = IF n = 0 THEN <<>>
                               ELSE IF Is(n) THEN Append(f[n - 1], s[n].char) ELSE f[n - 1]
    <3> HIDE DEF Z, Is
    <3> QED  BY <1>6, <2>2, <2>3
  <2> QED  BY <2>1, <2>4
<1>8. IsLoop(g)
  <2> HIDE DEF IsLoop
  <2> QED  BY <1>7
<1> HIDE DEF g
<1>9. g[0] = <<>> /\ \A i \in 1..N : g[i] = IF Is(i) THEN Append(g[i - 1], s[i].char) ELSE g[i - 1]
  <2> HIDE DEF N
  <2>1. 0 \in 0..N /\ \A i \in 1..N : i \in 0..N /\ i # 0
    BY <1>2
  <2>2. \A n \in 0..N : g[n] = IF n = 0 THEN <<>>
                               ELSE IF Is(n) THEN Append(g[n - 1], s[n].char) ELSE g[n - 1]
    BY <1>8
  <2> QED  BY <2>1, <2>2
<1>10. \A i \in 0..N : g[i] = f[i]
  <2> DEFINE S == {i \in Nat : i <= N => g[i] = f[i]}
  <2>1. 0 \in S
    BY <1>5, <1>9
  <2>2. ASSUME NEW i \in Nat, i \in S PROVE i + 1 \in S
    <3> SUFFICES ASSUME i + 1 <= N PROVE g[i + 1] = f[i + 1]
      OBVIOUS
    <3>1. PICK j \in 1..N : j = i + 1
      BY <1>2
    <3>2. i = j - 1 /\ g[i] = f[i]
      BY <1>2, <2>2, <3>1
    <3> HIDE DEF Is
    <3> QED  BY <1>6, <1>9, <3>1, <3>2
  <2>3. \A i \in Nat : i \in S
    <3> HIDE DEF S
    <3> QED  BY <2>1, <2>2, InductionNat
  <2> QED  BY <1>2, <2>3
<1> QED  BY <1>1, <1>2, <1>5, <1>6, <1>10

LEMMA BySeq == ASSUME NEW w, NEW s \in Seq(Entries) PROVE By(w, s) \in Seq(Printed)
<1>1. PICK f \in [0..Len(s) -> Seq(Printed)] : By(w, s) = f[Len(s)]
  BY ByIs
<1> QED  BY <1>1

LEMMA ByEmpty == ASSUME NEW w PROVE By(w, <<>>) = <<>>
<1>1. <<>> \in Seq(Entries) /\ Len(<<>>) = 0
  OBVIOUS
<1>2. PICK f \in [0..Len(<<>>) -> Seq(Printed)] : f[0] = <<>> /\ By(w, <<>>) = f[Len(<<>>)]
  BY <1>1, ByIs
<1> QED  BY <1>1, <1>2

\* An entry more adds its character to what its writer has written.
LEMMA ByAppend ==
    ASSUME NEW w, NEW s \in Seq(Entries), NEW e \in Entries
    PROVE  By(w, Append(s, e)) = IF e.by = w /\ e.char # TestByte
                                 THEN Append(By(w, s), e.char) ELSE By(w, s)
<1> DEFINE N == Len(s)
           M == N + 1
           t == Append(s, e)
<1>0. /\ N \in Nat /\ M \in Nat /\ M = Len(t) /\ t \in Seq(Entries)
      /\ t[M] = e /\ \A i \in 1..N : t[i] = s[i]
  OBVIOUS
<1> HIDE DEF t
<1>1. PICK f \in [0..N -> Seq(Printed)] :
          /\ f[0] = <<>>
          /\ \A i \in 1..N : f[i] = IF s[i].by = w /\ s[i].char # TestByte
                                    THEN Append(f[i - 1], s[i].char) ELSE f[i - 1]
          /\ By(w, s) = f[N]
  BY ByIs
<1>2. PICK g \in [0..M -> Seq(Printed)] :
          /\ g[0] = <<>>
          /\ \A i \in 1..M : g[i] = IF t[i].by = w /\ t[i].char # TestByte
                                    THEN Append(g[i - 1], t[i].char) ELSE g[i - 1]
          /\ By(w, t) = g[M]
  <2>1. PICK g \in [0..Len(t) -> Seq(Printed)] :
          /\ g[0] = <<>>
          /\ \A i \in 1..Len(t) : g[i] = IF t[i].by = w /\ t[i].char # TestByte
                                         THEN Append(g[i - 1], t[i].char) ELSE g[i - 1]
          /\ By(w, t) = g[Len(t)]
    BY <1>0, ByIs
  <2> QED  BY <1>0, <2>1, Zenon
<1> DEFINE S == {i \in Nat : i <= N => f[i] = g[i]}
<1> HIDE DEF N
<1>3. 0 \in S
  BY <1>1, <1>2
<1>4. ASSUME NEW i \in Nat, i \in S PROVE i + 1 \in S
  <2> SUFFICES ASSUME i + 1 <= N PROVE f[i + 1] = g[i + 1]
    OBVIOUS
  <2>1. PICK j \in 1..N : j = i + 1
    BY <1>0
  <2>2. i = j - 1 /\ f[i] = g[i] /\ t[j] = s[j] /\ j \in 1..M
    BY <1>0, <1>4, <2>1
  <2> QED  BY <1>1, <1>2, <2>1, <2>2
<1>5. f[N] = g[N]
  <2>1. N \in S
    <3> HIDE DEF S
    <3> QED  BY <1>0, <1>3, <1>4, InductionNat
  <2> QED  BY <1>0, <2>1
<1>6. M \in 1..M /\ M - 1 = N
  <2>1. N \in Nat
    BY <1>0
  <2> QED  BY <2>1
<1>7. By(w, t) = IF e.by = w /\ e.char # TestByte THEN Append(f[N], e.char) ELSE f[N]
  <2>1. g[M] = IF t[M].by = w /\ t[M].char # TestByte
               THEN Append(g[M - 1], t[M].char) ELSE g[M - 1]
    BY <1>2, <1>6
  <2> QED  BY <1>0, <1>2, <1>5, <1>6, <2>1, Zenon
<1> QED  BY <1>1, <1>7 DEF t

\* The message of the handler, once for each interrupt.
MessagesOf(n) ==
    LET repeated[i \in 0..MaxIrqs] ==
            IF i = 0 THEN <<>> ELSE repeated[i - 1] \o KeyboardMessage
    IN  repeated[n]

LEMMA MessagesIs ==
    /\ MessagesOf(0) = <<>>
    /\ \A n \in 0..MaxIrqs : MessagesOf(n) \in Seq(Chars)
    /\ \A n \in 1..MaxIrqs : MessagesOf(n) = MessagesOf(n - 1) \o KeyboardMessage
<1> DEFINE N == MaxIrqs
           Z == Seq(Chars)
           K == KeyboardMessage
           G == [i \in 1..N |-> [x \in Z |-> x \o K]]
           IsLoop(g) == g = [i \in 0..N |-> IF i = 0 THEN <<>> ELSE g[i - 1] \o K]
           g == CHOOSE f : IsLoop(f)
<1>1. \A n : MessagesOf(n) = g[n]
  BY DEF MessagesOf
<1>2. N \in Nat
  BY SerialAssumption
<1>3. K \in Z
  BY DEF KeyboardMessage, write_serial, CRLF, Chars
<1> HIDE DEF K
<1>4. G \in [1..N -> [Z -> Z]]
  BY <1>3
<1>5. PICK f \in [0..N -> Z] : f[0] = <<>> /\ \A i \in 1..N : f[i] = G[i][f[i - 1]]
  <2> DEFINE z == <<>>
  <2>1. z \in Z
    OBVIOUS
  <2> HIDE DEF Z, z, G, N
  <2>2. \E f \in [0..N -> Z] : Iterates(f, N, z, G)
    BY <1>2, <1>4, <2>1, Recursion
  <2> QED  BY <2>2 DEF Iterates, z
<1>6. \A i \in 1..N : f[i] = f[i - 1] \o K
  <2> TAKE i \in 1..N
  <2>1. i \in 0..N /\ i - 1 \in 0..N /\ i # 0
    BY <1>2
  <2>2. f[i - 1] \in Z
    BY <2>1
  <2> HIDE DEF Z
  <2> QED  BY <1>5, <2>1, <2>2
<1>7. IsLoop(f)
  <2> HIDE DEF N, G
  <2>1. f = [n \in 0..N |-> f[n]]
    OBVIOUS
  <2>2. \A n \in 0..N : n = 0 \/ (n # 0 /\ n \in 1..N)
    BY <1>2
  <2> HIDE DEF Z
  <2>3. f[0] = <<>>
    BY <1>5
  <2>4. \A n \in 0..N : f[n] = IF n = 0 THEN <<>> ELSE f[n - 1] \o K
    BY <1>6, <2>2, <2>3
  <2> QED  BY <2>1, <2>4
<1>8. IsLoop(g)
  <2> HIDE DEF IsLoop
  <2> QED  BY <1>7
<1> HIDE DEF g
<1>9. g[0] = <<>> /\ \A i \in 1..N : g[i] = g[i - 1] \o K
  <2> HIDE DEF N
  <2>1. 0 \in 0..N /\ \A i \in 1..N : i \in 0..N /\ i # 0
    BY <1>2
  <2>2. \A n \in 0..N : g[n] = IF n = 0 THEN <<>> ELSE g[n - 1] \o K
    BY <1>8
  <2> QED  BY <2>1, <2>2
<1>10. \A i \in 0..N : g[i] \in Z
  <2> DEFINE S == {i \in Nat : i <= N => g[i] \in Z}
  <2>1. 0 \in S
    <3>1. <<>> \in Z
      OBVIOUS
    <3> HIDE DEF Z
    <3> QED  BY <1>9, <3>1
  <2>2. ASSUME NEW i \in Nat, i \in S PROVE i + 1 \in S
    <3> SUFFICES ASSUME i + 1 <= N PROVE g[i + 1] \in Z
      OBVIOUS
    <3>1. PICK j \in 1..N : j = i + 1
      BY <1>2
    <3>2. i = j - 1 /\ g[i] \in Z
      BY <1>2, <2>2, <3>1
    <3>3. g[i] \o K \in Z
      BY <1>3, <3>2
    <3> HIDE DEF Z, N
    <3> QED  BY <1>9, <3>1, <3>2, <3>3
  <2>3. \A i \in Nat : i \in S
    <3> HIDE DEF S
    <3> QED  BY <2>1, <2>2, InductionNat
  <2> QED  BY <1>2, <2>3
<1> QED  BY <1>1, <1>9, <1>10 DEF K

----------------------------------------------------------------------------
(* What serial_printf writes.                                              *)

LEMMA TheChars == TestByte \notin Chars /\ HexDigits \subseteq Chars /\ Numerals \subseteq Chars
<1>1. \A i \in 1..16 : Digits[i] # TestByte /\ Digits[i] \in Chars
  BY TheDigits DEF Chars, TestByte
<1>2. \A c \in DOMAIN Capitals : Capitals[c] # TestByte /\ Capitals[c] \in Chars
  BY TheCapitals DEF Chars, TestByte
<1>3. TestByte \notin {"CR", "LF", "-", "%", "z", "u", "[", "]", "0x", "K"}
  BY DEF TestByte
<1>4. TestByte \notin Chars
  BY <1>1, <1>2, <1>3 DEF Chars
<1>5. HexDigits \subseteq Chars
  BY <1>1 DEF HexDigits
<1> QED  BY <1>2, <1>4, <1>5 DEF Numerals, Upper

\* What is printed is characters, and with INT_MIN strays.
LEMMA ThePrinted == TestByte \notin Printed /\ Chars \subseteq Printed /\ Printed \subseteq Chars \cup {Stray}
BY TheChars DEF Printed, Stray, TestByte

LEMMA IntMinIs == IntMod \in Nat \ {0} /\ IntMin \in Int /\ IntMin < 0 /\ -IntMin \in Nat
BY SerialAssumption DEF IntMin

\* What comes of the digits of INT_MIN.
LEMMA GarbledSeq == \A g \in Garbled : g \in Seq(HexDigits \cup {Stray})
<1> DEFINE str == uint_to_string(-IntMin, 10)
<1>1. str \in Seq(HexDigits)
  BY IntMinIs, UintSeq
<1> SUFFICES ASSUME NEW g \in Garbled PROVE g \in Seq(HexDigits \cup {Stray})
  OBVIOUS
<1>2. PICK kept \in 0..(Len(str) - 1) :
          \E n \in kept..Len(str) : g = [i \in 1..n |-> IF i <= kept THEN str[i] ELSE Stray]
  BY DEF Garbled
<1>3. PICK n \in kept..Len(str) : g = [i \in 1..n |-> IF i <= kept THEN str[i] ELSE Stray]
  BY <1>2
<1> HIDE DEF str
<1>4. n \in Nat /\ \A i \in 1..n : i <= kept => str[i] \in HexDigits
  BY <1>1
<1> QED  BY <1>3, <1>4

\* The argument of a call is a number of its kind.
LEMMA CallIs ==
    ASSUME NEW c \in Calls
    PROVE  /\ c.conv \in Conversions
           /\ c.arg \in Int
           /\ c.conv \notin {"d", "i"} => c.arg \in Nat
           /\ c.conv \in {"d", "i", "u", "x", "X"} => c.arg < IntMod
           /\ c.arg = IntMin => c.conv \in {"d", "i"} /\ c.garbled \in Garbled
<1>a. CASE c \in [conv : {"d", "i"}, arg : {IntMin}, garbled : Garbled]
  <2>1. c.conv \in {"d", "i"} /\ c.arg = IntMin /\ c.garbled \in Garbled
    BY <1>a
  <2>2. IntMin < IntMod
    BY IntMinIs
  <2> QED  BY <2>1, <2>2, IntMinIs DEF Conversions
<1> SUFFICES ASSUME c \notin [conv : {"d", "i"}, arg : {IntMin}, garbled : Garbled]
             PROVE  /\ c.conv \in Conversions
                    /\ c.arg \in Int
                    /\ c.conv \notin {"d", "i"} => c.arg \in Nat
                    /\ c.conv \in {"d", "i", "u", "x", "X"} => c.arg < IntMod
                    /\ c.arg # IntMin
  BY <1>a
<1> DEFINE Of(conv) == {[conv |-> conv, arg |-> arg, garbled |-> <<>>] :
                           arg \in Arguments(conv) \ {IntMin}}
<1> DEFINE Min == [conv : {"d", "i"}, arg : {IntMin}, garbled : Garbled]
           All == UNION {Of(conv) : conv \in Conversions}
<1>b. c \notin Min /\ c \in Calls /\ Calls = All \cup Min
  <2>1. c \notin Min /\ c \in Calls
    OBVIOUS
  <2>2. Calls = All \cup Min
    BY Zenon DEF Calls
  <2> QED  BY <2>1, <2>2
<1> HIDE DEF Of, Min
<1>c. c \in All
  BY <1>b
<1>d. PICK conv \in Conversions : c \in Of(conv)
  BY <1>c
<1>0. PICK arg \in Arguments(conv) \ {IntMin} : c = [conv |-> conv, arg |-> arg, garbled |-> <<>>]
  BY <1>d DEF Of
<1>2. c.conv = conv /\ c.arg = arg /\ arg # IntMin
  BY <1>0
<1>3. IntMod \in Nat /\ PtrMod \in Nat
  BY SerialAssumption
<1>4. conv \in {"d", "i"} => arg \in Int /\ arg < IntMod
  BY <1>0, <1>3, IntMinIs DEF Arguments
<1>5. conv \in {"u", "x", "X"} => arg \in Nat /\ arg < IntMod
  BY <1>0, <1>3 DEF Arguments
<1>6. conv \in {"p", "zu"} => arg \in Nat
  BY <1>0, <1>3 DEF Arguments
<1>7. conv \in {"s", "c", "%"} => arg \in Nat
  BY <1>0 DEF Arguments
<1> QED  BY <1>2, <1>4, <1>5, <1>6, <1>7 DEF Conversions

LEMMA PrintfSeq ==
    ASSUME NEW c \in Calls
    PROVE  serial_printf(c) \in Seq(Chars \cup {x \in {Stray} : c.arg = IntMin})
<1> DEFINE C == Chars \cup {x \in {Stray} : c.arg = IntMin}
<1>0. Chars \subseteq C /\ (c.arg = IntMin => Stray \in C)
  OBVIOUS
<1> HIDE DEF C
<1>1. CRLF \in Seq(C) /\ <<"[">> \in Seq(C) /\ <<"]">> \in Seq(C)
  BY <1>0 DEF CRLF, Chars
<1>2. \A s \in Seq(C) : write_serial(s) \in Seq(C)
  BY <1>1 DEF write_serial
<1>3. \A v \in Nat : uint_to_string(v, 10) \in Seq(C)
  BY <1>0, UintSeq, TheChars
<1>4. \A v \in Nat : /\ uint_to_string(v, 16) \in Seq(C)
                     /\ UpperCase(uint_to_string(v, 16)) \in Seq(C)
  <2> TAKE v \in Nat
  <2>1. uint_to_string(v, 16) \in Seq(HexDigits)
    BY UintSeq
  <2>2. UpperCase(uint_to_string(v, 16)) \in Seq(Numerals)
    BY <2>1, UpperCaseIs
  <2> QED  BY <1>0, <2>1, <2>2, TheChars
<1>5. c.conv \in {"d", "i"} => int_to_string(c.arg, c.garbled, 10) \in Seq(C)
  <2> HAVE c.conv \in {"d", "i"}
  <2>0. c.arg \in Int /\ <<"-">> \in Seq(C)
    BY <1>0, CallIs DEF Chars
  <2>1. CASE c.arg < 0 /\ c.arg # IntMin
    <3>0. PICK n \in Nat : n = -c.arg
      BY <2>0, <2>1
    <3>1. uint_to_string(n, 10) \in Seq(C)
      BY <1>3
    <3>2. int_to_string(c.arg, c.garbled, 10) = <<"-">> \o uint_to_string(n, 10)
      BY <2>1, <3>0 DEF int_to_string
    <3>3. <<"-">> \o uint_to_string(n, 10) \in Seq(C)
      BY <2>0, <3>1, ConcatProperties
    <3> QED  BY <3>2, <3>3, Zenon
  <2>2. CASE c.arg = IntMin
    <3>1. c.garbled \in Seq(HexDigits \cup {Stray})
      BY <2>2, CallIs, GarbledSeq
    <3>2. c.garbled \in Seq(C)
      BY <1>0, <2>2, <3>1, TheChars
    <3> QED  BY <2>0, <2>2, <3>2, IntMinIs DEF int_to_string
  <2>3. CASE ~(c.arg < 0)
    <3>1. uint_to_string(c.arg, 10) \in Seq(C)
      BY <1>3, <2>0, <2>3
    <3> QED  BY <2>3, <3>1 DEF int_to_string
  <2> QED  BY <2>1, <2>2, <2>3
<1>6. c.conv \in Conversions /\ c.arg \in Int /\ (c.conv \notin {"d", "i"} => c.arg \in Nat)
  BY CallIs
<1>7. IntMod \in Nat \ {0}
  BY SerialAssumption
<1>8. Converted(c) \in Seq(C)
  <2>1. CASE c.conv \in {"d", "i"}
    BY <1>2, <1>5, <2>1 DEF Converted
  <2>2. CASE c.conv = "u"
    BY <1>2, <1>3, <1>6, <2>2 DEF Converted
  <2>3. CASE c.conv = "x"
    BY <1>2, <1>4, <1>6, <2>3 DEF Converted
  <2>4. CASE c.conv = "X"
    BY <1>2, <1>4, <1>6, <2>4 DEF Converted
  <2>5. CASE c.conv = "p"
    <3>1. c.arg % IntMod \in Nat
      BY <1>6, <1>7, <2>5
    <3>2. <<"0x">> \in Seq(C)
      BY <1>0 DEF Chars
    <3>3. /\ write_serial(<<"0x">>) \in Seq(C)
          /\ write_serial(uint_to_string(c.arg % IntMod, 16)) \in Seq(C)
      BY <1>2, <1>4, <3>1, <3>2
    <3>4. Converted(c)
            = write_serial(<<"0x">>) \o write_serial(uint_to_string(c.arg % IntMod, 16))
      BY <2>5 DEF Converted
    <3> QED  BY <3>3, <3>4
  <2>6. CASE c.conv = "s"
    <3>1. <<"K">> \in Seq(C)
      BY <1>0 DEF Chars
    <3> QED  BY <1>2, <2>6, <3>1 DEF Converted
  <2>7. CASE c.conv \in {"c", "%", "zu"}
    <3>1. /\ <<"K">> \in Seq(C) /\ <<"%">> \in Seq(C)
          /\ <<"%", "z", "u">> \in Seq(C)
      BY <1>0 DEF Chars
    <3> QED  BY <2>7, <3>1 DEF Converted
  <2> QED  BY <1>6, <2>1, <2>2, <2>3, <2>4, <2>5, <2>6, <2>7 DEF Conversions
<1>9. serial_printf(c) = <<"[">> \o Converted(c) \o <<"]">>
  BY DEF serial_printf
<1> QED  BY <1>1, <1>8, <1>9 DEF C

----------------------------------------------------------------------------
(* Nothing is lost.                                                        *)

\* Until the test is over there is nothing but the test byte, and nobody has
\* written anything; after a test that was passed, what the handler wrote are
\* its messages, and what kmain wrote is what it was told to print.
SInv ==
    /\ TypeOK
    /\ stage = "reset" => fifo = <<>>
    /\ stage \in {"reset", "testing"} =>
          /\ wire = <<>> /\ irqs = 0 /\ ~handling
          /\ fifo \in {<<>>, <<[by |-> "kmain", char |-> TestByte]>>}
    /\ stage = "testing" => loopback
    /\ stage # "printing" => call.arg # IntMin
    /\ \A w \in Writers : polled[w] => left[w] # <<>>
    /\ ~handling => left["irq"] = <<>>
    /\ stage # "printing" => left["kmain"] = <<>>
    /\ ~loopback =>
          /\ Written("kmain") = IF stage = "printing" THEN serial_printf(call) ELSE <<>>
          /\ Written("irq") = MessagesOf(irqs)

LEMMA InvNothingLost == SInv => TypeOK /\ NothingLost
<1>1. Messages = MessagesOf(irqs)
  BY DEF Messages, MessagesOf
<1> QED  BY <1>1 DEF SInv, NothingLost

\* The oldest entry that goes over to the wire stays where it is in the whole.
LEMMA GoesOut ==
    ASSUME NEW S, NEW s \in Seq(S), NEW t \in Seq(S), t # <<>>
    PROVE  Append(s, Head(t)) \o Tail(t) = s \o t
<1> DEFINE u == Append(s, Head(t)) \o Tail(t)
           v == s \o t
           n == Len(s)
           m == Len(t)
<1>1. n \in Nat /\ m \in Nat /\ m > 0 /\ Head(t) = t[1]
  OBVIOUS
<1>2. /\ Tail(t) \in Seq(S) /\ Len(Tail(t)) = m - 1
      /\ \A i \in 1..(m - 1) : Tail(t)[i] = t[i + 1]
  OBVIOUS
<1>3. /\ Append(s, Head(t)) \in Seq(S) /\ Len(Append(s, Head(t))) = n + 1
      /\ \A i \in 1..n : Append(s, Head(t))[i] = s[i]
      /\ Append(s, Head(t))[n + 1] = t[1]
  BY <1>1
<1>4. /\ v \in Seq(S) /\ Len(v) = n + m
      /\ \A i \in 1..(n + m) : v[i] = IF i <= n THEN s[i] ELSE t[i - n]
  OBVIOUS
<1>5. /\ u \in Seq(S) /\ Len(u) = (n + 1) + (m - 1)
      /\ \A i \in 1..((n + 1) + (m - 1)) :
            u[i] = IF i <= n + 1 THEN Append(s, Head(t))[i] ELSE Tail(t)[i - (n + 1)]
  BY <1>1, <1>2, <1>3, ConcatProperties
<1>6. Len(u) = n + m
  BY <1>1, <1>5
<1>7. \A i \in 1..(n + m) : u[i] = v[i]
  <2> TAKE i \in 1..(n + m)
  <2> HIDE DEF u, v, n, m
  <2>1. i \in 1..((n + 1) + (m - 1))
    BY <1>1
  <2>2. CASE i <= n
    <3>1. i \in 1..n /\ i <= n + 1
      BY <1>1, <2>2
    <3> QED  BY <1>3, <1>4, <1>5, <2>1, <2>2, <3>1
  <2>3. CASE i = n + 1
    <3>1. ~(i <= n) /\ i <= n + 1 /\ i - n = 1
      BY <1>1, <2>3
    <3> QED  BY <1>3, <1>4, <1>5, <2>1, <2>3, <3>1
  <2>4. CASE i > n + 1
    <3>1. PICK j \in 1..(m - 1) : j = i - (n + 1)
      BY <1>1, <2>4
    <3>2. ~(i <= n) /\ ~(i <= n + 1) /\ i - n = j + 1
      BY <1>1, <2>4, <3>1
    <3> QED  BY <1>2, <1>4, <1>5, <2>1, <3>1, <3>2
  <2> QED  BY <1>1, <2>2, <2>3, <2>4
<1> HIDE DEF u, v
<1>8. u = v
  BY <1>4, <1>5, <1>6, <1>7, SeqEqual
<1> QED  BY <1>8 DEF u, v

LEMMA SInvInit == Init => SInv
<1> SUFFICES ASSUME Init PROVE SInv
  OBVIOUS
<1>1. /\ capacity = 1 /\ fifo = <<>> /\ loopback = FALSE /\ received = "nothing" /\ wire = <<>>
      /\ stage = "reset" /\ call = [conv |-> "%", arg |-> 0, garbled |-> <<>>]
      /\ left = [w \in Writers |-> <<>>] /\ polled = [w \in Writers |-> FALSE]
      /\ handling = FALSE /\ irqs = 0
  BY DEF Init
<1>2. call \in Calls /\ call.arg # IntMin
  <2>1. "%" \in Conversions /\ 0 \in Arguments("%") \ {IntMin}
    BY IntMinIs DEF Conversions, Arguments
  <2> DEFINE Of(conv) == {[conv |-> conv, arg |-> arg, garbled |-> <<>>] :
                             arg \in Arguments(conv) \ {IntMin}}
  <2>2. call \in Of("%")
    BY <1>1, <2>1
  <2>3. \A conv \in Conversions : Of(conv) \subseteq Calls
    BY DEF Calls
  <2> HIDE DEF Of
  <2>4. call.arg = 0
    BY <1>1
  <2> QED  BY <2>1, <2>2, <2>3, <2>4
<1>3. TypeOK
  <2>1. MaxIrqs \in Nat
    BY SerialAssumption
  <2>2. <<>> \in Seq([by : Writers, char : Printed \cup {TestByte}]) /\ <<>> \in Seq(Printed)
    OBVIOUS
  <2>3. left \in [Writers -> Seq(Printed)] /\ polled \in [Writers -> BOOLEAN]
    BY <1>1, <2>2
  <2>4. /\ fifo \in Seq([by : Writers, char : Printed \cup {TestByte}])
        /\ wire \in Seq([by : Writers, char : Printed \cup {TestByte}])
    BY <1>1, <2>2, Zenon
  <2>5. capacity \in {1, Depth} /\ irqs \in 0..MaxIrqs
    BY <1>1, <2>1
  <2>6. /\ loopback \in BOOLEAN /\ received \in Printed \cup {TestByte, "nothing"}
        /\ stage \in {"reset", "testing", "ready", "printing"} /\ handling \in BOOLEAN
    BY <1>1, Zenon
  <2> QED  BY <1>2, <2>3, <2>4, <2>5, <2>6, Zenon DEF TypeOK
<1>4. \A w \in Writers : Written(w) = <<>>
  <2> TAKE w \in Writers
  <2>1. wire \o fifo = <<>>
    BY <1>1
  <2>2. By(w, wire \o fifo) = <<>> /\ left[w] = <<>>
    BY <1>1, <2>1, ByEmpty
  <2> QED  BY <2>2 DEF Written
<1>5. MessagesOf(irqs) = <<>>
  BY <1>1, MessagesIs
<1>6. "kmain" \in Writers /\ "irq" \in Writers
  BY DEF Writers
<1> QED  BY <1>1, <1>2, <1>3, <1>4, <1>5, <1>6 DEF SInv

LEMMA SInvTransmit == SInv /\ Transmit => SInv'
<1> SUFFICES ASSUME SInv, Transmit PROVE SInv'
  OBVIOUS
<1>1. /\ fifo # <<>> /\ fifo' = Tail(fifo)
      /\ capacity' = capacity /\ loopback' = loopback /\ stage' = stage /\ call' = call
      /\ left' = left /\ polled' = polled /\ handling' = handling /\ irqs' = irqs
      /\ loopback => received' = Head(fifo).char /\ wire' = wire
      /\ ~loopback => wire' = Append(wire, Head(fifo)) /\ received' = received
  BY DEF Transmit, kernel
<1>2. fifo \in Seq(Entries) /\ wire \in Seq(Entries)
  BY DEF SInv, TypeOK, Entries
<1>3. /\ Head(fifo) \in Entries /\ Tail(fifo) \in Seq(Entries)
      /\ Append(wire, Head(fifo)) \in Seq(Entries)
  BY <1>1, <1>2
<1>4. Head(fifo).char \in Printed \cup {TestByte}
  BY <1>3 DEF Entries
<1>5. TypeOK'
  <2>0. Printed' = Printed
    BY <1>1 DEF Printed
  <2>1. fifo' \in Seq(Entries) /\ wire' \in Seq(Entries)
    BY <1>1, <1>2, <1>3
  <2>2. received' \in Printed \cup {TestByte, "nothing"}
    BY <1>1, <1>4 DEF SInv, TypeOK
  <2> QED  BY <1>1, <2>0, <2>1, <2>2 DEF SInv, TypeOK, Entries
<1>6. stage # "reset"
  BY <1>1 DEF SInv
<1>7. stage = "testing" => fifo' = <<>> /\ wire' = <<>>
  <2> HAVE stage = "testing"
  <2>1. fifo = <<[by |-> "kmain", char |-> TestByte]>> /\ loopback /\ wire = <<>>
    BY <1>1 DEF SInv
  <2> QED  BY <1>1, <2>1
<1>8. ~loopback => \A w \in Writers : Written(w)' = Written(w)
  <2> HAVE ~loopback
  <2>1. wire' \o fifo' = wire \o fifo
    BY <1>1, <1>2, GoesOut
  <2> QED  BY <1>1, <2>1 DEF Written
<1>9. "kmain" \in Writers /\ "irq" \in Writers
  BY DEF Writers
<1> QED  BY <1>1, <1>5, <1>6, <1>7, <1>8, <1>9 DEF SInv

LEMMA SInvTest == SInv /\ (StartTest \/ ReadTest) => SInv'
<1> SUFFICES ASSUME SInv, StartTest \/ ReadTest PROVE SInv'
  OBVIOUS
<1>0. "kmain" \in Writers /\ "irq" \in Writers
  BY DEF Writers
<1> DEFINE e == [by |-> "kmain", char |-> TestByte]
<1>1. e \in Entries /\ e.char = TestByte /\ <<>> \in Seq(Entries) /\ <<e>> = Append(<<>>, e)
  BY <1>0 DEF Entries
<1>2. CASE StartTest
  <2>1. /\ stage = "reset" /\ stage' = "testing" /\ capacity' = Depth /\ loopback' = TRUE
        /\ received' = received /\ wire' = wire /\ call' = call
        /\ left' = left /\ polled' = polled /\ handling' = handling /\ irqs' = irqs
        /\ fifo' = IF Len(fifo) < capacity THEN Append(fifo, e) ELSE fifo
    BY <1>2 DEF StartTest, Out
  <2>2. fifo = <<>> /\ wire = <<>> /\ irqs = 0 /\ ~handling
    BY <2>1 DEF SInv
  <2>3. fifo' \in {<<>>, <<e>>} /\ fifo' \in Seq(Entries)
    <3> HIDE DEF e
    <3> QED  BY <1>1, <2>1, <2>2
  <2>4. TypeOK'
    <3>1. Printed' = Printed
      BY <2>1 DEF Printed
    <3> QED  BY <2>1, <2>3, <3>1 DEF SInv, TypeOK, Entries
  <2> QED  BY <2>1, <2>2, <2>3, <2>4 DEF SInv
<1>3. CASE ReadTest
  <2>1. /\ stage = "testing" /\ stage' = "ready" /\ loopback' = (received # TestByte)
        /\ capacity' = capacity /\ fifo' = fifo
        /\ received' = received /\ wire' = wire /\ call' = call
        /\ left' = left /\ polled' = polled /\ handling' = handling /\ irqs' = irqs
    BY <1>3 DEF ReadTest
  <2>2. /\ fifo \in {<<>>, <<e>>} /\ wire = <<>> /\ irqs = 0 /\ ~handling
        /\ left["kmain"] = <<>> /\ left["irq"] = <<>>
    BY <2>1 DEF SInv
  <2>3. TypeOK'
    <3>1. Printed' = Printed
      BY <2>1 DEF Printed
    <3> QED  BY <2>1, <3>1 DEF SInv, TypeOK
  <2>4. \A w \in Writers : By(w, wire \o fifo) = <<>>
    <3> TAKE w \in Writers
    <3>1. wire \o fifo \in {<<>>, <<e>>}
      <4> HIDE DEF e
      <4>1. <<>> \o <<>> = <<>> /\ <<>> \o <<e>> = <<e>>
        BY <1>1
      <4> QED  BY <2>2, <4>1
    <3>2. By(w, <<>>) = <<>>
      BY ByEmpty
    <3>3. By(w, <<e>>) = <<>>
      <4> HIDE DEF e
      <4> QED  BY <1>1, <3>2, ByAppend
    <3> HIDE DEF e
    <3> QED  BY <3>1, <3>2, <3>3
  <2>5. Written("kmain")' = <<>> /\ Written("irq")' = <<>>
    <3>1. <<>> \o <<>> = <<>>
      OBVIOUS
    <3>2. \A w \in Writers : By(w, wire' \o fifo') = <<>>
      BY <2>1, <2>4
    <3> QED  BY <1>0, <2>1, <2>2, <3>1, <3>2 DEF Written
  <2>6. MessagesOf(irqs)' = <<>>
    BY <2>1, <2>2, MessagesIs
  <2> QED  BY <2>1, <2>2, <2>3, <2>5, <2>6 DEF SInv
<1> QED  BY <1>2, <1>3

LEMMA SInvPrintf == ASSUME SInv, NEW c \in Calls, Printf(c) PROVE SInv'
<1>0. "kmain" \in Writers /\ "irq" \in Writers /\ "kmain" # "irq"
  BY DEF Writers
<1>1. /\ stage = "ready" /\ ~handling /\ stage' = "printing" /\ call' = c
      /\ left' = [left EXCEPT !["kmain"] = serial_printf(c)]
      /\ capacity' = capacity /\ fifo' = fifo /\ loopback' = loopback
      /\ received' = received /\ wire' = wire
      /\ polled' = polled /\ handling' = handling /\ irqs' = irqs
  BY DEF Printf, uart
<1>2. serial_printf(c) \in Seq(Printed')
  BY <1>1, PrintfSeq DEF Printed
<1>3. /\ left \in [Writers -> Seq(Printed)] /\ left["kmain"] = <<>> /\ left["irq"] = <<>>
      /\ ~polled["kmain"] /\ ~polled["irq"]
  BY <1>0, <1>1 DEF SInv, TypeOK
<1>4. left'["kmain"] = serial_printf(c) /\ left'["irq"] = <<>>
  BY <1>0, <1>1, <1>3
<1>5. TypeOK'
  <2>1. Printed = Chars /\ Chars \subseteq Printed'
    BY <1>1 DEF SInv, Printed
  <2>2. left' \in [Writers -> Seq(Printed')]
    <3>1. left' = [w \in Writers |-> IF w = "kmain" THEN serial_printf(c) ELSE left[w]]
      BY <1>1, <1>3
    <3>2. \A w \in Writers : left[w] \in Seq(Printed')
      BY <1>3, <2>1
    <3> QED  BY <1>2, <3>1, <3>2
  <2>3. fifo \in Seq(Entries) /\ wire \in Seq(Entries) /\ Entries \subseteq Entries'
    BY <2>1 DEF SInv, TypeOK, Entries
  <2>4. fifo' \in Seq(Entries') /\ wire' \in Seq(Entries')
    BY <1>1, <2>3
  <2> QED  BY <1>1, <2>1, <2>2, <2>4 DEF SInv, TypeOK, Entries
<1>6. ~loopback => Written("kmain")' = serial_printf(c) /\ Written("irq")' = MessagesOf(irqs')
  <2> HAVE ~loopback
  <2>1. Written("kmain") = <<>> /\ Written("irq") = MessagesOf(irqs)
    BY <1>1 DEF SInv
  <2>2. wire \o fifo \in Seq(Entries)
    BY DEF SInv, TypeOK, Entries
  <2>3. By("kmain", wire \o fifo) \in Seq(Printed)
    BY <2>2, BySeq
  <2>4. By("kmain", wire \o fifo) = <<>>
    BY <1>3, <2>1, <2>3 DEF Written
  <2>5. <<>> \o serial_printf(c) = serial_printf(c)
    BY <1>2
  <2>6. Written("kmain")' = serial_printf(c)
    BY <1>1, <1>4, <2>4, <2>5 DEF Written
  <2>7. Written("irq")' = Written("irq")
    BY <1>1, <1>3, <1>4 DEF Written
  <2> QED  BY <1>1, <2>1, <2>6, <2>7
<1>7. \A w \in Writers : ~polled'[w]
  BY <1>1, <1>3 DEF Writers
<1>8. TypeOK' /\ stage' = "printing" /\ call' = c /\ (~handling' => left'["irq"] = <<>>)
      /\ (loopback' <=> loopback)
  BY <1>1, <1>4, <1>5
<1>9. MessagesOf(irqs)' = MessagesOf(irqs')
  OBVIOUS
<1> QED  BY <1>6, <1>7, <1>8, <1>9 DEF SInv

LEMMA SInvHandler == SInv /\ (Interrupt \/ Return) => SInv'
<1> SUFFICES ASSUME SInv, Interrupt \/ Return PROVE SInv'
  OBVIOUS
<1>0. "kmain" \in Writers /\ "irq" \in Writers /\ "kmain" # "irq"
  BY DEF Writers
<1>1. CASE Interrupt
  <2>1. /\ stage \in {"ready", "printing"} /\ ~handling /\ irqs < MaxIrqs
        /\ handling' = TRUE /\ irqs' = irqs + 1
        /\ left' = [left EXCEPT !["irq"] = KeyboardMessage]
        /\ capacity' = capacity /\ fifo' = fifo /\ loopback' = loopback
        /\ received' = received /\ wire' = wire
        /\ stage' = stage /\ call' = call /\ polled' = polled
    BY <1>1 DEF Interrupt, uart
  <2>2. KeyboardMessage \in Seq(Printed) /\ KeyboardMessage # <<>>
    BY ThePrinted DEF KeyboardMessage, write_serial, CRLF, Chars
  <2>3. left \in [Writers -> Seq(Printed)] /\ left["irq"] = <<>> /\ ~polled["irq"]
    BY <1>0, <2>1 DEF SInv, TypeOK
  <2>4. /\ left' \in [Writers -> Seq(Printed)] /\ left'["irq"] = KeyboardMessage
        /\ left'["kmain"] = left["kmain"]
    BY <1>0, <2>1, <2>2, <2>3
  <2>5. irqs \in 0..MaxIrqs /\ irqs' \in 1..MaxIrqs /\ irqs' - 1 = irqs
    <3>1. MaxIrqs \in Nat /\ irqs \in 0..MaxIrqs
      BY SerialAssumption DEF SInv, TypeOK
    <3> QED  BY <2>1, <3>1
  <2>6. TypeOK'
    <3>1. irqs' \in 0..MaxIrqs
      BY <2>5, SerialAssumption
    <3>2. Printed' = Printed
      BY <2>1 DEF Printed
    <3> QED  BY <2>1, <2>4, <3>1, <3>2 DEF SInv, TypeOK
  <2>7. MessagesOf(irqs)' = MessagesOf(irqs) \o KeyboardMessage
    <3>1. MessagesOf(irqs') = MessagesOf(irqs' - 1) \o KeyboardMessage
      BY <2>5, MessagesIs
    <3> QED  BY <2>5, <3>1
  <2>8. ~loopback => Written("kmain")' = Written("kmain") /\ Written("irq")' = MessagesOf(irqs)'
    <3> HAVE ~loopback
    <3>1. Written("irq") = MessagesOf(irqs)
      BY DEF SInv
    <3>2. wire \o fifo \in Seq(Entries)
      BY DEF SInv, TypeOK, Entries
    <3>3. By("irq", wire \o fifo) \in Seq(Printed)
      BY <3>2, BySeq
    <3>4. By("irq", wire \o fifo) = MessagesOf(irqs)
      BY <2>3, <3>1, <3>3 DEF Written
    <3>5. Written("irq")' = By("irq", wire \o fifo) \o KeyboardMessage
      BY <2>1, <2>4 DEF Written
    <3>6. Written("kmain")' = Written("kmain")
      BY <2>1, <2>4 DEF Written
    <3> QED  BY <2>7, <3>4, <3>5, <3>6
  <2>9. \A w \in Writers : polled'[w] => left'[w] # <<>>
    BY <2>1, <2>2, <2>3, <2>4 DEF SInv, Writers
  <2> QED  BY <2>1, <2>4, <2>6, <2>8, <2>9 DEF SInv
<1>2. CASE Return
  <2>1. /\ handling /\ left["irq"] = <<>> /\ handling' = FALSE
        /\ capacity' = capacity /\ fifo' = fifo /\ loopback' = loopback
        /\ received' = received /\ wire' = wire /\ stage' = stage /\ call' = call
        /\ left' = left /\ polled' = polled /\ irqs' = irqs
    BY <1>2 DEF Return, uart
  <2>2. TypeOK'
    <3>1. Printed' = Printed
      BY <2>1 DEF Printed
    <3> QED  BY <2>1, <3>1 DEF SInv, TypeOK
  <2>3. \A w \in Writers : Written(w)' = Written(w)
    BY <2>1 DEF Written
  <2>4. MessagesOf(irqs)' = MessagesOf(irqs)
    BY <2>1
  <2> QED  BY <1>0, <2>1, <2>2, <2>3, <2>4 DEF SInv
<1> QED  BY <1>1, <1>2

LEMMA SInvWriter == ASSUME IInv, SInv, NEW w \in Writers, Poll(w) \/ Write(w) PROVE SInv'
<1>0. "kmain" \in Writers /\ "irq" \in Writers /\ "kmain" # "irq"
  BY DEF Writers
<1>1. CASE Poll(w)
  <2>1. /\ left[w] # <<>> /\ polled' = [polled EXCEPT ![w] = TRUE]
        /\ capacity' = capacity /\ fifo' = fifo /\ loopback' = loopback
        /\ received' = received /\ wire' = wire /\ stage' = stage /\ call' = call
        /\ left' = left /\ handling' = handling /\ irqs' = irqs
    BY <1>1 DEF Poll, uart
  <2>2. TypeOK'
    <3>1. Printed' = Printed
      BY <2>1 DEF Printed
    <3> QED  BY <2>1, <3>1 DEF SInv, TypeOK
  <2>3. \A v \in Writers : Written(v)' = Written(v)
    BY <2>1 DEF Written
  <2>4. \A v \in Writers : polled'[v] => left'[v] # <<>>
    BY <2>1 DEF SInv, TypeOK
  <2>5. MessagesOf(irqs)' = MessagesOf(irqs)
    BY <2>1
  <2> QED  BY <1>0, <2>1, <2>2, <2>3, <2>4, <2>5 DEF SInv
<1>2. CASE Write(w)
  <2> DEFINE e == [by |-> w, char |-> Head(left[w])]
  <2>1. /\ Runs(w) /\ polled[w]
        /\ left' = [left EXCEPT ![w] = Tail(left[w])]
        /\ polled' = [polled EXCEPT ![w] = FALSE]
        /\ capacity' = capacity /\ loopback' = loopback
        /\ received' = received /\ wire' = wire /\ stage' = stage /\ call' = call
        /\ handling' = handling /\ irqs' = irqs
        /\ fifo' = IF Len(fifo) < capacity THEN Append(fifo, e) ELSE fifo
    BY <1>2 DEF Write, Out
  <2>2. fifo' = Append(fifo, e)
    <3>1. Len(fifo) < capacity
      BY <2>1, InvNoOverrun DEF NoOverrun
    <3> QED  BY <2>1, <3>1
  <2>3. /\ left \in [Writers -> Seq(Printed)] /\ left[w] # <<>>
        /\ polled \in [Writers -> BOOLEAN]
    BY <2>1 DEF SInv, TypeOK
  <2>4. Head(left[w]) \in Printed /\ Tail(left[w]) \in Seq(Printed) /\ left[w] \in Seq(Printed)
    BY <2>3
  <2>5. /\ e \in Entries /\ e.by = w /\ e.char = Head(left[w]) /\ e.char # TestByte
    BY <2>4, ThePrinted DEF Entries
  <2>6. /\ left' \in [Writers -> Seq(Printed)] /\ left'[w] = Tail(left[w])
        /\ \A v \in Writers \ {w} : left'[v] = left[v]
    BY <2>1, <2>3, <2>4
  <2>7. fifo \in Seq(Entries) /\ wire \in Seq(Entries) /\ wire \o fifo \in Seq(Entries)
    BY DEF SInv, TypeOK, Entries
  <2> HIDE DEF e
  <2>8. fifo' \in Seq(Entries) /\ wire' \o fifo' = Append(wire \o fifo, e)
    <3>1. fifo' = fifo \o <<e>> /\ <<e>> \in Seq(Entries)
      BY <2>2, <2>5, <2>7
    <3>2. wire \o (fifo \o <<e>>) = (wire \o fifo) \o <<e>>
      BY <2>7, <3>1, ConcatAssociative
    <3>3. (wire \o fifo) \o <<e>> = Append(wire \o fifo, e)
      BY <2>5, <2>7, AppendIsConcat
    <3>4. fifo' \in Seq(Entries)
      BY <2>7, <3>1
    <3> QED  BY <2>1, <3>1, <3>2, <3>3, <3>4
  <2>9. TypeOK'
    <3>1. Printed' = Printed
      BY <2>1 DEF Printed
    <3> QED  BY <2>1, <2>6, <2>8, <3>1 DEF SInv, TypeOK, Entries
  <2>10. Written(w)' = Written(w)
    <3>1. By(w, wire \o fifo) \in Seq(Printed)
      BY <2>7, BySeq
    <3>2. By(w, Append(wire \o fifo, e)) = Append(By(w, wire \o fifo), Head(left[w]))
      BY <2>5, <2>7, ByAppend
    <3>3. Append(By(w, wire \o fifo), Head(left[w])) \o Tail(left[w]) = By(w, wire \o fifo) \o left[w]
      BY <2>3, <2>4, <3>1, GoesOut
    <3>4. Written(w)' = By(w, wire' \o fifo') \o left'[w]
      BY DEF Written
    <3> QED  BY <2>6, <2>8, <3>2, <3>3, <3>4 DEF Written
  <2>11. \A v \in Writers \ {w} : Written(v)' = Written(v)
    <3> TAKE v \in Writers \ {w}
    <3>1. By(v, Append(wire \o fifo, e)) = By(v, wire \o fifo)
      BY <2>5, <2>7, ByAppend
    <3>2. Written(v)' = By(v, wire' \o fifo') \o left'[v]
      BY DEF Written
    <3> QED  BY <2>6, <2>8, <3>1, <3>2 DEF Written
  <2>12. \A v \in Writers : polled'[v] => left'[v] # <<>>
    BY <2>1, <2>3, <2>6 DEF SInv
  <2>13. stage \in {"ready", "printing"}
    BY <2>1 DEF IInv
  <2>14. ~handling' => left'["irq"] = <<>>
    BY <1>0, <2>1, <2>6 DEF SInv, Runs
  <2>15. stage' # "printing" => left'["kmain"] = <<>>
    <3> HAVE stage' # "printing"
    <3>1. left["kmain"] = <<>>
      BY <2>1 DEF SInv
    <3> QED  BY <1>0, <2>3, <2>6, <3>1
  <2>16. Written("kmain")' = Written("kmain") /\ Written("irq")' = Written("irq")
    BY <1>0, <2>10, <2>11
  <2>17. MessagesOf(irqs)' = MessagesOf(irqs)
    BY <2>1
  <2> QED  BY <2>1, <2>9, <2>12, <2>13, <2>14, <2>15, <2>16, <2>17 DEF SInv
<1> QED  BY <1>1, <1>2

\* Everything is of its type, and with the test passed nothing is lost,
\* doubled or out of order, however the writers cut in on each other.
LEMMA SInvHolds == Spec => []SInv
<1>1. IInv /\ SInv /\ [Next]_vars => SInv'
  <2> SUFFICES ASSUME IInv, SInv, [Next]_vars PROVE SInv'
    OBVIOUS
  <2>1. CASE UNCHANGED vars
    <3>1. /\ capacity' = capacity /\ fifo' = fifo /\ loopback' = loopback
          /\ received' = received /\ wire' = wire /\ stage' = stage /\ call' = call
          /\ left' = left /\ polled' = polled /\ handling' = handling /\ irqs' = irqs
      BY <2>1 DEF vars, uart, kernel
    <3>2. Written("kmain")' = Written("kmain") /\ Written("irq")' = Written("irq")
      BY <3>1 DEF Written
    <3>3. TypeOK'
      <4>1. Printed' = Printed
        BY <3>1 DEF Printed
      <4> QED  BY <3>1, <4>1 DEF SInv, TypeOK
    <3>4. MessagesOf(irqs)' = MessagesOf(irqs)
      BY <3>1
    <3> QED  BY <3>1, <3>2, <3>3, <3>4 DEF SInv
  <2> QED  BY <2>1, SInvTransmit, SInvTest, SInvPrintf, SInvHandler, SInvWriter DEF Next
<1>2. IInv /\ [Next]_vars => IInv'
  <2>1. IInv /\ UNCHANGED vars => IInv'
    BY DEF IInv, vars, uart, kernel
  <2> QED  BY <2>1, TransmitInv, WriterInv, OtherInv DEF Next
<1> QED  BY <1>1, <1>2, InitInv, SInvInit, PTL DEF Spec

\* Every variable has its type.
THEOREM SerialTypes == Spec => []TypeOK
BY InvNothingLost, SInvHolds, PTL

\* When the loopback test was passed, every character goes out once, each
\* writer's in the order in which it wrote them, however they interleave.
THEOREM SerialLosesNothing == Spec => []NothingLost
BY InvNothingLost, SInvHolds, PTL

----------------------------------------------------------------------------
(* What a number is read back as.                                          *)

LEMMA SmallRest == ASSUME NEW n \in Nat, NEW m \in Nat, n < m PROVE n % m = n
OBVIOUS

\* A text of three parts, the last three characters long, can be taken apart.
LEMMA PartsOf ==
    ASSUME NEW S, NEW p \in Seq(S), NEW d \in Seq(S), NEW t \in Seq(S), Len(t) = 3
    PROVE  /\ SubSeq((p \o d) \o t, 1, Len(p)) = p
           /\ SubSeq((p \o d) \o t, Len(p) + 1, Len((p \o d) \o t) - 3) = d
<1> DEFINE w == (p \o d) \o t
           a == SubSeq(w, 1, Len(p))
           b == SubSeq(w, Len(p) + 1, Len(w) - 3)
<1>1. PICK n \in Nat, m \in Nat : n = Len(p) /\ m = Len(d)
  OBVIOUS
<1>2. /\ p \o d \in Seq(S) /\ Len(p \o d) = n + m
      /\ \A i \in 1..(n + m) : (p \o d)[i] = IF i <= n THEN p[i] ELSE d[i - n]
  BY <1>1, ConcatProperties
<1>3. /\ w \in Seq(S) /\ Len(w) = n + m + 3
      /\ \A i \in 1..(n + m + 3) : w[i] = IF i <= n + m THEN (p \o d)[i] ELSE t[i - (n + m)]
  <2> DEFINE v == p \o d
  <2>1. v \in Seq(S) /\ Len(v) = n + m
    BY <1>2
  <2> HIDE DEF v
  <2>2. /\ v \o t \in Seq(S) /\ Len(v \o t) = Len(v) + Len(t)
        /\ \A i \in 1..(Len(v) + Len(t)) : (v \o t)[i] =
              IF i <= Len(v) THEN v[i] ELSE t[i - Len(v)]
    BY <2>1, ConcatProperties
  <2>3. w = v \o t
    BY DEF v
  <2> HIDE DEF w
  <2>4. /\ w \in Seq(S) /\ Len(w) = n + m + 3
        /\ \A i \in 1..(n + m + 3) : w[i] = IF i <= n + m THEN v[i] ELSE t[i - (n + m)]
    BY <1>1, <2>1, <2>2, <2>3
  <2> QED  BY <2>4 DEF v
<1> HIDE DEF w
<1>4. \A i \in 1..(n + m) : w[i] = (IF i <= n THEN p[i] ELSE d[i - n]) /\ w[i] \in S
  BY <1>1, <1>2, <1>3
<1>5. a = p
  <2>1. a \in Seq(S) /\ Len(a) = n /\ \A i \in 1..n : a[i] = w[1 + i - 1]
    <3>1. \A i \in 1..n : w[i] \in S
      BY <1>1, <1>4
    <3>2. /\ SubSeq(w, 1, n) \in Seq(S) /\ Len(SubSeq(w, 1, n)) = IF 1 <= n THEN n - 1 + 1 ELSE 0
          /\ \A i \in 1..(n - 1 + 1) : SubSeq(w, 1, n)[i] = w[1 + i - 1]
      BY <1>1, <3>1, SubSeqProperties
    <3> QED  BY <1>1, <3>2
  <2>2. \A i \in 1..n : a[i] = p[i]
    BY <1>1, <1>4, <2>1
  <2> HIDE DEF a
  <2> QED  BY <1>1, <2>1, <2>2, SeqEqual
<1>6. b = d
  <2>1. PICK f \in Int, g \in Int : f = n + 1 /\ g = n + m
    BY <1>1
  <2>2. b = SubSeq(w, f, g)
    BY <1>1, <1>3, <2>1
  <2>3. \A i \in f..g : w[i] \in S
    BY <1>1, <1>4, <2>1
  <2>4. /\ b \in Seq(S) /\ Len(b) = IF f <= g THEN g - f + 1 ELSE 0
        /\ \A i \in 1..(g - f + 1) : b[i] = w[f + i - 1]
    <3> HIDE DEF b
    <3>1. /\ SubSeq(w, f, g) \in Seq(S)
          /\ Len(SubSeq(w, f, g)) = IF f <= g THEN g - f + 1 ELSE 0
          /\ \A i \in 1..(g - f + 1) : SubSeq(w, f, g)[i] = w[f + i - 1]
      BY <2>3, SubSeqProperties
    <3> QED  BY <2>2, <3>1
  <2> HIDE DEF b
  <2>5. Len(b) = m /\ g - f + 1 = m
    BY <1>1, <2>1, <2>4
  <2>6. \A i \in 1..m : b[i] = d[i]
    <3> TAKE i \in 1..m
    <3>1. PICK j \in Nat : j = n + i
      BY <1>1
    <3>2. j \in 1..(n + m) /\ j = f + i - 1 /\ ~(j <= n) /\ j - n = i
      BY <1>1, <2>1, <3>1
    <3> QED  BY <1>4, <2>4, <2>5, <3>2
  <2> QED  BY <1>1, <2>4, <2>5, <2>6, SeqEqual
<1> QED  BY <1>5, <1>6 DEF w

\* What comes before the digits, the base, and the digits themselves.
Before(c) == IF c.conv = "p" THEN <<"0x">> \o CRLF ELSE IF c.arg < 0 THEN <<"-">> ELSE <<>>
BaseOf(c) == IF c.conv \in {"d", "i", "u"} THEN 10 ELSE 16
Magnitude(c) == IF c.arg < 0 THEN -c.arg ELSE c.arg % IntMod
DigitsOf(c) ==
    LET str == uint_to_string(Magnitude(c), BaseOf(c))
    IN  IF c.conv = "X" THEN UpperCase(str) ELSE str

LEMMA NumberIs ==
    ASSUME NEW c \in Calls, c.conv \notin {"s", "c", "%", "zu"}, c.arg # IntMin
    PROVE  /\ Before(c) \in Seq(Chars)
           /\ DigitsOf(c) \in Seq(Chars)
           /\ Value(DigitsOf(c), BaseOf(c)) = Magnitude(c)
           /\ Converted(c) = (Before(c) \o DigitsOf(c)) \o CRLF
<1>1. c.conv \in {"d", "i", "u", "x", "X", "p"} /\ c.arg \in Int
  BY CallIs DEF Conversions
<1>2. IntMod \in Nat \ {0}
  BY SerialAssumption
<1>3. c.conv # "p" /\ ~(c.arg < 0) => Magnitude(c) = c.arg
  <2> HAVE c.conv # "p" /\ ~(c.arg < 0)
  <2>1. c.arg \in Nat /\ c.arg < IntMod
    BY <1>1, CallIs
  <2> QED  BY <1>2, <2>1, SmallRest DEF Magnitude
<1>4. c.arg < 0 => c.conv \in {"d", "i"}
  BY <1>1, CallIs
<1>5. Magnitude(c) \in Nat
  BY <1>1, <1>2 DEF Magnitude
<1>6. BaseOf(c) \in {10, 16} /\ (c.conv = "X" => BaseOf(c) = 16)
  BY DEF BaseOf
<1> DEFINE u == uint_to_string(Magnitude(c), BaseOf(c))
<1>7. u \in Seq(HexDigits) /\ Value(u, BaseOf(c)) = Magnitude(c)
  BY <1>5, <1>6, UintSeq, ValueOfUint
<1>8. UpperCase(u) \in Seq(Numerals) /\ Value(UpperCase(u), 16) = Value(u, 16)
  <2> HIDE DEF u
  <2> QED  BY <1>7, UpperCaseIs
<1>9. DigitsOf(c) = IF c.conv = "X" THEN UpperCase(u) ELSE u
  BY DEF DigitsOf
<1>10. u \in Seq(Chars) /\ UpperCase(u) \in Seq(Chars)
  <2> HIDE DEF u
  <2> QED  BY <1>7, <1>8, TheChars
<1>11. CRLF \in Seq(Chars) /\ <<"0x">> \in Seq(Chars) /\ <<"-">> \in Seq(Chars) /\ <<>> \in Seq(Chars)
  BY DEF CRLF, Chars
<1>12. Before(c) \in Seq(Chars)
  <2>1. <<"0x">> \o CRLF \in Seq(Chars)
    BY <1>11
  <2> QED  BY <1>11, <2>1 DEF Before
<1>13. DigitsOf(c) \in Seq(Chars)
  BY <1>9, <1>10
<1>14. Value(DigitsOf(c), BaseOf(c)) = Magnitude(c)
  <2> HIDE DEF u
  <2> QED  BY <1>6, <1>7, <1>8, <1>9
<1>15. Converted(c) = (Before(c) \o DigitsOf(c)) \o CRLF
  <2>1. CASE c.conv = "p"
    <3>1. Converted(c) = (<<"0x">> \o CRLF) \o (uint_to_string(c.arg % IntMod, 16) \o CRLF)
      BY <2>1 DEF Converted, write_serial
    <3>2. ~(c.arg < 0)
      BY <1>4, <2>1
    <3>3. Magnitude(c) = c.arg % IntMod /\ BaseOf(c) = 16
      BY <2>1, <3>2 DEF Magnitude, BaseOf
    <3>4. Before(c) = <<"0x">> \o CRLF /\ DigitsOf(c) = u
      BY <1>9, <2>1 DEF Before
    <3>5. Converted(c) = Before(c) \o (DigitsOf(c) \o CRLF)
      BY <3>1, <3>3, <3>4
    <3> QED  BY <1>11, <1>12, <1>13, <3>5, ConcatAssociative
  <2>2. CASE c.conv # "p" /\ c.arg < 0
    <3>1. c.conv \in {"d", "i"}
      BY <1>4, <2>2
    <3>2. Converted(c) = (<<"-">> \o uint_to_string(-c.arg, 10)) \o CRLF
      BY <2>2, <3>1 DEF Converted, write_serial, int_to_string
    <3>3. Before(c) = <<"-">> /\ Magnitude(c) = -c.arg /\ BaseOf(c) = 10
      BY <2>2, <3>1 DEF Before, Magnitude, BaseOf
    <3>4. DigitsOf(c) = u
      BY <1>9, <3>1
    <3> QED  BY <3>2, <3>3, <3>4
  <2>3. CASE c.conv # "p" /\ ~(c.arg < 0)
    <3>1. Before(c) = <<>> /\ Magnitude(c) = c.arg
      BY <1>3, <2>3 DEF Before
    <3>2. <<>> \o DigitsOf(c) = DigitsOf(c)
      BY <1>13
    <3>3. CASE c.conv \in {"d", "i", "u"}
      <4>1. Converted(c) = uint_to_string(c.arg, 10) \o CRLF
        BY <2>3, <3>3 DEF Converted, write_serial, int_to_string
      <4>2. BaseOf(c) = 10 /\ DigitsOf(c) = u
        BY <1>9, <3>3 DEF BaseOf
      <4> QED  BY <3>1, <3>2, <4>1, <4>2
    <3>4. CASE c.conv = "x"
      <4>1. Converted(c) = uint_to_string(c.arg, 16) \o CRLF
        BY <3>4 DEF Converted, write_serial
      <4>2. BaseOf(c) = 16 /\ DigitsOf(c) = u
        BY <1>9, <3>4 DEF BaseOf
      <4> QED  BY <3>1, <3>2, <4>1, <4>2
    <3>5. CASE c.conv = "X"
      <4>1. Converted(c) = UpperCase(uint_to_string(c.arg, 16)) \o CRLF
        BY <3>5 DEF Converted, write_serial
      <4>2. BaseOf(c) = 16 /\ DigitsOf(c) = UpperCase(u)
        BY <1>9, <3>5 DEF BaseOf
      <4> QED  BY <3>1, <3>2, <4>1, <4>2
    <3> QED  BY <1>1, <2>3, <3>3, <3>4, <3>5
  <2> QED  BY <2>1, <2>2, <2>3
<1> QED  BY <1>12, <1>13, <1>14, <1>15

LEMMA Assoc ==
    ASSUME NEW s \in Seq(Chars), NEW t \in Seq(Chars), NEW u \in Seq(Chars)
    PROVE  (s \o t) \o u = s \o (t \o u)
<1> DEFINE S == Chars
<1>1. s \in Seq(S) /\ t \in Seq(S) /\ u \in Seq(S)
  OBVIOUS
<1> HIDE DEF S
<1> QED  BY <1>1, ConcatAssociative

LEMMA InvReadsBack == SInv => ReadsBack
<1> SUFFICES ASSUME SInv, stage = "printing", ~loopback,
                    call.conv \notin {"s", "c", "%", "zu"}, call.arg # IntMin
             PROVE  LET written == Written("kmain")
                        prefix == <<"[">> \o IF call.conv = "p" THEN <<"0x">> \o CRLF
                                             ELSE IF call.arg < 0 THEN <<"-">> ELSE <<>>
                        base == IF call.conv \in {"d", "i", "u"} THEN 10 ELSE 16
                        digits == SubSeq(written, Len(prefix) + 1, Len(written) - 3)
                    IN  /\ SubSeq(written, 1, Len(prefix)) = prefix
                        /\ call.conv = "d" =>
                              written = <<"[">> \o write_serial(to_string(call.arg)) \o <<"]">>
                        /\ Value(digits, base)
                              = IF call.arg < 0 THEN -call.arg ELSE call.arg % IntMod
  BY DEF ReadsBack
<1> DEFINE written == Written("kmain")
           prefix == <<"[">> \o Before(call)
           text == DigitsOf(call)
           end == CRLF \o <<"]">>
           digits == SubSeq(written, Len(prefix) + 1, Len(written) - 3)
<1>1. call \in Calls /\ written = serial_printf(call)
  BY DEF SInv, TypeOK
<1>2. /\ Before(call) \in Seq(Chars) /\ text \in Seq(Chars)
      /\ Value(text, BaseOf(call)) = Magnitude(call)
      /\ Converted(call) = (Before(call) \o text) \o CRLF
  BY <1>1, NumberIs
<1>3. written = (<<"[">> \o ((Before(call) \o text) \o CRLF)) \o <<"]">>
  BY <1>1, <1>2 DEF serial_printf
<1>4. CRLF \in Seq(Chars) /\ <<"[">> \in Seq(Chars) /\ <<"]">> \in Seq(Chars) /\ Len(end) = 3
  BY DEF CRLF, Chars
<1>5. written = (prefix \o text) \o end
  <2> HIDE DEF written
  <2> DEFINE o == <<"[">>
             b == Before(call)
             d == text
             e == CRLF
             c == <<"]">>
             x == b \o d
  <2>1. o \in Seq(Chars) /\ b \in Seq(Chars) /\ d \in Seq(Chars)
    BY <1>2, <1>4
  <2>2. e \in Seq(Chars) /\ c \in Seq(Chars)
    BY <1>4
  <2>3. written = (o \o (x \o e)) \o c
    BY <1>3
  <2> HIDE DEF o, b, d, e, c
  <2>4. x \in Seq(Chars) /\ (o \o b) \o d = o \o x
    <3>1. b \o d \in Seq(Chars)
      BY <2>1, ConcatProperties
    <3>2. (o \o b) \o d = o \o (b \o d)
      BY <2>1, Assoc, Zenon
    <3> QED  BY <3>1, <3>2
  <2> HIDE DEF x
  <2>5. (o \o (x \o e)) \o c = (o \o x) \o (e \o c)
    <3> DEFINE ox == o \o x
    <3>1. o \in Seq(Chars) /\ x \in Seq(Chars)
      BY <2>1, <2>4
    <3>2. ox \o e = o \o (x \o e)
      BY <2>2, <3>1, Assoc
    <3>3. ox \in Seq(Chars) /\ ox = o \o x
      BY <3>1, ConcatProperties
    <3> HIDE DEF ox
    <3>4. (ox \o e) \o c = ox \o (e \o c)
      BY <2>2, <3>3, Assoc, Zenon
    <3> QED  BY <3>2, <3>3, <3>4
  <2>6. written = ((o \o b) \o d) \o (e \o c)
    BY <2>3, <2>4, <2>5
  <2> QED  BY <2>6 DEF o, b, d, e, c
<1>6. prefix \in Seq(Chars) /\ end \in Seq(Chars)
  BY <1>2, <1>4
<1>7. SubSeq(written, 1, Len(prefix)) = prefix /\ digits = text
  <2> HIDE DEF prefix, text, end, written
  <2>1. /\ SubSeq((prefix \o text) \o end, 1, Len(prefix)) = prefix
        /\ SubSeq((prefix \o text) \o end, Len(prefix) + 1, Len((prefix \o text) \o end) - 3) = text
    BY <1>2, <1>4, <1>6, PartsOf
  <2> QED  BY <1>5, <2>1, Zenon
<1>8. call.conv = "d" => written = <<"[">> \o write_serial(to_string(call.arg)) \o <<"]">>
  <2> HAVE call.conv = "d"
  <2>1. call.arg \in Int
    BY <1>1, CallIs
  <2>2. to_string(call.arg) = int_to_string(call.arg, call.garbled, 10)
    BY <2>1, ToStringIs
  <2>3. Converted(call) = write_serial(int_to_string(call.arg, call.garbled, 10))
    BY DEF Converted
  <2> QED  BY <1>1, <2>2, <2>3 DEF serial_printf
<1>9. Value(digits, BaseOf(call)) = Magnitude(call)
  <2> HIDE DEF digits, text
  <2> QED  BY <1>2, <1>7
<1> HIDE DEF text
<1> QED  BY <1>7, <1>8, <1>9 DEF Before, BaseOf, Magnitude

\* Whoever reads a number off the port reads the argument that was printed,
\* unless that is INT_MIN, and to_string, the other conversion of an int, gives
\* the same text.
THEOREM SerialReadsBack == Spec => []ReadsBack
BY InvReadsBack, SInvHolds, PTL

=============================================================================
