----------------------------- MODULE RTCProofs ------------------------------
(***************************************************************************)
(* Proofs about the clock for minutes and hours of any length up to two    *)
(* digits, any junk and any place an update may fall in: the double        *)
(* reading is of one instant, and it is displayed rightly.                 *)
(***************************************************************************)
EXTENDS RTC, TLAPS

\* Registers as a function of the mode bits too.
Regs(b, h, t) ==
    LET stored(n) == IF b THEN n ELSE 16 * (n \div 10) + (n % 10)
    IN  <<stored(t.second), stored(t.minute),
          IF h THEN stored(t.hour)
          ELSE stored(Dial(t.hour)) + (IF t.hour >= 12 THEN 128 ELSE 0)>>

Current == Regs(binary, hours24, time)

\* The readings so far are what the registers hold now.
Agrees(r) == \A k \in 1..Len(r) : r[k] = Current[k]

\* An update ended in this body, so that no other one comes before its end.
Quiet == phase = "idle" /\ bodies = 0

Genuine(r) == \E t \in shown : r = Regs(binary, hours24, t)

\* How much of either reading is there at each place.
Lengths ==
    /\ (\E S : last \in Seq(S)) /\ (\E S : now \in Seq(S))
    /\ pc \in {"wait", "last", "between", "now", "compare", "done"}
    /\ pc = "wait" => last = <<>> /\ now = <<>>
    /\ pc = "last" => Len(last) < 3 /\ now = <<>>
    /\ pc = "between" => Len(last) = 3 /\ now = <<>>
    /\ pc = "now" => Len(last) = 3 /\ Len(now) < 3
    /\ pc = "compare" => Len(last) = 3 /\ Len(now) = 3

\* The first reading is right unless an update has come since the body began;
\* if one has, it is over when the second one begins and that one is right.
\* In between only the first may be.
ReadingInv ==
    /\ Lengths
    /\ phase \in {"idle", "announced", "update"}
    /\ pc # "done" => time \in shown
    /\ pc \in {"last", "between"} => phase = "update" \/ Quiet \/ Agrees(last)
    /\ pc \in {"now", "compare"} => Genuine(last) \/ (Quiet /\ Agrees(now))
    /\ pc = "done" => Genuine(now)

----------------------------------------------------------------------------

LEMMA RegistersAre == \A t : Registers(t) = Regs(binary, hours24, t)
  BY DEF Registers, Stored, Regs

LEMMA RegsLen ==
    ASSUME NEW b, NEW h, NEW t
    PROVE  Len(Regs(b, h, t)) = 3 /\ \E S : Regs(b, h, t) \in Seq(S)
<1>1. \A x, y, z : Len(<<x, y, z>>) = 3 /\ <<x, y, z>> \in Seq({x, y, z})
  OBVIOUS
<1>2. \E x, y, z : Regs(b, h, t) = <<x, y, z>>
  BY Zenon DEF Regs
<1>3. PICK x, y, z : Regs(b, h, t) = <<x, y, z>>
  BY <1>2
<1>4. Len(Regs(b, h, t)) = 3
  BY <1>1, <1>3
<1>5. Regs(b, h, t) \in Seq({x, y, z})
  BY <1>1, <1>3
<1> QED  BY <1>4, <1>5

LEMMA SeqsEqual ==
    ASSUME NEW p, NEW q, \E S : p \in Seq(S), \E S : q \in Seq(S), Len(p) = 3, Len(q) = 3,
           \A k \in 1..3 : p[k] = q[k]
    PROVE  p = q
<1>1. /\ p = [k \in 1..Len(p) |-> p[k]]
      /\ q = [k \in 1..Len(q) |-> q[k]]
  OBVIOUS
<1> QED  BY <1>1

\* A reading that is complete and agrees is the time that is shown.
LEMMA AgreesIsGenuine ==
    ASSUME NEW r, \E S : r \in Seq(S), Len(r) = 3, Agrees(r), time \in shown
    PROVE  Genuine(r)
<1>1. \A k \in 1..3 : r[k] = Current[k]
  BY DEF Agrees
<1>2. r = Current
  BY <1>1, RegsLen, SeqsEqual DEF Current
<1> QED  BY <1>2 DEF Genuine, Current

LEMMA AppendIs ==
    ASSUME NEW r, NEW v, \E S : r \in Seq(S)
    PROVE  /\ \E S : Append(r, v) \in Seq(S)
           /\ Len(Append(r, v)) = Len(r) + 1 /\ Len(r) \in Nat
           /\ \A k \in 1..Len(r) : Append(r, v)[k] = r[k]
           /\ Append(r, v)[Len(r) + 1] = v
<1>1. PICK S : r \in Seq(S)
  OBVIOUS
<1>2. r \in Seq(S \cup {v})
  BY <1>1
<1>3. /\ Append(r, v) \in Seq(S \cup {v})
      /\ Len(Append(r, v)) = Len(r) + 1 /\ Len(r) \in Nat
      /\ \A k \in 1..Len(r) : Append(r, v)[k] = r[k]
      /\ Append(r, v)[Len(r) + 1] = v
  BY <1>2
<1> QED  BY <1>3

\* A register read while no update lasts keeps a reading in agreement.
LEMMA ReadAgrees ==
    ASSUME NEW r, \E S : r \in Seq(S), NEW v \in Readings(Len(r) + 1), phase # "update", Agrees(r)
    PROVE  Agrees(Append(r, v))
<1>1. v = Current[Len(r) + 1]
  BY RegistersAre DEF Readings, Current
<1> QED  BY <1>1, AppendIs DEF Agrees

LEMMA EmptySeq == Len(<<>>) = 0 /\ \E S : <<>> \in Seq(S)
  OBVIOUS

LEMMA ReadingInit == Init => ReadingInv
  BY EmptySeq DEF Init, ReadingInv, Lengths, Agrees

LEMMA AnnounceStep == ReadingInv /\ Announce => ReadingInv'
<1> SUFFICES ASSUME ReadingInv, Announce PROVE ReadingInv'
  OBVIOUS
<1> USE DEF Announce, ReadingInv, readerVars, modeVars
<1>1. Lengths'
  BY DEF Lengths
<1>2. phase' = "announced" /\ (pc # "done" => ~Quiet)
  BY DEF Quiet
<1>3. /\ Agrees(last) => Agrees(last)'
      /\ Genuine(last) => Genuine(last)'
      /\ Genuine(now) => Genuine(now)'
  BY DEF Agrees, Genuine, Current
<1> QED  BY <1>1, <1>2, <1>3

LEMMA BeginUpdateStep == ReadingInv /\ BeginUpdate => ReadingInv'
<1> SUFFICES ASSUME ReadingInv, BeginUpdate PROVE ReadingInv'
  OBVIOUS
<1> USE DEF BeginUpdate, ReadingInv, readerVars, modeVars
<1>1. Lengths'
  BY DEF Lengths
<1>2. phase' = "update" /\ ~Quiet
  BY DEF Quiet
<1>3. /\ Genuine(last) => Genuine(last)'
      /\ Genuine(now) => Genuine(now)'
  BY DEF Genuine
<1> QED  BY <1>1, <1>2, <1>3

LEMMA EndUpdateStep == ReadingInv /\ EndUpdate => ReadingInv'
<1> SUFFICES ASSUME ReadingInv, EndUpdate PROVE ReadingInv'
  OBVIOUS
<1> USE DEF EndUpdate, ReadingInv, readerVars, modeVars
<1>1. Lengths'
  BY DEF Lengths
<1>2. phase' = "idle" /\ Quiet' /\ ~Quiet /\ shown \subseteq shown'
  BY DEF Quiet
<1>3. /\ Genuine(last) => Genuine(last)'
      /\ Genuine(now) => Genuine(now)'
  BY <1>2 DEF Genuine
<1>4. pc' # "done" => time' \in shown'
  OBVIOUS
<1> QED  BY <1>1, <1>2, <1>3, <1>4

LEMMA WaitStep == ReadingInv /\ wait_for_rtc_update => ReadingInv'
<1> SUFFICES ASSUME ReadingInv, wait_for_rtc_update PROVE ReadingInv'
  OBVIOUS
<1> USE DEF wait_for_rtc_update, ReadingInv, clockVars, modeVars
<1>1. Lengths'
  BY EmptySeq DEF Lengths
<1>2. /\ Agrees(last) => Agrees(last)'
      /\ Agrees(now) => Agrees(now)'
      /\ Genuine(last) => Genuine(last)'
      /\ Quiet => Quiet'
  BY DEF Agrees, Genuine, Current, Quiet
<1>3. CASE pc = "wait"
  <2>1. Agrees(last)
    BY <1>3, EmptySeq DEF Agrees, Lengths
  <2> QED  BY <1>1, <1>2, <1>3, <2>1
<1>4. CASE pc = "between"
  <2>1. Agrees(now)
    BY <1>4, EmptySeq DEF Agrees, Lengths
  <2>2. Agrees(last) => Genuine(last)
    BY <1>4, AgreesIsGenuine DEF Lengths
  <2> QED  BY <1>1, <1>2, <1>4, <2>1, <2>2
<1> QED  BY <1>3, <1>4

LEMMA ReadStep == ReadingInv /\ read_rtc_register => ReadingInv'
<1> SUFFICES ASSUME ReadingInv, read_rtc_register PROVE ReadingInv'
  OBVIOUS
<1> USE DEF ReadingInv, clockVars, modeVars
<1>0. UNCHANGED <<time, phase, binary, hours24, shown, bodies>>
  BY DEF read_rtc_register
<1>1. CASE pc = "last"
  <2>1. PICK v \in Readings(Len(last) + 1) : last' = Append(last, v)
    BY <1>1 DEF read_rtc_register
  <2>2. now' = now /\ pc' = IF Len(last) = 2 THEN "between" ELSE "last"
    BY <1>1 DEF read_rtc_register, AfterLast
  <2>3. Lengths'
    <3>1. (\E S : last' \in Seq(S)) /\ Len(last') = Len(last) + 1 /\ Len(last) \in Nat
      BY <2>1, AppendIs DEF Lengths
    <3>2. (\E S : now' \in Seq(S))
      BY <2>2 DEF Lengths
    <3>3. Len(last) < 3 /\ now' = <<>>
      BY <1>1, <2>2 DEF Lengths
    <3>4. \/ pc' = "between" /\ Len(last') = 3
          \/ pc' = "last" /\ Len(last') < 3
      <4> DEFINE n == Len(last) m == Len(last')
      <4>1. n \in Nat /\ n < 3 /\ m = n + 1 /\ pc' = IF n = 2 THEN "between" ELSE "last"
        BY <2>2, <3>1, <3>3
      <4> HIDE DEF n, m
      <4>2. (pc' = "between" /\ m = 3) \/ (pc' = "last" /\ m < 3)
        BY <4>1
      <4> QED  BY <4>2 DEF n, m
    <3>5. pc' \notin {"wait", "now", "compare"}
      BY <3>4
    <3> QED  BY <3>1, <3>2, <3>3, <3>4, <3>5, Zenon DEF Lengths
  <2>4. phase # "update" /\ Agrees(last) => Agrees(last')
    BY <2>1, ReadAgrees DEF Lengths
  <2>5. Agrees(last') => Agrees(last)'
    BY <1>0 DEF Agrees, Current
  <2>6. Quiet => Quiet'
    BY <1>0 DEF Quiet
  <2> QED  BY <1>0, <1>1, <2>2, <2>3, <2>4, <2>5, <2>6
<1>2. CASE pc = "now"
  <2>1. PICK v \in Readings(Len(now) + 1) : now' = Append(now, v)
    BY <1>2 DEF read_rtc_register
  <2>2. last' = last /\ pc' = IF Len(now) = 2 THEN "compare" ELSE "now"
    BY <1>2 DEF read_rtc_register
  <2>3. Lengths'
    <3>1. (\E S : now' \in Seq(S)) /\ Len(now') = Len(now) + 1 /\ Len(now) \in Nat
      BY <2>1, AppendIs DEF Lengths
    <3>2. (\E S : last' \in Seq(S))
      BY <2>2 DEF Lengths
    <3>3. Len(now) < 3 /\ Len(last') = 3
      BY <1>2, <2>2 DEF Lengths
    <3>4. \/ pc' = "compare" /\ Len(now') = 3
          \/ pc' = "now" /\ Len(now') < 3
      <4> DEFINE n == Len(now) m == Len(now')
      <4>1. n \in Nat /\ n < 3 /\ m = n + 1 /\ pc' = IF n = 2 THEN "compare" ELSE "now"
        BY <2>2, <3>1, <3>3
      <4> HIDE DEF n, m
      <4>2. (pc' = "compare" /\ m = 3) \/ (pc' = "now" /\ m < 3)
        BY <4>1
      <4> QED  BY <4>2 DEF n, m
    <3>5. pc' \notin {"wait", "last", "between"}
      BY <3>4
    <3> QED  BY <3>1, <3>2, <3>3, <3>4, <3>5, Zenon DEF Lengths
  <2>4. phase # "update" /\ Agrees(now) => Agrees(now')
    BY <2>1, ReadAgrees DEF Lengths
  <2>5. Agrees(now') => Agrees(now)'
    BY <1>0 DEF Agrees, Current
  <2>6. (Quiet => Quiet' /\ phase # "update") /\ (Genuine(last) => Genuine(last)')
    BY <1>0, <2>2 DEF Quiet, Genuine
  <2> QED  BY <1>0, <1>2, <2>2, <2>3, <2>4, <2>5, <2>6
<1> QED  BY <1>1, <1>2 DEF read_rtc_register

LEMMA CompareStep == ReadingInv /\ compare => ReadingInv'
<1> SUFFICES ASSUME ReadingInv, compare PROVE ReadingInv'
  OBVIOUS
<1> USE DEF ReadingInv, clockVars, modeVars
<1>0. pc = "compare" /\ UNCHANGED <<time, phase, binary, hours24>>
  BY DEF compare
<1>1. CASE Differ
  <2>1. pc' = "last" /\ last' = <<>> /\ now' = <<>> /\ shown' = {time}
    BY <1>1 DEF compare
  <2>2. Lengths' /\ Agrees(last)'
    BY <2>1, EmptySeq DEF Lengths, Agrees
  <2> QED  BY <1>0, <2>1, <2>2
<1>2. CASE ~Differ
  <2>1. pc' = "done" /\ last' = <<>> /\ UNCHANGED <<now, shown>>
    BY <1>2 DEF compare
  <2>2. last = now
    BY <1>0, <1>2, SeqsEqual DEF Differ, Lengths
  <2>3. Genuine(now)
    BY <1>0, <2>2, AgreesIsGenuine DEF Lengths
  <2>4. Lengths' /\ Genuine(now)'
    BY <1>0, <2>1, <2>3, EmptySeq DEF Lengths, Genuine
  <2> QED  BY <1>0, <2>1, <2>4
<1> QED  BY <1>1, <1>2

LEMMA ReadingStep == ReadingInv /\ [Next]_vars => ReadingInv'
<1> SUFFICES ASSUME ReadingInv, [Next]_vars PROVE ReadingInv'
  OBVIOUS
<1>1. CASE Next
  BY <1>1, AnnounceStep, BeginUpdateStep, EndUpdateStep, WaitStep, ReadStep, CompareStep
     DEF Next, Reader, Clock
<1>2. CASE UNCHANGED vars
  BY <1>2 DEF vars, clockVars, modeVars, readerVars, ReadingInv, Lengths, Agrees, Quiet,
              Genuine, Current
<1> QED  BY <1>1, <1>2

\* Whatever the registers return during an update and wherever updates and
\* interrupts fall, read_rtc_time returns what the registers held at one instant
\* of its last pass.
THEOREM ReadingIsGenuine == Spec => []NeverTorn
<1>1. ReadingInv => NeverTorn
  BY RegistersAre DEF ReadingInv, Genuine, NeverTorn
<1> QED  BY <1>1, ReadingInit, ReadingStep, PTL DEF Spec

----------------------------------------------------------------------------
(* The conversion.                                                         *)

\* The clock shows times of day, and so it has since the body began.
TimesInv == time \in Times /\ shown \subseteq Times

LEMMA NextTimeIs == ASSUME NEW t \in Times PROVE NextTime(t) \in Times
<1>1. PICK s \in 0..(Seconds - 1), m \in 0..(Minutes - 1), h \in 0..23 :
          t.second = s /\ t.minute = m /\ t.hour = h
  BY DEF Times
<1>2. /\ Seconds \in Nat /\ Seconds > 0 /\ Minutes \in Nat /\ Minutes > 0
      /\ s \in Nat /\ m \in Nat
  BY RTCAssumption
<1>3. (s + 1) \div Seconds \in Nat /\ (s + 1) % Seconds \in 0..(Seconds - 1)
  BY <1>2
<1>4. PICK c \in Nat : c = (s + 1) \div Seconds
  BY <1>3
<1>5. (m + c) \div Minutes \in Nat /\ (m + c) % Minutes \in 0..(Minutes - 1)
  BY <1>2
<1>6. PICK d \in Nat : d = (m + c) \div Minutes
  BY <1>5
<1>7. (h + d) % 24 \in 0..23
  OBVIOUS
<1>8. NextTime(t) = [second |-> (s + 1) % Seconds, minute |-> (m + c) % Minutes,
                     hour |-> (h + d) % 24]
  BY <1>1, <1>4, <1>6 DEF NextTime
<1> QED  BY <1>3, <1>5, <1>7, <1>8 DEF Times

LEMMA TimesHold == Spec => []TimesInv
<1>1. Init => TimesInv
  BY DEF Init, TimesInv
<1>2. TimesInv /\ [Next]_vars => TimesInv'
  <2> SUFFICES ASSUME TimesInv, [Next]_vars PROVE TimesInv'
    OBVIOUS
  <2>1. CASE Announce \/ BeginUpdate
    BY <2>1 DEF Announce, BeginUpdate, TimesInv
  <2>2. CASE EndUpdate
    <3>1. time' = NextTime(time) /\ (shown' = shown \/ shown' = shown \cup {NextTime(time)})
      BY <2>2 DEF EndUpdate
    <3>2. NextTime(time) \in Times
      BY NextTimeIs DEF TimesInv
    <3> QED  BY <3>1, <3>2 DEF TimesInv
  <2>3. CASE wait_for_rtc_update
    BY <2>3 DEF wait_for_rtc_update, clockVars, TimesInv
  <2>4. CASE read_rtc_register
    BY <2>4 DEF read_rtc_register, clockVars, TimesInv
  <2>5. CASE compare
    <3>1. time' = time /\ (shown' = shown \/ shown' = {time})
      BY <2>5 DEF compare, clockVars
    <3> QED  BY <3>1 DEF TimesInv
  <2>6. CASE UNCHANGED vars
    BY <2>6 DEF vars, clockVars, TimesInv
  <2> QED  BY <2>1, <2>2, <2>3, <2>4, <2>5, <2>6 DEF Next, Reader, Clock
<1> QED  BY <1>1, <1>2, PTL DEF Spec

\* Two digits are converted to the number they were made from.
LEMMA BcdIs == \A n \in 0..99 : bcd_to_binary(16 * (n \div 10) + (n % 10)) = n
<1> TAKE n \in 0..99
<1>1. PICK q \in 0..9, r \in 0..9 : q = n \div 10 /\ r = n % 10 /\ n = 10 * q + r
  OBVIOUS
<1>2. PICK b \in Nat : b = 16 * q + r
  OBVIOUS
<1>3. b \div 16 = q /\ b % 16 = r
  BY <1>2
<1>4. (16 * q) \div 2 = 8 * q /\ (16 * q) \div 8 = 2 * q
  OBVIOUS
<1>5. (8 * q + 2 * q + r) % 256 = n
  BY <1>1
<1>6. bcd_to_binary(b) = n
  BY <1>3, <1>4, <1>5 DEF bcd_to_binary
<1> QED  BY <1>1, <1>2, <1>6

LEMMA BinaryIs == \A n \in 0..99 : Binary(Stored(n)) = n
  BY BcdIs DEF Binary, Stored

\* The hour survives the conversion but for 12-hour mode between twelve and one.
LEMMA HourIs ==
    ASSUME NEW t \in Times
    PROVE  /\ Hour(Registers(t)[3]) \in 0..23
           /\ hours24 \/ Dial(t.hour) # 12 => Hour(Registers(t)[3]) = t.hour
<1>1. PICK h \in 0..23 : h = t.hour
  BY DEF Times
<1>2. CASE hours24
  <2>1. Registers(t)[3] = Stored(h)
    BY <1>1, <1>2 DEF Registers
  <2>2. CASE binary
    BY <1>1, <1>2, <2>1, <2>2 DEF Stored, Hour
  <2>3. CASE ~binary
    <3>1. PICK b \in 0..35 : b = 16 * (h \div 10) + (h % 10) /\ bcd_to_binary(b) = h
      <4>1. 16 * (h \div 10) + (h % 10) \in 0..35
        OBVIOUS
      <4> QED  BY <4>1, BcdIs
    <3>2. b % 128 = b /\ ~(b >= 128)
      OBVIOUS
    <3> QED  BY <1>1, <1>2, <2>1, <2>3, <3>1, <3>2 DEF Stored, Hour, Pm
  <2> QED  BY <2>2, <2>3
<1>3. CASE ~hours24
  <2>1. PICK d \in 1..12 : d = Dial(h) /\ (h \in 1..11 => d = h) /\ (h \in 13..23 => d = h - 12)
                              /\ (h \in {0, 12} => d = 12)
    BY DEF Dial
  <2>2. PICK b \in 0..18 : b = Stored(d) /\ (binary => b = d) /\ (~binary => bcd_to_binary(b) = d)
    <3>1. CASE binary
      BY <3>1 DEF Stored
    <3>2. CASE ~binary
      <4>1. 16 * (d \div 10) + (d % 10) \in 0..18
        OBVIOUS
      <4>2. bcd_to_binary(16 * (d \div 10) + (d % 10)) = d
        BY BcdIs
      <4> QED  BY <3>2, <4>1, <4>2 DEF Stored
    <3> QED  BY <3>1, <3>2
  <2>3. CASE h < 12
    <3>1. Registers(t)[3] = b
      BY <1>1, <1>3, <2>1, <2>2, <2>3 DEF Registers
    <3>2. b % 128 = b /\ ~Pm(b) /\ d % 128 = d /\ ~Pm(d)
      BY DEF Pm
    <3>3. Hour(b) = d
      BY <1>3, <2>2, <3>2 DEF Hour
    <3> QED  BY <1>1, <1>3, <2>1, <2>3, <3>1, <3>3
  <2>4. CASE h >= 12
    <3>1. PICK r \in Nat : r = b + 128
      OBVIOUS
    <3>2. Registers(t)[3] = r
      BY <1>1, <1>3, <2>1, <2>2, <2>4, <3>1 DEF Registers
    <3>3. PICK e \in Nat : e = d + 128
      OBVIOUS
    <3>4. r % 128 = b /\ Pm(r) /\ e % 128 = d /\ Pm(e)
      BY <3>1, <3>3 DEF Pm
    <3>5. Hour(r) = (d + 12) % 24
      <4>1. (IF binary THEN r ELSE bcd_to_binary(r % 128) + (IF Pm(r) THEN 128 ELSE 0)) = e
        BY <2>2, <3>1, <3>3, <3>4
      <4>2. Hour(r) = IF ~hours24 /\ Pm(e) THEN ((e % 128) + 12) % 24 ELSE e
        BY <4>1 DEF Hour
      <4> QED  BY <1>3, <3>4, <4>2
    <3> QED  BY <1>1, <1>3, <2>1, <2>4, <3>2, <3>5
  <2> QED  BY <2>3, <2>4
<1> QED  BY <1>2, <1>3

\* What is displayed is a time the clock showed, but for twelve in 12-hour mode.
THEOREM DisplayIsTime == Spec => []DisplaysTime
<1>1. ReadingInv /\ TimesInv => DisplaysTime
  <2> SUFFICES ASSUME ReadingInv, TimesInv, pc = "done" PROVE DisplaysTime
    BY DEF DisplaysTime
  <2>1. PICK t \in shown : now = Registers(t)
    BY RegistersAre DEF ReadingInv, Genuine
  <2>2. t \in Times
    BY DEF TimesInv
  <2>3. /\ t.second \in 0..(Seconds - 1) /\ t.second \in 0..99
        /\ t.minute \in 0..(Minutes - 1) /\ t.minute \in 0..99
        /\ t.hour \in 0..23
    BY <2>2, RTCAssumption DEF Times
  <2>4. Binary(now[1]) = t.second /\ Binary(now[2]) = t.minute
    <3>1. now[1] = Stored(t.second) /\ now[2] = Stored(t.minute)
      BY <2>1 DEF Registers
    <3> QED  BY <2>3, <3>1, BinaryIs
  <2>5. PICK hour \in 0..23 : /\ hour = Hour(now[3])
                              /\ hours24 \/ Dial(t.hour) # 12 => hour = t.hour
    BY <2>1, <2>2, HourIs
  <2> DEFINE dial == IF hour = 0 THEN 12 ELSE IF hour > 12 THEN hour - 12 ELSE hour
             half == IF hour < 12 THEN "AM" ELSE "PM"
             shows == [second |-> t.second, minute |-> t.minute, hour |-> dial, am_pm |-> half]
  <2>6. get_rtc_time_12hour = shows
    BY <2>4, <2>5 DEF get_rtc_time_12hour
  <2>7. get_rtc_time_12hour_components = shows
    <3>1. CASE hour = 0
      BY <2>4, <2>5, <3>1 DEF get_rtc_time_12hour_components
    <3>2. CASE hour \in 1..11
      BY <2>4, <2>5, <3>2 DEF get_rtc_time_12hour_components
    <3>3. CASE hour = 12
      BY <2>4, <2>5, <3>3 DEF get_rtc_time_12hour_components
    <3>4. CASE hour > 12
      BY <2>4, <2>5, <3>4 DEF get_rtc_time_12hour_components
    <3> QED  BY <3>1, <3>2, <3>3, <3>4
  <2>8. dial \in 1..12 /\ half \in {"AM", "PM"}
    OBVIOUS
  <2>9. hours24 \/ Dial(t.hour) # 12 =>
            dial = Dial(t.hour) /\ half = IF t.hour < 12 THEN "AM" ELSE "PM"
    BY <2>3, <2>5 DEF Dial
  <2> HIDE DEF dial, half
  <2>10. get_rtc_time_12hour \in [second : 0..(Seconds - 1), minute : 0..(Minutes - 1),
                                  hour : 1..12, am_pm : {"AM", "PM"}]
    BY <2>3, <2>6, <2>8
  <2>11. \/ ~hours24 /\ \E u \in shown : Dial(u.hour) = 12
         \/ \E u \in shown :
               get_rtc_time_12hour =
                   [second |-> u.second, minute |-> u.minute, hour |-> Dial(u.hour),
                    am_pm |-> IF u.hour < 12 THEN "AM" ELSE "PM"]
    <3>1. CASE ~hours24 /\ Dial(t.hour) = 12
      BY <3>1
    <3>2. CASE hours24 \/ Dial(t.hour) # 12
      BY <2>6, <2>9, <3>2
    <3> QED  BY <3>1, <3>2
  <2> QED  BY <2>6, <2>7, <2>10, <2>11 DEF DisplaysTime
<1> QED  BY <1>1, ReadingInit, ReadingStep, TimesHold, PTL DEF Spec

=============================================================================
