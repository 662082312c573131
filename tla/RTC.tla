-------------------------------- MODULE RTC ---------------------------------
(***************************************************************************)
(* Reading the CMOS clock (rtc.c).  The registers can only be read one at  *)
(* a time while the clock runs, so read_rtc_time reads them twice, waits   *)
(* for the end of an update in between and starts over unless both readings*)
(* agree; then it converts what it read, and get_rtc_time_12hour turns the *)
(* hour into one of a 12-hour dial.                                        *)
(*                                                                         *)
(* The clock is external: a flag announces an update some time before it   *)
(* begins, and while it lasts a register may read as its old value, as its *)
(* new one or as anything else.  Interrupts are on and may delay a read    *)
(* beyond the announcement.  Seconds, minutes and hours stand for the      *)
(* seven registers; they are read in the same order and carry in it.       *)
(***************************************************************************)
EXTENDS Integers, Sequences

CONSTANTS
    Seconds, Minutes,   \* bounds: seconds in a minute, minutes in an hour; a
                        \* register has two digits for either
    Junk                \* what else a register may read as during an update

ASSUME RTCAssumption ==
    Seconds \in 1..100 /\ Minutes \in 1..100 /\ Junk \in 0..255

VARIABLES
    time,       \* what the clock shows
    phase,      \* of the clock: "idle", "announced" or "update"
    binary, hours24,    \* the mode bits of register B
    pc,         \* read_rtc_time: waiting before, reading last_*, waiting in
                \* between, reading, comparing, done
    last, now,  \* the registers read so far in each of the readings
    shown,      \* what the clock showed since the body of the loop began
    bodies      \* times the body was left since the last update, up to 2

clockVars == <<time, phase>>
modeVars == <<binary, hours24>>
readerVars == <<pc, last, now>>
vars == <<clockVars, modeVars, readerVars, shown, bodies>>

----------------------------------------------------------------------------
(* The clock.                                                              *)

Times == [second : 0..(Seconds - 1), minute : 0..(Minutes - 1), hour : 0..23]

NextTime(t) ==
    LET carry1 == (t.second + 1) \div Seconds
        carry2 == (t.minute + carry1) \div Minutes
    IN  [second |-> (t.second + 1) % Seconds,
         minute |-> (t.minute + carry1) % Minutes,
         hour |-> (t.hour + carry2) % 24]

\* An hour on a 12-hour dial.
Dial(h) == IF h % 12 = 0 THEN 12 ELSE h % 12

Stored(n) == IF binary THEN n ELSE 16 * (n \div 10) + (n % 10)

\* The registers, in the order in which they are read.
Registers(t) ==
    <<Stored(t.second), Stored(t.minute),
      IF hours24 THEN Stored(t.hour)
      ELSE Stored(Dial(t.hour)) + (IF t.hour >= 12 THEN 128 ELSE 0)>>

\* The next update is announced once the reader has had the time for a whole
\* body of the loop since the last one: it takes far less than a second.
Announce ==
    /\ phase = "idle"
    /\ bodies = 2 \/ pc = "done"
    /\ phase' = "announced"
    /\ UNCHANGED <<time, modeVars, readerVars, shown, bodies>>

BeginUpdate ==
    /\ phase = "announced"
    /\ phase' = "update"
    /\ UNCHANGED <<time, modeVars, readerVars, shown, bodies>>

EndUpdate ==
    /\ phase = "update"
    /\ phase' = "idle"
    /\ time' = NextTime(time)
    /\ shown' = IF pc = "done" THEN shown ELSE shown \cup {NextTime(time)}
    /\ bodies' = 0
    /\ UNCHANGED <<modeVars, readerVars>>

\* What reading register k may return.
Readings(k) ==
    IF phase = "update"
    THEN {Registers(time)[k], Registers(NextTime(time))[k], Junk}
    ELSE {Registers(time)[k]}

----------------------------------------------------------------------------
(* read_rtc_time.                                                          *)

\* while (rtc_is_updating());
wait_for_rtc_update ==
    /\ phase = "idle"
    /\ \/ pc = "wait" /\ pc' = "last"
       \/ pc = "between" /\ pc' = "now"
    /\ UNCHANGED <<clockVars, modeVars, last, now, shown, bodies>>

\* Faulty variant: no wait between the two readings.
AfterLast_hasty == "now"

AfterLast == "between"

\* Read the next register into last_* or into the result.
read_rtc_register ==
    /\ \/ /\ pc = "last"
          /\ \E v \in Readings(Len(last) + 1) : last' = Append(last, v)
          /\ pc' = IF Len(last) = 2 THEN AfterLast ELSE "last"
          /\ UNCHANGED now
       \/ /\ pc = "now"
          /\ \E v \in Readings(Len(now) + 1) : now' = Append(now, v)
          /\ pc' = IF Len(now) = 2 THEN "compare" ELSE "now"
          /\ UNCHANGED last
    /\ UNCHANGED <<clockVars, modeVars, shown, bodies>>

\* Faulty variant: == for != in one of the comparisons.
Differ_inverted == last[1] = now[1] \/ last[2] # now[2] \/ last[3] # now[3]

\* The condition of do ... while.
Differ == \E k \in 1..3 : last[k] # now[k]

compare ==
    /\ pc = "compare"
    /\ IF Differ
       THEN /\ pc' = "last"
            /\ last' = <<>>
            /\ now' = <<>>
            /\ shown' = {time}
       ELSE /\ pc' = "done"
            /\ last' = <<>>
            /\ UNCHANGED <<now, shown>>
    /\ bodies' = IF bodies < 2 THEN bodies + 1 ELSE 2
    /\ UNCHANGED <<clockVars, modeVars>>

----------------------------------------------------------------------------
(* Conversion.                                                             *)

\* ((bcd & 0xF0) >> 1) + ((bcd & 0xF0) >> 3) + (bcd & 0x0F)
bcd_to_binary(bcd) ==
    LET tens == 16 * (bcd \div 16)
    IN  (tens \div 2 + tens \div 8 + (bcd % 16)) % 256

Binary(r) == IF binary THEN r ELSE bcd_to_binary(r)

Pm(r) == r >= 128

\* Faulty variant: the bit for the afternoon is converted with the digits.
Hour_unmasked(r) ==
    LET hour == Binary(r)
    IN  IF ~hours24 /\ Pm(hour) THEN ((hour % 128) + 12) % 24 ELSE hour

\* The hour that read_rtc_time returns.
Hour(r) ==
    LET hour == IF binary THEN r
                ELSE bcd_to_binary(r % 128) + (IF Pm(r) THEN 128 ELSE 0)
    IN  IF ~hours24 /\ Pm(hour) THEN ((hour % 128) + 12) % 24 ELSE hour

\* get_rtc_time_12hour
get_rtc_time_12hour ==
    LET hour == Hour(now[3])
    IN  [second |-> Binary(now[1]), minute |-> Binary(now[2]),
         hour |-> IF hour = 0 THEN 12 ELSE IF hour > 12 THEN hour - 12 ELSE hour,
         am_pm |-> IF hour < 12 THEN "AM" ELSE "PM"]

\* get_rtc_time_12hour_components
get_rtc_time_12hour_components ==
    LET hour == Hour(now[3])
        Time(hour_12, am_pm) == [second |-> Binary(now[1]), minute |-> Binary(now[2]),
                                 hour |-> hour_12, am_pm |-> am_pm]
    IN  CASE hour = 0 -> Time(12, "AM")
          [] hour \in 1..11 -> Time(hour, "AM")
          [] hour = 12 -> Time(12, "PM")
          [] hour > 12 -> Time(hour - 12, "PM")

----------------------------------------------------------------------------
\* display_current_time has just been called.
Init ==
    /\ time \in Times
    /\ phase \in {"idle", "announced", "update"}
    /\ binary \in BOOLEAN
    /\ hours24 \in BOOLEAN
    /\ pc = "wait"
    /\ last = <<>>
    /\ now = <<>>
    /\ shown = {time}
    /\ bodies = 2

Reader == wait_for_rtc_update \/ read_rtc_register \/ compare

Clock == Announce \/ BeginUpdate \/ EndUpdate

Next == Reader \/ Clock

Spec == Init /\ [][Next]_vars

\* kmain goes on, and an update that was announced comes and ends.
FairSpec == Spec /\ WF_vars(Reader) /\ WF_vars(BeginUpdate \/ EndUpdate)

----------------------------------------------------------------------------
(* Properties.                                                             *)

\* What the registers read as, put together, is a time the clock did show
\* while the last pair of readings was made: no mixture of the time before
\* and the time after a carry, and nothing read during an update, is ever
\* taken for the time, even when an interrupt delays a reading.
NeverTorn == pc = "done" => \E t \in shown : now = Registers(t)

\* What is displayed is such a time, in all four modes of the clock; the one
\* exception, 12-hour mode between twelve and one, is converted wrongly, but
\* is a time of day.  The two functions that convert it agree.
DisplaysTime ==
    pc = "done" =>
        /\ get_rtc_time_12hour = get_rtc_time_12hour_components
        /\ get_rtc_time_12hour \in [second : 0..(Seconds - 1), minute : 0..(Minutes - 1),
                                    hour : 1..12, am_pm : {"AM", "PM"}]
        /\ \/ ~hours24 /\ \E t \in shown : Dial(t.hour) = 12
           \/ \E t \in shown :
                 get_rtc_time_12hour =
                     [second |-> t.second, minute |-> t.minute, hour |-> Dial(t.hour),
                      am_pm |-> IF t.hour < 12 THEN "AM" ELSE "PM"]

\* The readings agree in the end: the clock cannot keep read_rtc_time busy.
Returns == <>(pc = "done")

=============================================================================
