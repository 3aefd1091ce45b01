------------------------------- MODULE Logger -------------------------------
(***************************************************************************)
(* Logger over LogStream: a record is put together in a buffer of fixed    *)
(* size and handed to the output function, by one thread in one step since *)
(* the buffer is on its stack.                                             *)
(*                                                                         *)
(* Of the text only lengths and numbers are kept, and of the time which    *)
(* second and which zone it was formatted for: each thread formats a       *)
(* second once and keeps the text in t_time.                               *)
(***************************************************************************)
EXTENDS Integers, Sequences

CONSTANTS
    Writers,        \* threads
    Zones,          \* time zones that setTimeZone is called with
    Size,           \* k_small_buffer
    MaxNumberSize,  \* k_max_number_size
    HeaderSize,     \* time, thread and level
    BodySizes,      \* lengths of what is streamed into a record
    MaxInt,         \* the largest int
    MaxSecond,      \* seconds (a bound)
    MaxOut          \* records (a bound)

VARIABLES
    second,         \* the clock
    level,          \* global_log_level
    zone,           \* global_log_timezone, "none" while it is not valid
    zoneSetAt,      \* history: when it was set
    lastSecond,     \* t_last_second of each thread
    timeText,       \* t_time of each thread
    out,            \* how many records were output (MaxOut bounds it)
    last,           \* history: the last of them
    flushed,        \* how many of them were flushed
    aborted

loggerVars == <<second, level, zone, zoneSetAt, lastSecond, timeText, out, last, flushed, aborted>>

TRACE == 0
DEBUG == 1
INFO == 2
WARN == 3
FATAL == 5

NoText == [second |-> 0, zone |-> "none"]

LoggerInit ==
    /\ level \in {TRACE, DEBUG, INFO}   \* initLogLevel, by the environment
    /\ second = 1 /\ zone = "none" /\ zoneSetAt = 0
    /\ lastSecond = [w \in Writers |-> 0]
    /\ timeText = [w \in Writers |-> NoText]
    /\ last = [second |-> 0, zone |-> "none", text |-> NoText, zoneSet |-> 0, used |-> 0,
               value |-> 0, number |-> [minus |-> FALSE, digits |-> <<0>>]]
    /\ out = 0 /\ flushed = 0 /\ aborted = FALSE

(* Numbers that are streamed: both ends of the range, and powers of ten.   *)
Numbers == {0, 9, 10, MaxInt, -1, -10, -MaxInt - 1}

-----------------------------------------------------------------------------
(* FixedBuffer: what does not fit is left out, and a byte stays free.      *)

Fits(used, len) == Size - used > len

AppendTo(used, len) == IF Fits(used, len) THEN used + len ELSE used

(* convert: division rounds to zero, so the digits of a negative number    *)
(* are negative, and the table of digits is the same on both sides of      *)
(* zero.                                                                   *)
quotient(i) == IF i < 0 THEN -((-i) \div 10) ELSE i \div 10

zero(lsd) == IF lsd < 0 THEN -lsd ELSE lsd

convert(value) ==
    LET digits[i \in Int] ==
            LET final == <<zero(i - 10 * quotient(i))>>
            IN IF quotient(i) = 0 THEN final ELSE digits[quotient(i)] \o final
    IN [minus |-> value < 0, digits |-> digits[value]]

NumberSize(n) == Len(n.digits) + (IF n.minus THEN 1 ELSE 0)

HasRoomForNumber(used) == Size - used >= MaxNumberSize

formatInteger(used, value) ==
    IF HasRoomForNumber(used) THEN used + NumberSize(convert(value)) ELSE used

(* " - ", the file's name, ':', the line, '\n'.                            *)
finish(used, line) ==
    AppendTo(formatInteger(AppendTo(AppendTo(AppendTo(used, 3), 2), 1), line), 1)

-----------------------------------------------------------------------------
Enabled(l) == l >= WARN \/ level <= l

Stale_Everywhere(w) == \A v \in Writers : second # lastSecond[v]

Stale(w) == second # lastSecond[w]

Text(w) == IF Stale(w) THEN [second |-> second, zone |-> zone] ELSE timeText[w]

ToFlush(l) == IF l = FATAL THEN out + 1 ELSE flushed

(* A number and a body of some length are streamed into a record.          *)
Log(w, l, value, len) ==
    /\ ~aborted /\ out < MaxOut /\ Enabled(l)
    /\ lastSecond' = [lastSecond EXCEPT ![w] = second]
    /\ timeText' = [timeText EXCEPT ![w] = Text(w)]
    /\ out' = out + 1
    /\ last' = [second |-> second, zone |-> zone, text |-> Text(w), zoneSet |-> zoneSetAt,
                used |-> finish(AppendTo(formatInteger(HeaderSize, value), len), 7),
                value |-> value, number |-> convert(value)]
    /\ flushed' = ToFlush(l)
    /\ aborted' = (l = FATAL)
    /\ UNCHANGED <<second, level, zone, zoneSetAt>>

SetLogLevel(l) ==
    /\ ~aborted /\ level' = l
    /\ UNCHANGED <<second, zone, zoneSetAt, lastSecond, timeText, out, last, flushed, aborted>>

SetTimeZone(z) ==
    /\ ~aborted /\ zone' = z /\ zoneSetAt' = second
    /\ UNCHANGED <<second, level, lastSecond, timeText, out, last, flushed, aborted>>

SecondPasses ==
    /\ second < MaxSecond /\ second' = second + 1
    /\ UNCHANGED <<level, zone, zoneSetAt, lastSecond, timeText, out, last, flushed, aborted>>

LoggerNext ==
    \/ \E w \in Writers, l \in {TRACE, INFO, FATAL}, v \in Numbers, len \in BodySizes :
          Log(w, l, v, len)
    \/ \E l \in {TRACE, INFO, WARN} : SetLogLevel(l)
    \/ \E z \in Zones : SetTimeZone(z)
    \/ SecondPasses

LoggerSpec == LoggerInit /\ [][LoggerNext]_loggerVars

-----------------------------------------------------------------------------
(* Whichever thread writes it, a record shows the second it was made in,   *)
(* and shows it in the zone it claims; only a record made in the second    *)
(* in which the zone was set may still show the former zone's time.        *)
StampTrue ==
    /\ last.text.second = last.second
    /\ last.text.zone = last.zone \/ last.zoneSet = last.second

(* The buffer is never filled to its end: debugString and convert write a  *)
(* zero byte after the text.                                               *)
StreamFits == last.used < Size

(* A number is written with its own digits and sign, without leading       *)
(* zeros, and with its zero byte fits into k_max_number_size.              *)
NumbersReadBack ==
    LET n == last.number
        Value[k \in 0 .. Len(n.digits)] == IF k = 0 THEN 0 ELSE 10 * Value[k - 1] + n.digits[k]
    IN /\ Value[Len(n.digits)] = IF n.minus THEN -last.value ELSE last.value
       /\ \A k \in DOMAIN n.digits : n.digits[k] \in 0 .. 9
       /\ Len(n.digits) > 1 => n.digits[1] # 0
       /\ NumberSize(n) < MaxNumberSize

(* When a fatal record has ended the program, nothing is left in the       *)
(* output's buffer.                                                        *)
FatalIsFlushed == aborted => flushed = out

(* A record is stamped with its own time, fits into its buffer, shows the  *)
(* numbers it was given, and is not lost when it is the last one.          *)
RecordSound == StampTrue /\ StreamFits /\ NumbersReadBack /\ FatalIsFlushed
=============================================================================
