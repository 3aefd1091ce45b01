------------------------------ MODULE LogFile ------------------------------
(***************************************************************************)
(* LogFile over FileUtil::AppendFile: records are appended to a file that  *)
(* is replaced by a new one when it is too large or of another day, and    *)
(* that is flushed from time to time.  Both are looked at only after every *)
(* _check_every_n-th record, because asking for the time is expensive.     *)
(*                                                                         *)
(* append and flush hold the mutex, so each is one step, and the disk does *)
(* not fail (the code reports that and goes on).  A file is named          *)
(* after the second it was opened in; the records in it are kept with the  *)
(* second they came in and what writtenBytes() was after them, and `safe'  *)
(* of them have left stdio's buffer.                                       *)
(***************************************************************************)
EXTENDS Integers, Sequences, FiniteSets

CONSTANTS
    RollSize, FlushInterval, CheckEveryN,
    RollPerSeconds,  \* _k_roll_per_seconds
    RecordSizes,
    MaxTime,         \* seconds (a bound)
    MaxRecords       \* records (a bound)

ASSUME LogAssumption ==
    /\ RollSize \in Nat /\ FlushInterval \in Nat /\ CheckEveryN \in Nat
    /\ RollPerSeconds \in Nat \ {0} /\ RecordSizes \subseteq Nat
    /\ MaxTime \in Nat /\ MaxRecords \in Nat

VARIABLES
    clock,           \* time(NULL)
    turnedBack,      \* the clock was set back
    files,           \* the files opened so far; the last is _file
    count, lastRoll, lastFlush, startOfPeriod

logVars == <<clock, turnedBack, files, count, lastRoll, lastFlush, startOfPeriod>>

Period(t) == (t \div RollPerSeconds) * RollPerSeconds

NewFile == [name |-> clock, written |-> 0, records |-> <<>>, safe |-> 0]

(* The constructor rolls once; the clock is past the epoch.                *)
LogInit ==
    /\ clock = 1 /\ turnedBack = FALSE
    /\ files = <<NewFile>>
    /\ count = 0
    /\ lastRoll = clock /\ lastFlush = clock /\ startOfPeriod = Period(clock)

-----------------------------------------------------------------------------
(* AppendFile::append and AppendFile::flush, which fclose does too.        *)

Written(fs, len) ==
    LET f == fs[Len(fs)]
        total == f.written + len
    IN [fs EXCEPT ![Len(fs)] = [name |-> f.name, written |-> total, safe |-> f.safe,
                                records |-> Append(f.records, [time |-> clock, total |-> total])]]

Flushed(fs) == [fs EXCEPT ![Len(fs)].safe = Len(fs[Len(fs)].records)]

MayRoll_Again == clock # lastRoll

MayRoll == clock > lastRoll

rollFile(fs) ==
    IF MayRoll
    THEN /\ lastRoll' = clock /\ lastFlush' = clock
         /\ startOfPeriod' = Period(clock)
         /\ files' = Append(Flushed(fs), NewFile)
    ELSE /\ files' = fs
         /\ UNCHANGED <<lastRoll, lastFlush, startOfPeriod>>

TooLarge(file) == file.written > RollSize

Due_Late(n) == n > CheckEveryN + 1

Due(n) == n > CheckEveryN

CheckTime(fs) ==
    IF Period(clock) # startOfPeriod THEN rollFile(fs)
    ELSE /\ IF clock - lastFlush > FlushInterval
            THEN lastFlush' = clock /\ files' = Flushed(fs)
            ELSE UNCHANGED lastFlush /\ files' = fs
         /\ UNCHANGED <<lastRoll, startOfPeriod>>

append_unlocked(len) ==
    LET fs == Written(files, len)
    IN IF TooLarge(fs[Len(fs)])
       THEN rollFile(fs) /\ UNCHANGED count
       ELSE IF Due(count + 1)
       THEN count' = 0 /\ CheckTime(fs)
       ELSE /\ count' = count + 1 /\ files' = fs
            /\ UNCHANGED <<lastRoll, lastFlush, startOfPeriod>>

-----------------------------------------------------------------------------
LogAppend(len) ==
    /\ \A i \in DOMAIN files : Len(files[i].records) + Len(files) <= MaxRecords
    /\ append_unlocked(len)
    /\ UNCHANGED <<clock, turnedBack>>

LogFlush ==
    /\ files' = Flushed(files)
    /\ UNCHANGED <<clock, turnedBack, count, lastRoll, lastFlush, startOfPeriod>>

LogRoll ==
    /\ Len(files) < MaxRecords
    /\ rollFile(files)
    /\ UNCHANGED <<clock, turnedBack, count>>

ClockTicks ==
    /\ clock < MaxTime /\ clock' = clock + 1
    /\ UNCHANGED <<turnedBack, files, count, lastRoll, lastFlush, startOfPeriod>>

ClockSetBack ==
    /\ ~turnedBack /\ clock > 1
    /\ clock' = clock - 1 /\ turnedBack' = TRUE
    /\ UNCHANGED <<files, count, lastRoll, lastFlush, startOfPeriod>>

LogNext ==
    \/ \E len \in RecordSizes : LogAppend(len)
    \/ LogFlush \/ LogRoll \/ ClockTicks \/ ClockSetBack

LogSpec == LogInit /\ [][LogNext]_logVars

-----------------------------------------------------------------------------
(* No file is opened twice, also when the clock is set back: its name is   *)
(* the second it was opened in, and fopen would append to the old file.    *)
FilesDistinct == \A i, j \in DOMAIN files : i < j => files[i].name < files[j].name

(* A file that is too large is written to only in the second it was opened *)
(* in, or in an earlier one if the clock was set back.                     *)
SizeBound ==
    \A i \in DOMAIN files : \A k \in 1 .. Len(files[i].records) - 1 :
        files[i].records[k].total > RollSize => files[i].records[k].time <= files[i].name

(* A record that may be lost in a crash is not older than _flush_interval, *)
(* but for the last _check_every_n records.                                *)
OldAreFlushed ==
    LET f == files[Len(files)]
    IN ~turnedBack =>
          \A i \in f.safe + 1 .. Len(f.records) :
              Cardinality({j \in i + 1 .. Len(f.records) :
                             f.records[j].time > f.records[i].time + FlushInterval}) <= CheckEveryN

(* Of the records of a later day at most _check_every_n + 1 are in a file. *)
DaysApart ==
    ~turnedBack =>
        \A i \in DOMAIN files :
            Cardinality({k \in DOMAIN files[i].records :
                           Period(files[i].records[k].time) # Period(files[i].name)})
              <= CheckEveryN + 1

(* Files have names of their own and outgrow the limit only within a       *)
(* second, whatever the clock does.                                        *)
FilesBounded == FilesDistinct /\ SizeBound

(* Looking at the clock now and then is enough for flushes and for days.   *)
LooksInTime == OldAreFlushed /\ DaysApart
=============================================================================
