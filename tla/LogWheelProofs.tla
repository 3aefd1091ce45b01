--------------------------- MODULE LogWheelProofs ---------------------------
(***************************************************************************)
(* Theorems about LogFile, about the TimeWheel of the web server and about *)
(* the stamps of Logger.  They have nothing to do with each other.         *)
(***************************************************************************)
EXTENDS LogFile, TimeWheel, Logger, FiniteSetTheorems, TLAPS

\* Leaves go to Zenon unless they name another prover.
USE ZenonT(60)

-----------------------------------------------------------------------------
(***************************************************************************)
(* The files of a LogFile are distinct and bounded, whatever the sizes of  *)
(* records, the limits and the clock are.                                  *)
(***************************************************************************)
Record == [time : Nat, total : Nat]
File == [name : Nat, written : Nat, records : Seq(Record), safe : Nat]

(* Only its last record may have made a file too large in a second later   *)
(* than the one it was opened in; in the file that is open, none has.      *)
Bounded(f) ==
    \A k \in 1 .. Len(f.records) - 1 : f.records[k].total > RollSize => f.records[k].time <= f.name
Kept(f) ==
    \A k \in 1 .. Len(f.records) : f.records[k].total > RollSize => f.records[k].time <= f.name

Names(fs) == \A i, j \in DOMAIN fs : i < j => fs[i].name < fs[j].name
AllBounded(fs) == \A i \in DOMAIN fs : Bounded(fs[i])

(* What every sequence of files that append_unlocked works on satisfies.   *)
Sound(fs) ==
    /\ fs \in Seq(File) /\ Len(fs) > 0
    /\ fs[Len(fs)].name = lastRoll
    /\ Names(fs) /\ AllBounded(fs)

LInv ==
    /\ clock \in Nat /\ lastRoll \in Nat
    /\ Sound(files)
    /\ Kept(files[Len(files)])

-----------------------------------------------------------------------------
(* AppendFile::append keeps the files sound, and the open one as the       *)
(* invariant wants it if no roll is possible or needed.                    *)
LEMMA WrittenSound ==
    ASSUME LInv, NEW len \in Nat
    PROVE  /\ Sound(Written(files, len))
           /\ ~TooLarge(Written(files, len)[Len(files)]) \/ ~MayRoll
                 => Kept(Written(files, len)[Len(files)])
           /\ Len(Written(files, len)) = Len(files)
<1> DEFINE n == Len(files)
           f == files[n]
           r == [time |-> clock, total |-> f.written + len]
           g == [name |-> f.name, written |-> f.written + len, safe |-> f.safe,
                 records |-> Append(f.records, r)]
           fs == Written(files, len)
<1>1. files \in Seq(File) /\ n \in Nat /\ n > 0 /\ n \in DOMAIN files
    BY SMTT(60) DEF LInv, Sound
<1>2. f \in File
    BY <1>1, SMTT(60)
<1>3. r \in Record
    BY <1>2, SMTT(60) DEF LInv, Record, File
<1>4. Append(f.records, r) \in Seq(Record)
    BY <1>2, <1>3, SMTT(60) DEF File
<1>5. g.name = f.name /\ g.records = Append(f.records, r)
    OBVIOUS
<1>6. g \in File
    BY <1>2, <1>4, SMTT(60) DEF File
<1>7. fs = [files EXCEPT ![n] = g]
    BY DEF Written
<1>8. fs \in Seq(File) /\ Len(fs) = n /\ fs[n] = g /\ \A i \in DOMAIN files : i # n => fs[i] = files[i]
    BY <1>1, <1>6, <1>7, SMTT(60)
<1>9. DOMAIN fs = 1 .. n /\ DOMAIN files = 1 .. n
    BY <1>1, <1>8, SMTT(60)
<1>10. \A i \in 1 .. n : fs[i].name = files[i].name
    BY <1>5, <1>8, <1>9
<1>11. Names(fs)
    BY <1>9, <1>10, SMTT(60) DEF LInv, Sound, Names
<1>12. /\ Len(g.records) = Len(f.records) + 1
       /\ g.records[Len(g.records)] = r
       /\ \A k \in 1 .. Len(f.records) : g.records[k] = f.records[k]
    BY <1>2, <1>3, <1>5, SMTT(60) DEF File
<1>13. Len(f.records) \in Nat
    BY <1>2, SMTT(60) DEF File
<1>14. g.name = f.name /\ g.written = f.written + len
    BY <1>5
<1>15. Kept(f)
    BY DEF LInv
<1>16. Bounded(g)
    BY <1>12, <1>13, <1>14, <1>15, SMTT(60) DEF Bounded, Kept
<1>17. AllBounded(fs)
    BY <1>8, <1>9, <1>16 DEF LInv, Sound, AllBounded
<1>18. Sound(fs)
    BY <1>1, <1>8, <1>11, <1>14, <1>17 DEF LInv, Sound
<1>19. ASSUME ~TooLarge(g) \/ ~MayRoll
       PROVE  Kept(g)
    <2>1. f.name = lastRoll /\ clock \in Nat /\ lastRoll \in Nat
        BY DEF LInv, Sound
    <2>2. r.total = g.written /\ r.time = clock /\ g.written \in Nat
        BY <1>2, SMTT(60) DEF File
    <2>3. r.total > RollSize => r.time <= f.name
        BY <1>19, <2>1, <2>2, LogAssumption, SMTT(60) DEF TooLarge, MayRoll
    <2> QED
        BY <2>3, <1>12, <1>13, <1>14, <1>15, SMTT(60) DEF Kept
<1> QED
    BY <1>8, <1>18, <1>19

(* AppendFile::flush changes neither names nor records.                    *)
LEMMA FlushedSound ==
    ASSUME NEW fs, Sound(fs)
    PROVE  /\ Sound(Flushed(fs))
           /\ Kept(fs[Len(fs)]) => Kept(Flushed(fs)[Len(fs)])
           /\ Len(Flushed(fs)) = Len(fs)
<1> DEFINE n == Len(fs)
           f == fs[n]
           g == [f EXCEPT !.safe = Len(f.records)]
<1>1. fs \in Seq(File) /\ n \in Nat /\ n > 0 /\ n \in DOMAIN fs /\ DOMAIN fs = 1 .. n
    BY SMTT(60) DEF Sound
<1>2. f \in File
    BY <1>1, SMTT(60)
<1>3. g = [name |-> f.name, written |-> f.written, records |-> f.records, safe |-> Len(f.records)]
    BY <1>2, SMTT(60) DEF File
<1>4. g \in File
    BY <1>2, <1>3, SMTT(60) DEF File
<1>5. Flushed(fs) = [fs EXCEPT ![n] = g]
    BY <1>1, <1>2 DEF Flushed, File
<1>6. Flushed(fs) \in Seq(File) /\ Len(Flushed(fs)) = n /\ DOMAIN Flushed(fs) = 1 .. n
    BY <1>1, <1>4, <1>5, SMTT(60)
<1>7. g.name = f.name /\ g.records = f.records
    BY <1>3
<1>8. Flushed(fs)[n] = g /\ \A i \in 1 .. n : i # n => Flushed(fs)[i] = fs[i]
    BY <1>1, <1>5
<1>9. \A i \in 1 .. n : /\ Flushed(fs)[i].name = fs[i].name
                        /\ Flushed(fs)[i].records = fs[i].records
    BY <1>7, <1>8
<1> QED
    BY <1>1, <1>6, <1>9 DEF Sound, Names, AllBounded, Bounded, Kept

(* rollFile leaves the invariant behind, if there was nothing to roll for  *)
(* or a roll is possible.                                                  *)
LEMMA RollKeeps ==
    ASSUME NEW fs, Sound(fs), clock \in Nat, lastRoll \in Nat, clock' = clock,
           Kept(fs[Len(fs)]) \/ MayRoll,
           rollFile(fs)
    PROVE  LInv'
<1>1. CASE ~MayRoll
    BY <1>1 DEF rollFile, LInv, Sound, Names, AllBounded, Bounded, Kept
<1>2. CASE MayRoll
    <2> DEFINE n == Len(fs)
               hs == Flushed(fs)
    <2>1. Sound(hs) /\ Len(hs) = n /\ n \in Nat
        BY FlushedSound, SMTT(60) DEF Sound
    <2>2. files' = Append(hs, NewFile) /\ lastRoll' = clock
        BY <1>2 DEF rollFile
    <2>3. NewFile \in File /\ NewFile.name = clock /\ NewFile.records = <<>>
        BY SMTT(60) DEF NewFile, File
    <2>4. /\ files' \in Seq(File) /\ Len(files') = n + 1
          /\ DOMAIN files' = 1 .. n + 1 /\ DOMAIN hs = 1 .. n
          /\ files'[n + 1] = NewFile /\ \A i \in 1 .. n : files'[i] = hs[i]
        BY <2>1, <2>2, <2>3, SMTT(60) DEF Sound
    <2>5. \A i \in 1 .. n : hs[i].name \in Nat /\ hs[i].name <= lastRoll
        <3>1. hs \in Seq(File) /\ hs[n].name = lastRoll /\ n > 0
            BY <2>1 DEF Sound
        <3>2. \A i \in 1 .. n : hs[i] \in File
            BY <2>4, <3>1, SMTT(60)
        <3>3. \A i \in 1 .. n : hs[i].name \in Nat
            BY <3>2 DEF File
        <3>4. \A i \in 1 .. n : i < n => hs[i].name < hs[n].name
            <4>1. Names(hs) /\ DOMAIN hs = 1 .. n
                BY <2>1, <2>4, <3>1 DEF Sound
            <4>2. n \in 1 .. n
                BY <3>1, <2>1, SMTT(60)
            <4> QED
                BY <4>1, <4>2 DEF Names
        <3> QED
            BY <2>1, <3>1, <3>3, <3>4, SMTT(60)
    <2>6. Names(files')
        BY <1>2, <2>1, <2>3, <2>4, <2>5, SMTT(60) DEF Names, Sound, MayRoll
    <2>7. Bounded(NewFile) /\ Kept(NewFile)
        BY <2>3, SMTT(60) DEF Bounded, Kept
    <2>8. AllBounded(files')
        BY <2>1, <2>4, <2>7, SMTT(60) DEF AllBounded, Sound
    <2>9. Sound(files)'
        BY <2>1, <2>2, <2>3, <2>4, <2>6, <2>8, SMTT(60) DEF Sound, Names, AllBounded, Bounded
    <2>10. Kept(files[Len(files)])'
        BY <2>4, <2>7 DEF Kept
    <2> QED
        BY <2>2, <2>9, <2>10 DEF LInv
<1> QED
    BY <1>1, <1>2

-----------------------------------------------------------------------------
(* Steps that change only the clock keep the invariant.                    *)
LEMMA ClockKeeps ==
    ASSUME LInv, clock' \in Nat, UNCHANGED <<files, lastRoll>>
    PROVE  LInv'
BY DEF LInv, Sound, Names, AllBounded, Bounded, Kept

(* So do steps that leave sound files behind.                              *)
LEMMA FilesKeep ==
    ASSUME LInv, NEW fs, Sound(fs), Kept(fs[Len(fs)]), files' = fs, UNCHANGED <<clock, lastRoll>>
    PROVE  LInv'
BY DEF LInv, Sound, Names, AllBounded, Bounded, Kept

(* Flushing the files of the invariant, or none, keeps it.                 *)
LEMMA CheckKeeps ==
    ASSUME LInv, NEW fs, Sound(fs), Kept(fs[Len(fs)]), clock' = clock, CheckTime(fs)
    PROVE  LInv'
<1>1. CASE Period(clock) # startOfPeriod
    BY <1>1, RollKeeps DEF CheckTime, LInv
<1>2. CASE Period(clock) = startOfPeriod
    <2>1. lastRoll' = lastRoll /\ (files' = fs \/ files' = Flushed(fs))
        BY <1>2 DEF CheckTime
    <2>2. Sound(Flushed(fs)) /\ Kept(Flushed(fs)[Len(Flushed(fs))])
        BY FlushedSound
    <2> QED
        BY <2>1, <2>2, FilesKeep
<1> QED
    BY <1>1, <1>2

(* The invariant of LogFile: LogSpec keeps LInv for every clock.           *)
THEOREM LogInvariant == LogSpec => []LInv
<1>1. LogInit => LInv
    <2> SUFFICES ASSUME LogInit PROVE LInv
        OBVIOUS
    <2>1. NewFile \in File /\ NewFile.name = clock /\ NewFile.records = <<>>
        BY SMTT(60) DEF LogInit, NewFile, File
    <2>2. files = <<NewFile>> /\ lastRoll = clock /\ clock \in Nat
        BY DEF LogInit
    <2>3. files \in Seq(File) /\ Len(files) = 1 /\ DOMAIN files = 1 .. 1 /\ files[1] = NewFile
        BY <2>1, <2>2, SMTT(60)
    <2> QED
        BY <2>1, <2>2, <2>3, SMTT(60) DEF LInv, Sound, Names, AllBounded, Bounded, Kept
<1>2. LInv /\ [LogNext]_logVars => LInv'
    <2> SUFFICES ASSUME LInv, [LogNext]_logVars PROVE LInv'
        OBVIOUS
    <2>1. ASSUME NEW len \in RecordSizes, LogAppend(len) PROVE LInv'
        <3> DEFINE fs == Written(files, len)
        <3>1. len \in Nat
            BY LogAssumption
        <3>2. Sound(fs) /\ Len(fs) = Len(files)
            BY <3>1, WrittenSound
        <3>3. ~TooLarge(fs[Len(fs)]) \/ ~MayRoll => Kept(fs[Len(fs)])
            BY <3>1, WrittenSound
        <3>4. clock' = clock /\ append_unlocked(len)
            BY <2>1 DEF LogAppend
        <3>5. CASE TooLarge(fs[Len(fs)])
            <4>1. rollFile(fs)
                BY <3>4, <3>5 DEF append_unlocked
            <4>2. Kept(fs[Len(fs)]) \/ MayRoll
                BY <3>3
            <4> QED
                BY <3>2, <3>4, <4>1, <4>2, RollKeeps DEF LInv
        <3>6. CASE ~TooLarge(fs[Len(fs)])
            <4>1. Kept(fs[Len(fs)])
                BY <3>3, <3>6
            <4>2. CheckTime(fs) \/ (files' = fs /\ UNCHANGED lastRoll)
                BY <3>4, <3>6 DEF append_unlocked
            <4> QED
                BY <3>2, <3>4, <4>1, <4>2, CheckKeeps, FilesKeep
        <3> QED
            BY <3>5, <3>6
    <2>2. CASE LogFlush
        <3>1. Sound(Flushed(files)) /\ Kept(Flushed(files)[Len(Flushed(files))])
            BY FlushedSound DEF LInv
        <3> QED
            BY <2>2, <3>1, FilesKeep DEF LogFlush
    <2>3. CASE LogRoll
        BY <2>3, RollKeeps DEF LogRoll, LInv
    <2>4. CASE ClockTicks
        BY <2>4, ClockKeeps, SMTT(60) DEF ClockTicks, LInv
    <2>5. CASE ClockSetBack
        BY <2>5, ClockKeeps, SMTT(60) DEF ClockSetBack, LInv
    <2>6. CASE UNCHANGED logVars
        BY <2>6, ClockKeeps DEF logVars, LInv
    <2> QED
        BY <2>1, <2>2, <2>3, <2>4, <2>5, <2>6 DEF LogNext
<1> QED
    BY <1>1, <1>2, PTL DEF LogSpec

(* No file is opened twice, for every clock and every history of it.       *)
THEOREM LogFilesDistinct == LogSpec => []FilesDistinct
<1>1. LInv => FilesDistinct
    BY DEF LInv, Sound, Names, FilesDistinct
<1> QED
    BY <1>1, LogInvariant, PTL

(* A file grows beyond the roll size only in the second it was opened in.  *)
THEOREM LogSizeBound == LogSpec => []SizeBound
<1>1. LInv => SizeBound
    BY DEF LInv, Sound, AllBounded, Bounded, SizeBound
<1> QED
    BY <1>1, LogInvariant, PTL

(* Log files keep their names to themselves and their size in bounds,      *)
(* however the clock is set (LogFile.cc:26-32 and 75-92).                  *)
THEOREM LogFilesBounded == LogSpec => []FilesBounded
  BY LogFilesDistinct, LogSizeBound, PTL DEF FilesBounded
-----------------------------------------------------------------------------
(* Looking at the clock in time.                                           *)
(*                                                                         *)
(* Some m records were in the open file when append_unlocked last looked   *)
(* at the clock: none of them was overdue then, and they were of the       *)
(* file's day.  Of the later ones at most cnt were counted; those that     *)
(* were not made the file too large, which needs a roll that the second    *)
(* does not allow.                                                         *)
Looked(f, cnt, flush, period) ==
    \E m \in 0 .. Len(f.records) :
        /\ \A j \in m + 1 .. Len(f.records) : j > m + cnt => f.records[j].total > RollSize
        /\ \A j \in 1 .. m : /\ f.records[j].time <= flush + FlushInterval
                             /\ Period(f.records[j].time) = period

(* The open file at time t, if no clock was set back: its records are from *)
(* the time it is open, and those that may be lost came after the flush.   *)
Fresh(f, cnt, flush, period, t) ==
    /\ f.name <= flush /\ flush <= t
    /\ \A j \in 1 .. Len(f.records) : f.name <= f.records[j].time /\ f.records[j].time <= t
    /\ \A j \in f.safe + 1 .. Len(f.records) : flush <= f.records[j].time
    /\ Looked(f, cnt, flush, period)

Totals(f) == \A j \in 1 .. Len(f.records) : f.records[j].total <= f.written

OtherDay(f) == {k \in DOMAIN f.records : Period(f.records[k].time) # Period(f.name)}
InItsDay(f) == Cardinality(OtherDay(f)) <= CheckEveryN + 1

(* The inductive invariant of the files `hs', with all that is kept beside *)
(* them.                                                                   *)
Timed(hs, cnt, flush) ==
    /\ cnt \in 0 .. CheckEveryN /\ flush \in Nat
    /\ Totals(hs[Len(hs)])
    /\ ~turnedBack => /\ Fresh(hs[Len(hs)], cnt, flush, Period(hs[Len(hs)].name), clock)
                      /\ \A i \in DOMAIN hs : i < Len(hs) => InItsDay(hs[i])

Timely ==
    /\ startOfPeriod = Period(lastRoll)
    /\ Timed(files, count, lastFlush)

(* A later second is in the same period or in a later one.                 *)
LEMMA PeriodMonotone ==
    ASSUME NEW a \in Nat, NEW b \in Nat, a <= b
    PROVE  Period(a) \in Nat /\ Period(b) \in Nat /\ Period(a) <= Period(b)
<1> DEFINE d == RollPerSeconds
           p == a \div d
           q == b \div d
<1>1. d \in Nat /\ d > 0
    BY LogAssumption, SMTT(60)
<1>2. p \in Nat /\ q \in Nat /\ p * d <= a /\ a < p * d + d /\ q * d <= b /\ b < q * d + d
    BY <1>1, SMTT(60)
<1> HIDE DEF d, p, q
<1>3. p <= q
    <2> SUFFICES ASSUME q + 1 <= p PROVE FALSE
        BY <1>2, SMTT(60)
    <2>1. (q + 1) * d <= p * d
        BY <1>1, <1>2, SMTT(60)
    <2>2. (q + 1) * d = q * d + d
        BY <1>1, <1>2, SMTT(60)
    <2> QED
        BY <1>1, <1>2, <2>1, <2>2, SMTT(60)
<1>4. p * d <= q * d /\ p * d \in Nat /\ q * d \in Nat
    BY <1>1, <1>2, <1>3, SMTT(60)
<1> QED
    BY <1>4 DEF Period, p, q, d

(* What a file is made of.                                                 *)
LEMMA RecordTypes ==
    ASSUME NEW f \in File
    PROVE  /\ Len(f.records) \in Nat /\ DOMAIN f.records = 1 .. Len(f.records)
           /\ f.name \in Nat /\ f.safe \in Nat /\ f.written \in Nat
           /\ \A j \in 1 .. Len(f.records) : f.records[j].time \in Nat /\ f.records[j].total \in Nat
<1>1. f.records \in Seq(Record) /\ f.name \in Nat /\ f.safe \in Nat /\ f.written \in Nat
    BY DEF File
<1>2. Len(f.records) \in Nat /\ DOMAIN f.records = 1 .. Len(f.records)
    BY <1>1, SMTT(60)
<1>3. \A j \in 1 .. Len(f.records) : f.records[j] \in Record
    BY <1>1, SMTT(60)
<1>4. \A j \in 1 .. Len(f.records) : f.records[j].time \in Nat /\ f.records[j].total \in Nat
    BY <1>3 DEF Record
<1> QED
    BY <1>1, <1>2, <1>4

(* A set of positions between m + 1 and m + c has at most c members.       *)
LEMMA FewPositions ==
    ASSUME NEW m \in Nat, NEW c \in Nat, NEW S, S \subseteq m + 1 .. m + c
    PROVE  IsFiniteSet(S) /\ Cardinality(S) \in Nat /\ Cardinality(S) <= c
<1>1. IsFiniteSet(m + 1 .. m + c)
    BY FS_Interval, SMTT(60)
<1>2. Cardinality(m + 1 .. m + c) <= c
    BY FS_Interval, SMTT(60)
<1>3. IsFiniteSet(S) /\ Cardinality(S) <= Cardinality(m + 1 .. m + c)
    BY <1>1, FS_Subset
<1>4. Cardinality(S) \in Nat /\ Cardinality(m + 1 .. m + c) \in Nat
    BY <1>1, <1>3, FS_CardinalityType
<1> QED
    BY <1>2, <1>3, <1>4, SMTT(60)

(* Of the open file, only counted records can be of another day ...        *)
LEMMA FewOtherDays ==
    ASSUME NEW f \in File, Kept(f), NEW c \in Nat, NEW flush \in Nat, NEW t \in Nat,
           Fresh(f, c, flush, Period(f.name), t)
    PROVE  IsFiniteSet(OtherDay(f)) /\ Cardinality(OtherDay(f)) \in Nat /\ Cardinality(OtherDay(f)) <= c
<1> DEFINE n == Len(f.records)
<1>1. n \in Nat /\ DOMAIN f.records = 1 .. n /\ f.name \in Nat
      /\ \A j \in 1 .. n : f.records[j].time \in Nat
    BY RecordTypes
<1>2. PICK m \in 0 .. n :
        /\ \A j \in m + 1 .. n : j > m + c => f.records[j].total > RollSize
        /\ \A j \in 1 .. m : Period(f.records[j].time) = Period(f.name)
    BY DEF Fresh, Looked
<1>3. \A j \in 1 .. n : j > m + c => f.records[j].time = f.name
    BY <1>1, <1>2, SMTT(60) DEF Fresh, Kept
<1>4. OtherDay(f) \subseteq m + 1 .. m + c
    <2> SUFFICES ASSUME NEW k \in OtherDay(f) PROVE k \in m + 1 .. m + c
        OBVIOUS
    <2>1. k \in 1 .. n /\ Period(f.records[k].time) # Period(f.name)
        BY <1>1 DEF OtherDay
    <2>2. ~(k <= m) /\ ~(k > m + c)
        BY <1>1, <1>2, <1>3, <2>1, SMTT(60)
    <2> QED
        BY <1>1, <1>2, <2>1, <2>2, SMTT(60)
<1> QED
    BY <1>1, <1>2, <1>4, FewPositions, SMTT(60)

(* ... or later by more than the flush interval than one that may be lost. *)
LEMMA FewLate ==
    ASSUME NEW f \in File, Kept(f), NEW c \in Nat, NEW flush \in Nat, NEW t \in Nat, NEW period,
           Fresh(f, c, flush, period, t), NEW i \in f.safe + 1 .. Len(f.records)
    PROVE  Cardinality({j \in i + 1 .. Len(f.records) :
                          f.records[j].time > f.records[i].time + FlushInterval}) <= c
<1> DEFINE n == Len(f.records)
           late == {j \in i + 1 .. n : f.records[j].time > f.records[i].time + FlushInterval}
<1>1. n \in Nat /\ f.name \in Nat /\ f.safe \in Nat /\ FlushInterval \in Nat
      /\ \A j \in 1 .. n : f.records[j].time \in Nat
    BY RecordTypes, LogAssumption
<1>2. PICK m \in 0 .. n :
        /\ \A j \in m + 1 .. n : j > m + c => f.records[j].total > RollSize
        /\ \A j \in 1 .. m : f.records[j].time <= flush + FlushInterval
    BY DEF Fresh, Looked
<1>3. \A j \in 1 .. n : j > m + c => f.records[j].time = f.name
    BY <1>1, <1>2, SMTT(60) DEF Fresh, Kept
<1>4. i \in 1 .. n /\ flush <= f.records[i].time /\ f.name <= f.records[i].time
    BY <1>1, SMTT(60) DEF Fresh
<1>5. ASSUME NEW j \in i + 1 .. n, f.records[j].time > f.records[i].time + FlushInterval
      PROVE  j \in m + 1 .. m + c
    <2>1. j \in 1 .. n
        BY <1>1, <1>4, SMTT(60)
    <2>2. ~(j > m + c)
        <3>1. j > m + c => f.records[j].time = f.name
            BY <1>3, <2>1
        <3> QED
            BY <1>1, <1>4, <1>5, <3>1, SMTT(60)
    <2>3. ~(j \in 1 .. m)
        <3>1. j \in 1 .. m => f.records[j].time <= flush + FlushInterval
            BY <1>2
        <3>2. f.records[j].time \in Nat /\ f.records[i].time \in Nat
            BY <1>1, <1>4, <2>1
        <3> QED
            BY <1>1, <1>4, <1>5, <3>1, <3>2, SMTT(60)
    <2> QED
        BY <1>1, <2>1, <2>2, <2>3, SMTT(60)
<1>6. late \subseteq m + 1 .. m + c
    BY <1>5
<1>7. m \in Nat
    BY <1>1, SMTT(60)
<1> QED
    BY <1>6, <1>7, FewPositions

(* The file that AppendFile::append and AppendFile::flush leave behind.    *)
WrittenTo(f, len) ==
    [name |-> f.name, written |-> f.written + len, safe |-> f.safe,
     records |-> Append(f.records, [time |-> clock, total |-> f.written + len])]
FlushedFile(f) ==
    [name |-> f.name, written |-> f.written, records |-> f.records, safe |-> Len(f.records)]

(* Appending changes the open file only.                                   *)
LEMMA WrittenIs ==
    ASSUME NEW fs \in Seq(File), Len(fs) > 0, NEW len \in Nat, clock \in Nat
    PROVE  /\ Len(Written(fs, len)) = Len(fs) /\ Written(fs, len) \in Seq(File)
           /\ Written(fs, len)[Len(fs)] = WrittenTo(fs[Len(fs)], len)
           /\ \A i \in 1 .. Len(fs) : i < Len(fs) => Written(fs, len)[i] = fs[i]
<1> DEFINE n == Len(fs)
           f == fs[n]
           g == WrittenTo(f, len)
<1>1. n \in 1 .. n /\ DOMAIN fs = 1 .. n /\ f \in File
    BY SMTT(60)
<1>2. f.written \in Nat /\ f.name \in Nat /\ f.safe \in Nat /\ f.records \in Seq(Record)
    BY <1>1 DEF File
<1>3. [time |-> clock, total |-> f.written + len] \in Record
    BY <1>2, SMTT(60) DEF Record
<1>4. g \in File
    BY <1>2, <1>3, SMTT(60) DEF File, WrittenTo
<1>5. Written(fs, len) = [fs EXCEPT ![n] = g]
    BY DEF Written, WrittenTo
<1> HIDE DEF g, f, n
<1>6. /\ Len([fs EXCEPT ![n] = g]) = Len(fs) /\ [fs EXCEPT ![n] = g] \in Seq(File)
      /\ [fs EXCEPT ![n] = g][n] = g
      /\ \A i \in 1 .. n : i < n => [fs EXCEPT ![n] = g][i] = fs[i]
    BY <1>1, <1>4, SMTT(60)
<1> QED
    BY <1>5, <1>6 DEF g, f, n

(* fflush changes one field.                                               *)
LEMMA FlushedRecord ==
    ASSUME NEW f \in File
    PROVE  [f EXCEPT !.safe = Len(f.records)] = FlushedFile(f)
BY SMTT(60) DEF File, FlushedFile

(* Flushing too.                                                           *)
LEMMA FlushedIs ==
    ASSUME NEW fs \in Seq(File), Len(fs) > 0
    PROVE  /\ Len(Flushed(fs)) = Len(fs) /\ Flushed(fs) \in Seq(File)
           /\ Flushed(fs)[Len(fs)] = FlushedFile(fs[Len(fs)])
           /\ \A i \in 1 .. Len(fs) : i < Len(fs) => Flushed(fs)[i] = fs[i]
<1> DEFINE n == Len(fs)
           f == fs[n]
           g == FlushedFile(f)
<1>1. n \in 1 .. n /\ DOMAIN fs = 1 .. n /\ f \in File
    BY SMTT(60)
<1>2. f.written \in Nat /\ f.name \in Nat /\ f.records \in Seq(Record) /\ Len(f.records) \in Nat
    BY <1>1, SMTT(60) DEF File
<1>3. g \in File
    BY <1>2 DEF File, FlushedFile
<1>4. [f EXCEPT !.safe = Len(f.records)] = g
    BY <1>1, FlushedRecord
<1>5. Flushed(fs) = [fs EXCEPT ![n] = g]
    BY <1>1, <1>4 DEF Flushed
<1> HIDE DEF g, f, n
<1>6. /\ Len([fs EXCEPT ![n] = g]) = Len(fs) /\ [fs EXCEPT ![n] = g] \in Seq(File)
      /\ [fs EXCEPT ![n] = g][n] = g
      /\ \A i \in 1 .. n : i < n => [fs EXCEPT ![n] = g][i] = fs[i]
    BY <1>1, <1>3, SMTT(60)
<1> QED
    BY <1>5, <1>6 DEF g, f, n

(* A record more.                                                          *)
LEMMA WrittenRecords ==
    ASSUME NEW f \in File, NEW len \in Nat, clock \in Nat
    PROVE  LET n == Len(f.records)
               g == WrittenTo(f, len)
           IN /\ Len(g.records) = n + 1 /\ g.name = f.name /\ g.safe = f.safe
              /\ g.written = f.written + len
              /\ g.records[n + 1].time = clock /\ g.records[n + 1].total = f.written + len
              /\ \A j \in 1 .. n : /\ g.records[j].time = f.records[j].time
                                   /\ g.records[j].total = f.records[j].total
<1> DEFINE r == [time |-> clock, total |-> f.written + len]
<1>1. f.records \in Seq(Record) /\ f.written \in Nat
    BY DEF File
<1>2. r \in Record
    BY <1>1, SMTT(60) DEF Record
<1>3. /\ Len(Append(f.records, r)) = Len(f.records) + 1
      /\ Append(f.records, r)[Len(f.records) + 1] = r
      /\ \A j \in 1 .. Len(f.records) : Append(f.records, r)[j] = f.records[j]
    BY <1>1, <1>2, SMTT(60)
<1> QED
    BY <1>3, SMTT(60) DEF WrittenTo

(* Totals stay below what was written.                                     *)
LEMMA WrittenTotals ==
    ASSUME NEW f \in File, NEW len \in Nat, clock \in Nat, Totals(f)
    PROVE  Totals(WrittenTo(f, len))
<1> DEFINE n == Len(f.records)
           g == WrittenTo(f, len)
<1>1. /\ Len(g.records) = n + 1 /\ g.written = f.written + len /\ g.records[n + 1].total = f.written + len
      /\ \A j \in 1 .. n : g.records[j].total = f.records[j].total
    BY WrittenRecords
<1>2. n \in Nat /\ f.written \in Nat /\ \A j \in 1 .. n : f.records[j].total \in Nat
    BY RecordTypes
<1>3. \A j \in 1 .. n : f.records[j].total <= f.written
    BY DEF Totals
<1> HIDE DEF g, n
<1>4. ASSUME NEW j \in 1 .. n + 1
      PROVE  g.records[j].total <= f.written + len
    <2>1. CASE j = n + 1
        BY <1>1, <1>2, <2>1, SMTT(60)
    <2>2. CASE j \in 1 .. n
        <3>1. g.records[j].total = f.records[j].total /\ f.records[j].total <= f.written
              /\ f.records[j].total \in Nat
            BY <1>1, <1>2, <1>3, <2>2
        <3> QED
            BY <1>2, <3>1, SMTT(60)
    <2> QED
        BY <1>2, <2>1, <2>2, SMTT(60)
<1> QED
    BY <1>1, <1>4 DEF Totals, g

(* A record that is counted, or that makes the file too large when it      *)
(* cannot be rolled.                                                       *)
LEMMA WrittenFresh ==
    ASSUME NEW f \in File, NEW len \in Nat, clock \in Nat, Totals(f),
           NEW c \in Nat, NEW e \in Nat, NEW flush \in Nat, NEW period,
           Fresh(f, c, flush, period, clock),
           \/ e = c + 1 /\ ~TooLarge(WrittenTo(f, len))
           \/ e = c /\ TooLarge(WrittenTo(f, len))
    PROVE  Fresh(WrittenTo(f, len), e, flush, period, clock)
<1> DEFINE n == Len(f.records)
           g == WrittenTo(f, len)
           time(j) == f.records[j].time
           total(j) == f.records[j].total
<1>1. /\ Len(g.records) = n + 1 /\ g.name = f.name /\ g.safe = f.safe
      /\ g.written = f.written + len
      /\ g.records[n + 1].time = clock /\ g.records[n + 1].total = f.written + len
      /\ \A j \in 1 .. n : g.records[j].time = time(j) /\ g.records[j].total = total(j)
    BY WrittenRecords
<1>2. /\ n \in Nat /\ f.name \in Nat /\ f.safe \in Nat /\ f.written \in Nat /\ RollSize \in Nat
      /\ \A j \in 1 .. n : time(j) \in Nat /\ total(j) \in Nat
    BY RecordTypes, LogAssumption
<1>3. \A j \in 1 .. n : total(j) <= f.written
    BY DEF Totals
<1>4. PICK m \in 0 .. n :
        /\ \A j \in m + 1 .. n : j > m + c => total(j) > RollSize
        /\ \A j \in 1 .. m : time(j) <= flush + FlushInterval /\ Period(time(j)) = period
    BY DEF Fresh, Looked
<1>5. \/ e = c + 1 /\ ~(f.written + len > RollSize)
      \/ e = c /\ f.written + len > RollSize
    BY <1>1 DEF TooLarge
<1>6. /\ f.name <= flush /\ flush <= clock
      /\ \A j \in 1 .. n : f.name <= time(j) /\ time(j) <= clock
      /\ \A j \in f.safe + 1 .. n : flush <= time(j)
    BY DEF Fresh
<1> HIDE DEF g, n, time, total
<1>7. ASSUME NEW j \in m + 1 .. n + 1, j > m + e
      PROVE  g.records[j].total > RollSize
    <2>1. CASE e = c /\ f.written + len > RollSize
        <3>1. CASE j = n + 1
            BY <1>1, <2>1, <3>1
        <3>2. CASE j \in 1 .. n
            <4>1. j \in m + 1 .. n /\ j > m + c
                BY <1>2, <1>7, <2>1, <3>2, SMTT(60)
            <4> QED
                BY <1>1, <1>4, <3>2, <4>1
        <3> QED
            BY <1>2, <3>1, <3>2, SMTT(60)
    <2>2. CASE e = c + 1 /\ ~(f.written + len > RollSize)
        <3>1. n > m + c /\ n \in m + 1 .. n /\ n \in 1 .. n
            BY <1>2, <1>4, <1>7, <2>2, SMTT(60)
        <3>2. total(n) > RollSize /\ total(n) <= f.written /\ total(n) \in Nat
            BY <1>2, <1>3, <1>4, <3>1
        <3> QED
            BY <1>2, <2>2, <3>2, SMTT(60)
    <2> QED
        BY <1>5, <2>1, <2>2
<1>8. ASSUME NEW j \in 1 .. m
      PROVE  g.records[j].time <= flush + FlushInterval /\ Period(g.records[j].time) = period
    <2>1. j \in 1 .. n
        BY <1>2, SMTT(60)
    <2> QED
        BY <1>1, <1>4, <2>1
<1>9. m \in 0 .. n + 1
    BY <1>2, SMTT(60)
<1>10. Looked(g, e, flush, period)
    BY <1>1, <1>7, <1>8, <1>9 DEF Looked
<1>11. ASSUME NEW j \in 1 .. n + 1
       PROVE  g.name <= g.records[j].time /\ g.records[j].time <= clock
    <2>1. CASE j = n + 1
        BY <1>1, <1>2, <1>6, <2>1, SMTT(60)
    <2>2. CASE j \in 1 .. n
        BY <1>1, <1>6, <2>2
    <2> QED
        BY <1>2, <2>1, <2>2, SMTT(60)
<1>12. ASSUME NEW j \in g.safe + 1 .. n + 1
       PROVE  flush <= g.records[j].time
    <2>1. CASE j = n + 1
        BY <1>1, <1>6, <2>1
    <2>2. CASE j # n + 1
        <3>1. j \in 1 .. n /\ j \in f.safe + 1 .. n
            BY <1>1, <1>2, <2>2, SMTT(60)
        <3> QED
            BY <1>1, <1>6, <3>1
    <2> QED
        BY <2>1, <2>2
<1> QED
    BY <1>1, <1>6, <1>10, <1>11, <1>12 DEF Fresh, g

(* Just after a look at the clock, no record is left to be counted.        *)
LEMMA SeenFresh ==
    ASSUME NEW h \in File, clock \in Nat, NEW flush \in Nat, h.name <= flush, flush <= clock,
           clock <= flush + FlushInterval, Period(clock) = Period(h.name),
           \A j \in 1 .. Len(h.records) : h.name <= h.records[j].time /\ h.records[j].time <= clock,
           \A j \in h.safe + 1 .. Len(h.records) : flush <= h.records[j].time
    PROVE  Fresh(h, 0, flush, Period(h.name), clock)
<1> DEFINE n == Len(h.records)
<1>1. /\ n \in Nat /\ h.name \in Nat /\ FlushInterval \in Nat
      /\ \A j \in 1 .. n : h.records[j].time \in Nat
    BY RecordTypes, LogAssumption
<1>2. ASSUME NEW j \in 1 .. n
      PROVE  /\ h.records[j].time <= flush + FlushInterval
             /\ Period(h.records[j].time) = Period(h.name)
    <2> DEFINE t == h.records[j].time
    <2>1. t \in Nat /\ h.name <= t /\ t <= clock
        BY <1>1, <1>2
    <2> HIDE DEF t
    <2>2. Period(h.name) <= Period(t) /\ Period(t) <= Period(clock) /\ Period(t) \in Nat /\ Period(clock) \in Nat
        BY <1>1, <2>1, PeriodMonotone
    <2>3. t <= flush + FlushInterval /\ Period(t) = Period(h.name)
        BY <1>1, <2>1, <2>2, SMTT(60)
    <2> QED
        BY <2>3 DEF t
<1>3. n \in 0 .. n /\ n + 1 .. n = {}
    BY <1>1, SMTT(60)
<1>4. Looked(h, 0, flush, Period(h.name))
    BY <1>2, <1>3 DEF Looked
<1> QED
    BY <1>4 DEF Fresh

(* A flush changes nothing but what may be lost.                           *)
LEMMA FlushedFresh ==
    ASSUME NEW f \in File, NEW c, NEW flush, NEW period, NEW t, Fresh(f, c, flush, period, t)
    PROVE  Fresh(FlushedFile(f), c, flush, period, t)
<1>1. FlushedFile(f).name = f.name /\ FlushedFile(f).records = f.records
      /\ FlushedFile(f).safe = Len(f.records)
    BY DEF FlushedFile
<1>2. Len(f.records) + 1 .. Len(f.records) = {}
    BY RecordTypes, SMTT(60)
<1> QED
    BY <1>1, <1>2 DEF Fresh, Looked

(* The totals and the days of a file do not depend on flushes.             *)
LEMMA FlushedAsBefore ==
    ASSUME NEW f
    PROVE  /\ Totals(FlushedFile(f)) <=> Totals(f)
           /\ InItsDay(FlushedFile(f)) <=> InItsDay(f)
<1>1. FlushedFile(f).name = f.name /\ FlushedFile(f).records = f.records
      /\ FlushedFile(f).written = f.written
    BY DEF FlushedFile
<1> QED
    BY <1>1 DEF Totals, InItsDay, OtherDay

(* A new file is fresh.                                                    *)
LEMMA NewFresh ==
    ASSUME clock \in Nat, NEW c \in Nat
    PROVE  NewFile \in File /\ Totals(NewFile) /\ Fresh(NewFile, c, clock, Period(clock), clock)
<1>1. NewFile.name = clock /\ NewFile.records = <<>> /\ NewFile.safe = 0 /\ NewFile \in File
    BY SMTT(60) DEF NewFile, File
<1>2. Len(<<>>) = 0 /\ 1 .. 0 = {} /\ 0 \in 0 .. 0 /\ 0 + 1 .. 0 = {}
    BY SMTT(60)
<1>3. Looked(NewFile, c, clock, Period(clock))
    BY <1>1, <1>2 DEF Looked
<1>4. clock <= clock
    BY SMTT(60)
<1> QED
    BY <1>1, <1>2, <1>3, <1>4 DEF Fresh, Totals

(* The record after which a file is rolled is one more of another day.     *)
LEMMA WrittenDays ==
    ASSUME NEW f \in File, Kept(f), NEW len \in Nat, clock \in Nat,
           NEW c \in 0 .. CheckEveryN, NEW flush \in Nat, Fresh(f, c, flush, Period(f.name), clock)
    PROVE  InItsDay(WrittenTo(f, len))
<1> DEFINE n == Len(f.records)
           g == WrittenTo(f, len)
           S == OtherDay(f)
<1>1. /\ Len(g.records) = n + 1 /\ g.name = f.name
      /\ \A j \in 1 .. n : g.records[j].time = f.records[j].time
    BY WrittenRecords
<1>2. n \in Nat /\ DOMAIN f.records = 1 .. n /\ CheckEveryN \in Nat /\ c \in Nat /\ c <= CheckEveryN
    BY RecordTypes, LogAssumption, SMTT(60)
<1>3. DOMAIN g.records = 1 .. n + 1
    <2>1. WrittenTo(f, len) \in File
        <3>1. [time |-> clock, total |-> f.written + len] \in Record
            BY SMTT(60) DEF File, Record
        <3> QED
            BY <3>1, SMTT(60) DEF WrittenTo, File
    <2> QED
        BY <1>1, <2>1, RecordTypes
<1>4. IsFiniteSet(S) /\ Cardinality(S) \in Nat /\ Cardinality(S) <= c
    BY <1>2, FewOtherDays
<1>5. IsFiniteSet(S \cup {n + 1}) /\ Cardinality(S \cup {n + 1}) <= c + 1
    <2>1. IsFiniteSet(S \cup {n + 1})
        BY <1>4, FS_AddElement
    <2>2. \/ Cardinality(S \cup {n + 1}) = Cardinality(S)
          \/ Cardinality(S \cup {n + 1}) = Cardinality(S) + 1
        BY <1>4, FS_AddElement
    <2> QED
        BY <1>2, <1>4, <2>1, <2>2, SMTT(60)
<1>6. OtherDay(g) \subseteq S \cup {n + 1}
    <2> HIDE DEF g, n
    <2> SUFFICES ASSUME NEW k \in OtherDay(g), k # n + 1 PROVE k \in S
        OBVIOUS
    <2>1. k \in 1 .. n + 1 /\ Period(g.records[k].time) # Period(g.name)
        BY <1>3 DEF OtherDay
    <2>2. k \in 1 .. n
        BY <1>2, <2>1, SMTT(60)
    <2> QED
        BY <1>1, <1>2, <2>1, <2>2 DEF OtherDay
<1>7. /\ Cardinality(OtherDay(g)) \in Nat /\ Cardinality(S \cup {n + 1}) \in Nat
      /\ Cardinality(OtherDay(g)) <= Cardinality(S \cup {n + 1})
    <2>1. IsFiniteSet(OtherDay(g)) /\ Cardinality(OtherDay(g)) <= Cardinality(S \cup {n + 1})
        BY <1>5, <1>6, FS_Subset
    <2> QED
        BY <1>5, <2>1, FS_CardinalityType
<1> HIDE DEF g, S, n
<1>8. Cardinality(OtherDay(g)) <= CheckEveryN + 1
    BY <1>2, <1>5, <1>7, SMTT(60)
<1> QED
    BY <1>8 DEF InItsDay, g

(* A roll leaves a new file behind, and closed ones that were in their day.*)
LEMMA RollTimed ==
    ASSUME NEW fs \in Seq(File), Len(fs) > 0, clock \in Nat, NEW cnt \in 0 .. CheckEveryN,
           ~turnedBack => \A i \in 1 .. Len(fs) : InItsDay(fs[i])
    PROVE  Timed(Append(Flushed(fs), NewFile), cnt, clock)
<1> DEFINE n == Len(fs)
           hs == Append(Flushed(fs), NewFile)
<1>1. /\ Len(Flushed(fs)) = n /\ Flushed(fs) \in Seq(File)
      /\ Flushed(fs)[n] = FlushedFile(fs[n])
      /\ \A i \in 1 .. n : i < n => Flushed(fs)[i] = fs[i]
    BY FlushedIs
<1>2. cnt \in Nat /\ n \in Nat
    BY LogAssumption, SMTT(60)
<1>3. NewFile \in File /\ Totals(NewFile) /\ Fresh(NewFile, cnt, clock, Period(clock), clock)
      /\ NewFile.name = clock
    BY <1>2, NewFresh DEF NewFile
<1>4. /\ Len(hs) = n + 1 /\ DOMAIN hs = 1 .. n + 1 /\ hs[n + 1] = NewFile
      /\ \A i \in 1 .. n : hs[i] = Flushed(fs)[i]
    BY <1>1, <1>3, SMTT(60)
<1>5. ASSUME ~turnedBack, NEW i \in 1 .. n + 1, i < n + 1
      PROVE  InItsDay(hs[i])
    <2>1. i \in 1 .. n /\ (i = n \/ i < n)
        BY <1>2, <1>5, SMTT(60)
    <2>2. hs[i] = fs[i] \/ hs[i] = FlushedFile(fs[i])
        BY <1>1, <1>4, <2>1
    <2>3. InItsDay(fs[i])
        BY <1>5, <2>1
    <2> QED
        BY <2>2, <2>3, FlushedAsBefore
<1> QED
    BY <1>3, <1>4, <1>5 DEF Timed

(* append_unlocked: it rolls, counts, or looks at the clock.               *)
LEMMA AppendTimely ==
    ASSUME LInv, Timely, NEW len \in Nat, append_unlocked(len), UNCHANGED <<clock, turnedBack>>
    PROVE  startOfPeriod' = Period(lastRoll') /\ Timed(files', count', lastFlush')
<1> DEFINE n == Len(files)
           f == files[n]
           fs == Written(files, len)
           g == WrittenTo(f, len)
<1>1. /\ clock \in Nat /\ lastRoll \in Nat /\ files \in Seq(File) /\ n > 0 /\ n \in Nat
      /\ f.name = lastRoll /\ Kept(f)
    BY SMTT(60) DEF LInv, Sound
<1>2. f \in File /\ DOMAIN files = 1 .. n /\ n \in 1 .. n
    BY <1>1, SMTT(60)
<1>3. Len(fs) = n /\ fs \in Seq(File) /\ fs[n] = g /\ \A i \in 1 .. n : i < n => fs[i] = files[i]
    BY <1>1, WrittenIs
<1>4. g \in File /\ DOMAIN fs = 1 .. n
    BY <1>1, <1>2, <1>3, SMTT(60)
<1>5. /\ count \in 0 .. CheckEveryN /\ lastFlush \in Nat /\ Totals(f)
      /\ ~turnedBack => /\ Fresh(f, count, lastFlush, Period(f.name), clock)
                        /\ \A i \in 1 .. n : i < n => InItsDay(files[i])
    BY <1>2 DEF Timely, Timed
<1>6. count \in Nat /\ CheckEveryN \in Nat /\ FlushInterval \in Nat
    BY <1>5, LogAssumption, SMTT(60)
<1>7. startOfPeriod = Period(lastRoll) /\ g.name = lastRoll
    BY <1>1 DEF Timely, WrittenTo
<1>8. Totals(g)
    BY <1>1, <1>2, <1>5, WrittenTotals
<1>9. ~turnedBack => \A i \in 1 .. n : InItsDay(fs[i])
    <2> SUFFICES ASSUME ~turnedBack, NEW i \in 1 .. n PROVE InItsDay(fs[i])
        OBVIOUS
    <2>1. CASE i = n
        BY <1>1, <1>2, <1>3, <1>5, <2>1, WrittenDays
    <2>2. CASE i < n
        BY <1>3, <1>5, <2>2
    <2> QED
        BY <1>1, <2>1, <2>2, SMTT(60)
<1> HIDE DEF fs, g, f, n
<1>10. ASSUME NEW hs, Len(hs) = n, DOMAIN hs = 1 .. n, \A i \in 1 .. n : i < n => hs[i] = files[i],
              Totals(hs[n]), NEW cnt \in 0 .. CheckEveryN, NEW flush \in Nat,
              ~turnedBack => Fresh(hs[n], cnt, flush, Period(hs[n].name), clock)
       PROVE  Timed(hs, cnt, flush)
    BY <1>5, <1>10 DEF Timed
<1>11. ASSUME NEW cnt \in 0 .. CheckEveryN, rollFile(fs), count' = cnt, MayRoll
       PROVE  startOfPeriod' = Period(lastRoll') /\ Timed(files', count', lastFlush')
    <2>1. /\ lastRoll' = clock /\ lastFlush' = clock /\ startOfPeriod' = Period(clock)
          /\ files' = Append(Flushed(fs), NewFile)
        BY <1>11 DEF rollFile
    <2>2. Timed(Append(Flushed(fs), NewFile), cnt, clock)
        BY <1>1, <1>3, <1>9, RollTimed
    <2> QED
        BY <1>11, <2>1, <2>2
<1>12. ASSUME rollFile(fs), ~MayRoll
       PROVE  files' = fs /\ lastRoll' = lastRoll /\ lastFlush' = lastFlush /\ startOfPeriod' = startOfPeriod
    BY <1>12 DEF rollFile
<1>13. CASE TooLarge(g)
    <2>1. rollFile(fs) /\ count' = count
        BY <1>3, <1>13 DEF append_unlocked, fs
    <2>2. CASE MayRoll
        BY <1>5, <1>11, <2>1, <2>2
    <2>3. CASE ~MayRoll
        <3>1. ~turnedBack => Fresh(g, count, lastFlush, Period(g.name), clock)
            <4> SUFFICES ASSUME ~turnedBack PROVE Fresh(g, count, lastFlush, Period(g.name), clock)
                OBVIOUS
            <4>1. Fresh(f, count, lastFlush, Period(f.name), clock) /\ f.name = g.name
                BY <1>1, <1>5, <1>7
            <4> QED
                BY <1>1, <1>2, <1>5, <1>6, <1>13, <4>1, WrittenFresh DEF g
        <3>2. Timed(fs, count, lastFlush)
            BY <1>3, <1>4, <1>5, <1>8, <1>10, <3>1
        <3> QED
            BY <1>7, <1>12, <2>1, <2>3, <3>2
    <2> QED
        BY <2>2, <2>3
<1>14. CASE ~TooLarge(g) /\ ~Due(count + 1)
    <2>1. count' = count + 1 /\ files' = fs /\ UNCHANGED <<lastRoll, lastFlush, startOfPeriod>>
        BY <1>3, <1>14 DEF append_unlocked, fs
    <2>2. count + 1 \in 0 .. CheckEveryN /\ count + 1 \in Nat
        BY <1>6, <1>14, SMTT(60) DEF Due
    <2>3. ~turnedBack => Fresh(g, count + 1, lastFlush, Period(g.name), clock)
        <3> SUFFICES ASSUME ~turnedBack PROVE Fresh(g, count + 1, lastFlush, Period(g.name), clock)
            OBVIOUS
        <3>1. Fresh(f, count, lastFlush, Period(f.name), clock) /\ f.name = g.name
            BY <1>1, <1>5, <1>7
        <3> QED
            BY <1>1, <1>2, <1>5, <1>6, <1>14, <2>2, <3>1, WrittenFresh DEF g
    <2>4. Timed(fs, count + 1, lastFlush)
        BY <1>3, <1>4, <1>5, <1>8, <1>10, <2>2, <2>3
    <2> QED
        BY <1>7, <2>1, <2>4
<1>15. CASE ~TooLarge(g) /\ Due(count + 1)
    <2>1. count' = 0 /\ CheckTime(fs)
        BY <1>3, <1>15 DEF append_unlocked, fs
    <2>2. 0 \in 0 .. CheckEveryN
        BY <1>6, SMTT(60)
    <2>3. ~turnedBack => /\ lastRoll <= lastFlush /\ lastFlush <= clock
                         /\ Fresh(g, count + 1, lastFlush, Period(g.name), clock)
        <3> SUFFICES ASSUME ~turnedBack
                     PROVE  /\ lastRoll <= lastFlush /\ lastFlush <= clock
                            /\ Fresh(g, count + 1, lastFlush, Period(g.name), clock)
            OBVIOUS
        <3>1. Fresh(f, count, lastFlush, Period(f.name), clock) /\ f.name = g.name
            BY <1>1, <1>5, <1>7
        <3>2. count + 1 \in Nat
            BY <1>6, SMTT(60)
        <3>3. Fresh(g, count + 1, lastFlush, Period(g.name), clock)
            BY <1>1, <1>2, <1>5, <1>6, <1>15, <3>1, <3>2, WrittenFresh DEF g
        <3> QED
            BY <1>7, <3>3 DEF Fresh
    <2>4. CASE Period(clock) # startOfPeriod
        <3>1. rollFile(fs)
            BY <2>1, <2>4 DEF CheckTime
        <3>2. CASE MayRoll
            BY <1>11, <2>1, <2>2, <3>1, <3>2
        <3>3. CASE ~MayRoll
            <4>1. turnedBack
                BY <1>1, <1>5, <1>7, <2>3, <2>4, <3>3, SMTT(60) DEF MayRoll
            <4>2. Timed(fs, 0, lastFlush)
                BY <1>3, <1>4, <1>5, <1>8, <1>10, <2>2, <4>1
            <4> QED
                BY <1>7, <1>12, <2>1, <3>1, <3>3, <4>2
        <3> QED
            BY <3>2, <3>3
    <2>5. CASE Period(clock) = startOfPeriod
        <3>1. lastRoll' = lastRoll /\ startOfPeriod' = startOfPeriod
            BY <2>1, <2>5 DEF CheckTime
        <3>2. Period(clock) = Period(g.name)
            BY <1>7, <2>5
        <3>3. CASE clock - lastFlush > FlushInterval
            <4> DEFINE h == FlushedFile(g)
            <4>1. lastFlush' = clock /\ files' = Flushed(fs)
                BY <2>1, <2>5, <3>3 DEF CheckTime
            <4>2. /\ Len(Flushed(fs)) = n /\ Flushed(fs) \in Seq(File) /\ Flushed(fs)[n] = h
                  /\ \A i \in 1 .. n : i < n => Flushed(fs)[i] = fs[i]
                BY <1>1, <1>3, FlushedIs
            <4>3. DOMAIN Flushed(fs) = 1 .. n /\ h \in File
                BY <1>1, <4>2, SMTT(60)
            <4>4. Totals(h)
                BY <1>8, FlushedAsBefore
            <4>5. h.name = g.name /\ h.records = g.records /\ h.safe = Len(g.records)
                BY DEF FlushedFile
            <4>6. Len(g.records) + 1 .. Len(g.records) = {}
                BY <1>4, RecordTypes, SMTT(60)
            <4>7. ~turnedBack => Fresh(h, 0, clock, Period(h.name), clock)
                <5> SUFFICES ASSUME ~turnedBack PROVE Fresh(h, 0, clock, Period(h.name), clock)
                    OBVIOUS
                <5>1. h.name <= clock /\ clock <= clock /\ clock <= clock + FlushInterval
                    BY <1>1, <1>5, <1>6, <1>7, <2>3, <4>5, SMTT(60)
                <5>2. /\ \A j \in 1 .. Len(h.records) : h.name <= h.records[j].time /\ h.records[j].time <= clock
                      /\ \A j \in h.safe + 1 .. Len(h.records) : clock <= h.records[j].time
                    BY <2>3, <4>5, <4>6 DEF Fresh
                <5>3. Period(clock) = Period(h.name)
                    BY <3>2, <4>5
                <5> HIDE DEF h
                <5> QED
                    BY <1>1, <4>3, <5>1, <5>2, <5>3, SeenFresh
            <4>8. \A i \in 1 .. n : i < n => Flushed(fs)[i] = files[i]
                BY <1>3, <4>2
            <4> HIDE DEF h
            <4>9. Timed(Flushed(fs), 0, clock)
                BY <1>1, <1>10, <2>2, <4>2, <4>3, <4>4, <4>7, <4>8
            <4> QED
                BY <1>7, <2>1, <3>1, <4>1, <4>9
        <3>4. CASE ~(clock - lastFlush > FlushInterval)
            <4>1. lastFlush' = lastFlush /\ files' = fs
                BY <2>1, <2>5, <3>4 DEF CheckTime
            <4>2. ~turnedBack => Fresh(g, 0, lastFlush, Period(g.name), clock)
                <5> SUFFICES ASSUME ~turnedBack PROVE Fresh(g, 0, lastFlush, Period(g.name), clock)
                    OBVIOUS
                <5>1. clock <= lastFlush + FlushInterval
                    BY <1>1, <1>5, <1>6, <3>4, SMTT(60)
                <5>2. /\ g.name <= lastFlush /\ lastFlush <= clock
                      /\ \A j \in 1 .. Len(g.records) : g.name <= g.records[j].time /\ g.records[j].time <= clock
                      /\ \A j \in g.safe + 1 .. Len(g.records) : lastFlush <= g.records[j].time
                    BY <2>3 DEF Fresh
                <5> QED
                    BY <1>1, <1>4, <1>5, <3>2, <5>1, <5>2, SeenFresh
            <4>3. Timed(fs, 0, lastFlush)
                BY <1>3, <1>4, <1>5, <1>8, <1>10, <2>2, <4>2
            <4> QED
                BY <1>7, <2>1, <3>1, <4>1, <4>3
        <3> QED
            BY <3>3, <3>4
    <2> QED
        BY <2>4, <2>5
<1> QED
    BY <1>13, <1>14, <1>15

(* What the open file is when no append is under way.                      *)
LEMMA OpenFileFacts ==
    ASSUME LInv, Timely
    PROVE  LET n == Len(files)
               f == files[n]
           IN /\ clock \in Nat /\ files \in Seq(File) /\ n > 0 /\ n \in Nat /\ n \in 1 .. n
              /\ DOMAIN files = 1 .. n /\ f \in File /\ Kept(f)
              /\ count \in 0 .. CheckEveryN /\ count \in Nat /\ lastFlush \in Nat /\ Totals(f)
              /\ ~turnedBack => /\ Fresh(f, count, lastFlush, Period(f.name), clock)
                                /\ \A i \in 1 .. n : i < n => InItsDay(files[i])
<1> DEFINE n == Len(files)
           f == files[n]
<1>1. clock \in Nat /\ files \in Seq(File) /\ n > 0 /\ n \in Nat /\ Kept(f)
    BY SMTT(60) DEF LInv, Sound
<1>2. n \in 1 .. n /\ DOMAIN files = 1 .. n /\ f \in File
    BY <1>1, SMTT(60)
<1>3. /\ count \in 0 .. CheckEveryN /\ lastFlush \in Nat /\ Totals(f)
      /\ ~turnedBack => /\ Fresh(f, count, lastFlush, Period(f.name), clock)
                        /\ \A i \in 1 .. n : i < n => InItsDay(files[i])
    BY <1>2 DEF Timely, Timed
<1>4. count \in Nat
    BY <1>3, LogAssumption, SMTT(60)
<1> QED
    BY <1>1, <1>2, <1>3, <1>4

(* A file with few records of another day is in its day.                   *)
LEMMA OpenInItsDay ==
    ASSUME LInv, Timely, ~turnedBack
    PROVE  InItsDay(files[Len(files)])
<1> DEFINE f == files[Len(files)]
<1>1. /\ f \in File /\ Kept(f) /\ count \in Nat /\ count \in 0 .. CheckEveryN
      /\ lastFlush \in Nat /\ clock \in Nat
      /\ Fresh(f, count, lastFlush, Period(f.name), clock)
    BY OpenFileFacts
<1> HIDE DEF f
<1>2. Cardinality(OtherDay(f)) \in Nat /\ Cardinality(OtherDay(f)) <= count
    BY <1>1, FewOtherDays
<1>3. Cardinality(OtherDay(f)) <= CheckEveryN + 1
    BY <1>1, <1>2, LogAssumption, SMTT(60)
<1> QED
    BY <1>3 DEF InItsDay, f

(* Every step keeps the invariant.                                         *)
LEMMA NextTimely ==
    ASSUME LInv, Timely, [LogNext]_logVars
    PROVE  Timely'
<1> DEFINE n == Len(files)
           f == files[n]
<1>1. /\ clock \in Nat /\ files \in Seq(File) /\ n > 0 /\ n \in Nat /\ n \in 1 .. n
      /\ DOMAIN files = 1 .. n /\ f \in File /\ Kept(f)
      /\ count \in 0 .. CheckEveryN /\ count \in Nat /\ lastFlush \in Nat /\ Totals(f)
      /\ ~turnedBack => /\ Fresh(f, count, lastFlush, Period(f.name), clock)
                        /\ \A i \in 1 .. n : i < n => InItsDay(files[i])
    BY OpenFileFacts
<1>2. startOfPeriod = Period(lastRoll) /\ Timed(files, count, lastFlush)
    BY DEF Timely
<1>3. ASSUME startOfPeriod' = Period(lastRoll') /\ Timed(files', count', lastFlush'),
             clock' = clock, turnedBack' = turnedBack
      PROVE  Timely'
    BY <1>3 DEF Timely, Timed
<1>4. ASSUME NEW len \in RecordSizes, LogAppend(len) PROVE Timely'
    <2>1. len \in Nat
        BY LogAssumption
    <2>2. append_unlocked(len) /\ UNCHANGED <<clock, turnedBack>>
        BY <1>4 DEF LogAppend
    <2> QED
        BY <1>3, <2>1, <2>2, AppendTimely
<1>5. CASE LogFlush
    <2>1. files' = Flushed(files) /\ UNCHANGED <<clock, turnedBack, count, lastRoll, lastFlush, startOfPeriod>>
        BY <1>5 DEF LogFlush
    <2>2. /\ Len(Flushed(files)) = n /\ Flushed(files) \in Seq(File)
          /\ Flushed(files)[n] = FlushedFile(f)
          /\ \A i \in 1 .. n : i < n => Flushed(files)[i] = files[i]
        BY <1>1, FlushedIs
    <2>3. DOMAIN Flushed(files) = 1 .. n
        BY <1>1, <2>2, SMTT(60)
    <2>4. Totals(FlushedFile(f)) /\ FlushedFile(f).name = f.name
        BY <1>1, FlushedAsBefore DEF FlushedFile
    <2>5. ~turnedBack => Fresh(FlushedFile(f), count, lastFlush, Period(f.name), clock)
        BY <1>1, FlushedFresh
    <2> HIDE DEF f, n
    <2>6. Timed(Flushed(files), count, lastFlush)
        BY <1>1, <2>2, <2>3, <2>4, <2>5 DEF Timed
    <2> QED
        BY <1>2, <1>3, <2>1, <2>6
<1>6. CASE LogRoll
    <2>1. rollFile(files) /\ UNCHANGED <<clock, turnedBack, count>>
        BY <1>6 DEF LogRoll
    <2>2. CASE MayRoll
        <3>1. /\ lastRoll' = clock /\ lastFlush' = clock /\ startOfPeriod' = Period(clock)
              /\ files' = Append(Flushed(files), NewFile)
            BY <2>1, <2>2 DEF rollFile
        <3>2. ~turnedBack => \A i \in 1 .. n : InItsDay(files[i])
            <4> SUFFICES ASSUME ~turnedBack, NEW i \in 1 .. n PROVE InItsDay(files[i])
                OBVIOUS
            <4>1. n \in Nat
                BY <1>1
            <4>2. i = n \/ i < n
                BY <4>1, SMTT(60)
            <4> QED
                BY <1>1, <4>2, OpenInItsDay
        <3>3. Timed(Append(Flushed(files), NewFile), count, clock)
            BY <1>1, <3>2, RollTimed
        <3> QED
            BY <1>3, <2>1, <3>1, <3>3
    <2>3. CASE ~MayRoll
        <3>1. files' = files /\ UNCHANGED <<lastRoll, lastFlush, startOfPeriod>>
            BY <2>1, <2>3 DEF rollFile
        <3> QED
            BY <1>2, <1>3, <2>1, <3>1
    <2> QED
        BY <2>2, <2>3
<1>7. CASE ClockTicks
    <2>1. clock' = clock + 1 /\ UNCHANGED <<turnedBack, files, count, lastRoll, lastFlush, startOfPeriod>>
        BY <1>7 DEF ClockTicks
    <2>2. ~turnedBack => Fresh(f, count, lastFlush, Period(f.name), clock + 1)
        <3> SUFFICES ASSUME ~turnedBack PROVE Fresh(f, count, lastFlush, Period(f.name), clock + 1)
            OBVIOUS
        <3>1. Fresh(f, count, lastFlush, Period(f.name), clock)
            BY <1>1
        <3>2. \A j \in 1 .. Len(f.records) : f.records[j].time \in Nat
            BY <1>1, RecordTypes
        <3>3. \A t \in Nat : t <= clock => t <= clock + 1
            BY <1>1, SMTT(60)
        <3> HIDE DEF f
        <3> QED
            BY <1>1, <3>1, <3>2, <3>3 DEF Fresh
    <2>3. Timed(files, count, lastFlush)'
        BY <1>1, <2>1, <2>2 DEF Timed
    <2> QED
        BY <1>2, <2>1, <2>3 DEF Timely
<1>8. CASE ClockSetBack
    <2>1. turnedBack' = TRUE /\ UNCHANGED <<files, count, lastRoll, lastFlush, startOfPeriod>>
        BY <1>8 DEF ClockSetBack
    <2>2. Timed(files, count, lastFlush)'
        BY <1>1, <2>1 DEF Timed
    <2> QED
        BY <1>2, <2>1, <2>2 DEF Timely
<1>9. CASE UNCHANGED logVars
    <2>1. UNCHANGED <<clock, turnedBack, files, count, lastRoll, lastFlush, startOfPeriod>>
        BY <1>9 DEF logVars
    <2> QED
        BY <1>2, <1>3, <2>1
<1> QED
    BY <1>4, <1>5, <1>6, <1>7, <1>8, <1>9 DEF LogNext

(* The first file is fresh.                                                *)
LEMMA InitTimely == LogInit => Timely
<1> SUFFICES ASSUME LogInit PROVE Timely
    OBVIOUS
<1>1. /\ clock \in Nat /\ files = <<NewFile>> /\ count = 0 /\ lastRoll = clock /\ lastFlush = clock
      /\ startOfPeriod = Period(clock)
    BY DEF LogInit
<1>2. 0 \in Nat /\ 0 \in 0 .. CheckEveryN
    BY LogAssumption, SMTT(60)
<1>3. NewFile \in File /\ Totals(NewFile) /\ Fresh(NewFile, 0, clock, Period(clock), clock)
      /\ NewFile.name = clock
    BY <1>1, <1>2, NewFresh DEF NewFile
<1>4. Len(files) = 1 /\ files[1] = NewFile /\ \A i \in DOMAIN files : ~(i < 1)
    BY <1>1, <1>3, SMTT(60)
<1> QED
    BY <1>1, <1>2, <1>3, <1>4 DEF Timely, Timed

(* append_unlocked asks for the time only at every _check_every_n-th       *)
(* record (LogFile.cc:46-73), and that is often enough: unless the clock   *)
(* is set back, a record that a crash would lose is followed by at most    *)
(* that many that came more than a flush interval later, and a file holds  *)
(* at most one more of another day.                                        *)
THEOREM LogLooksInTime == LogSpec => []LooksInTime
<1>1. LInv /\ Timely => LooksInTime
    <2> SUFFICES ASSUME LInv, Timely PROVE LooksInTime
        OBVIOUS
    <2> DEFINE n == Len(files)
               f == files[n]
    <2>1. /\ clock \in Nat /\ n \in Nat /\ DOMAIN files = 1 .. n /\ f \in File /\ Kept(f)
          /\ count \in 0 .. CheckEveryN /\ count \in Nat /\ lastFlush \in Nat
          /\ ~turnedBack => /\ Fresh(f, count, lastFlush, Period(f.name), clock)
                            /\ \A i \in 1 .. n : i < n => InItsDay(files[i])
        BY OpenFileFacts
    <2>2. OldAreFlushed
        <3> SUFFICES ASSUME ~turnedBack, NEW i \in f.safe + 1 .. Len(f.records)
                     PROVE  Cardinality({j \in i + 1 .. Len(f.records) :
                              f.records[j].time > f.records[i].time + FlushInterval}) <= CheckEveryN
            BY DEF OldAreFlushed
        <3> DEFINE late == {j \in i + 1 .. Len(f.records) :
                              f.records[j].time > f.records[i].time + FlushInterval}
        <3>1. Cardinality(late) <= count /\ Cardinality(late) \in Nat
            <4>1. Cardinality(late) <= count
                BY <2>1, FewLate
            <4>2. IsFiniteSet(i + 1 .. Len(f.records)) /\ late \subseteq i + 1 .. Len(f.records)
                <5>1. Len(f.records) \in Nat /\ f.safe \in Nat
                    BY <2>1, RecordTypes
                <5>2. i + 1 \in Int /\ Len(f.records) \in Int
                    BY <5>1, SMTT(60)
                <5> QED
                    BY <5>2, FS_Interval
            <4>3. Cardinality(late) \in Nat
                BY <4>2, FS_Subset, FS_CardinalityType
            <4> QED
                BY <4>1, <4>3
        <3> HIDE DEF late
        <3>2. Cardinality(late) <= CheckEveryN
            BY <2>1, <3>1, LogAssumption, SMTT(60)
        <3> QED
            BY <3>2 DEF late
    <2>3. DaysApart
        <3> SUFFICES ASSUME ~turnedBack, NEW i \in 1 .. n PROVE InItsDay(files[i])
            BY <2>1 DEF DaysApart, InItsDay, OtherDay
        <3>1. n \in Nat
            BY <2>1
        <3>2. i = n \/ i < n
            BY <3>1, SMTT(60)
        <3> QED
            BY <2>1, <3>2, OpenInItsDay
    <2> QED
        BY <2>2, <2>3 DEF LooksInTime
<1>2. LInv /\ Timely /\ [LogNext]_logVars => Timely'
    BY NextTimely
<1> QED
    BY <1>1, <1>2, InitTimely, LogInvariant, PTL DEF LogSpec

-----------------------------------------------------------------------------
(***************************************************************************)
(* The wheel keeps its entries as promised, for every number of slots and  *)
(* every set of entries.                                                   *)
(*                                                                         *)
(* Left(s) is the number of ticks until slot s is cleared.  The inductive  *)
(* invariant says more than KeptAsPromised: no slot that holds an entry is *)
(* cleared after the promised time, and one is cleared exactly then.       *)
(***************************************************************************)
Left(s) == IF s >= next_second THEN s - next_second + 1
           ELSE s - next_second + 1 + max_second

WheelType ==
    /\ next_second \in Slots
    /\ wheel \in [Slots -> SUBSET Entries]
    /\ life \in [Entries -> Nat]

NotTooLong == \A e \in Entries, s \in Slots : e \in wheel[s] => Left(s) <= life[e]

LongEnough == \A e \in Entries : life[e] > 0 =>
                 \E s \in Slots : e \in wheel[s] /\ Left(s) = life[e]

WInv == WheelType /\ NotTooLong /\ LongEnough

-----------------------------------------------------------------------------
(* A slot is cleared after one tick at the earliest, and slot next_second  *)
(* then.                                                                   *)
LEMMA LeftType ==
    ASSUME WheelType, NEW s \in Slots
    PROVE  /\ Left(s) \in Nat /\ Left(s) > 0
           /\ Left(s) = 1 <=> s = next_second
  BY WheelAssumption, SMTT(60) DEF WheelType, Slots, Left

(* A tick brings every slot but the cleared one nearer by one.             *)
LEMMA TickNearer ==
    ASSUME WheelType, onTimer, NEW s \in Slots, s # next_second
    PROVE  Left(s)' = Left(s) - 1
  BY WheelAssumption, SMTT(60) DEF WheelType, Slots, Left, onTimer

(* The slot of an insertion is cleared when its promise says.              *)
LEMMA SlotAsPromised ==
    ASSUME WheelType
    PROVE  InsertSlot \in Slots /\ Left(InsertSlot) = Promise /\ Promise \in Nat
  BY WheelAssumption, SMTT(60) DEF WheelType, Slots, Left, InsertSlot, Promise

(* A tick keeps the invariant.                                             *)
LEMMA TickKeeps ==
    ASSUME WInv, onTimer
    PROVE  WInv'
<1>1. WheelType
  BY SMTT(60) DEF WInv
<1>2. WheelType'
  BY <1>1, WheelAssumption, SMTT(60) DEF WheelType, Slots, onTimer
<1>3. ASSUME NEW e \in Entries, NEW s \in Slots, e \in wheel'[s]
      PROVE  Left(s)' <= life'[e]
  <2>1. s # next_second /\ e \in wheel[s]
    BY <1>1, <1>3, SMTT(60) DEF onTimer, WheelType
  <2>2. Left(s) <= life[e] /\ life[e] \in Nat
    BY <1>1, <2>1, SMTT(60) DEF WInv, NotTooLong, WheelType
  <2>3. Left(s) \in Nat /\ Left(s) > 0
    BY <1>1, LeftType, SMTT(60)
  <2>4. Left(s)' = Left(s) - 1
    BY <1>1, <2>1, TickNearer, SMTT(60)
  <2>5. life'[e] = life[e] - 1
    BY <2>2, <2>3, SMTT(60) DEF onTimer
  <2> QED
    BY <2>2, <2>3, <2>4, <2>5, SMTT(60)
<1>4. ASSUME NEW e \in Entries, life'[e] > 0
      PROVE  \E s \in Slots : e \in wheel'[s] /\ Left(s)' = life'[e]
  <2>1. life[e] \in Nat /\ life[e] > 1 /\ life'[e] = life[e] - 1
    BY <1>1, <1>4, SMTT(60) DEF onTimer, WheelType
  <2>2. PICK s \in Slots : e \in wheel[s] /\ Left(s) = life[e]
    BY <2>1, SMTT(60) DEF WInv, LongEnough
  <2>3. s # next_second
    BY <1>1, <2>1, <2>2, LeftType, SMTT(60)
  <2>4. Left(s)' = Left(s) - 1
    BY <1>1, <2>3, TickNearer, SMTT(60)
  <2>5. e \in wheel'[s]
    BY <1>1, <2>2, <2>3, SMTT(60) DEF onTimer, WheelType
  <2> QED
    BY <2>1, <2>2, <2>4, <2>5, SMTT(60)
<1> QED
  BY <1>2, <1>3, <1>4, SMTT(60) DEF WInv, NotTooLong, LongEnough

(* So does an insertion.                                                   *)
LEMMA InsertKeeps ==
    ASSUME WInv, NEW e \in Entries, insertEntryInLoop(e)
    PROVE  WInv'
<1>1. WheelType
  BY SMTT(60) DEF WInv
<1>2. InsertSlot \in Slots /\ Left(InsertSlot) = Promise /\ Promise \in Nat
  BY <1>1, SlotAsPromised, SMTT(60)
<1>3. WheelType'
  BY <1>1, <1>2, SMTT(60) DEF WheelType, insertEntryInLoop, Slots
<1>4. \A s \in Slots : Left(s)' = Left(s)
  BY SMTT(60) DEF Left, insertEntryInLoop
<1>5. \A s \in Slots : Left(s) \in Nat
  BY <1>1, LeftType, SMTT(60)
<1>6. /\ \A s \in Slots : wheel'[s] = IF s = InsertSlot THEN wheel[s] \cup {e} ELSE wheel[s]
      /\ \A f \in Entries : life'[f] = IF f = e /\ life[e] < Promise THEN Promise ELSE life[f]
      /\ \A f \in Entries : life[f] \in Nat
  BY <1>1, <1>2, SMTT(60) DEF insertEntryInLoop, WheelType
<1>7. ASSUME NEW f \in Entries, NEW s \in Slots, f \in wheel'[s]
      PROVE  Left(s)' <= life'[f]
  <2>1. CASE f \in wheel[s]
    <3>1. Left(s) <= life[f]
      BY <2>1, SMTT(60) DEF WInv, NotTooLong
    <3> QED
      BY <1>2, <1>4, <1>5, <1>6, <3>1, SMTT(60)
  <2>2. CASE f \notin wheel[s]
    <3>1. s = InsertSlot /\ f = e
      BY <1>6, <1>7, <2>2
    <3> QED
      BY <1>2, <1>4, <1>6, <3>1, SMTT(60)
  <2> QED
    BY <2>1, <2>2, SMTT(60)
<1>8. ASSUME NEW f \in Entries, life'[f] > 0
      PROVE  \E s \in Slots : f \in wheel'[s] /\ Left(s)' = life'[f]
  <2>1. CASE f = e /\ life[e] < Promise
    BY <1>2, <1>4, <1>6, <2>1
  <2>2. CASE ~(f = e /\ life[e] < Promise)
    <3>1. life'[f] = life[f]
      BY <1>6, <2>2, SMTT(60)
    <3>2. PICK s \in Slots : f \in wheel[s] /\ Left(s) = life[f]
      BY <1>8, <3>1, SMTT(60) DEF WInv, LongEnough
    <3>3. f \in wheel'[s]
      BY <1>6, <3>2
    <3> QED
      BY <1>4, <3>1, <3>2, <3>3, SMTT(60)
  <2> QED
    BY <2>1, <2>2, SMTT(60)
<1> QED
  BY <1>3, <1>7, <1>8, SMTT(60) DEF WInv, NotTooLong, LongEnough

(* WInv holds in every state of a wheel.                                   *)
THEOREM WheelInvariant == WheelSpec => []WInv
<1>1. WheelInit => WInv
  BY WheelAssumption, SMTT(60) DEF WheelInit, WInv, WheelType, NotTooLong, LongEnough, Slots
<1>2. WInv /\ [WheelNext]_wheelVars => WInv'
  <2>1. WInv /\ WheelNext => WInv'
    BY TickKeeps, InsertKeeps, SMTT(60) DEF WheelNext
  <2>2. WInv /\ UNCHANGED wheelVars => WInv'
    BY SMTT(60) DEF wheelVars, WInv, WheelType, NotTooLong, LongEnough, Left
  <2> QED
    BY <2>1, <2>2, SMTT(60)
<1> QED
  BY <1>1, <1>2, PTL DEF WheelSpec

(* An entry is in the wheel for exactly the ticks that were promised.      *)
THEOREM WheelKeepsPromises == WheelSpec => []KeptAsPromised
<1>1. WInv => KeptAsPromised
  <2> SUFFICES ASSUME WInv, NEW e \in Entries
               PROVE  InWheel(e) <=> life[e] > 0
    BY DEF KeptAsPromised
  <2>1. WheelType /\ life[e] \in Nat
    BY SMTT(60) DEF WInv, WheelType
  <2>2. ASSUME NEW s \in Slots, e \in wheel[s]
        PROVE  life[e] > 0
    <3>1. Left(s) <= life[e]
      BY <2>2, SMTT(60) DEF WInv, NotTooLong
    <3>2. Left(s) \in Nat /\ Left(s) > 0
      BY <2>1, LeftType, SMTT(60)
    <3> QED
      BY <2>1, <3>1, <3>2, SMTT(60)
  <2>3. life[e] > 0 => \E s \in Slots : e \in wheel[s]
    BY SMTT(60) DEF WInv, LongEnough
  <2> QED
    BY <2>2, <2>3, SMTT(60) DEF InWheel
<1> QED
  BY <1>1, WheelInvariant, PTL

-----------------------------------------------------------------------------
(***************************************************************************)
(* The time text that each thread keeps in t_time is of the second in      *)
(* t_last_second, and of the zone in force unless that was set in this     *)
(* very second.                                                            *)
(***************************************************************************)
CachedText ==
    /\ second \in Nat
    /\ DOMAIN timeText = Writers /\ DOMAIN lastSecond = Writers
    /\ \A w \in Writers :
         /\ timeText[w].second = lastSecond[w]
         /\ lastSecond[w] \in Nat /\ lastSecond[w] <= second
         /\ lastSecond[w] = second => timeText[w].zone = zone \/ zoneSetAt = second

StampInv == CachedText /\ StampTrue /\ FatalIsFlushed

(* The record that Log writes is stamped with a text that may be used.     *)
LEMMA TextFits ==
    ASSUME CachedText, NEW w \in Writers
    PROVE  /\ Text(w).second = second
           /\ Text(w).zone = zone \/ zoneSetAt = second
<1>1. CASE Stale(w)
  <2>1. Text(w) = [second |-> second, zone |-> zone]
    BY <1>1 DEF Text
  <2> QED
    BY <2>1, SMTT(60)
<1>2. CASE ~Stale(w)
  <2>1. Text(w) = timeText[w] /\ lastSecond[w] = second
    BY <1>2 DEF Text, Stale
  <2> QED
    BY <2>1 DEF CachedText
<1> QED
    BY <1>1, <1>2

(* Each step keeps the cached texts, the stamp of the last record and what *)
(* a fatal record flushes.                                                 *)
LEMMA StampStep == StampInv /\ [LoggerNext]_loggerVars => StampInv'
<1> SUFFICES ASSUME StampInv, [LoggerNext]_loggerVars PROVE StampInv'
    OBVIOUS
<1> USE DEF StampInv
<1>1. ASSUME NEW w \in Writers, NEW l, NEW v, NEW len, Log(w, l, v, len) PROVE StampInv'
  <2>1. /\ Text(w).second = second
        /\ Text(w).zone = zone \/ zoneSetAt = second
    BY TextFits
  <2>2. /\ lastSecond' = [lastSecond EXCEPT ![w] = second]
        /\ timeText' = [timeText EXCEPT ![w] = Text(w)]
        /\ second' = second /\ zone' = zone /\ zoneSetAt' = zoneSetAt
    BY <1>1 DEF Log
  <2>3. CachedText'
    <3>1. second <= second
      BY SMTT(60) DEF CachedText
    <3>2. ASSUME NEW u \in Writers
          PROVE  /\ timeText'[u].second = lastSecond'[u]
                 /\ lastSecond'[u] \in Nat /\ lastSecond'[u] <= second
                 /\ lastSecond'[u] = second => timeText'[u].zone = zone \/ zoneSetAt = second
      <4>1. CASE u = w
        <5>1. timeText'[u] = Text(w) /\ lastSecond'[u] = second
          BY <2>2, <4>1 DEF CachedText
        <5> QED
          BY <2>1, <3>1, <5>1 DEF CachedText
      <4>2. CASE u # w
        <5>1. timeText'[u] = timeText[u] /\ lastSecond'[u] = lastSecond[u]
          BY <2>2, <4>2 DEF CachedText
        <5> QED
          BY <5>1 DEF CachedText
      <4> QED
        BY <4>1, <4>2
    <3>3. DOMAIN timeText' = Writers /\ DOMAIN lastSecond' = Writers
      BY <2>2 DEF CachedText
    <3> QED
      BY <2>2, <3>2, <3>3 DEF CachedText
  <2>4. StampTrue'
    <3>1. last'.text = Text(w) /\ last'.second = second /\ last'.zone = zone
          /\ last'.zoneSet = zoneSetAt
      BY <1>1 DEF Log
    <3> QED
      BY <2>1, <3>1 DEF StampTrue
  <2>5. FatalIsFlushed'
    BY <1>1 DEF Log, FatalIsFlushed, ToFlush
  <2> QED
    BY <2>3, <2>4, <2>5
<1>2. ASSUME NEW l, SetLogLevel(l) PROVE StampInv'
    BY <1>2 DEF SetLogLevel, CachedText, StampTrue, FatalIsFlushed
<1>3. ASSUME NEW z, SetTimeZone(z) PROVE StampInv'
    BY <1>3 DEF SetTimeZone, CachedText, StampTrue, FatalIsFlushed
<1>4. CASE SecondPasses
  <2>1. StampTrue' /\ FatalIsFlushed'
    BY <1>4 DEF SecondPasses, StampTrue, FatalIsFlushed
  <2>2. second' = second + 1 /\ lastSecond' = lastSecond /\ timeText' = timeText
    BY <1>4 DEF SecondPasses
  <2>3. second' \in Nat
    BY <2>2, SMTT(60) DEF CachedText
  <2>4. ASSUME NEW u \in Writers PROVE lastSecond[u] <= second' /\ lastSecond[u] # second'
    BY <2>2, SMTT(60) DEF CachedText
  <2>5. CachedText'
    BY <2>2, <2>3, <2>4 DEF CachedText
  <2> QED
    BY <2>1, <2>5
<1>5. CASE UNCHANGED loggerVars
    BY <1>5 DEF loggerVars, CachedText, StampTrue, FatalIsFlushed
<1> QED
    BY <1>1, <1>2, <1>3, <1>4, <1>5 DEF LoggerNext

(* Every record of every thread shows the second it was made in, in the    *)
(* zone in force unless that was set in this very second, and nothing of   *)
(* a fatal record is lost (Logging.cc: Logger::Impl and ~Logger).          *)
THEOREM RecordsStampedTrue == LoggerSpec => [](StampTrue /\ FatalIsFlushed)
<1>1. LoggerInit => StampInv
  <2> SUFFICES ASSUME LoggerInit PROVE StampInv
    OBVIOUS
  <2>1. CachedText
    <3>1. 0 \in Nat /\ 1 \in Nat /\ 0 <= 1 /\ 0 # 1
      BY SMTT(60)
    <3>2. NoText.second = 0 /\ NoText.zone = "none"
      BY DEF NoText
    <3> QED
      BY <3>1, <3>2 DEF LoggerInit, CachedText
  <2>2. StampTrue
    BY DEF LoggerInit, StampTrue, NoText
  <2>3. FatalIsFlushed
    BY DEF LoggerInit, FatalIsFlushed
  <2> QED
    BY <2>1, <2>2, <2>3 DEF StampInv
<1>2. StampInv => StampTrue /\ FatalIsFlushed
    BY DEF StampInv
<1> QED
    BY <1>1, <1>2, StampStep, PTL DEF LoggerSpec
=============================================================================
