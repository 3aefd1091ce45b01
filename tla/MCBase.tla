------------------------------- MODULE MCBase -------------------------------
(***************************************************************************)
(* One run for four components that share nothing: Buffer, LogFile, Logger *)
(* and Calendar.  Which of them moves is chosen at the start; the others   *)
(* stay in their initial states.                                           *)
(***************************************************************************)
EXTENDS Buffer, LogFile, Logger, Calendar

VARIABLE part

Init ==
    /\ part \in {"buffer", "logfile", "logger", "calendar"}
    /\ BufferInit /\ LogInit /\ LoggerInit /\ CalendarInit
    /\ part # "calendar" => tz = readTimeZoneFile(0, <<>>)
    /\ part # "logger" => level = INFO

Next ==
    \/ /\ part = "buffer" /\ BufferNext
       /\ UNCHANGED <<part, logVars, loggerVars, calendarVars>>
    \/ /\ part = "logfile" /\ LogNext
       /\ UNCHANGED <<part, bufferVars, loggerVars, calendarVars>>
    \/ /\ part = "logger" /\ LoggerNext
       /\ UNCHANGED <<part, bufferVars, logVars, calendarVars>>
    \/ /\ part = "calendar" /\ CalendarNext
       /\ UNCHANGED <<part, bufferVars, logVars, loggerVars>>

Spec == Init /\ [][Next]_<<part, bufferVars, logVars, loggerVars, calendarVars>>
=============================================================================
