------------------------------ MODULE Schedules ------------------------------
(***************************************************************************)
(* When a data logger captures: every so often from its start, or at times *)
(* of the day on some days or weekdays in the time zone of the logger,     *)
(* across the hours that a zone skips and repeats.                         *)
(*                                                                         *)
(* datalogger/interval_scheduler.go and calendar_scheduler.go, one job of  *)
(* the runtime (DataLoggerRuntime has the jobs).                           *)
(*                                                                         *)
(* The unit of time is a minute.  A day has DayLength of them and a week   *)
(* WeekLength days; Offsets is what the zone adds to a time.  A write may  *)
(* take any time, and a timer may fire late.                               *)
(***************************************************************************)
EXTENDS Integers, FiniteSets, Functions

CONSTANTS
    Loggers,     \* [mode, every, start, end, times, weekdays]
    DayLength,   \* minutes of a day (1440)
    WeekLength,  \* days of a week (7)
    Offsets,     \* the offset of the zone by time, up to the horizon
    Tolerance,   \* calendarRunLatenessTolerance
    Attempts,    \* the days or weeks that are tried (8)
    MaxTime,     \* bound of the time
    MaxRestarts  \* bound of the restarts of the job

VARIABLES
    logger,     \* the configuration
    time,       \* the clock
    phase,      \* starting, waiting, writing or ended
    scheduled,  \* the run that is waited for or written
    from,       \* when the job was last started
    captured,   \* batch times that were written
    excused,    \* times at which the job was behind
    restarts    \* restarts so far

scheduleVars == <<logger, time, phase, scheduled, from, captured, excused, restarts>>

Horizon == DOMAIN Offsets
Least(S) == CHOOSE x \in S : \A y \in S : x <= y

SchedulesTypeOK ==
    /\ time \in 0 .. MaxTime /\ captured \subseteq Horizon
    /\ phase \in {"starting", "waiting", "writing", "ended"}

SchedulesInit ==
    /\ logger \in Loggers
    /\ time \in {0, 1} /\ from = time
    /\ phase = "starting" /\ scheduled = 0
    /\ captured = {} /\ excused = {} /\ restarts = 0

(***************************************************************************)
(* Local time.                                                             *)
(***************************************************************************)
Local(t) == t + Offsets[t]
civilDate(t) == Local(t) \div DayLength
sameLocalMinute(t, date, minute) == Local(t) = date * DayLength + minute

(* Faulty variant: of a minute that comes twice the second one is taken *)
lastOccurrence(date, minute) ==
    LET places == {t \in Horizon : sameLocalMinute(t, date, minute)}
    IN  {t \in places : \A u \in places : u <= t}

(* The first of the times that show the minute, none if the zone skips it *)
resolveLocalOccurrence(date, minute) ==
    LET places == {t \in Horizon : sameLocalMinute(t, date, minute)}
    IN  {t \in places : \A u \in places : t <= u}

nextMultiple(value, every) == every * ((value + every - 1) \div every)

(***************************************************************************)
(* The next run.                                                           *)
(***************************************************************************)
nextIntervalRun(start, interval, now) ==
    IF now <= start THEN start ELSE start + nextMultiple(now - start, interval)
latestIntervalRun(start, interval, now) ==
    IF now <= start THEN start ELSE start + ((now - start) \div interval) * interval

(* The first candidate of the first attempt that has one *)
First(S) ==
    IF S = {} THEN {}
    ELSE LET earliest == {c \in S : \A d \in S : c.attempt <= d.attempt}
         IN  {(CHOOSE c \in earliest : \A d \in earliest : c.minute <= d.minute).at}

Candidates(dates(_), minutes, threshold) ==
    {c \in UNION {UNION {{[attempt |-> k, minute |-> date * DayLength + minute, at |-> t] :
                            t \in resolveLocalOccurrence(date, minute)} :
                         minute \in minutes, date \in dates(k)} : k \in 0 .. Attempts - 1} :
        c.at >= logger.start /\ c.at >= threshold}

nextDailyRun(threshold) ==
    LET startDate == civilDate(logger.start)
        days == civilDate(threshold) - startDate
        cycle == nextMultiple(IF days < 0 THEN 0 ELSE days, logger.every)
    IN  First(Candidates(LAMBDA k : {startDate + cycle + k * logger.every},
                         logger.times, threshold))

nextWeeklyRun(threshold) ==
    LET startWeek == civilDate(logger.start) \div WeekLength
        weeks == civilDate(threshold) \div WeekLength - startWeek
        active == nextMultiple(IF weeks < 0 THEN 0 ELSE weeks, logger.every)
    IN  First(Candidates(LAMBDA k : {(startWeek + active + k * logger.every) * WeekLength + d :
                                        d \in logger.weekdays},
                         logger.times, threshold))

(* The run at or after the threshold, if there is one before the end *)
NextCalendarRun(threshold) ==
    LET at == IF threshold < logger.start THEN logger.start ELSE threshold
        next == CASE logger.mode = "minute" -> {nextIntervalRun(logger.start, logger.every, at)}
                  [] logger.mode = "day" -> nextDailyRun(at)
                  [] logger.mode = "week" -> nextWeeklyRun(at)
    IN  {t \in next : t <= logger.end}

(***************************************************************************)
(* The job.                                                                *)
(***************************************************************************)
(* The job waits for the run, or ends when there is none *)
WaitFor(runs) ==
    IF runs = {} THEN phase' = "ended" /\ UNCHANGED scheduled
    ELSE phase' = "waiting" /\ scheduled' \in runs

Start ==
    /\ phase = "starting"
    /\ WaitFor(IF logger.mode = "interval"
               THEN {nextIntervalRun(logger.start, logger.every, time)} \cap 0 .. logger.end
               ELSE NextCalendarRun(time))
    /\ UNCHANGED <<logger, time, from, captured, excused, restarts>>

(* An interval that comes late captures the latest run that is due *)
WakeInterval ==
    /\ phase = "waiting" /\ logger.mode = "interval" /\ scheduled <= time
    /\ LET latest == latestIntervalRun(logger.start, logger.every, time)
       IN  /\ excused' = IF latest > scheduled THEN excused \cup scheduled .. latest - 1 ELSE excused
           /\ IF latest <= logger.end THEN phase' = "writing" /\ scheduled' = latest
              ELSE phase' = "ended" /\ UNCHANGED scheduled
    /\ UNCHANGED <<logger, time, from, captured, restarts>>

(* A calendar run that is late is skipped, unless another is due right now *)
WakeCalendar ==
    /\ phase = "waiting" /\ logger.mode # "interval" /\ scheduled <= time
    /\ IF time - scheduled <= Tolerance
       THEN phase' = "writing" /\ UNCHANGED <<scheduled, excused>>
       ELSE /\ excused' = excused \cup scheduled .. time - 1
            /\ IF time \in NextCalendarRun(time) THEN phase' = "writing" /\ scheduled' = time
               ELSE WaitFor(NextCalendarRun(time))
    /\ UNCHANGED <<logger, time, from, captured, restarts>>

(* The batch is written, or the error is reported; the job goes on *)
Written(ok) ==
    /\ phase = "writing"
    /\ captured' = IF ok THEN captured \cup {scheduled} ELSE captured
    /\ excused' = IF ok THEN excused ELSE excused \cup {scheduled}
    /\ WaitFor(IF logger.mode = "interval"
               THEN {scheduled + logger.every} \cap 0 .. logger.end
               ELSE NextCalendarRun(scheduled + 1))
    /\ UNCHANGED <<logger, time, from, restarts>>

(* The runtime replaces the job, or the process starts again *)
Restart ==
    /\ restarts < MaxRestarts /\ restarts' = restarts + 1
    /\ phase' = "starting" /\ from' = time
    /\ excused' = excused \cup 0 .. time
    /\ UNCHANGED <<logger, time, scheduled, captured>>

(* The job is behind when the clock moves past what it waits for or writes *)
Tick ==
    /\ time < MaxTime /\ time' = time + 1
    /\ excused' = IF phase \in {"starting", "writing"} \/ scheduled <= time
                  THEN excused \cup {time, time'} ELSE excused
    /\ UNCHANGED <<logger, phase, scheduled, from, captured, restarts>>

SchedulesNext ==
    \/ Start \/ WakeInterval \/ WakeCalendar \/ Restart \/ Tick
    \/ \E ok \in BOOLEAN : Written(ok)

SchedulesSpec == SchedulesInit /\ [][SchedulesNext]_scheduleVars

(***************************************************************************)
(* Properties.                                                             *)
(***************************************************************************)
(* The times at which the logger is to capture, read off its configuration *)
Due ==
    {t \in logger.start .. logger.end \cap Horizon :
        CASE logger.mode \in {"interval", "minute"} -> (t - logger.start) % logger.every = 0
          [] logger.mode = "day" ->
                /\ (civilDate(t) - civilDate(logger.start)) % logger.every = 0
                /\ Local(t) % DayLength \in logger.times
          [] logger.mode = "week" ->
                /\ (civilDate(t) \div WeekLength - civilDate(logger.start) \div WeekLength)
                      % logger.every = 0
                /\ civilDate(t) % WeekLength \in logger.weekdays
                /\ Local(t) % DayLength \in logger.times}

(* A minute that the zone repeats counts once, the first time *)
DueOnce ==
    {t \in Due : logger.mode \in {"day", "week"} =>
                     \A u \in Horizon : u < t => Local(u) # Local(t)}

(* Every batch is at a time at which one is due, never at the second pass  *)
(* of a repeated hour, and a due time has no batch only if the job was not *)
(* there, behind or failed to write: neither a skipped hour nor the end of *)
(* a day, a week or a cycle loses one (NextCalendarRun).                   *)
CapturesTheSchedule ==
    /\ captured \subseteq DueOnce
    /\ \A t \in DueOnce :
          from <= t /\ (t < time \/ phase = "ended") /\ t < MaxTime =>
              t \in captured \cup excused \/ (phase \in {"waiting", "writing"} /\ scheduled = t)
=============================================================================
