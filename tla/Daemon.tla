------------------------------- MODULE Daemon -------------------------------
(***************************************************************************)
(* One obauditor process: the worker loops, the watchdog and the shutdown  *)
(* (internal/daemon/daemon.go, cmd/obauditor/main.go).                     *)
(*                                                                         *)
(* Time is discrete.  A step of time happens only when nothing is due, so  *)
(* timers fire on time.  A tick may work as long as it likes, for ever if  *)
(* it hangs.                                                               *)
(***************************************************************************)
EXTENDS Integers, FiniteSetsExt

CONSTANTS
    DdlDclAuditMode,    \* config ddlDclAuditMode: 0 off, 1 main, 2 fallback
    RsyslogHost,        \* TRUE: config rsyslog.host is set
    Interval,           \* Interval[l]: pause after a tick of loop l
    WatchdogThreshold,
    CheckInterval,      \* config daemon.watchdogCheckInterval
    ShutdownTimeout

Loops == {"logs", "ddl", "rsyslog"}

ASSUME ModeAssumption == DdlDclAuditMode \in 0..2
ASSUME FlagAssumption == RsyslogHost \in BOOLEAN
\* config.Read replaces non-positive durations by their defaults.
ASSUME DurationAssumption ==
    /\ Interval \in [Loops -> Nat \ {0}]
    /\ WatchdogThreshold \in Nat \ {0}
    /\ CheckInterval \in Nat \ {0}
    /\ ShutdownTimeout \in Nat \ {0}

VARIABLES
    loop,       \* per loop: "off", "top", "tick", "sleep" or "done"
    timer,      \* per loop: time since its tick or pause began
    age,        \* per heartbeat: time since the last Touch
    cancelled,  \* the context is done: SIGTERM or SIGINT arrived
    watchdog,   \* "on" or "off"
    sinceCheck, \* time since the watchdog's ticker last fired
    drain,      \* time main has waited for the loops
    proc        \* "up", "exit0", "exit1" or "watchdog", its exit(1)

vars == <<loop, timer, age, cancelled, watchdog, sinceCheck, drain, proc>>

\* The goroutines main starts.
Started ==
    {"logs"} \cup (IF DdlDclAuditMode > 0 THEN {"ddl"} ELSE {})
             \cup (IF RsyslogHost THEN {"rsyslog"} ELSE {})

\* Mutant of Registered: the heartbeat of the ddl loop is forgotten.
RegisteredLogs == {"logs"} \cup (IF RsyslogHost THEN {"rsyslog"} ELSE {})

\* The heartbeats main registers with the watchdog.
Registered == {"logs", "ddl"} \cup (IF RsyslogHost THEN {"rsyslog"} ELSE {})

\* Ages saturate one above the greatest any condition distinguishes.
MaxAge ==
    1 + Max({WatchdogThreshold + CheckInterval, ShutdownTimeout}
            \cup {Interval[l] : l \in Loops})

Init ==
    /\ loop = [l \in Loops |-> IF l \in Started THEN "top" ELSE "off"]
    /\ timer = [l \in Loops |-> 0]
    /\ age = [l \in Loops |-> 0]
    /\ cancelled = FALSE
    /\ watchdog = "on"
    /\ sinceCheck = 0
    /\ drain = 0
    /\ proc = "up"

-----------------------------------------------------------------------------
(* RunLoop.                                                                *)

Touch(l) == age' = [age EXCEPT ![l] = 0]

Begin(l, phase) ==
    /\ loop' = [loop EXCEPT ![l] = phase]
    /\ timer' = [timer EXCEPT ![l] = 0]

\* Top of the loop: a done context ends it, otherwise the tick starts.
LoopStops(l) ==
    /\ loop[l] = "top"
    /\ cancelled
    /\ loop' = [loop EXCEPT ![l] = "done"]
    /\ UNCHANGED <<timer, age>>

TickStarts(l) ==
    /\ loop[l] = "top"
    /\ ~cancelled
    /\ Begin(l, "tick")
    /\ Touch(l)

\* Mutant of TickEnds: no Touch after the tick.
TickEndsUntouched(l) ==
    /\ loop[l] = "tick"
    /\ Begin(l, "sleep")
    /\ UNCHANGED age

\* runWithRecover: the tick returns, fails or panics.
TickEnds(l) ==
    /\ loop[l] = "tick"
    /\ Begin(l, "sleep")
    /\ Touch(l)

\* Mutant of Interrupted: time.Sleep, and the context is looked at afterwards.
InterruptedLate(l) == cancelled /\ timer[l] >= Interval[l]

\* The select after the tick: when both cases are ready either is taken.
Interrupted(l) == cancelled

PauseOver(l) == timer[l] >= Interval[l]

SleepInterrupted(l) ==
    /\ loop[l] = "sleep"
    /\ Interrupted(l)
    /\ loop' = [loop EXCEPT ![l] = "done"]
    /\ UNCHANGED <<timer, age>>

SleepEnds(l) ==
    /\ loop[l] = "sleep"
    /\ PauseOver(l)
    /\ loop' = [loop EXCEPT ![l] = "top"]
    /\ UNCHANGED <<timer, age>>

RunLoop(l) ==
    /\ proc = "up"
    /\ \/ LoopStops(l)
       \/ TickStarts(l)
       \/ TickEnds(l)
       \/ SleepInterrupted(l)
       \/ SleepEnds(l)
    /\ UNCHANGED <<cancelled, watchdog, sinceCheck, drain, proc>>

-----------------------------------------------------------------------------
(* Watchdog.Run.                                                           *)

Stale(l) == age[l] > WatchdogThreshold

\* Mutant of CheckDue: the ticker fires one step late.
CheckDueLate == watchdog = "on" /\ sinceCheck > CheckInterval

CheckDue == watchdog = "on" /\ sinceCheck >= CheckInterval

WatchdogCheck ==
    /\ proc = "up"
    /\ CheckDue
    /\ sinceCheck' = 0
    /\ proc' = IF \E l \in Registered : Stale(l) THEN "watchdog" ELSE "up"
    /\ UNCHANGED <<loop, timer, age, cancelled, watchdog, drain>>

WatchdogStops ==
    /\ proc = "up"
    /\ watchdog = "on"
    /\ cancelled
    /\ watchdog' = "off"
    /\ UNCHANGED <<loop, timer, age, cancelled, sinceCheck, drain, proc>>

-----------------------------------------------------------------------------
(* main: signal, WaitWithTimeout, exit.                                    *)

Signal ==
    /\ proc = "up"
    /\ ~cancelled
    /\ cancelled' = TRUE
    /\ UNCHANGED <<loop, timer, age, watchdog, sinceCheck, drain, proc>>

AllDone == \A l \in Started : loop[l] = "done"

CleanExit ==
    /\ proc = "up"
    /\ cancelled /\ AllDone
    /\ proc' = "exit0"
    /\ UNCHANGED <<loop, timer, age, cancelled, watchdog, sinceCheck, drain>>

\* Mutant of ForcedExit: wg.Wait without a timeout.
ForcedExitWaits ==
    /\ proc = "up"
    /\ cancelled /\ drain >= ShutdownTimeout /\ AllDone
    /\ proc' = "exit1"
    /\ UNCHANGED <<loop, timer, age, cancelled, watchdog, sinceCheck, drain>>

ForcedExit ==
    /\ proc = "up"
    /\ cancelled /\ drain >= ShutdownTimeout
    /\ proc' = "exit1"
    /\ UNCHANGED <<loop, timer, age, cancelled, watchdog, sinceCheck, drain>>

-----------------------------------------------------------------------------
(* Time passes when no timer has expired and no goroutine can run.         *)

Due(l) ==
    \/ loop[l] = "top"
    \/ loop[l] = "sleep" /\ (Interrupted(l) \/ PauseOver(l))

Bump(n) == IF n < MaxAge THEN n + 1 ELSE n

TimePasses ==
    /\ proc = "up"
    /\ \A l \in Started : ~Due(l)
    /\ ~CheckDue
    /\ cancelled => watchdog = "off" /\ ~AllDone /\ drain < ShutdownTimeout
    /\ timer' = [l \in Loops |-> Bump(timer[l])]
    /\ age' = [l \in Loops |-> Bump(age[l])]
    /\ sinceCheck' = IF watchdog = "on" THEN sinceCheck + 1 ELSE sinceCheck
    /\ drain' = IF cancelled THEN drain + 1 ELSE drain
    /\ UNCHANGED <<loop, cancelled, watchdog, proc>>

Main == CleanExit \/ ForcedExit

Next ==
    \/ \E l \in Loops : RunLoop(l)
    \/ WatchdogCheck
    \/ WatchdogStops
    \/ Signal
    \/ Main
    \/ TimePasses

Spec == Init /\ [][Next]_vars

\* Goroutines are scheduled and time goes on; no tick has to return and nobody
\* has to send a signal.
FairSpec ==
    /\ Spec
    /\ \A l \in Loops : WF_vars(loop[l] # "tick" /\ RunLoop(l))
    /\ WF_vars(WatchdogCheck)
    /\ WF_vars(WatchdogStops)
    /\ WF_vars(Main)
    /\ WF_vars(TimePasses)

-----------------------------------------------------------------------------
(* Properties.                                                             *)

TypeOK ==
    /\ loop \in [Loops -> {"off", "top", "tick", "sleep", "done"}]
    /\ timer \in [Loops -> 0..MaxAge]
    /\ age \in [Loops -> 0..MaxAge]
    /\ cancelled \in BOOLEAN
    /\ watchdog \in {"on", "off"}
    /\ sinceCheck \in 0..CheckInterval
    /\ drain \in 0..ShutdownTimeout
    /\ proc \in {"up", "exit0", "exit1", "watchdog"}

LongTick(time) == \E l \in Started : loop[l] = "tick" /\ timer[l] >= time

\* A loop that was started and whose pause the threshold covers is found stale
\* only while a tick of it has worked longer than the threshold: neither its
\* pause, nor ticks and pauses that add up, nor its end before the watchdog's
\* make it stale (daemon.go, RunLoop).
StaleIsHung ==
    watchdog = "on" =>
        \A l \in Started : Stale(l) /\ Interval[l] <= WatchdogThreshold =>
            loop[l] = "tick" /\ timer[l] > WatchdogThreshold

\* The watchdog ends the process only for a goroutine that hangs
\* (watchdogThreshold in DAEMON.md; daemon.go, Watchdog.Run): it judges every
\* heartbeat that main registered.
NoFalseAlarm == proc = "watchdog" => LongTick(WatchdogThreshold + 1)

\* A hung tick is noticed: no tick outlives the threshold by more than one
\* check interval while the watchdog is on.
HangNoticed ==
    proc = "up" /\ watchdog = "on" => ~LongTick(WatchdogThreshold + CheckInterval + 1)

\* A signal leads to the clean exit 0 unless a tick takes as long as the
\* shutdown timeout, be it that it returns at that very moment: pauses do not
\* force the exit (daemon.go, RunLoop and WaitWithTimeout).
ShutdownIsClean ==
    proc = "exit1" /\ cancelled =>
        LongTick(ShutdownTimeout) \/ \E l \in Started : age[l] = 0

\* A signal ends the process, whatever its ticks do.
SignalEnds == cancelled ~> proc # "up"
=============================================================================
