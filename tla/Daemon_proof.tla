---------------------------- MODULE Daemon_proof -----------------------------
(***************************************************************************)
(* Proofs about Daemon, for any pauses, thresholds, timeouts and modes.    *)
(* The invariants speak of a process that is up, as Service starts many.   *)
(***************************************************************************)
EXTENDS Daemon, TLAPS

-----------------------------------------------------------------------------
(* Durations.                                                              *)

\* Counters saturate beyond every duration that a condition compares with.
LEMMA MaxAgeBounds ==
    /\ MaxAge \in Nat
    /\ MaxAge > WatchdogThreshold + CheckInterval
    /\ MaxAge > ShutdownTimeout
    /\ \A l \in Loops : MaxAge > Interval[l]
<1> DEFINE S == {WatchdogThreshold + CheckInterval, ShutdownTimeout}
                \cup {Interval[l] : l \in Loops}
           larger(x, y) == IF x >= y THEN x ELSE y
           w1 == larger(WatchdogThreshold + CheckInterval, ShutdownTimeout)
           w2 == larger(Interval["logs"], Interval["ddl"])
           w == larger(w1, larger(w2, Interval["rsyslog"]))
<1> USE DurationAssumption
<1>1. S = {WatchdogThreshold + CheckInterval, ShutdownTimeout,
           Interval["logs"], Interval["ddl"], Interval["rsyslog"]}
  BY DEF Loops
<1>2. S \subseteq Nat
  BY <1>1 DEF Loops
<1>3. w \in S /\ \A y \in S : w >= y
  BY <1>1 DEF Loops
<1>4. \E x \in S : \A y \in S : x >= y
  BY <1>3
<1>5. Max(S) \in S /\ \A y \in S : Max(S) >= y
  BY <1>4 DEF Max
<1>6. MaxAge = 1 + Max(S)
  BY DEF MaxAge
<1>7. QED
  BY <1>1, <1>2, <1>5, <1>6 DEF Loops

\* Every loop that is started has its heartbeat watched.
LEMMA StartedRegistered == Started \subseteq Registered /\ Started \subseteq Loops
BY DEF Started, Registered, Loops

-----------------------------------------------------------------------------
(* Type correctness.                                                       *)

\* The process starts well typed.
LEMMA InitTypeOK == Init => TypeOK
<1> SUFFICES ASSUME Init PROVE TypeOK
  OBVIOUS
<1>1. 0 \in 0..MaxAge /\ 0 \in 0..CheckInterval /\ 0 \in 0..ShutdownTimeout
  BY MaxAgeBounds, DurationAssumption
<1>2. loop \in [Loops -> {"off", "top", "tick", "sleep", "done"}]
  BY DEF Init
<1>3. QED
  BY <1>1, <1>2 DEF Init, TypeOK

\* No step of a loop, the watchdog, main or time leaves the types.
LEMMA NextTypeOK == TypeOK /\ [Next]_vars => TypeOK'
<1> SUFFICES ASSUME TypeOK, [Next]_vars PROVE TypeOK'
  OBVIOUS
<1> USE MaxAgeBounds, DurationAssumption
<1>1. ASSUME NEW l \in Loops, RunLoop(l) PROVE TypeOK'
  <2> USE <1>1 DEF RunLoop, TypeOK
  <2>1. CASE LoopStops(l)
    BY <2>1 DEF LoopStops
  <2>2. CASE TickStarts(l)
    BY <2>2 DEF TickStarts, Begin, Touch
  <2>3. CASE TickEnds(l)
    BY <2>3 DEF TickEnds, Begin, Touch
  <2>4. CASE SleepInterrupted(l)
    BY <2>4 DEF SleepInterrupted
  <2>5. CASE SleepEnds(l)
    BY <2>5 DEF SleepEnds
  <2>6. QED
    BY <2>1, <2>2, <2>3, <2>4, <2>5
<1>2. CASE WatchdogCheck
  BY <1>2 DEF WatchdogCheck, TypeOK
<1>3. CASE WatchdogStops
  BY <1>3 DEF WatchdogStops, TypeOK
<1>4. CASE Signal
  BY <1>4 DEF Signal, TypeOK
<1>5. CASE Main
  BY <1>5 DEF Main, CleanExit, ForcedExit, TypeOK
<1>6. CASE TimePasses
  <2>1. \A n \in 0..MaxAge : Bump(n) \in 0..MaxAge
    BY DEF Bump
  <2>2. timer' \in [Loops -> 0..MaxAge] /\ age' \in [Loops -> 0..MaxAge]
    BY <1>6, <2>1 DEF TimePasses, TypeOK
  <2>3. sinceCheck' \in 0..CheckInterval /\ drain' \in 0..ShutdownTimeout
    BY <1>6 DEF TimePasses, CheckDue, TypeOK
  <2>4. QED
    BY <1>6, <2>2, <2>3 DEF TimePasses, TypeOK
<1>7. CASE UNCHANGED vars
  BY <1>7 DEF vars, TypeOK
<1>8. QED
  BY <1>1, <1>2, <1>3, <1>4, <1>5, <1>6, <1>7 DEF Next

\* Every reachable state is well typed: the ticker fires and the drain ends on
\* time.
THEOREM DaemonTypeCorrect == Spec => []TypeOK
<1>1. QED
  BY InitTypeOK, NextTypeOK, PTL DEF Spec

-----------------------------------------------------------------------------
(* Heartbeats.                                                             *)

\* What a heartbeat says of its loop: in a tick and in a pause its age is the
\* time spent there; at the top, and in a loop that ended before the watchdog
\* did, it is no older than the pause.
HeartbeatTrue(l) ==
    /\ loop[l] # "off"
    /\ loop[l] = "done" => cancelled
    /\ loop[l] \in {"tick", "sleep"} => age[l] = timer[l]
    /\ loop[l] \in {"sleep", "top"} => age[l] <= Interval[l]
    /\ loop[l] = "done" /\ watchdog = "on" => age[l] <= Interval[l]

Heartbeats == proc = "up" => \A l \in Started : HeartbeatTrue(l)

\* Loops keep their heartbeats true; time cannot pass a loop that is due.
LEMMA NextHeartbeats == TypeOK /\ Heartbeats /\ [Next]_vars => Heartbeats'
<1> SUFFICES ASSUME TypeOK, Heartbeats, [Next]_vars, proc' = "up", NEW l \in Started
             PROVE  HeartbeatTrue(l)'
  BY DEF Heartbeats
<1> USE MaxAgeBounds, DurationAssumption, StartedRegistered
<1>1. CASE UNCHANGED vars
  BY <1>1 DEF vars, Heartbeats, HeartbeatTrue
<1>2. CASE Next
  <2>1. proc = "up" /\ HeartbeatTrue(l)
    BY <1>2 DEF Next, RunLoop, WatchdogCheck, WatchdogStops, Signal, Main, CleanExit, ForcedExit,
        TimePasses, Heartbeats
  <2>2. ASSUME NEW k \in Loops, RunLoop(k) PROVE HeartbeatTrue(l)'
    <3> USE <2>1, <2>2 DEF RunLoop, TypeOK, HeartbeatTrue
    <3>1. CASE LoopStops(k)
      BY <3>1 DEF LoopStops
    <3>2. CASE TickStarts(k)
      BY <3>2 DEF TickStarts, Begin, Touch
    <3>3. CASE TickEnds(k)
      BY <3>3 DEF TickEnds, Begin, Touch
    <3>4. CASE SleepInterrupted(k)
      BY <3>4 DEF SleepInterrupted, Interrupted
    <3>5. CASE SleepEnds(k)
      BY <3>5 DEF SleepEnds
    <3>6. QED
      BY <3>1, <3>2, <3>3, <3>4, <3>5
  <2>3. CASE WatchdogCheck
    BY <2>1, <2>3 DEF WatchdogCheck, HeartbeatTrue
  <2>4. CASE WatchdogStops
    BY <2>1, <2>4 DEF WatchdogStops, HeartbeatTrue
  <2>5. CASE Signal
    BY <2>1, <2>5 DEF Signal, HeartbeatTrue
  <2>6. CASE Main
    BY <2>6 DEF Main, CleanExit, ForcedExit
  <2>7. CASE TimePasses
    BY <2>1, <2>7 DEF TimePasses, Due, PauseOver, Interrupted, Bump, TypeOK, HeartbeatTrue
  <2>8. QED
    BY <1>2, <2>2, <2>3, <2>4, <2>5, <2>6, <2>7 DEF Next
<1>3. QED
  BY <1>1, <1>2

\* A fresh process has fresh heartbeats.
LEMMA InitHeartbeats == Init => Heartbeats
BY DurationAssumption, StartedRegistered DEF Init, Heartbeats, HeartbeatTrue

-----------------------------------------------------------------------------
(* The watchdog's verdict.                                                 *)

\* While the process is up a true heartbeat is stale only in a hung tick; once
\* it has ended nothing changes, so the evidence of the verdict remains.
LEMMA NextStaleIsHung == TypeOK /\ Heartbeats /\ StaleIsHung /\ [Next]_vars => StaleIsHung'
<1> SUFFICES ASSUME TypeOK, Heartbeats, StaleIsHung, [Next]_vars,
                    watchdog' = "on", NEW l \in Started, Stale(l)', Interval[l] <= WatchdogThreshold
             PROVE  (loop[l] = "tick" /\ timer[l] > WatchdogThreshold)'
  BY DEF StaleIsHung
<1> USE DurationAssumption, StartedRegistered
<1>1. CASE UNCHANGED vars
  BY <1>1 DEF vars, StaleIsHung, Stale
<1>2. CASE Next /\ proc' = "up"
  <2>1. Heartbeats' /\ TypeOK'
    BY NextHeartbeats, NextTypeOK
  <2>2. HeartbeatTrue(l)'
    BY <1>2, <2>1 DEF Heartbeats
  <2>3. QED
    BY <2>1, <2>2 DEF HeartbeatTrue, TypeOK, Stale
<1>3. CASE Next /\ proc' # "up"
  <2>1. age' = age /\ loop' = loop /\ timer' = timer /\ watchdog' = watchdog
    BY <1>3 DEF Next, RunLoop, WatchdogCheck, WatchdogStops, Signal, Main, CleanExit, ForcedExit,
        TimePasses
  <2>2. QED
    BY <2>1 DEF StaleIsHung, Stale
<1>4. QED
  BY <1>1, <1>2, <1>3

\* In any mode and with any pauses, a loop that was started and whose pause the
\* threshold covers is stale only while a tick of it hangs.
THEOREM WatchdogIsRight == Spec => []StaleIsHung
<1>1. Init => StaleIsHung
  BY DurationAssumption, StartedRegistered DEF Init, StaleIsHung, Stale
<1>2. QED
  BY <1>1, NextStaleIsHung, InitHeartbeats, NextHeartbeats, DaemonTypeCorrect, PTL DEF Spec

-----------------------------------------------------------------------------
(* Hangs are noticed.                                                      *)

\* A heartbeat passed the last check, at which it was within the threshold.
CheckedInTime ==
    proc = "up" /\ watchdog = "on" =>
        \A l \in Registered : age[l] <= WatchdogThreshold + sinceCheck

\* The check that finds a heartbeat too old is the last step.
LEMMA NextCheckedInTime == TypeOK /\ CheckedInTime /\ [Next]_vars => CheckedInTime'
<1> SUFFICES ASSUME TypeOK, CheckedInTime, [Next]_vars,
                    proc' = "up", watchdog' = "on", NEW l \in Registered
             PROVE  (age[l] <= WatchdogThreshold + sinceCheck)'
  BY DEF CheckedInTime
<1>1. l \in Loops
  BY DEF Registered, Loops
<1> USE MaxAgeBounds, DurationAssumption, <1>1 DEF TypeOK, CheckedInTime
<1>2. ASSUME NEW k \in Loops, RunLoop(k) PROVE (age[l] <= WatchdogThreshold + sinceCheck)'
  BY <1>2 DEF RunLoop, LoopStops, TickStarts, TickEnds, SleepInterrupted, SleepEnds, Touch
<1>3. CASE WatchdogCheck
  BY <1>3 DEF WatchdogCheck, Stale
<1>4. CASE WatchdogStops
  BY <1>4 DEF WatchdogStops
<1>5. CASE Signal
  BY <1>5 DEF Signal
<1>6. CASE Main
  BY <1>6 DEF Main, CleanExit, ForcedExit
<1>7. CASE TimePasses
  BY <1>7 DEF TimePasses, Bump
<1>8. CASE UNCHANGED vars
  BY <1>8 DEF vars
<1>9. QED
  BY <1>2, <1>3, <1>4, <1>5, <1>6, <1>7, <1>8 DEF Next

\* In a tick the heartbeat's age is the length of the tick.
LEMMA CheckNotices == TypeOK /\ Heartbeats /\ CheckedInTime => HangNoticed
<1> SUFFICES ASSUME TypeOK, Heartbeats, CheckedInTime, proc = "up", watchdog = "on",
                    NEW l \in Started, loop[l] = "tick"
             PROVE  ~(timer[l] >= WatchdogThreshold + CheckInterval + 1)
  BY DEF HangNoticed, LongTick
<1>1. age[l] = timer[l]
  BY DEF Heartbeats, HeartbeatTrue
<1>2. age[l] <= WatchdogThreshold + sinceCheck
  BY StartedRegistered DEF CheckedInTime
<1>3. QED
  BY <1>1, <1>2, StartedRegistered, MaxAgeBounds, DurationAssumption DEF TypeOK

\* No tick outlives the threshold by more than one check interval while the
\* watchdog is on, for any pauses and in any mode.
THEOREM HangsNoticed == Spec => []HangNoticed
<1>1. Init => CheckedInTime
  BY DurationAssumption DEF Init, CheckedInTime, Registered, Loops
<1>2. QED
  BY <1>1, NextCheckedInTime, CheckNotices, InitHeartbeats, NextHeartbeats,
     DaemonTypeCorrect, PTL DEF Spec

-----------------------------------------------------------------------------
(* The shutdown.                                                           *)

\* While main waits, no tick starts, so those that go on are at least as old
\* as the wait, and time passes only beside one of them; when it returns, its
\* heartbeat is fresh until time passes again.
DrainTrue ==
    proc = "up" =>
        /\ ~cancelled => drain = 0
        /\ cancelled => \A l \in Started : loop[l] = "tick" => timer[l] >= drain
        /\ drain > 0 => \E l \in Started : loop[l] = "tick" \/ age[l] = 0

\* Every step of a process that is shutting down keeps this.
LEMMA NextDrainTrue ==
    TypeOK /\ Heartbeats /\ DrainTrue /\ [Next]_vars => DrainTrue'
<1> SUFFICES ASSUME TypeOK, Heartbeats, DrainTrue, [Next]_vars, proc' = "up"
             PROVE  DrainTrue'
  BY DEF DrainTrue
<1> USE MaxAgeBounds, DurationAssumption, StartedRegistered
<1>1. CASE UNCHANGED vars
  BY <1>1 DEF vars, DrainTrue
<1>2. ASSUME NEW k \in Loops, RunLoop(k) PROVE DrainTrue'
  <2> USE <1>2 DEF RunLoop, TypeOK, DrainTrue
  <2>1. CASE LoopStops(k)
    BY <2>1 DEF LoopStops
  <2>2. CASE TickStarts(k)
    BY <2>2 DEF TickStarts, Begin, Touch
  <2>3. CASE TickEnds(k)
    BY <2>3 DEF TickEnds, Begin, Touch
  <2>4. CASE SleepInterrupted(k)
    BY <2>4 DEF SleepInterrupted
  <2>5. CASE SleepEnds(k)
    BY <2>5 DEF SleepEnds
  <2>6. QED
    BY <2>1, <2>2, <2>3, <2>4, <2>5
<1>3. CASE WatchdogCheck
  BY <1>3 DEF WatchdogCheck, DrainTrue
<1>4. CASE WatchdogStops
  BY <1>4 DEF WatchdogStops, DrainTrue
<1>5. CASE Signal
  BY <1>5 DEF Signal, DrainTrue, TypeOK
<1>6. CASE Main
  BY <1>6 DEF Main, CleanExit, ForcedExit
<1>7. CASE TimePasses /\ ~cancelled
  BY <1>7 DEF TimePasses, DrainTrue
<1>8. CASE TimePasses /\ cancelled
  <2>1. PICK l \in Started : loop[l] # "done"
    BY <1>8 DEF TimePasses, AllDone
  <2>2. loop[l] = "tick"
    BY <1>8, <2>1 DEF TimePasses, Due, Interrupted, Heartbeats, HeartbeatTrue, TypeOK
  <2>3. ASSUME NEW k \in Started, loop[k] = "tick"
        PROVE  timer'[k] >= drain'
    BY <1>8, <2>3 DEF TimePasses, Bump, DrainTrue, TypeOK
  <2>4. QED
    BY <1>8, <2>2, <2>3 DEF TimePasses, DrainTrue
<1>9. QED
  BY <1>1, <1>2, <1>3, <1>4, <1>5, <1>6, <1>7, <1>8 DEF Next

\* main gives up waiting only beside a tick as long as the timeout, or one that
\* returns at that very moment.
LEMMA NextShutdownIsClean ==
    TypeOK /\ DrainTrue /\ ShutdownIsClean /\ [Next]_vars => ShutdownIsClean'
<1> SUFFICES ASSUME TypeOK, DrainTrue, ShutdownIsClean, [Next]_vars PROVE ShutdownIsClean'
  OBVIOUS
<1> USE DurationAssumption, StartedRegistered
<1>1. CASE UNCHANGED vars
  BY <1>1 DEF vars, ShutdownIsClean, LongTick
<1>2. CASE ForcedExit
  <2>1. PICK l \in Started : loop[l] = "tick" \/ age[l] = 0
    BY <1>2 DEF ForcedExit, DrainTrue, TypeOK
  <2>2. loop[l] = "tick" => timer[l] >= ShutdownTimeout
    BY <1>2 DEF ForcedExit, DrainTrue, TypeOK
  <2>3. QED
    BY <1>2, <2>1, <2>2 DEF ForcedExit, ShutdownIsClean, LongTick
<1>3. CASE Next /\ ~ForcedExit
  BY <1>3 DEF Next, RunLoop, WatchdogCheck, WatchdogStops, Signal, Main, CleanExit,
      TimePasses, ShutdownIsClean
<1>4. QED
  BY <1>1, <1>2, <1>3

\* A signal leads to the clean exit unless a tick takes as long as the shutdown
\* timeout: pauses, however long, never force the exit.
THEOREM ShutdownClean == Spec => []ShutdownIsClean
<1>1. Init => DrainTrue /\ ShutdownIsClean
  BY DEF Init, DrainTrue, ShutdownIsClean
<1>2. QED
  BY <1>1, NextDrainTrue, NextShutdownIsClean, InitHeartbeats, NextHeartbeats,
     DaemonTypeCorrect, PTL DEF Spec
=============================================================================
