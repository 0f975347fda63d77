------------------------------ MODULE Fallback ------------------------------
(***************************************************************************)
(* Main and fallback collector (ddlDclAuditMode 1 and 2): when does the    *)
(* ddl tick run Collect?  runDdlLoop in cmd/obauditor/main.go,             *)
(* ShouldCollectFallback in internal/db/ddldcl.go.                         *)
(*                                                                         *)
(* Collect is its duration and the moments it sets updated_at; DdlCollect  *)
(* has the rest.  Time is discrete and passes only when no tick is due.    *)
(***************************************************************************)
EXTENDS Integers

CONSTANTS
    FallbackThreshold,      \* the constant fallbackThresholdSec
    DdlDclStaleThreshold,   \* config daemon.ddlDclStaleThreshold
    DdlDclInterval,         \* config daemon.ddlDclInterval
    MaxCollect,             \* bound: the longest a Collect takes
    MaxFaults               \* bound: ticks whose query or Collect fails

ASSUME FallbackAssumption ==
    /\ FallbackThreshold \in Nat
    /\ DdlDclStaleThreshold \in Nat
    /\ DdlDclInterval \in Nat \ {0}
    /\ MaxCollect \in Nat
    /\ MaxFaults \in Nat

Daemons == {"main", "fallback"}
Null == -1
MaxAge == FallbackThreshold + DdlDclInterval + 2 * MaxCollect + 2

VARIABLES
    updatedAge, \* age of MAX(updated_at) over ddl_dcl_audit_checkpoint, or Null
    phase,      \* per daemon: "down", "tick" (due), "collect" or "sleep"
    timer,      \* per daemon: time in this phase
    fed,        \* per daemon: has set updated_at since it started, and its last Collect did
    faults

vars == <<updatedAge, phase, timer, fed, faults>>

Init ==
    /\ updatedAge \in {Null, 0}
    /\ phase \in [Daemons -> {"down", "tick"}]
    /\ phase["fallback"] = "tick"
    /\ timer = [d \in Daemons |-> 0]
    /\ fed = [d \in Daemons |-> FALSE]
    /\ faults = 0

Enter(d, p) ==
    /\ phase' = [phase EXCEPT ![d] = p]
    /\ timer' = [timer EXCEPT ![d] = 0]

Fault == faults < MaxFaults /\ faults' = faults + 1

\* Mutant of ShouldCollectFallback: any silence counts.
ShouldCollectSoon == updatedAge = Null \/ updatedAge > 0

\* ShouldCollectFallback, on the result of SELECT MAX(updated_at).
ShouldCollectFallback == updatedAge = Null \/ updatedAge > FallbackThreshold

\* Mutant of DoCollect: mode 2 never collects.
DoCollectMainOnly(d) == d = "main"

\* The mode decides whether this tick collects.
DoCollect(d) == d = "main" \/ ShouldCollectFallback

TickCollects(d) ==
    /\ phase[d] = "tick"
    /\ DoCollect(d)
    /\ Enter(d, "collect")
    /\ UNCHANGED <<updatedAge, fed, faults>>

TickSkips(d) ==
    /\ phase[d] = "tick"
    /\ ~DoCollect(d)
    /\ Enter(d, "sleep")
    /\ UNCHANGED <<updatedAge, fed, faults>>

\* The query, or Collect before its first unit, fails.
TickFails(d) ==
    /\ phase[d] \in {"tick", "collect"}
    /\ Fault
    /\ Enter(d, "sleep")
    /\ fed' = [fed EXCEPT ![d] = FALSE]
    /\ UNCHANGED updatedAge

\* updateCheckpoint or heartbeatCheckpoint of one unit.
TouchUnit(d) ==
    /\ phase[d] = "collect"
    /\ updatedAge' = 0
    /\ fed' = [fed EXCEPT ![d] = TRUE]
    /\ UNCHANGED <<phase, timer, faults>>

\* Mutant of CollectEnds: the pause counts from the start of the tick.
CollectEndsAtRate(d) ==
    /\ phase[d] = "collect"
    /\ updatedAge' = 0
    /\ fed' = [fed EXCEPT ![d] = TRUE]
    /\ phase' = [phase EXCEPT ![d] = "sleep"]
    /\ UNCHANGED <<timer, faults>>

\* Collect has visited every unit, the last of them just now.
CollectEnds(d) ==
    /\ phase[d] = "collect"
    /\ updatedAge' = 0
    /\ fed' = [fed EXCEPT ![d] = TRUE]
    /\ Enter(d, "sleep")
    /\ UNCHANGED faults

\* RunLoop: the pause after the tick.
Wake(d) ==
    /\ phase[d] = "sleep"
    /\ timer[d] >= DdlDclInterval
    /\ Enter(d, "tick")
    /\ UNCHANGED <<updatedAge, fed, faults>>

MainDies ==
    /\ phase["main"] # "down"
    /\ Enter("main", "down")
    /\ fed' = [fed EXCEPT !["main"] = FALSE]
    /\ UNCHANGED <<updatedAge, faults>>

MainStarts ==
    /\ phase["main"] = "down"
    /\ Enter("main", "tick")
    /\ UNCHANGED <<updatedAge, fed, faults>>

Due(d) ==
    \/ phase[d] = "tick"
    \/ phase[d] = "collect" /\ timer[d] >= MaxCollect
    \/ phase[d] = "sleep" /\ timer[d] >= DdlDclInterval

TimePasses ==
    /\ \A d \in Daemons : ~Due(d)
    /\ updatedAge' = IF updatedAge \in {Null, MaxAge} THEN updatedAge ELSE updatedAge + 1
    /\ timer' = [d \in Daemons |-> IF phase[d] = "down" THEN 0 ELSE timer[d] + 1]
    /\ UNCHANGED <<phase, fed, faults>>

Tick(d) ==
    \/ TickCollects(d) \/ TickSkips(d) \/ TickFails(d)
    \/ TouchUnit(d) \/ CollectEnds(d) \/ Wake(d)

Next ==
    \/ \E d \in Daemons : Tick(d)
    \/ MainDies
    \/ MainStarts
    \/ TimePasses

Spec == Init /\ [][Next]_vars

-----------------------------------------------------------------------------
(* Properties.                                                             *)

TypeOK ==
    /\ updatedAge \in Null..MaxAge
    /\ phase \in [Daemons -> {"down", "tick", "collect", "sleep"}]
    /\ timer \in [Daemons -> Nat]
    /\ \A d \in Daemons :
        timer[d] \in CASE phase[d] = "collect" -> 0..MaxCollect
                       [] phase[d] = "sleep" -> 0..DdlDclInterval
                       [] OTHER -> {0}
    /\ fed \in [Daemons -> BOOLEAN]
    /\ faults \in 0..MaxFaults

\* The fallback leaves a working main alone: it begins a Collect only when
\* nothing was ever collected or the main has died, or failed, since it last
\* set updated_at.  (Concurrent Collects are advised against.)
FallbackLeavesMainAlone ==
    [][phase["fallback"] = "tick" /\ phase'["fallback"] = "collect"
        => updatedAge = Null \/ ~fed["main"]]_vars

\* While no tick fails, nobody's silence outlasts threshold t by more than one
\* pause of the fallback and one Collect, whenever the main dies or returns.
SilenceBounded(t) ==
    faults = 0 => updatedAge <= t + DdlDclInterval + MaxCollect

\* The fallback takes over after the compiled-in threshold.
TakesOver == SilenceBounded(FallbackThreshold)

\* The fallback takes over after the configured threshold.
TakesOverAsConfigured == SilenceBounded(DdlDclStaleThreshold)
=============================================================================
