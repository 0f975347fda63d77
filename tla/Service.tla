------------------------------- MODULE Service -------------------------------
(***************************************************************************)
(* obauditor under systemd (obauditor.service): the process of module      *)
(* Daemon is started, needs the database to start (main.go), reads the     *)
(* files that have piled up in its first tick of the log loop              *)
(* (processor.go), and is restarted when the watchdog kills it.            *)
(*                                                                         *)
(* Reading takes time, one unit of a file per unit of time.                *)
(***************************************************************************)
EXTENDS Daemon, SequencesExt

CONSTANTS
    RestartSec,         \* pause before a restart
    StartLimitBurst,    \* this many starts are allowed ...
    StartLimitInterval, \* ... in such a time
    Files,              \* the files to read, each by its size
    MaxOutages          \* bound: outages of the database

ASSUME ServiceAssumption ==
    /\ RestartSec \in Nat /\ StartLimitInterval \in Nat
    /\ StartLimitBurst \in Nat \ {0}
    /\ Files \in Seq(Nat \ {0})
    /\ MaxOutages \in Nat

VARIABLES
    unit,    \* "active", "auto-restart", "failed", "inactive", "stopped" (asked to)
    rest,    \* time since the process ended
    starts,  \* the starts of the last StartLimitInterval: age, and whether main came up
    dbUp,    \* the database answers
    outages, \* outages so far
    backlog, \* sizes of the files that logfiles does not know as read
    read     \* how much of the first of them the current tick has read

systemd == <<unit, rest, starts>>
database == <<dbUp, outages>>
ingestion == <<backlog, read>>
service == <<vars, systemd, database, ingestion>>

\* The unit is enabled: its first start is due.
ServiceInit ==
    /\ loop = [l \in Loops |-> "off"]
    /\ timer = [l \in Loops |-> 0]
    /\ age = [l \in Loops |-> 0]
    /\ cancelled = FALSE
    /\ watchdog = "off"
    /\ sinceCheck = 0
    /\ drain = 0
    /\ proc = "exit0"
    /\ unit = "auto-restart"
    /\ rest = RestartSec
    /\ starts = <<>>
    /\ dbUp \in BOOLEAN
    /\ outages = 0
    /\ backlog = Files
    /\ read = 0

-----------------------------------------------------------------------------
(* systemd.                                                                *)

StartDue == unit = "auto-restart" /\ rest >= RestartSec

\* Mutant of LimitHit: one start too many.
LimitHitLate == Len(starts) > StartLimitBurst

LimitHit == Len(starts) >= StartLimitBurst

\* main: Initialize and Ping succeed, the loops and the watchdog start.
Boot ==
    /\ loop' = [l \in Loops |-> IF l \in Started THEN "top" ELSE "off"]
    /\ timer' = [l \in Loops |-> 0]
    /\ age' = [l \in Loops |-> 0]
    /\ cancelled' = FALSE
    /\ watchdog' = "on"
    /\ sinceCheck' = 0
    /\ drain' = 0
    /\ proc' = "up"
    /\ read' = 0

StartUp ==
    /\ StartDue /\ ~LimitHit /\ dbUp
    /\ Boot
    /\ unit' = "active"
    /\ starts' = Append(starts, [age |-> 0, up |-> TRUE])
    /\ UNCHANGED <<rest, database, backlog>>

\* main exits with 1 when the database does not answer.
StartFails ==
    /\ StartDue /\ ~LimitHit /\ ~dbUp
    /\ proc' = "exit1"
    /\ rest' = 0
    /\ starts' = Append(starts, [age |-> 0, up |-> FALSE])
    /\ UNCHANGED <<loop, timer, age, cancelled, watchdog, sinceCheck, drain>>
    /\ UNCHANGED <<unit, database, ingestion>>

GiveUp ==
    /\ StartDue /\ LimitHit
    /\ unit' = "failed"
    /\ UNCHANGED <<vars, rest, starts, database, ingestion>>

\* Mutant of Restarts: Restart=on-abnormal, which leaves exit codes alone.
RestartsOnAbnormal == proc = "killed"

\* Restart=on-failure: every exit code but 0.
Restarts == proc # "exit0"

\* A stop job ends the unit whatever the exit code is.
ProcessEnded ==
    /\ unit = "active"
    /\ proc # "up"
    /\ unit' = CASE cancelled -> "stopped"
                 [] ~cancelled /\ Restarts -> "auto-restart"
                 [] OTHER -> "inactive"
    /\ rest' = 0
    /\ UNCHANGED <<vars, starts, database, ingestion>>

\* systemctl stop while the restart is pending.
StopPending ==
    /\ unit = "auto-restart"
    /\ unit' = "stopped"
    /\ UNCHANGED <<vars, rest, starts, database, ingestion>>

Systemd == StartUp \/ StartFails \/ GiveUp \/ ProcessEnded

-----------------------------------------------------------------------------
(* The database.                                                           *)

Outage ==
    /\ dbUp /\ outages < MaxOutages
    /\ dbUp' = FALSE
    /\ outages' = outages + 1
    /\ UNCHANGED <<vars, systemd, ingestion>>

Recovery ==
    /\ ~dbUp
    /\ dbUp' = TRUE
    /\ UNCHANGED <<vars, systemd, outages, ingestion>>

-----------------------------------------------------------------------------
(* The process.                                                            *)

Reading == proc = "up" /\ loop["logs"] = "tick" /\ backlog # <<>> /\ dbUp

\* Mutant of FileRead: offsets are saved after the last file only.
AllRead == Reading /\ read = FoldSeq(+, 0, backlog)

FileRead == Reading /\ read = Head(backlog)

\* processFile has come to the end of a file: its offset is saved.
SaveRecord ==
    /\ FileRead
    /\ backlog' = Tail(backlog)
    /\ read' = 0
    /\ UNCHANGED <<vars, systemd, database>>

\* A tick of the log loop ends when every file was read, or early because
\* the database does not answer; what it read of a file is forgotten.
LogsTickEnds == loop["logs"] = "tick" /\ loop["logs"]' # "tick"

Loop(l) ==
    /\ RunLoop(l)
    /\ LogsTickEnds => backlog = <<>> \/ ~dbUp
    /\ read' = IF LogsTickEnds THEN 0 ELSE read
    /\ UNCHANGED <<systemd, database, backlog>>

Others ==
    /\ WatchdogCheck \/ WatchdogStops \/ Main
    /\ UNCHANGED <<systemd, database, ingestion>>

Stop == Signal /\ UNCHANGED <<systemd, database, ingestion>>

-----------------------------------------------------------------------------
(* Time.                                                                   *)

\* Mutant of Older: starts are never forgotten.
OlderKept == [i \in DOMAIN starts |-> [starts[i] EXCEPT !.age = @ + 1]]

\* The starts are a unit of time older, and forgotten once out of the interval.
Older ==
    LET older == [i \in DOMAIN starts |-> [starts[i] EXCEPT !.age = @ + 1]]
        forgotten == {i \in DOMAIN older : older[i].age >= StartLimitInterval}
    IN  SubSeq(older, Max({0} \cup forgotten) + 1, Len(older))

ProcessTime ==
    /\ TimePasses
    /\ ~FileRead
    /\ read' = IF Reading THEN read + 1 ELSE read
    /\ starts' = Older
    /\ UNCHANGED <<unit, rest, database, backlog>>

PauseTime ==
    /\ unit = "auto-restart"
    /\ rest < RestartSec
    /\ rest' = rest + 1
    /\ starts' = Older
    /\ UNCHANGED <<vars, unit, database, ingestion>>

ServiceNext ==
    \/ StartUp
    \/ StartFails
    \/ GiveUp
    \/ ProcessEnded
    \/ StopPending
    \/ Outage
    \/ Recovery
    \/ SaveRecord
    \/ \E l \in Loops : Loop(l)
    \/ Others
    \/ Stop
    \/ ProcessTime
    \/ PauseTime

ServiceSpec == ServiceInit /\ [][ServiceNext]_service

\* As in Daemon, no tick has to return; systemd does its work, and a process
\* that reads files goes on with it. Outages may last.
FairService ==
    /\ ServiceSpec
    /\ \A l \in Loops : WF_service(loop[l] # "tick" /\ Loop(l))
    /\ WF_service(Others)
    /\ WF_service(Systemd)
    /\ WF_service(SaveRecord)
    /\ WF_service(ProcessTime)
    /\ WF_service(PauseTime)

-----------------------------------------------------------------------------
(* Properties.                                                             *)

ServiceTypeOK ==
    /\ unit \in {"active", "auto-restart", "failed", "inactive", "stopped"}
    /\ rest \in 0..RestartSec
    /\ starts \in Seq([age : Nat, up : BOOLEAN])
    /\ Len(starts) <= StartLimitBurst
    /\ dbUp \in BOOLEAN
    /\ outages \in 0..MaxOutages
    /\ backlog \in Seq(Nat \ {0})
    /\ read \in Nat /\ (backlog # <<>> => read <= Head(backlog))

Over == unit \in {"failed", "stopped"}

\* "The process exits with 1 and systemd raises it again" (DAEMON.md): kills by
\* the watchdog alone never use up the start limit, a start has to have failed.
GivesUpOnlyOnFailedStarts ==
    unit = "failed" => \E i \in DOMAIN starts : ~starts[i].up

\* Every loop starts a tick again and again, although ticks hang, until the
\* service is stopped or a start failed too often.
TicksAgain == \A l \in Started : []<>(loop[l] = "top" \/ Over)

\* Files that piled up are read in the end, although together they take longer
\* than the watchdog allows and any tick may hang: a restart goes on at the
\* file at which the process was killed.
BacklogRead == <>[]dbUp => <>(backlog = <<>> \/ Over)
=============================================================================
