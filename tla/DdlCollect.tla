----------------------------- MODULE DdlCollect -----------------------------
(***************************************************************************)
(* The DDL/DCL collector, DdlDclAuditDao.Collect (internal/db/ddldcl.go).  *)
(*                                                                         *)
(* Any number of collectors (obauditor daemons, main and fallback) copy    *)
(* the DDL/DCL rows of the observers' in-memory buffers GV$OB_SQL_AUDIT     *)
(* into the table ddl_dcl_audit_log.  Per unit (svr_ip, svr_port,           *)
(* tenant_id) the table ddl_dcl_audit_checkpoint keeps a cursor, the       *)
(* greatest end time (request_time + elapsed_time) already collected.      *)
(* Every step of Collect is a separate autocommit statement, so the        *)
(* collectors, the observers and failures interleave between any two.      *)
(***************************************************************************)
EXTENDS Integers, FiniteSets

CONSTANTS
    Collectors,     \* daemons whose ddl loop calls Collect
    Units,          \* triples (svr_ip, svr_port, tenant_id)
    Hosts,          \* server addresses
    SvrIp,          \* SvrIp[u]: the svr_ip column of unit u
    RequestIds,     \* values of the request_id column
    EndStep,        \* a row's end time exceeds the unit's previous one by at least this
    ServerWideIds,  \* TRUE: the units of one host draw request_id from one counter
    MaxEnd,         \* bound: greatest end time
    MaxRestarts,    \* bound: observer restarts
    MaxFlaps,       \* bound: units appearing or disappearing
    MaxFaults       \* bound: failed database calls and collector crashes

ASSUME UnitsAssumption == Units # {}
ASSUME SvrIpAssumption == SvrIp \in [Units -> Hosts]
ASSUME EndStepAssumption == EndStep \in Nat
ASSUME BoundsAssumption ==
    /\ MaxEnd \in Nat
    /\ MaxRestarts \in Nat
    /\ MaxFlaps \in Nat
    /\ MaxFaults \in Nat

VARIABLES
    sqlAudit,       \* GV$OB_SQL_AUDIT: the rows now in the circular buffers
    activeUnits,    \* DBA_OB_UNITS with status ACTIVE
    auditLog,       \* ddl_dcl_audit_log
    checkpoint,     \* ddl_dcl_audit_checkpoint.last_end_time, NoRow when absent
    pc,             \* per collector: the next statement of Collect
    ghosts,         \* per collector: the result of snapshotGhostUnits
    loaded,         \* per collector: last_end_time of the units still to visit
    window,         \* per collector: the window [unit, newEnd] being copied
    lastFin,        \* per unit: end time of the latest finished statement
    issued,         \* <<unit, request_id>> issued since the observer's start
    restarts, flaps, faults

envVars   == <<sqlAudit, activeUnits, lastFin, issued, restarts, flaps>>
tables    == <<auditLog, checkpoint>>
locals    == <<pc, ghosts, loaded, window>>
vars      == <<envVars, tables, locals, faults>>

NoRow == -1
Ends  == 0..MaxEnd

\* One row of GV$OB_SQL_AUDIT with is_inner_sql = 0.  ddl: it passes the
\* DDL/DCL/target filter of the INSERT.
Row == [unit : Units, id : RequestIds, end : Ends, ddl : BOOLEAN]

\* UNIQUE KEY uq_req (svr_ip, request_id) of ddl_dcl_audit_log.
Key(r) == <<SvrIp[r.unit], r.id>>
KeysOf(S) == {Key(r) : r \in S}

\* The rows INSERT IGNORE adds out of the candidates S.
InsertIgnore(S) == auditLog \cup {r \in S : Key(r) \notin KeysOf(auditLog)}

\* Mutant of InWindow: the window closed on the wrong side.
InWindowRightOpen(r, u, lo, hi) == r.unit = u /\ lo <= r.end /\ r.end < hi

\* The WHERE clause on the half-open window (lo, hi] of a unit.
InWindow(r, u, lo, hi) == r.unit = u /\ lo < r.end /\ r.end <= hi

\* Rows the window query sees beyond the cursor lo.
NewRows(u, lo) == {r \in sqlAudit : r.unit = u /\ r.end > lo}

NoCheckpoints == [u \in Units |-> NoRow]
NoWindow == [unit |-> CHOOSE u \in Units : TRUE, newEnd |-> NoRow]

Init ==
    /\ sqlAudit = {}
    /\ activeUnits \in SUBSET Units
    /\ auditLog = {}
    /\ checkpoint = NoCheckpoints
    /\ pc = [c \in Collectors |-> "idle"]
    /\ ghosts = [c \in Collectors |-> {}]
    /\ loaded = [c \in Collectors |-> NoCheckpoints]
    /\ window = [c \in Collectors |-> NoWindow]
    /\ lastFin = [u \in Units |-> 0]
    /\ issued = {}
    /\ restarts = 0 /\ flaps = 0 /\ faults = 0

-----------------------------------------------------------------------------
(* The observers: the source the collector reads.                          *)

\* The units whose request_id counter is the one of u.
IdScope(u) == IF ServerWideIds THEN {v \in Units : SvrIp[v] = SvrIp[u]} ELSE {u}

\* A statement of unit u ends: its row enters the buffer.
Finish(u, id, end, ddl) ==
    /\ u \in activeUnits
    /\ end >= lastFin[u] + EndStep
    /\ \A v \in IdScope(u) : <<v, id>> \notin issued
    /\ sqlAudit' = sqlAudit \cup {[unit |-> u, id |-> id, end |-> end, ddl |-> ddl]}
    /\ lastFin' = [lastFin EXCEPT ![u] = end]
    /\ issued' = issued \cup {<<u, id>>}
    /\ UNCHANGED <<activeUnits, restarts, flaps, faults, tables, locals>>

\* The circular buffer drops its oldest row.
Evict(r) ==
    /\ \A q \in sqlAudit : q.unit = r.unit => r.end <= q.end
    /\ sqlAudit' = sqlAudit \ {r}
    /\ UNCHANGED <<activeUnits, lastFin, issued, restarts, flaps, faults, tables, locals>>

\* An observer restarts: its buffer is gone and request_id starts again.
ObserverRestart(h) ==
    /\ restarts < MaxRestarts
    /\ restarts' = restarts + 1
    /\ sqlAudit' = {r \in sqlAudit : SvrIp[r.unit] # h}
    /\ issued' = {p \in issued : SvrIp[p[1]] # h}
    /\ UNCHANGED <<activeUnits, lastFin, flaps, faults, tables, locals>>

\* A unit is created, dropped or migrated.
UnitFlap(u) ==
    /\ flaps < MaxFlaps
    /\ flaps' = flaps + 1
    /\ activeUnits' = IF u \in activeUnits THEN activeUnits \ {u} ELSE activeUnits \cup {u}
    /\ UNCHANGED <<sqlAudit, lastFin, issued, restarts, faults, tables, locals>>

-----------------------------------------------------------------------------
(* Collect: one action per statement it executes.                          *)

Fault == faults < MaxFaults /\ faults' = faults + 1

\* Collect returns (or the process dies): its local state is gone.
Leave(c) ==
    /\ pc' = [pc EXCEPT ![c] = "idle"]
    /\ ghosts' = [ghosts EXCEPT ![c] = {}]
    /\ loaded' = [loaded EXCEPT ![c] = NoCheckpoints]
    /\ window' = [window EXCEPT ![c] = NoWindow]

\* Mutant of SyncUnits: REPLACE instead of INSERT IGNORE.
SyncUnitsReplace(c) ==
    /\ pc[c] = "idle"
    /\ checkpoint' = [u \in Units |-> IF u \in activeUnits THEN 0 ELSE checkpoint[u]]
    /\ pc' = [pc EXCEPT ![c] = "ghosts"]
    /\ UNCHANGED <<envVars, auditLog, ghosts, loaded, window, faults>>

\* Mutant of SyncUnits: a new unit starts at its latest statement.
SyncUnitsFromNow(c) ==
    /\ pc[c] = "idle"
    /\ checkpoint' = [u \in Units |->
            IF u \in activeUnits /\ checkpoint[u] = NoRow THEN lastFin[u] ELSE checkpoint[u]]
    /\ pc' = [pc EXCEPT ![c] = "ghosts"]
    /\ UNCHANGED <<envVars, auditLog, ghosts, loaded, window, faults>>

\* syncUnits: INSERT IGNORE a row with cursor 0 for every active unit.
SyncUnits(c) ==
    /\ pc[c] = "idle"
    /\ checkpoint' = [u \in Units |->
            IF u \in activeUnits /\ checkpoint[u] = NoRow THEN 0 ELSE checkpoint[u]]
    /\ pc' = [pc EXCEPT ![c] = "ghosts"]
    /\ UNCHANGED <<envVars, auditLog, ghosts, loaded, window, faults>>

\* snapshotGhostUnits: checkpoint rows whose unit is no longer active.
SnapshotGhostUnits(c) ==
    /\ pc[c] = "ghosts"
    /\ ghosts' = [ghosts EXCEPT ![c] =
            {u \in Units : checkpoint[u] # NoRow /\ u \notin activeUnits}]
    /\ pc' = [pc EXCEPT ![c] = "load"]
    /\ UNCHANGED <<envVars, tables, loaded, window, faults>>

\* loadTargets and loadCheckpoints: the cursors as of now, for the whole run.
LoadCheckpoints(c) ==
    /\ pc[c] = "load"
    /\ loaded' = [loaded EXCEPT ![c] = checkpoint]
    /\ pc' = [pc EXCEPT ![c] = "units"]
    /\ UNCHANGED <<envVars, tables, ghosts, window, faults>>

\* Any of those statements fails: Collect returns the error.
AbortCollect(c) ==
    /\ pc[c] \in {"ghosts", "load"}
    /\ Fault
    /\ Leave(c)
    /\ UNCHANGED <<envVars, tables>>

\* getUnitWindow: MAX(end) beyond the loaded cursor.  Without new rows only
\* updated_at is touched (heartbeatCheckpoint) and the unit is done.
GetUnitWindow(c, u) ==
    /\ pc[c] = "units"
    /\ loaded[c][u] # NoRow
    /\ LET new == NewRows(u, loaded[c][u]) IN
       \/ /\ new = {}
          /\ loaded' = [loaded EXCEPT ![c][u] = NoRow]
          /\ UNCHANGED <<pc, window>>
       \/ \E r \in new :
          /\ \A q \in new : q.end <= r.end
          /\ window' = [window EXCEPT ![c] = [unit |-> u, newEnd |-> r.end]]
          /\ pc' = [pc EXCEPT ![c] = "insert"]
          /\ UNCHANGED loaded
    /\ UNCHANGED <<envVars, tables, ghosts, faults>>

\* getUnitWindow fails: continue with the next unit.
WindowFails(c, u) ==
    /\ pc[c] = "units"
    /\ loaded[c][u] # NoRow
    /\ Fault
    /\ loaded' = [loaded EXCEPT ![c][u] = NoRow]
    /\ UNCHANGED <<envVars, tables, pc, ghosts, window>>

\* Mutant of Candidates: the statement filter is lost.
CandidatesUnfiltered(c) ==
    LET u == window[c].unit IN
    {r \in sqlAudit : InWindow(r, u, loaded[c][u], window[c].newEnd)}

\* The rows of the window that INSERT ... SELECT reads.
Candidates(c) ==
    LET u == window[c].unit IN
    {r \in sqlAudit : r.ddl /\ InWindow(r, u, loaded[c][u], window[c].newEnd)}

InsertWindow(c) ==
    /\ pc[c] = "insert"
    /\ auditLog' = InsertIgnore(Candidates(c))
    /\ pc' = [pc EXCEPT ![c] = "update"]
    /\ UNCHANGED <<envVars, checkpoint, ghosts, loaded, window, faults>>

\* The unit of the window is done.
NextUnit(c) ==
    /\ pc' = [pc EXCEPT ![c] = "units"]
    /\ loaded' = [loaded EXCEPT ![c][window[c].unit] = NoRow]
    /\ window' = [window EXCEPT ![c] = NoWindow]

\* Mutant of InsertFails: the error is logged and the cursor moves on.
InsertFailsUnnoticed(c) ==
    /\ pc[c] = "insert"
    /\ Fault
    /\ auditLog' \in {auditLog, InsertIgnore(Candidates(c))}
    /\ pc' = [pc EXCEPT ![c] = "update"]
    /\ UNCHANGED <<envVars, checkpoint, ghosts, loaded, window>>

\* The INSERT reports an error (its effect may still have been committed):
\* the cursor is left alone, continue with the next unit.
InsertFails(c) ==
    /\ pc[c] = "insert"
    /\ Fault
    /\ auditLog' \in {auditLog, InsertIgnore(Candidates(c))}
    /\ NextUnit(c)
    /\ UNCHANGED <<envVars, checkpoint, ghosts>>

\* Mutants of CursorMoved: the cursor points past the window; the WHERE clause
\* names the server only.
CursorPastEnd(c) ==
    LET u == window[c].unit IN
    [checkpoint EXCEPT ![u] = IF @ = NoRow THEN NoRow ELSE window[c].newEnd + 1]

CursorMovedOnHost(c) ==
    [u \in Units |->
        IF checkpoint[u] = NoRow \/ SvrIp[u] # SvrIp[window[c].unit]
        THEN checkpoint[u] ELSE window[c].newEnd]

\* The UPDATE of the cursor: it changes no row when the row is gone.
CursorMoved(c) ==
    LET u == window[c].unit IN
    [checkpoint EXCEPT ![u] = IF @ = NoRow THEN NoRow ELSE window[c].newEnd]

UpdateCheckpoint(c) ==
    /\ pc[c] = "update"
    /\ checkpoint' = CursorMoved(c)
    /\ NextUnit(c)
    /\ UNCHANGED <<envVars, auditLog, ghosts, faults>>

\* The UPDATE fails: only logged.  (One committed although it reported an
\* error is UpdateCheckpoint.)
UpdateFails(c) ==
    /\ pc[c] = "update"
    /\ Fault
    /\ NextUnit(c)
    /\ UNCHANGED <<envVars, tables, ghosts>>

\* All units visited.
UnitsDone(c) ==
    /\ pc[c] = "units"
    /\ loaded[c] = NoCheckpoints
    /\ IF ghosts[c] = {}
       THEN Leave(c)
       ELSE pc' = [pc EXCEPT ![c] = "purge"] /\ UNCHANGED <<ghosts, loaded, window>>
    /\ UNCHANGED <<envVars, tables, faults>>

\* cleanupGhosts: DELETE the checkpoint row of one ghost after the other.
PurgeGhost(c, u) ==
    /\ pc[c] = "purge"
    /\ u \in ghosts[c]
    /\ checkpoint' = [checkpoint EXCEPT ![u] = NoRow]
    /\ IF ghosts[c] = {u}
       THEN Leave(c)
       ELSE ghosts' = [ghosts EXCEPT ![c] = @ \ {u}] /\ UNCHANGED <<pc, loaded, window>>
    /\ UNCHANGED <<envVars, auditLog, faults>>

\* A DELETE fails: the remaining ghosts are left to the next run.
PurgeFails(c) ==
    /\ pc[c] = "purge"
    /\ Fault
    /\ Leave(c)
    /\ UNCHANGED <<envVars, tables>>

\* The daemon is killed (watchdog, SIGKILL, power) in the middle of Collect.
Crash(c) ==
    /\ pc[c] # "idle"
    /\ Fault
    /\ Leave(c)
    /\ UNCHANGED <<envVars, tables>>

-----------------------------------------------------------------------------
Observer ==
    \/ \E u \in Units, id \in RequestIds, end \in 1..MaxEnd, ddl \in BOOLEAN : Finish(u, id, end, ddl)
    \/ \E r \in sqlAudit : Evict(r)
    \/ \E h \in Hosts : ObserverRestart(h)
    \/ \E u \in Units : UnitFlap(u)

\* The steps of Collect that succeed.
Collect(c) ==
    \/ SyncUnits(c)
    \/ SnapshotGhostUnits(c)
    \/ LoadCheckpoints(c)
    \/ \E u \in Units : GetUnitWindow(c, u)
    \/ InsertWindow(c)
    \/ UpdateCheckpoint(c)
    \/ UnitsDone(c)
    \/ \E u \in Units : PurgeGhost(c, u)

Failure(c) ==
    \/ AbortCollect(c)
    \/ \E u \in Units : WindowFails(c, u)
    \/ InsertFails(c)
    \/ UpdateFails(c)
    \/ PurgeFails(c)
    \/ Crash(c)

Next ==
    \/ Observer
    \/ \E c \in Collectors : Collect(c) \/ Failure(c)

Spec == Init /\ [][Next]_vars

\* The ddl loop calls Collect again and again; a daemon that dies is started
\* again.  Fairness of one collector is enough.
FairSpec == Spec /\ \E c \in Collectors : WF_vars(Collect(c))
-----------------------------------------------------------------------------
(* Properties.                                                             *)

Cursor == Ends \cup {NoRow}
Window == [unit : Units, newEnd : Cursor]

\* Every variable holds values the program can produce.
TypeOK ==
    /\ sqlAudit \in SUBSET Row
    /\ activeUnits \in SUBSET Units
    /\ auditLog \in SUBSET Row
    /\ checkpoint \in [Units -> Cursor]
    /\ pc \in [Collectors ->
            {"idle", "ghosts", "load", "units", "insert", "update", "purge"}]
    /\ ghosts \in [Collectors -> SUBSET Units]
    /\ loaded \in [Collectors -> [Units -> Cursor]]
    /\ window \in [Collectors -> Window]
    /\ lastFin \in [Units -> Ends]
    /\ issued \in SUBSET (Units \X RequestIds)
    /\ restarts \in 0..MaxRestarts
    /\ flaps \in 0..MaxFlaps
    /\ faults \in 0..MaxFaults

\* Every DDL row of unit u in the buffer with an end time up to e has its key
\* in the log.
Logged(u, e) ==
    \A r \in sqlAudit :
        r.ddl /\ r.unit = u /\ r.end <= e => Key(r) \in KeysOf(auditLog)

\* The cursor never passes a DDL row that is not in the log: whatever the
\* interleaving of collectors, failed statements, crashes and ghost purges,
\* the key of every DDL row still in the buffer at or below its unit's cursor
\* is in ddl_dcl_audit_log.
CursorCovers == \A u \in Units : Logged(u, checkpoint[u])

\* The same for the row itself: no DDL the cursor has passed is missing from
\* the log.  INSERT IGNORE judges by uq_req (svr_ip, request_id), so this
\* needs request ids no two rows of a host ever share.
NoDdlLost ==
    \A r \in sqlAudit :
        r.ddl /\ r.end <= checkpoint[r.unit] => r \in auditLog

\* A cursor value e of unit u that claims no more than the log holds, now and
\* after any further statement of the unit.
Sound(u, e) == e <= lastFin[u] /\ Logged(u, e)

\* What makes CursorCovers inductive: the cursors of the table, those in the
\* memory of a collector and the windows already inserted are all sound.
CursorInv ==
    /\ \A r \in sqlAudit : 0 < r.end /\ r.end <= lastFin[r.unit]
    /\ \A u \in Units : Sound(u, checkpoint[u])
    /\ \A c \in Collectors, u \in Units : Sound(u, loaded[c][u])
    /\ \A c \in Collectors :
        LET w == window[c] IN
        /\ w.newEnd <= lastFin[w.unit]
        /\ pc[c] = "update" => Logged(w.unit, w.newEnd)

\* Every row seen holds an id that was issued, and no two rows share a key:
\* true as long as one counter serves a host and no observer restarts.
IdInv ==
    /\ \A r \in sqlAudit \cup auditLog : <<r.unit, r.id>> \in issued
    /\ \A r, q \in sqlAudit \cup auditLog : Key(r) = Key(q) => r = q

\* The primary key of the buffer (svr_ip, svr_port, tenant_id, request_id) and
\* the unique key of the log hold, restarts or not.
KeyInv ==
    /\ \A r \in sqlAudit : <<r.unit, r.id>> \in issued
    /\ \A r, q \in sqlAudit : r.unit = q.unit /\ r.id = q.id => r = q
    /\ \A r, q \in auditLog : Key(r) = Key(q) => r = q

\* While it runs, a collector that is alone is the only one to move a cursor:
\* what it loaded is what the table still holds.
AloneInv ==
    \A c \in Collectors :
        /\ pc[c] \notin {"units", "insert", "update"} => loaded[c] = NoCheckpoints
        /\ \A u \in Units : loaded[c][u] # NoRow => checkpoint[u] = loaded[c][u]
        /\ pc[c] \in {"insert", "update"} =>
            LET w == window[c] IN
            loaded[c][w.unit] # NoRow /\ loaded[c][w.unit] < w.newEnd

\* The abstract trail: Collect implements it.
Trail == INSTANCE AuditTrail
TrailSpec == Trail!Spec

\* With a single collector a cursor only grows, until cleanupGhosts deletes
\* its row: no step makes Collect copy a window again that it has finished.
MonotoneCursor ==
    [][\A u \in Units :
        checkpoint'[u] >= checkpoint[u] \/ checkpoint'[u] = NoRow]_vars

\* A unit that is gone is deleted from the checkpoint only after its last
\* rows were collected (comment of cleanupGhosts).
GhostsDrained ==
    [][\A r \in sqlAudit :
        /\ r.ddl /\ r.unit \notin activeUnits
        /\ checkpoint[r.unit] # NoRow /\ checkpoint'[r.unit] = NoRow
        => Key(r) \in KeysOf(auditLog)]_vars

\* Once the observers are quiet and nothing fails any more, every DDL row in
\* the buffer of an active unit gets into the log, also after crashes,
\* regressed cursors and purged checkpoint rows.
EventuallyCaughtUp ==
    <>[](\A r \in sqlAudit : r.ddl /\ r.unit \in activeUnits => r \in auditLog)
=============================================================================
