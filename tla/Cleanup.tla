------------------------------ MODULE Cleanup -------------------------------
(***************************************************************************)
(* CleanupDao.cleanTable (internal/db/cleanup.go): the logs and the ddl    *)
(* loop of every daemon trim a table that others keep inserting into.  The *)
(* COUNT, the query for the boundary and every chunk of the DELETE are     *)
(* transactions of their own.                                              *)
(***************************************************************************)
EXTENDS Integers, FiniteSets, FiniteSetsExt

CONSTANTS
    Cleaners,   \* loops calling CleanSessions or CleanDdlDclAuditLog on the table
    MaxRows,    \* config cleanup.maxSessionsRows or cleanup.maxDdlDclAuditRows
    ChunkSize,  \* config cleanup.chunkSize
    MaxId,      \* bound: greatest row id
    MaxFaults   \* bound: failed statements and killed processes

\* NewCleanupDao replaces a non-positive chunk size; cleanTable returns at
\* once when MaxRows is not positive.
ASSUME CleanupAssumption ==
    /\ MaxRows \in Nat \ {0}
    /\ ChunkSize \in Nat \ {0}
    /\ MaxId \in Nat
    /\ MaxFaults \in Nat

VARIABLES
    rows,       \* the ids in the table
    nextId,     \* AUTO_INCREMENT
    pc,         \* per cleaner: "idle", "boundary" or "delete"
    count,      \* per cleaner: result of COUNT(*)
    boundary,   \* per cleaner: the first id to keep
    faults

vars == <<rows, nextId, pc, count, boundary, faults>>

\* int64(float64(maxRows) * 0.9)
TargetRows == (MaxRows * 9) \div 10

Init ==
    /\ rows = {}
    /\ nextId = 1
    /\ pc = [c \in Cleaners |-> "idle"]
    /\ count = [c \in Cleaners |-> 0]
    /\ boundary = [c \in Cleaners |-> 0]
    /\ faults = 0

\* A collector or log processor inserts a row.
Insert ==
    /\ nextId <= MaxId
    /\ rows' = rows \cup {nextId}
    /\ nextId' = nextId + 1
    /\ UNCHANGED <<pc, count, boundary, faults>>

Return(c) ==
    /\ pc' = [pc EXCEPT ![c] = "idle"]
    /\ count' = [count EXCEPT ![c] = 0]
    /\ boundary' = [boundary EXCEPT ![c] = 0]

\* Mutant of CountRows: cleans at the limit already.
CountRowsAtLimit(c) ==
    /\ pc[c] = "idle"
    /\ Cardinality(rows) >= MaxRows
    /\ count' = [count EXCEPT ![c] = Cardinality(rows)]
    /\ pc' = [pc EXCEPT ![c] = "boundary"]
    /\ UNCHANGED <<rows, nextId, boundary, faults>>

\* SELECT COUNT(*): within the limit there is nothing to do.
CountRows(c) ==
    /\ pc[c] = "idle"
    /\ Cardinality(rows) > MaxRows
    /\ count' = [count EXCEPT ![c] = Cardinality(rows)]
    /\ pc' = [pc EXCEPT ![c] = "boundary"]
    /\ UNCHANGED <<rows, nextId, boundary, faults>>

\* Mutant of Offset: a tenth of the rows goes, whatever the limit.
OffsetTenth(c) == count[c] \div 10

Offset(c) == count[c] - TargetRows

\* ORDER BY id LIMIT 1 OFFSET n, when there are that many rows.
AtOffset(id, n) == Cardinality({i \in rows : i < id}) = n

FindBoundary(c) ==
    /\ pc[c] = "boundary"
    /\ \E id \in rows :
        /\ AtOffset(id, Offset(c))
        /\ boundary' = [boundary EXCEPT ![c] = id]
    /\ pc' = [pc EXCEPT ![c] = "delete"]
    /\ UNCHANGED <<rows, nextId, count, faults>>

\* sql.ErrNoRows: skip.
NoBoundary(c) ==
    /\ pc[c] = "boundary"
    /\ Cardinality(rows) <= Offset(c)
    /\ Return(c)
    /\ UNCHANGED <<rows, nextId, faults>>

\* Mutant of Old: the boundary row goes too.
OldInclusive(c) == {i \in rows : i <= boundary[c]}

Old(c) == {i \in rows : i < boundary[c]}

\* DELETE ... LIMIT without ORDER BY: any ChunkSize of the old rows.
DeleteChunk(c) ==
    /\ pc[c] = "delete"
    /\ Old(c) # {}
    /\ \E chunk \in kSubset(Min({ChunkSize, Cardinality(Old(c))}), Old(c)) :
        rows' = rows \ chunk
    /\ UNCHANGED <<nextId, pc, count, boundary, faults>>

\* A chunk of no rows ends the cleanup.
Finished(c) ==
    /\ pc[c] = "delete"
    /\ Old(c) = {}
    /\ Return(c)
    /\ UNCHANGED <<rows, nextId, faults>>

\* A statement fails or the process dies: earlier chunks stay committed.
Abort(c) ==
    /\ pc[c] # "idle"
    /\ faults < MaxFaults
    /\ faults' = faults + 1
    /\ Return(c)
    /\ UNCHANGED <<rows, nextId>>

CleanTable(c) ==
    \/ CountRows(c)
    \/ FindBoundary(c)
    \/ NoBoundary(c)
    \/ DeleteChunk(c)
    \/ Finished(c)

Next ==
    \/ Insert
    \/ \E c \in Cleaners : CleanTable(c) \/ Abort(c)

Spec == Init /\ [][Next]_vars

\* Every N-th tick cleans again.
FairSpec == Spec /\ \A c \in Cleaners : WF_vars(CleanTable(c))

-----------------------------------------------------------------------------
(* Properties.                                                             *)

TypeOK ==
    /\ rows \in SUBSET (1..MaxId)
    /\ nextId \in 1..(MaxId + 1)
    /\ pc \in [Cleaners -> {"idle", "boundary", "delete"}]
    /\ count \in [Cleaners -> 0..MaxId] /\ boundary \in [Cleaners -> 0..MaxId]
    /\ \A c \in Cleaners :
        /\ IF pc[c] = "idle" THEN count[c] = 0 ELSE count[c] \in (MaxRows + 1)..MaxId
        /\ IF pc[c] = "delete" THEN boundary[c] \in 1..MaxId ELSE boundary[c] = 0
    /\ faults \in 0..MaxFaults

\* Cleanup keeps 90 percent of the limit: a row is deleted only while at least
\* TargetRows newer ones stay, however inserts, chunks and failures interleave.
NewestSurvive ==
    [][\A i \in rows \ rows' : Cardinality({j \in rows' : j > i}) >= TargetRows]_vars

\* Even cleaners that trim on each other's stale counts leave the newest row.
NewestRowStays ==
    [][\A i \in rows \ rows' : \E j \in rows' : j > i]_vars

\* The table never stays above its limit once inserts have ceased.
LimitRestored == <>[](Cardinality(rows) <= MaxRows)
=============================================================================
