---------------------------- MODULE Cleanup_proof ----------------------------
(***************************************************************************)
(* Proofs about Cleanup and Pipeline, for any number of cleaners and       *)
(* senders, any limit, chunk and batch size, any number of rows and of     *)
(* failures.                                                               *)
(***************************************************************************)
EXTENDS Pipeline, FiniteSetTheorems, TLAPS

-----------------------------------------------------------------------------
(* Type correctness.                                                       *)

\* A set of row ids is finite, and no greater than the greatest id.
LEMMA IdsFinite ==
    ASSUME NEW R \in SUBSET (1..MaxId)
    PROVE  IsFiniteSet(R) /\ Cardinality(R) \in 0..MaxId
<1>1. IsFiniteSet(1..MaxId) /\ Cardinality(1..MaxId) = MaxId
  BY FS_Interval, CleanupAssumption
<1>2. IsFiniteSet(R) /\ Cardinality(R) <= MaxId
  BY <1>1, FS_Subset
<1>3. QED
  BY <1>2, FS_CardinalityType, CleanupAssumption

\* The program starts well typed: nothing inserted, nobody cleaning.
LEMMA InitTypeOK == Init => TypeOK
BY CleanupAssumption DEF Init, TypeOK

\* Every statement of the writers and of cleanTable keeps the types.
LEMMA NextTypeOK == TypeOK /\ [Next]_vars => TypeOK'
<1> SUFFICES ASSUME TypeOK, [Next]_vars PROVE TypeOK'
  OBVIOUS
<1> USE CleanupAssumption
<1>1. CASE Insert
  BY <1>1 DEF Insert, TypeOK
<1>2. ASSUME NEW c \in Cleaners, CountRows(c) PROVE TypeOK'
  <2>1. Cardinality(rows) \in (MaxRows + 1)..MaxId
    BY <1>2, IdsFinite, CleanupAssumption DEF CountRows, TypeOK
  <2>2. QED
    BY <1>2, <2>1 DEF CountRows, TypeOK
<1>3. ASSUME NEW c \in Cleaners, FindBoundary(c) PROVE TypeOK'
  BY <1>3 DEF FindBoundary, TypeOK
<1>4. ASSUME NEW c \in Cleaners, NoBoundary(c) PROVE TypeOK'
  BY <1>4 DEF NoBoundary, Return, TypeOK
<1>5. ASSUME NEW c \in Cleaners, DeleteChunk(c) PROVE TypeOK'
  BY <1>5 DEF DeleteChunk, TypeOK
<1>6. ASSUME NEW c \in Cleaners, Finished(c) PROVE TypeOK'
  BY <1>6 DEF Finished, Return, TypeOK
<1>7. ASSUME NEW c \in Cleaners, Abort(c) PROVE TypeOK'
  BY <1>7 DEF Abort, Return, TypeOK
<1>8. CASE UNCHANGED vars
  BY <1>8 DEF vars, TypeOK
<1>9. QED
  BY <1>1, <1>2, <1>3, <1>4, <1>5, <1>6, <1>7, <1>8 DEF Next, CleanTable

\* Every reachable state is well typed: no cleaner computes with a count within
\* the limit, and only a deleting cleaner has a boundary.
THEOREM CleanupTypeCorrect == Spec => []TypeOK
<1>1. QED
  BY InitTypeOK, NextTypeOK, PTL DEF Spec

-----------------------------------------------------------------------------
(* The newest row stays, however many cleaners trim on stale counts.       *)

\* A deleting cleaner's boundary is at or below a row that exists.  Chunks of
\* others may delete the boundary row itself, but only below a row that stays.
BoundaryBelowRow ==
    \A c \in Cleaners : pc[c] = "delete" => \E j \in rows : j >= boundary[c]

\* A chunk takes only rows below the boundary of the cleaner that deletes it.
LEMMA ChunkIsOld ==
    ASSUME NEW c \in Cleaners, DeleteChunk(c)
    PROVE  /\ rows' \subseteq rows
           /\ \A i \in rows \ rows' : i < boundary[c]
BY DEF DeleteChunk, Old, kSubset

\* No statement leaves a deleting cleaner without a row to stop at.
LEMMA NextBoundaryBelowRow ==
    TypeOK /\ BoundaryBelowRow /\ [Next]_vars => BoundaryBelowRow'
<1> SUFFICES ASSUME TypeOK, BoundaryBelowRow, [Next]_vars PROVE BoundaryBelowRow'
  OBVIOUS
<1>1. CASE Insert
  BY <1>1 DEF Insert, BoundaryBelowRow
<1>2. ASSUME NEW c \in Cleaners, CountRows(c) PROVE BoundaryBelowRow'
  BY <1>2 DEF CountRows, BoundaryBelowRow, TypeOK
<1>3. ASSUME NEW c \in Cleaners, FindBoundary(c) PROVE BoundaryBelowRow'
  BY <1>3 DEF FindBoundary, BoundaryBelowRow, TypeOK
<1>4. ASSUME NEW c \in Cleaners, NoBoundary(c) PROVE BoundaryBelowRow'
  BY <1>4 DEF NoBoundary, Return, BoundaryBelowRow, TypeOK
<1>5. ASSUME NEW c \in Cleaners, DeleteChunk(c) PROVE BoundaryBelowRow'
  <2>1. PICK top \in rows : top >= boundary[c]
    BY <1>5 DEF DeleteChunk, BoundaryBelowRow
  <2>2. top \in rows'
    BY <1>5, <2>1, ChunkIsOld DEF TypeOK, DeleteChunk
  <2>3. ASSUME NEW d \in Cleaners, pc[d] = "delete"
        PROVE  \E j \in rows' : j >= boundary[d]
    <3>1. PICK j \in rows : j >= boundary[d]
      BY <2>3 DEF BoundaryBelowRow
    <3>2. CASE j \in rows'
      BY <3>1, <3>2
    <3>3. CASE j \notin rows'
      BY <1>5, <2>1, <2>2, <2>3, <3>1, <3>3, ChunkIsOld DEF TypeOK, DeleteChunk
    <3>4. QED
      BY <3>2, <3>3
  <2>4. QED
    BY <1>5, <2>3 DEF DeleteChunk, BoundaryBelowRow
<1>6. ASSUME NEW c \in Cleaners, Finished(c) PROVE BoundaryBelowRow'
  BY <1>6 DEF Finished, Return, BoundaryBelowRow, TypeOK
<1>7. ASSUME NEW c \in Cleaners, Abort(c) PROVE BoundaryBelowRow'
  BY <1>7 DEF Abort, Return, BoundaryBelowRow, TypeOK
<1>8. CASE UNCHANGED vars
  BY <1>8 DEF vars, BoundaryBelowRow
<1>9. QED
  BY <1>1, <1>2, <1>3, <1>4, <1>5, <1>6, <1>7, <1>8 DEF Next, CleanTable

\* A deleted row is below a row that stays.
LEMMA DeletedBelowRow ==
    TypeOK /\ BoundaryBelowRow /\ [Next]_vars =>
        \A i \in rows \ rows' : \E j \in rows' : j > i
<1> SUFFICES ASSUME TypeOK, BoundaryBelowRow, [Next]_vars, NEW i \in rows \ rows'
             PROVE  \E j \in rows' : j > i
  OBVIOUS
<1>1. PICK c \in Cleaners : DeleteChunk(c)
  BY DEF Next, CleanTable, Insert, CountRows, FindBoundary, NoBoundary, Finished, Abort, vars
<1>2. PICK top \in rows : top >= boundary[c]
  BY <1>1 DEF DeleteChunk, BoundaryBelowRow
<1>3. top \in rows'
  BY <1>1, <1>2, ChunkIsOld DEF TypeOK
<1>4. i < boundary[c]
  BY <1>1, ChunkIsOld
<1>5. QED
  BY <1>2, <1>3, <1>4, CleanupAssumption DEF TypeOK

\* The newest row survives cleaners that trim on each other's stale counts and
\* boundaries, and chunks that fail half-way (cleanTable on several hosts).
THEOREM NewestRowKept == Spec => NewestRowStays
<1>1. Init => BoundaryBelowRow
  BY DEF Init, BoundaryBelowRow
<1>2. TypeOK /\ BoundaryBelowRow /\ [Next]_vars =>
        [\A i \in rows \ rows' : \E j \in rows' : j > i]_vars
  BY DeletedBelowRow
<1>3. QED
  BY <1>1, <1>2, CleanupTypeCorrect, NextBoundaryBelowRow, PTL DEF Spec, NewestRowStays

-----------------------------------------------------------------------------
(* A single cleaner keeps TargetRows rows.                                 *)

From(R, id) == {j \in R : j >= id}

\* What a lone cleaner remembers still holds: rows are only added behind its
\* back, so the count is not too great and the boundary has enough rows above.
CountHolds ==
    \A c \in Cleaners :
        /\ pc[c] = "boundary" => count[c] <= Cardinality(rows)
        /\ pc[c] = "delete" => Cardinality(From(rows, boundary[c])) >= TargetRows

\* 90 percent of a positive limit is a natural number.
LEMMA TargetIsNat == TargetRows \in Nat
BY CleanupAssumption, Z3 DEF TargetRows

\* The rows below a boundary and those from it on make up the table.
LEMMA RowsSplit ==
    ASSUME NEW R \in SUBSET (1..MaxId), NEW id \in Int
    PROVE  Cardinality(R) = Cardinality({i \in R : i < id}) + Cardinality(From(R, id))
<1> DEFINE Below == {i \in R : i < id}
<1>1. Below \in SUBSET (1..MaxId) /\ From(R, id) \in SUBSET (1..MaxId)
  BY DEF From
<1>2. /\ IsFiniteSet(Below) /\ IsFiniteSet(From(R, id))
      /\ Cardinality(Below) \in Nat /\ Cardinality(From(R, id)) \in Nat
  BY <1>1, IdsFinite, CleanupAssumption
<1>3. \A i \in R : i < id \/ i >= id
  BY CleanupAssumption
<1>4. R = Below \cup From(R, id)
  BY <1>3 DEF From
<1>5. Below \cap From(R, id) = {}
  BY <1>1, CleanupAssumption DEF From
<1>6. Cardinality(Below \cup From(R, id)) =
        Cardinality(Below) + Cardinality(From(R, id)) - Cardinality(Below \cap From(R, id))
  BY <1>2, FS_Union
<1>7. Cardinality(Below \cap From(R, id)) = 0
  BY <1>5, FS_EmptySet
<1>8. Cardinality(R) = Cardinality(Below \cup From(R, id))
  BY <1>4, Zenon
<1>9. QED
  BY <1>2, <1>6, <1>7, <1>8

\* A greater set of rows has the greater cardinality.
LEMMA RowsGrow ==
    ASSUME NEW R \in SUBSET (1..MaxId), NEW T \in SUBSET R
    PROVE  Cardinality(T) <= Cardinality(R)
BY IdsFinite, FS_Subset

\* With one cleaner, no statement invalidates what it remembers.
LEMMA NextCountHolds ==
    ASSUME \A c, d \in Cleaners : c = d,
           TypeOK, TypeOK', CountHolds, [Next]_vars
    PROVE  CountHolds'
<1>1. CASE Insert
  <2>1. rows \subseteq rows' /\ UNCHANGED <<pc, count, boundary>>
    BY <1>1 DEF Insert
  <2>2. Cardinality(rows) <= Cardinality(rows')
    BY <2>1, RowsGrow DEF TypeOK
  <2>3. ASSUME NEW c \in Cleaners
        PROVE  Cardinality(From(rows, boundary[c])) <= Cardinality(From(rows', boundary[c]))
    <3>1. From(rows', boundary[c]) \in SUBSET (1..MaxId)
      BY DEF From, TypeOK
    <3>2. From(rows, boundary[c]) \in SUBSET From(rows', boundary[c])
      BY <2>1 DEF From
    <3>3. QED
      BY <3>1, <3>2, RowsGrow
  <2>4. \A c \in Cleaners :
          /\ Cardinality(From(rows, boundary[c])) \in Nat
          /\ Cardinality(From(rows', boundary[c])) \in Nat
    BY IdsFinite, CleanupAssumption DEF TypeOK, From
  <2>5. Cardinality(rows) \in Nat /\ Cardinality(rows') \in Nat
    BY IdsFinite, CleanupAssumption DEF TypeOK
  <2>6. QED
    BY <2>1, <2>2, <2>3, <2>4, <2>5, TargetIsNat, CleanupAssumption DEF CountHolds, TypeOK
<1>2. ASSUME NEW c \in Cleaners, CountRows(c) PROVE CountHolds'
  <2>1. Cardinality(rows) \in Nat
    BY IdsFinite, CleanupAssumption DEF TypeOK
  <2>2. QED
    BY <1>2, <2>1 DEF CountRows, CountHolds, TypeOK
<1>3. ASSUME NEW c \in Cleaners, FindBoundary(c) PROVE CountHolds'
  <2>1. PICK id \in rows :
          /\ Cardinality({i \in rows : i < id}) = count[c] - TargetRows
          /\ boundary' = [boundary EXCEPT ![c] = id]
    BY <1>3 DEF FindBoundary, AtOffset, Offset
  <2>2. Cardinality(rows) = Cardinality({i \in rows : i < id}) + Cardinality(From(rows, id))
    BY RowsSplit, CleanupAssumption DEF TypeOK
  <2>3. count[c] <= Cardinality(rows)
    BY <1>3 DEF FindBoundary, CountHolds
  <2>4. Cardinality(From(rows, id)) \in Nat /\ Cardinality(rows) \in Nat /\ count[c] \in Nat
    BY IdsFinite, CleanupAssumption DEF TypeOK, From
  <2>5. Cardinality(From(rows, id)) >= TargetRows
    BY <2>1, <2>2, <2>3, <2>4, TargetIsNat
  <2>6. QED
    BY <1>3, <2>1, <2>5 DEF FindBoundary, CountHolds, TypeOK
<1>4. ASSUME NEW c \in Cleaners, NoBoundary(c) PROVE CountHolds'
  BY <1>4 DEF NoBoundary, Return, CountHolds, TypeOK
<1>5. ASSUME NEW c \in Cleaners, DeleteChunk(c) PROVE CountHolds'
  <2>1. From(rows', boundary[c]) = From(rows, boundary[c])
    <3>1. \A i \in rows : i >= boundary[c] => i \in rows'
      BY <1>5, ChunkIsOld, CleanupAssumption DEF TypeOK
    <3>2. QED
      BY <1>5, <3>1, ChunkIsOld DEF From
  <2>2. \A d \in Cleaners : d = c
    OBVIOUS
  <2>3. QED
    BY <1>5, <2>1, <2>2 DEF DeleteChunk, CountHolds
<1>6. ASSUME NEW c \in Cleaners, Finished(c) PROVE CountHolds'
  BY <1>6 DEF Finished, Return, CountHolds, TypeOK
<1>7. ASSUME NEW c \in Cleaners, Abort(c) PROVE CountHolds'
  BY <1>7 DEF Abort, Return, CountHolds, TypeOK
<1>8. CASE UNCHANGED vars
  BY <1>8 DEF vars, CountHolds
<1>9. QED
  BY <1>1, <1>2, <1>3, <1>4, <1>5, <1>6, <1>7, <1>8 DEF Next, CleanTable

\* A lone cleaner deletes a row only while TargetRows newer ones stay.
LEMMA DeletedBelowTarget ==
    ASSUME TypeOK, TypeOK', CountHolds, [Next]_vars, NEW i \in rows \ rows'
    PROVE  Cardinality({j \in rows' : j > i}) >= TargetRows
<1>1. PICK c \in Cleaners : DeleteChunk(c)
  BY DEF Next, CleanTable, Insert, CountRows, FindBoundary, NoBoundary, Finished, Abort, vars
<1>2. \A j \in rows : j >= boundary[c] => j \in rows' /\ j > i
  BY <1>1, ChunkIsOld, CleanupAssumption DEF TypeOK
<1>3. From(rows, boundary[c]) \in SUBSET {j \in rows' : j > i}
  BY <1>2 DEF From
<1>4. {j \in rows' : j > i} \in SUBSET (1..MaxId)
  BY DEF TypeOK
<1>5. Cardinality(From(rows, boundary[c])) <= Cardinality({j \in rows' : j > i})
  BY <1>3, <1>4, RowsGrow
<1>6. /\ Cardinality(From(rows, boundary[c])) \in Nat
      /\ Cardinality({j \in rows' : j > i}) \in Nat
  BY <1>3, <1>4, IdsFinite, CleanupAssumption
<1>7. Cardinality(From(rows, boundary[c])) >= TargetRows
  BY <1>1 DEF DeleteChunk, CountHolds
<1>8. QED
  BY <1>5, <1>6, <1>7, TargetIsNat

\* One host that cleans a table keeps 90 percent of the limit, however inserts,
\* chunks, failures and restarts interleave.  With two hosts this is false.
THEOREM TargetKept ==
    ASSUME \A c, d \in Cleaners : c = d
    PROVE  Spec => NewestSurvive
<1>1. Init => CountHolds
  BY DEF Init, CountHolds
<1>2. TypeOK /\ TypeOK' /\ CountHolds /\ [Next]_vars => CountHolds'
  BY NextCountHolds
<1>3. TypeOK /\ TypeOK' /\ CountHolds /\ [Next]_vars =>
        [\A i \in rows \ rows' : Cardinality({j \in rows' : j > i}) >= TargetRows]_vars
  BY DeletedBelowTarget
<1>4. QED
  BY <1>1, <1>2, <1>3, CleanupTypeCorrect, PTL DEF Spec, NewestSurvive
-----------------------------------------------------------------------------
(* The pipeline: the table while its rows are forwarded.                   *)

\* To the table, a step of the pipeline is one of Cleanup, or only a fault.
LEMMA PipelineStep ==
    ASSUME TypeOK, [PipelineNext]_pipeline
    PROVE  [Next]_vars \/ (UNCHANGED <<rows, nextId, trimming>> /\ faults' \in 0..MaxFaults)
<1> USE CleanupAssumption
<1>1. CASE UNCHANGED pipeline
  BY <1>1 DEF pipeline
<1>2. CASE Insert /\ UNCHANGED forwarding
  BY <1>2 DEF Next
<1>3. ASSUME NEW c \in Cleaners, Trim(c) PROVE [Next]_vars
  BY <1>3 DEF Trim, Next
<1>4. ASSUME NEW s \in Senders, Send(s), UNCHANGED <<nextId, trimming>>
      PROVE  UNCHANGED <<rows, nextId, trimming>> /\ faults' \in 0..MaxFaults
  <2>1. rows' = rows /\ (faults' = faults \/ Forward!Fault)
    BY <1>4 DEF Send, Forward!Send, Forward!SendStarts, Forward!ReadTime, Forward!ReadId,
       Forward!QueryBatch, Forward!SendRow, Forward!UpdateCursor, Forward!BatchCutShort,
       Forward!SendFails, Forward!tables
  <2>2. faults' \in 0..MaxFaults
    BY <2>1 DEF Forward!Fault, TypeOK
  <2>3. QED
    BY <1>4, <2>1, <2>2
<1>5. QED
  BY <1>1, <1>2, <1>3, <1>4 DEF PipelineNext

\* So the pipeline keeps what Cleanup keeps.
LEMMA PipelineKeepsTable ==
    ASSUME TypeOK, [PipelineNext]_pipeline
    PROVE  /\ TypeOK'
           /\ BoundaryBelowRow => BoundaryBelowRow'
           /\ (\A c, d \in Cleaners : c = d) /\ CountHolds => CountHolds'
<1>1. CASE [Next]_vars
  BY <1>1, NextTypeOK, NextBoundaryBelowRow, NextCountHolds
<1>2. CASE UNCHANGED <<rows, nextId, trimming>> /\ faults' \in 0..MaxFaults
  BY <1>2 DEF trimming, TypeOK, BoundaryBelowRow, CountHolds, From
<1>3. QED
  BY <1>1, <1>2, PipelineStep

\* Forwarding does not disturb the types of the table and its cleaners.
THEOREM PipelineTypeCorrect == PipelineSpec => []TypeOK
<1>1. PipelineInit => TypeOK
  BY InitTypeOK DEF PipelineInit
<1>2. TypeOK /\ [PipelineNext]_pipeline => TypeOK'
  BY PipelineKeepsTable
<1>3. QED
  BY <1>1, <1>2, PTL DEF PipelineSpec

\* The newest row survives stale counts and boundaries while senders forward.
THEOREM PipelineNewestRowKept == PipelineSpec => NewestRowStays
<1>1. PipelineInit => BoundaryBelowRow
  BY DEF PipelineInit, Init, BoundaryBelowRow
<1>2. TypeOK /\ BoundaryBelowRow /\ [PipelineNext]_pipeline => BoundaryBelowRow'
  BY PipelineKeepsTable
<1>3. TypeOK /\ BoundaryBelowRow /\ [PipelineNext]_pipeline =>
        [\A i \in rows \ rows' : \E j \in rows' : j > i]_vars
  <2>1. SUFFICES ASSUME TypeOK, BoundaryBelowRow, [PipelineNext]_pipeline, NEW i \in rows \ rows'
                 PROVE  \E j \in rows' : j > i
    OBVIOUS
  <2>2. [Next]_vars
    BY <2>1, PipelineStep
  <2>3. QED
    BY <2>1, <2>2, DeletedBelowRow
<1>4. QED
  BY <1>1, <1>2, <1>3, PipelineTypeCorrect, PTL DEF PipelineSpec, NewestRowStays

-----------------------------------------------------------------------------
(* What is trimmed before it was forwarded.                                *)

\* The positions of logins inserted so far.
Positions == {0} \X (0..nextId - 1)

SenderStates ==
    [at : {"idle", "readTime", "readId", "query", "send"}, stream : {"login", "logoff", "ddl"},
     last : Positions, left : SUBSET (1..nextId - 1), got : Nat]

\* Only logins are sent: no session is closed and no statement logged here.
OnlyLogins ==
    /\ logoffTime = [i \in Forward!Ids |-> Forward!Open] /\ ddlLog = {}
    /\ cursor \in [{"login", "logoff", "ddl"} -> Positions]
    /\ sender \in [Senders -> SenderStates]
    /\ sent \subseteq {"login"} \X (1..nextId - 1)
    /\ rows \subseteq 1..nextId - 1
    /\ \A s \in Senders : sender[s].at = "send" => sender[s].stream = "login"

\* The rows up to a position were sent, as far as they are still there.
UpTo(p) == \A i \in rows : i <= p[2] => <<"login", i>> \in sent

\* The rows are sent in the order of their ids: the cursor, and whatever senders
\* have read of it or reached beyond it, have passed no row that was not sent; a
\* batch takes a row only with all before it; and an unsent row has only unsent
\* ones after it.
SentInOrder ==
    /\ UpTo(cursor["login"])
    /\ \A s \in Senders : sender[s].stream = "login" =>
        /\ sender[s].at \in {"query", "send"} => UpTo(sender[s].last)
        /\ sender[s].at = "send" =>
            \A j \in sender[s].left :
                /\ sender[s].last[2] < j
                /\ \A i \in rows : sender[s].last[2] < i /\ i < j => i \in sender[s].left
    /\ \A i \in rows, j \in 1..nextId - 1 :
        <<"login", j>> \in sent /\ i < j => <<"login", i>> \in sent

\* A sender moves to state d and the cursor to c: what has to be shown then.
LEMMA SenderMoves ==
    ASSUME TypeOK, OnlyLogins, SentInOrder, NEW s \in Senders, NEW d \in SenderStates,
           sender' = [sender EXCEPT ![s] = d], UNCHANGED <<rows, nextId, logoffTime, ddlLog>>,
           d.at = "send" => d.stream = "login",
           cursor' \in [{"login", "logoff", "ddl"} -> Positions],
           sent \subseteq sent', sent' \subseteq {"login"} \X (1..nextId - 1),
           \A i \in rows : i <= cursor'["login"][2] => <<"login", i>> \in sent',
           d.stream = "login" /\ d.at \in {"query", "send"} =>
                \A i \in rows : i <= d.last[2] => <<"login", i>> \in sent',
           d.at = "send" => \A j \in d.left :
                d.last[2] < j /\ \A i \in rows : d.last[2] < i /\ i < j => i \in d.left,
           \A i \in rows, j \in 1..nextId - 1 :
                <<"login", j>> \in sent' /\ i < j => <<"login", i>> \in sent'
    PROVE  OnlyLogins' /\ SentInOrder'
<1>1. \A t \in Senders : sender'[t] = IF t = s THEN d ELSE sender[t]
  BY DEF OnlyLogins
<1>2. Positions' = Positions /\ SenderStates' = SenderStates
  BY DEF Positions, SenderStates
<1>3. sender' \in [Senders -> SenderStates]
  BY DEF OnlyLogins
<1>4. OnlyLogins'
  BY <1>1, <1>2, <1>3 DEF OnlyLogins
<1>5. SentInOrder'
  BY <1>1 DEF SentInOrder, UpTo
<1>6. QED
  BY <1>4, <1>5

\* A sender that leaves a stream, or Send.
LEMMA SenderLeaves ==
    ASSUME TypeOK, OnlyLogins, SentInOrder, NEW s \in Senders,
           Forward!Leave(s) \/ Forward!NextStream(s),
           UNCHANGED <<rows, nextId, logoffTime, ddlLog, sent>>,
           cursor' \in [{"login", "logoff", "ddl"} -> Positions],
           \A i \in rows : i <= cursor'["login"][2] => <<"login", i>> \in sent
    PROVE  OnlyLogins' /\ SentInOrder'
<1>1. PICK at \in {"idle", "readTime", "readId"}, stream \in {"login", "logoff", "ddl"} :
        sender' = [sender EXCEPT ![s] =
            [at |-> at, stream |-> stream, last |-> <<0, 0>>, left |-> {}, got |-> 0]]
  <2>1. sender[s].stream \in {"login", "logoff", "ddl"}
    BY DEF OnlyLogins, SenderStates
  <2>2. QED
    BY <2>1 DEF Forward!Leave, Forward!NextStream, Forward!Idle, Forward!Origin
<1> DEFINE d == [at |-> at, stream |-> stream, last |-> <<0, 0>>, left |-> {}, got |-> 0]
<1>2. d \in SenderStates
  BY CleanupAssumption DEF SenderStates, Positions, TypeOK
<1>3. d.at = at /\ d.at # "send" /\ d.at # "query"
  BY <1>1
<1>4. sender' = [sender EXCEPT ![s] = d]
  BY <1>1
<1>5. /\ sent' = sent /\ sent \subseteq {"login"} \X (1..nextId - 1)
      /\ \A i \in rows, j \in 1..nextId - 1 :
            <<"login", j>> \in sent /\ i < j => <<"login", i>> \in sent
  BY DEF OnlyLogins, SentInOrder
<1> HIDE DEF d
<1>6. QED
  BY <1>2, <1>3, <1>4, <1>5, SenderMoves

\* A sender that reads its place, or a batch, or the end of one.
LEMMA SenderReads ==
    ASSUME TypeOK, OnlyLogins, SentInOrder, NEW s \in Senders,
           Forward!SendStarts(s) \/ Forward!ReadTime(s) \/ Forward!ReadId(s),
           UNCHANGED nextId
    PROVE  OnlyLogins' /\ SentInOrder'
<1> DEFINE old == sender[s]
<1>1. /\ old \in SenderStates /\ sender \in [Senders -> SenderStates]
      /\ cursor["login"] \in Positions /\ cursor["logoff"] \in Positions /\ cursor["ddl"] \in Positions
  BY DEF OnlyLogins
<1>2. UNCHANGED <<rows, nextId, logoffTime, ddlLog, cursor, sent>>
  BY DEF Forward!SendStarts, Forward!ReadTime, Forward!ReadId, Forward!tables
<1>3. PICK at \in {"readId", "query"}, last \in Positions :
        /\ sender' = [sender EXCEPT ![s] = [old EXCEPT !.at = at, !.last = last]]
        /\ at = "query" => last[2] = cursor[old.stream][2]
  <2>1. CASE Forward!SendStarts(s)
    <3>1. sender' = [sender EXCEPT ![s] = [old EXCEPT !.at = "readId", !.last = old.last]]
      BY <1>1, <2>1 DEF Forward!SendStarts, Forward!Goto, SenderStates
    <3>2. old.last \in Positions
      BY <1>1 DEF SenderStates
    <3>3. QED
      BY <3>1, <3>2
  <2>2. CASE Forward!ReadTime(s)
    <3> DEFINE last == <<cursor["logoff"][1], old.last[2]>>
    <3>1. sender' = [sender EXCEPT ![s] = [old EXCEPT !.at = "readId", !.last = last]]
      BY <1>1, <2>2 DEF Forward!ReadTime, SenderStates
    <3>2. last \in Positions
      BY <1>1 DEF SenderStates, Positions
    <3>3. QED
      BY <3>1, <3>2
  <2>3. CASE Forward!ReadId(s)
    <3> DEFINE last == <<old.last[1], cursor[old.stream][2]>>
    <3>1. sender' = [sender EXCEPT ![s] = [old EXCEPT !.at = "query", !.last = last]]
      BY <1>1, <2>3 DEF Forward!ReadId, SenderStates
    <3>2. last \in Positions
      BY <1>1 DEF SenderStates, Positions
    <3>3. QED
      BY <3>1, <3>2
  <2>4. QED
    BY <2>1, <2>2, <2>3
<1> DEFINE d == [old EXCEPT !.at = at, !.last = last]
<1>4. d \in SenderStates /\ d.at = at /\ d.last = last /\ d.stream = old.stream
  BY <1>1 DEF SenderStates
<1>5. d.at # "send"
  BY <1>4
<1>6. d.stream = "login" /\ d.at \in {"query", "send"} =>
        \A i \in rows : i <= d.last[2] => <<"login", i>> \in sent
  BY <1>3, <1>4 DEF SentInOrder, UpTo
<1>7. sender' = [sender EXCEPT ![s] = d]
  BY <1>3
<1> HIDE DEF d, old
<1>8. /\ \A i \in rows : i <= cursor["login"][2] => <<"login", i>> \in sent
      /\ cursor \in [{"login", "logoff", "ddl"} -> Positions]
      /\ sent \subseteq {"login"} \X (1..nextId - 1)
      /\ \A i \in rows, j \in 1..nextId - 1 :
            <<"login", j>> \in sent /\ i < j => <<"login", i>> \in sent
  BY DEF OnlyLogins, SentInOrder, UpTo
<1>9. QED
  BY <1>2, <1>4, <1>5, <1>6, <1>7, <1>8, SenderMoves

\* Rsyslog counts as Cleanup does.
LEMMA SameCardinality == \A S : Forward!Cardinality(S) = Cardinality(S)
BY DEF Forward!Cardinality, Cardinality

\* A batch of logins takes the rows after a position from the first one on.
LEMMA BatchFromFirst ==
    ASSUME TypeOK, NEW p \in Positions
    PROVE  /\ Forward!Batch("login", p) \subseteq rows
           /\ \A j \in Forward!Batch("login", p) :
                /\ p[2] < j
                /\ \A i \in rows : p[2] < i /\ i < j => i \in Forward!Batch("login", p)
<1> DEFINE earlier(id) == Forward!Earlier("login", p, id)
<1>1. /\ Forward!After("login", p) = {i \in rows : p[2] < i}
      /\ \A id : earlier(id) = {i \in rows : p[2] < i /\ i < id}
  BY DEF Forward!After, Forward!Earlier, Forward!Visible, Forward!Before, Forward!Pos, Positions
<1>2. ASSUME NEW i \in rows, NEW j \in Forward!Batch("login", p), p[2] < i, i < j
      PROVE  i \in Forward!Batch("login", p)
  <2>1. j \in rows /\ Cardinality(earlier(j)) < BatchSize
    BY <1>1, SameCardinality DEF Forward!Batch
  <2>2. p[2] \in Int /\ i \in Int /\ j \in Int /\ rows \subseteq 1..MaxId
    BY <2>1, CleanupAssumption DEF TypeOK, Positions
  <2>3. earlier(i) \in SUBSET earlier(j) /\ earlier(j) \in SUBSET (1..MaxId)
    <3>0. /\ earlier(i) = {k \in rows : p[2] < k /\ k < i}
          /\ earlier(j) = {k \in rows : p[2] < k /\ k < j}
      BY <1>1
    <3>1. \A e \in rows : e < i => e < j
      BY <1>2, <2>2, CleanupAssumption
    <3>2. \A e \in earlier(i) : e \in earlier(j)
      BY <3>0, <3>1
    <3>3. earlier(j) \subseteq rows
      BY <3>0
    <3>4. QED
      BY <2>2, <3>2, <3>3
  <2>4. /\ Cardinality(earlier(i)) <= Cardinality(earlier(j))
        /\ Cardinality(earlier(i)) \in Nat /\ Cardinality(earlier(j)) \in Nat
    BY <2>3, RowsGrow, IdsFinite, CleanupAssumption
  <2>5. BatchSize \in Nat
    BY PipelineAssumption
  <2>6. Cardinality(earlier(i)) < BatchSize
    BY <2>1, <2>4, <2>5
  <2>7. QED
    BY <1>1, <1>2, <2>6, SameCardinality DEF Forward!Batch
<1>3. QED
  BY <1>1, <1>2 DEF Forward!Batch

\* A batch is read.
LEMMA SenderQueries ==
    ASSUME TypeOK, OnlyLogins, SentInOrder, NEW s \in Senders, Forward!QueryBatch(s),
           UNCHANGED nextId
    PROVE  OnlyLogins' /\ SentInOrder'
<1> DEFINE old == sender[s]
           batch == Forward!Batch(old.stream, old.last)
<1>1. /\ old \in SenderStates /\ sender \in [Senders -> SenderStates] /\ old.at = "query"
      /\ old.stream \in {"login", "logoff", "ddl"} /\ old.last \in Positions
  BY DEF OnlyLogins, SenderStates, Forward!QueryBatch
<1>2. UNCHANGED <<rows, nextId, logoffTime, ddlLog, cursor, sent>>
  BY DEF Forward!QueryBatch, Forward!tables
<1>3. /\ \A i \in rows : i <= cursor["login"][2] => <<"login", i>> \in sent
      /\ cursor \in [{"login", "logoff", "ddl"} -> Positions]
      /\ sent \subseteq {"login"} \X (1..nextId - 1) /\ rows \subseteq 1..nextId - 1
      /\ \A i \in rows, j \in 1..nextId - 1 :
            <<"login", j>> \in sent /\ i < j => <<"login", i>> \in sent
  BY DEF OnlyLogins, SentInOrder, UpTo
<1>4. CASE batch = {}
  <2>1. Forward!NextStream(s)
    BY <1>4 DEF Forward!QueryBatch
  <2>2. QED
    BY <1>2, <1>3, <2>1, SenderLeaves
<1>5. CASE batch # {}
  <2>1. old.stream = "login"
    <3>1. Forward!Visible("ddl") = {}
      BY DEF Forward!Visible, OnlyLogins
    <3>2. Forward!Visible("logoff") = {}
      BY DEF Forward!Visible, OnlyLogins, Forward!Ids, TypeOK
    <3>3. batch \subseteq Forward!Visible(old.stream)
      BY DEF Forward!Batch, Forward!After
    <3>4. QED
      BY <1>1, <1>5, <3>1, <3>2, <3>3
  <2>2. /\ batch \subseteq rows
        /\ \A j \in batch :
            old.last[2] < j /\ \A i \in rows : old.last[2] < i /\ i < j => i \in batch
    BY <1>1, <2>1, BatchFromFirst
  <2> DEFINE d == [old EXCEPT !.at = "send", !.left = batch, !.got = 0]
  <2>3. sender' = [sender EXCEPT ![s] = d]
    BY <1>1, <1>5 DEF Forward!QueryBatch, SenderStates
  <2> HIDE DEF batch
  <2>4. /\ d \in SenderStates /\ d.at = "send" /\ d.stream = "login" /\ d.last = old.last
        /\ d.left = batch
    BY <1>1, <1>3, <2>1, <2>2 DEF SenderStates
  <2>5. \A i \in rows : i <= d.last[2] => <<"login", i>> \in sent
    BY <1>1, <2>1, <2>4 DEF SentInOrder, UpTo
  <2> HIDE DEF d, old
  <2>6. QED
    BY <1>2, <1>3, <2>2, <2>3, <2>4, <2>5, SenderMoves
<1>6. QED
  BY <1>4, <1>5

\* The next row of a batch is sent.
LEMMA SenderSends ==
    ASSUME TypeOK, OnlyLogins, SentInOrder, NEW s \in Senders, Forward!SendRow(s),
           UNCHANGED nextId
    PROVE  OnlyLogins' /\ SentInOrder'
<1> DEFINE old == sender[s]
<1>1. /\ old \in SenderStates /\ sender \in [Senders -> SenderStates] /\ old.at = "send"
      /\ old.stream = "login" /\ old.last \in Positions /\ old.left \subseteq 1..nextId - 1
      /\ old.got \in Nat
  BY DEF OnlyLogins, SenderStates, Forward!SendRow
<1>2. UNCHANGED <<rows, nextId, logoffTime, ddlLog, cursor>>
  BY DEF Forward!SendRow, Forward!tables
<1>3. PICK id \in old.left :
        /\ \A other \in old.left \ {id} : id < other
        /\ sent' = sent \cup {<<"login", id>>}
        /\ sender' = [sender EXCEPT ![s] =
             [old EXCEPT !.left = old.left \ {id}, !.got = old.got + 1, !.last = <<0, id>>]]
  <2>1. PICK id \in old.left :
          /\ \A other \in old.left \ {id} :
                Forward!Before(Forward!Pos("login", id), Forward!Pos("login", other))
          /\ sent' = sent \cup {<<"login", id>>}
          /\ sender' = [sender EXCEPT ![s].left = @ \ {id}, ![s].got = @ + 1,
                                      ![s].last = Forward!Pos("login", id)]
    BY <1>1 DEF Forward!SendRow
  <2>2. \A i : Forward!Pos("login", i) = <<0, i>>
    BY DEF Forward!Pos
  <2>3. \A other \in old.left \ {id} : id < other
    BY <2>1, <2>2 DEF Forward!Before
  <2>4. sender' = [sender EXCEPT ![s] =
             [old EXCEPT !.left = old.left \ {id}, !.got = old.got + 1, !.last = <<0, id>>]]
    BY <1>1, <2>1, <2>2 DEF SenderStates
  <2>5. QED
    BY <2>1, <2>3, <2>4
<1>4. /\ \A i \in rows : i <= cursor["login"][2] => <<"login", i>> \in sent
      /\ cursor \in [{"login", "logoff", "ddl"} -> Positions]
      /\ sent \subseteq {"login"} \X (1..nextId - 1) /\ rows \subseteq 1..nextId - 1
      /\ \A i \in rows, j \in 1..nextId - 1 :
            <<"login", j>> \in sent /\ i < j => <<"login", i>> \in sent
      /\ \A i \in rows : i <= old.last[2] => <<"login", i>> \in sent
      /\ \A j \in old.left : old.last[2] < j
      /\ \A i \in rows, j \in old.left : old.last[2] < i /\ i < j => i \in old.left
      /\ nextId \in Int /\ old.last[2] \in Int
  BY <1>1, CleanupAssumption DEF OnlyLogins, SentInOrder, UpTo, Positions, TypeOK
<1> DEFINE d == [old EXCEPT !.left = old.left \ {id}, !.got = old.got + 1, !.last = <<0, id>>]
<1>5. id \in 1..nextId - 1 /\ <<0, id>> \in Positions
  BY <1>1, <1>3, <1>4 DEF Positions
<1>6. /\ d \in SenderStates /\ d.at = "send" /\ d.stream = "login" /\ d.last[2] = id
      /\ d.left = old.left \ {id}
  <2>1. old.left \ {id} \in SUBSET (1..nextId - 1) /\ old.got + 1 \in Nat
    BY <1>1
  <2>2. d \in SenderStates /\ d.last = <<0, id>>
    BY <1>1, <1>5, <2>1 DEF SenderStates
  <2>3. QED
    BY <1>1, <2>2 DEF SenderStates
<1>7. \A i \in rows : i <= id => <<"login", i>> \in sent'
  <2>1. SUFFICES ASSUME NEW i \in rows, i <= id, i # id PROVE <<"login", i>> \in sent
    BY <1>3
  <2>2. i < id /\ i \in Int
    BY <1>4, <1>5, <2>1
  <2>3. i \notin old.left
    BY <1>3, <1>5, <2>2
  <2>4. i <= old.last[2]
    BY <1>4, <2>2, <2>3
  <2>5. QED
    BY <1>4, <2>4
<1>8. \A i \in rows, j \in 1..nextId - 1 :
        <<"login", j>> \in sent' /\ i < j => <<"login", i>> \in sent'
  BY <1>3, <1>4, <1>5, <1>7
<1>9. \A j \in d.left :
        d.last[2] < j /\ \A i \in rows : d.last[2] < i /\ i < j => i \in d.left
  <2>0. \A j \in d.left : d.last[2] < j
    BY <1>3, <1>6
  <2>1. SUFFICES ASSUME NEW i \in rows, NEW j \in old.left, id < i, i < j
                 PROVE  i \in old.left /\ i # id
    BY <1>6, <2>0
  <2>2. i \in Int
    BY <1>4
  <2>3. old.last[2] < i
    <3>1. old.last[2] < id
      BY <1>4
    <3>2. QED
      BY <1>4, <1>5, <2>1, <2>2, <3>1
  <2>4. QED
    BY <1>4, <1>5, <2>1, <2>2, <2>3
<1>10. sent' \subseteq {"login"} \X (1..nextId - 1) /\ sent \subseteq sent'
  BY <1>3, <1>4, <1>5
<1>11. sender' = [sender EXCEPT ![s] = d]
  BY <1>3
<1>12. \A i \in rows : i <= cursor'["login"][2] => <<"login", i>> \in sent'
  BY <1>2, <1>4, <1>10
<1> HIDE DEF d, old
<1>13. cursor' \in [{"login", "logoff", "ddl"} -> Positions]
  BY <1>2, <1>4
<1>14. QED
  BY <1>2, <1>6, <1>7, <1>8, <1>9, <1>10, <1>11, <1>12, <1>13, SenderMoves

\* The cursor moves to the last row of the batch.
LEMMA SenderUpdates ==
    ASSUME TypeOK, OnlyLogins, SentInOrder, NEW s \in Senders, Forward!UpdateCursor(s),
           UNCHANGED nextId
    PROVE  OnlyLogins' /\ SentInOrder'
<1> DEFINE old == sender[s]
<1>1. /\ old \in SenderStates /\ sender \in [Senders -> SenderStates] /\ old.at = "send"
      /\ old.stream = "login" /\ old.last \in Positions
  BY DEF OnlyLogins, SenderStates, Forward!UpdateCursor
<1>2. UNCHANGED <<rows, nextId, logoffTime, ddlLog, sent>>
  BY DEF Forward!UpdateCursor, Forward!tables
<1>3. cursor \in [{"login", "logoff", "ddl"} -> Positions]
  BY DEF OnlyLogins
<1>4. /\ cursor' \in [{"login", "logoff", "ddl"} -> Positions]
      /\ cursor'["login"] = old.last
  BY <1>1, <1>3 DEF Forward!UpdateCursor
<1>5. /\ \A i \in rows : i <= old.last[2] => <<"login", i>> \in sent
      /\ sent \subseteq {"login"} \X (1..nextId - 1)
      /\ \A i \in rows, j \in 1..nextId - 1 :
            <<"login", j>> \in sent /\ i < j => <<"login", i>> \in sent
  BY <1>1 DEF OnlyLogins, SentInOrder, UpTo
<1>6. CASE Forward!NextStream(s)
  <2> HIDE DEF old
  <2>1. QED
    BY <1>2, <1>4, <1>5, <1>6, SenderLeaves
<1>7. CASE Forward!Goto(s, "query")
  <2> DEFINE d == [old EXCEPT !.at = "query"]
  <2>1. sender' = [sender EXCEPT ![s] = d]
    BY <1>1, <1>7 DEF Forward!Goto, SenderStates
  <2>2. d \in SenderStates /\ d.at = "query" /\ d.last = old.last
    BY <1>1 DEF SenderStates
  <2> HIDE DEF d, old
  <2>3. QED
    BY <1>2, <1>4, <1>5, <2>1, <2>2, SenderMoves
<1>8. QED
  BY <1>6, <1>7 DEF Forward!UpdateCursor

\* A batch that ends early, and a Send that is left.
LEMMA SenderStops ==
    ASSUME TypeOK, OnlyLogins, SentInOrder, NEW s \in Senders,
           Forward!BatchCutShort(s) \/ Forward!SendFails(s),
           UNCHANGED nextId
    PROVE  OnlyLogins' /\ SentInOrder'
<1> DEFINE old == sender[s]
<1>1. /\ old \in SenderStates /\ sender \in [Senders -> SenderStates]
  BY DEF OnlyLogins
<1>2. UNCHANGED <<rows, nextId, logoffTime, ddlLog, cursor, sent>>
  BY DEF Forward!BatchCutShort, Forward!SendFails, Forward!tables
<1>3. /\ \A i \in rows : i <= cursor["login"][2] => <<"login", i>> \in sent
      /\ cursor \in [{"login", "logoff", "ddl"} -> Positions]
      /\ sent \subseteq {"login"} \X (1..nextId - 1)
      /\ \A i \in rows, j \in 1..nextId - 1 :
            <<"login", j>> \in sent /\ i < j => <<"login", i>> \in sent
  BY DEF OnlyLogins, SentInOrder, UpTo
<1>4. CASE Forward!Leave(s) \/ Forward!NextStream(s)
  BY <1>2, <1>3, <1>4, SenderLeaves
<1>5. CASE Forward!BatchCutShort(s) /\ sender' = [sender EXCEPT ![s].left = {}]
  <2> DEFINE d == [old EXCEPT !.left = {}]
  <2>1. old.at = "send" /\ old.stream = "login"
    BY <1>5 DEF Forward!BatchCutShort, OnlyLogins
  <2>2. sender' = [sender EXCEPT ![s] = d]
    BY <1>1, <1>5 DEF SenderStates
  <2>3. /\ d \in SenderStates /\ d.at = "send" /\ d.stream = "login" /\ d.last = old.last
        /\ d.left = {}
    BY <1>1, <2>1 DEF SenderStates
  <2>4. \A i \in rows : i <= d.last[2] => <<"login", i>> \in sent
    BY <2>1, <2>3 DEF SentInOrder, UpTo
  <2> HIDE DEF d, old
  <2>5. QED
    BY <1>2, <1>3, <2>2, <2>3, <2>4, SenderMoves
<1>6. QED
  BY <1>4, <1>5 DEF Forward!BatchCutShort, Forward!SendFails

\* New rows come after all positions known, and deletions only help.
LEMMA TableKeepsOrder ==
    ASSUME TypeOK, OnlyLogins, SentInOrder, [Next]_vars, UNCHANGED forwarding
    PROVE  OnlyLogins' /\ SentInOrder'
<1>1. /\ \/ rows' \subseteq rows /\ nextId' = nextId
         \/ rows' = rows \cup {nextId} /\ nextId' = nextId + 1
  BY ChunkIsOld DEF Next, CleanTable, Insert, CountRows, FindBoundary, NoBoundary, Finished, Abort,
     DeleteChunk, vars
<1>2. nextId \in Nat /\ UNCHANGED <<logoffTime, ddlLog, cursor, sender, sent>>
  BY CleanupAssumption DEF TypeOK, forwarding
<1>3. 1..nextId - 1 \subseteq 1..nextId' - 1 /\ Positions \subseteq Positions'
  BY <1>1, <1>2 DEF Positions
<1>4. SenderStates \subseteq SenderStates'
  BY <1>3 DEF SenderStates
<1>5. OnlyLogins'
  <2>1. rows' \subseteq 1..nextId' - 1
    <3>1. rows \subseteq 1..nextId - 1
      BY DEF OnlyLogins
    <3>2. nextId' = nextId + 1 => nextId \in 1..nextId' - 1
      BY <1>2, CleanupAssumption DEF TypeOK
    <3>3. CASE nextId' = nextId /\ rows' \subseteq rows
      BY <3>1, <3>3
    <3>4. CASE rows' = rows \cup {nextId} /\ nextId' = nextId + 1
      <4>1. nextId \in 1..nextId' - 1 /\ rows \subseteq 1..nextId' - 1
        BY <1>3, <3>1, <3>2, <3>4
      <4>2. QED
        BY <3>4, <4>1
    <3>5. QED
      BY <1>1, <3>3, <3>4
  <2>2. sender' \in [Senders -> SenderStates']
    BY <1>2, <1>4 DEF OnlyLogins
  <2>3. cursor' \in [{"login", "logoff", "ddl"} -> Positions']
    BY <1>2, <1>3 DEF OnlyLogins
  <2>4. sent' \subseteq {"login"} \X (1..nextId' - 1)
    BY <1>2, <1>3 DEF OnlyLogins
  <2>5. QED
    BY <1>2, <2>1, <2>2, <2>3, <2>4 DEF OnlyLogins
<1>6. \A i \in rows' \ rows : i = nextId
  BY <1>1
<1>7. /\ cursor["login"][2] \in Int /\ cursor["login"][2] < nextId
      /\ \A s \in Senders :
            /\ sender[s].last[2] \in Int /\ sender[s].last[2] < nextId
            /\ \A j \in sender[s].left : j \in Int /\ j < nextId
      /\ \A j : <<"login", j>> \in sent => j \in 1..nextId - 1
  BY <1>2 DEF OnlyLogins, SenderStates, Positions
<1> DEFINE Reached(p) == \A i \in rows : i <= p[2] => <<"login", i>> \in sent
<1>71. ASSUME NEW p, p[2] \in Int, p[2] < nextId, Reached(p), NEW i \in rows', i <= p[2]
       PROVE  <<"login", i>> \in sent
  BY <1>2, <1>6, <1>71
<1>8. SentInOrder'
  <2>1. UpTo(cursor["login"])'
    <3>1. Reached(cursor["login"])
      BY DEF SentInOrder, UpTo
    <3> HIDE DEF Reached
    <3>2. \A i \in rows' : i <= cursor["login"][2] => <<"login", i>> \in sent
      BY <1>7, <1>71, <3>1
    <3>3. QED
      BY <1>2, <3>2 DEF UpTo
  <2>2. ASSUME NEW s \in Senders, sender[s].stream = "login", sender[s].at \in {"query", "send"}
        PROVE  UpTo(sender[s].last)'
    <3>1. Reached(sender[s].last)
      BY <2>2 DEF SentInOrder, UpTo
    <3> HIDE DEF Reached
    <3>2. \A i \in rows' : i <= sender[s].last[2] => <<"login", i>> \in sent
      BY <1>7, <1>71, <3>1
    <3>3. QED
      BY <1>2, <3>2 DEF UpTo
  <2>3. ASSUME NEW s \in Senders, sender[s].stream = "login", sender[s].at = "send",
               NEW j \in sender[s].left
        PROVE  /\ sender[s].last[2] < j
               /\ \A i \in rows' : sender[s].last[2] < i /\ i < j => i \in sender[s].left
    BY <1>2, <1>6, <1>7, <2>3 DEF SentInOrder
  <2>4. \A i \in rows', j \in 1..nextId' - 1 :
            <<"login", j>> \in sent' /\ i < j => <<"login", i>> \in sent'
    BY <1>2, <1>6, <1>7 DEF SentInOrder
  <2>5. QED
    BY <1>2, <2>1, <2>2, <2>3, <2>4 DEF SentInOrder
<1>9. QED
  BY <1>5, <1>8

\* Every step of the pipeline keeps the order.
LEMMA PipelineKeepsOrder ==
    ASSUME TypeOK, OnlyLogins, SentInOrder, [PipelineNext]_pipeline
    PROVE  OnlyLogins' /\ SentInOrder'
<1>1. CASE UNCHANGED pipeline
  BY <1>1, TableKeepsOrder DEF pipeline
<1>2. CASE Insert /\ UNCHANGED forwarding
  BY <1>2, TableKeepsOrder DEF Next
<1>3. ASSUME NEW c \in Cleaners, Trim(c), UNCHANGED forwarding PROVE OnlyLogins' /\ SentInOrder'
  BY <1>3, TableKeepsOrder DEF Next, Trim
<1>4. ASSUME NEW s \in Senders, Send(s), UNCHANGED <<nextId, trimming>>
      PROVE  OnlyLogins' /\ SentInOrder'
  BY <1>4, SenderReads, SenderQueries, SenderSends, SenderUpdates, SenderStops
     DEF Send, Forward!Send
<1>5. QED
  BY <1>1, <1>2, <1>3, <1>4 DEF PipelineNext

LEMMA PipelineStarts == PipelineInit => OnlyLogins /\ SentInOrder
<1> SUFFICES ASSUME PipelineInit PROVE OnlyLogins /\ SentInOrder
  OBVIOUS
<1>1. rows = {} /\ nextId = 1 /\ sent = {} /\ ddlLog = {}
      /\ logoffTime = [i \in Forward!Ids |-> Forward!Open]
      /\ cursor = [s \in {"login", "logoff", "ddl"} |-> <<0, 0>>]
      /\ sender = [s \in Senders |-> Forward!Idle]
  BY DEF PipelineInit, Init, Forward!Init, Forward!Streams, Forward!Origin
<1>2. <<0, 0>> \in Positions
  BY <1>1 DEF Positions
<1>3. Forward!Idle \in SenderStates /\ Forward!Idle.at = "idle"
  BY <1>2 DEF Forward!Idle, Forward!Origin, SenderStates
<1>4. QED
  BY <1>1, <1>2, <1>3 DEF OnlyLogins, SentInOrder, UpTo

\* However many hosts clean and forward the table, with whatever stale counts,
\* resent batches, failures and restarts: a login is trimmed before it was
\* forwarded only when the senders are behind by more rows than cleaning keeps
\* (cleanTable, sendLogins).
THEOREM OnlyBacklogIsLost ==
    ASSUME IsFiniteSet(Cleaners)
    PROVE  PipelineSpec => OnlyBacklogLost
<1> DEFINE Lone == \A c, d \in Cleaners : c = d
           Inv == TypeOK /\ BoundaryBelowRow /\ (Lone => CountHolds) /\ OnlyLogins /\ SentInOrder
<1>1. PipelineInit => Inv
  BY InitTypeOK, PipelineStarts DEF PipelineInit, Init, BoundaryBelowRow, CountHolds
<1>2. Inv /\ [PipelineNext]_pipeline => Inv'
  BY PipelineKeepsTable, PipelineKeepsOrder
<1>3. Inv /\ [PipelineNext]_pipeline =>
        [\A i \in Unsent \ rows' : Cardinality({j \in rows' \cap Unsent : j > i}) >= Kept]_pipeline
  <2>1. SUFFICES ASSUME Inv, [PipelineNext]_pipeline, NEW i \in Unsent \ rows'
                 PROVE  Cardinality({j \in rows' \cap Unsent : j > i}) >= Kept
    OBVIOUS
  <2>2. i \in rows \ rows' /\ <<"login", i>> \notin sent
    BY <2>1 DEF Unsent
  <2>3. [Next]_vars /\ TypeOK'
    BY <2>1, <2>2, PipelineStep, PipelineKeepsTable
  <2>4. rows' \subseteq rows
    <3>1. PICK c \in Cleaners : DeleteChunk(c)
      BY <2>2, <2>3 DEF Next, CleanTable, Insert, CountRows, FindBoundary, NoBoundary, Finished,
         Abort, vars
    <3>2. QED
      BY <3>1, ChunkIsOld
  <2>5. {j \in rows' \cap Unsent : j > i} = {j \in rows' : j > i}
    <3>1. ASSUME NEW j \in rows', j > i PROVE <<"login", j>> \notin sent
      <4>1. j \in 1..nextId - 1 /\ j \in Int /\ i \in Int
        <5>1. j \in rows /\ i \in rows
          BY <2>2, <2>4, <3>1
        <5>2. rows \subseteq 1..MaxId /\ rows \subseteq 1..nextId - 1
          BY <2>1 DEF OnlyLogins, TypeOK
        <5>3. QED
          BY <5>1, <5>2, CleanupAssumption
      <4>2. i < j
        BY <3>1, <4>1
      <4>3. QED
        BY <2>1, <2>2, <4>1, <4>2 DEF SentInOrder
    <3>2. QED
      BY <2>4, <3>1 DEF Unsent
  <2>6. CASE Cardinality(Cleaners) = 1
    <3>1. Lone
      BY <2>6, FS_Singleton
    <3>2. Cardinality({j \in rows' : j > i}) >= TargetRows
      BY <2>1, <2>2, <2>3, <3>1, DeletedBelowTarget
    <3>3. QED
      BY <2>5, <2>6, <3>2 DEF Kept
  <2>7. CASE Cardinality(Cleaners) # 1
    <3>1. {j \in rows' : j > i} # {}
      BY <2>1, <2>2, <2>3, DeletedBelowRow
    <3>2. /\ IsFiniteSet({j \in rows' : j > i})
          /\ Cardinality({j \in rows' : j > i}) \in Nat
      <4>1. {j \in rows' : j > i} \in SUBSET (1..MaxId)
        BY <2>3 DEF TypeOK
      <4>2. QED
        BY <4>1, IdsFinite, CleanupAssumption
    <3>3. Cardinality({j \in rows' : j > i}) # 0
      BY <3>1, <3>2, FS_EmptySet
    <3>4. QED
      BY <2>5, <2>7, <3>2, <3>3 DEF Kept
  <2>8. QED
    BY <2>6, <2>7
<1> HIDE DEF Inv
<1>4. QED
  BY <1>1, <1>2, <1>3, PTL DEF PipelineSpec, OnlyBacklogLost
=============================================================================
