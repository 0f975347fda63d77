---------------------------- MODULE Rsyslog_proof ----------------------------
(***************************************************************************)
(* Proofs about Rsyslog, for any number of senders, any batch size, any    *)
(* number of events and of failures.                                       *)
(***************************************************************************)
EXTENDS RsyslogHistory, FiniteSetTheorems, TLAPS

-----------------------------------------------------------------------------
(* Positions and batches.                                                  *)

\* The positions of the rows are pairs of integers, ordered one after another.
LEMMA RowPos ==
    ASSUME TypeOK, NEW stream \in Streams
    PROVE  /\ Visible(stream) \in SUBSET Ids
           /\ \A i \in Ids : Pos(stream, i) \in Position /\ Pos(stream, i)[2] = i
BY RsyslogAssumption DEF TypeOK, Visible, Pos, Position, Streams, Ids, Open

LEMMA BeforeIsOrder ==
    /\ \A p, q \in Position : p = q \/ Before(p, q) \/ Before(q, p)
    /\ \A p, q \in Position : ~(Before(p, q) /\ Before(q, p))
    /\ \A p, q, r \in Position : Before(p, q) /\ Before(q, r) => Before(p, r)
BY RsyslogAssumption DEF Before, Position

\* A set of row ids is finite.
LEMMA IdsFinite ==
    ASSUME NEW R \in SUBSET Ids
    PROVE  IsFiniteSet(R) /\ Cardinality(R) \in Nat
<1>1. IsFiniteSet(Ids)
  BY FS_Interval, RsyslogAssumption DEF Ids
<1>2. IsFiniteSet(R)
  BY <1>1, FS_Subset
<1>3. QED
  BY <1>2, FS_CardinalityType

\* An earlier row has fewer rows before it.
LEMMA RankGrows ==
    ASSUME TypeOK, NEW stream \in Streams, NEW p \in Position,
           NEW i \in After(stream, p), NEW j \in After(stream, p),
           Before(Pos(stream, i), Pos(stream, j))
    PROVE  /\ Cardinality(Earlier(stream, p, i)) < Cardinality(Earlier(stream, p, j))
           /\ Cardinality(Earlier(stream, p, i)) \in Nat
           /\ Cardinality(Earlier(stream, p, j)) \in Nat
<1>1. After(stream, p) \in SUBSET Ids
  BY RowPos DEF After
<1>2. /\ Earlier(stream, p, i) \in SUBSET Ids
      /\ Earlier(stream, p, j) \in SUBSET Ids
  BY <1>1 DEF Earlier
<1>3. Pos(stream, i) \in Position /\ Pos(stream, j) \in Position
  BY <1>1, RowPos
<1>4. i \notin Earlier(stream, p, i)
  BY <1>3, BeforeIsOrder DEF Earlier
<1>5. i \in Earlier(stream, p, j)
  BY DEF Earlier
<1>6. Earlier(stream, p, i) \subseteq Earlier(stream, p, j)
  BY <1>1, <1>3, RowPos, BeforeIsOrder DEF Earlier
<1>7. IsFiniteSet(Earlier(stream, p, j))
  BY <1>2, IdsFinite
<1>8. Cardinality(Earlier(stream, p, i)) <= Cardinality(Earlier(stream, p, j))
      /\ Cardinality(Earlier(stream, p, i)) # Cardinality(Earlier(stream, p, j))
  BY <1>4, <1>5, <1>6, <1>7, FS_Subset
<1>9. QED
  BY <1>2, <1>8, IdsFinite

\* LIMIT: a batch has at most BatchSize rows, all after the position asked for.
LEMMA BatchSmall ==
    ASSUME TypeOK, NEW stream \in Streams, NEW p \in Position
    PROVE  /\ Batch(stream, p) \in SUBSET Ids
           /\ Cardinality(Batch(stream, p)) <= BatchSize
<1> DEFINE rank == [i \in Batch(stream, p) |-> Cardinality(Earlier(stream, p, i))]
           Ranks == 0 .. BatchSize - 1
<1>1. Batch(stream, p) \in SUBSET Ids /\ Batch(stream, p) \subseteq After(stream, p)
  BY RowPos DEF Batch, After
<1>2. rank \in [Batch(stream, p) -> Ranks]
  <2>1. ASSUME NEW i \in Batch(stream, p)
        PROVE  Cardinality(Earlier(stream, p, i)) \in Ranks
    <3>1. Earlier(stream, p, i) \in SUBSET Ids
      BY <1>1, RowPos DEF Earlier, After
    <3>2. Cardinality(Earlier(stream, p, i)) \in Nat
      BY <3>1, IdsFinite
    <3>3. Cardinality(Earlier(stream, p, i)) < BatchSize
      BY DEF Batch
    <3>4. QED
      BY <3>2, <3>3, RsyslogAssumption
  <2>2. QED
    BY <2>1
<1>3. ASSUME NEW i \in Batch(stream, p), NEW j \in Batch(stream, p), i # j
      PROVE  Cardinality(Earlier(stream, p, i)) # Cardinality(Earlier(stream, p, j))
  <2>1. /\ Pos(stream, i) \in Position /\ Pos(stream, i)[2] = i
        /\ Pos(stream, j) \in Position /\ Pos(stream, j)[2] = j
    BY <1>1, RowPos
  <2>2. Before(Pos(stream, i), Pos(stream, j)) \/ Before(Pos(stream, j), Pos(stream, i))
    BY <1>3, <2>1, BeforeIsOrder
  <2>3. i \in After(stream, p) /\ j \in After(stream, p)
    BY <1>1
  <2>4. QED
    BY <2>2, <2>3, RankGrows
<1>4. rank \in Injection(Batch(stream, p), Ranks)
  BY <1>2, <1>3 DEF Injection, IsInjective
<1>5. IsFiniteSet(Ranks) /\ Cardinality(Ranks) = BatchSize
  BY FS_Interval, RsyslogAssumption
<1>6. Cardinality(Batch(stream, p)) <= Cardinality(Ranks)
  BY <1>4, <1>5, FS_Injection
<1>7. QED
  BY <1>1, <1>5, <1>6

-----------------------------------------------------------------------------
(* Type correctness.                                                       *)

\* What a sender remembers.
SenderStates ==
    [at : {"idle", "readTime", "readId", "query", "send"}, stream : Streams,
     last : Position, left : SUBSET Ids, got : 0..BatchSize]

\* Idle, and the senders at the beginning of a stream, have an empty batch.
LEMMA EmptyBatch ==
    /\ \A at \in {"readTime", "readId", "idle"}, stream \in Streams :
            [Idle EXCEPT !.at = at, !.stream = stream] \in SenderStates
    /\ Idle \in SenderStates
    /\ \A to \in SenderStates :
            to.left = {} /\ to.got \in 0..BatchSize => Cardinality(to.left) + to.got <= BatchSize
<1>1. Origin \in Position
  BY RsyslogAssumption DEF Origin, Position
<1>2. 0 \in 0..BatchSize
  BY RsyslogAssumption
<1>3. \A to \in SenderStates : to.left = {} => Cardinality(to.left) = 0
  BY FS_EmptySet
<1>4. Idle \in SenderStates
  BY <1>1, <1>2 DEF SenderStates, Idle, Streams
<1>5. \A at \in {"readTime", "readId", "idle"}, stream \in Streams :
        [Idle EXCEPT !.at = at, !.stream = stream] \in SenderStates
  BY <1>4 DEF SenderStates
<1>6. \A to \in SenderStates :
        to.left = {} /\ to.got \in 0..BatchSize => Cardinality(to.left) + to.got <= BatchSize
  BY <1>3, RsyslogAssumption
<1>7. QED
  BY <1>4, <1>5, <1>6

\* The program starts well typed, every sender outside Send.
LEMMA InitTypeOK == Init => TypeOK
<1> SUFFICES ASSUME Init PROVE TypeOK
  OBVIOUS
<1>1. /\ sessions \in SUBSET Ids /\ ddlLog \in SUBSET Ids
      /\ logoffTime \in [Ids -> Open..MaxTime]
      /\ sent \in SUBSET (Streams \X Ids) /\ faults \in 0..MaxFaults
  BY RsyslogAssumption DEF Init, Open
<1>2. cursor \in [Streams -> Position]
  BY RsyslogAssumption DEF Init, Origin, Position
<1>3. sender \in [Senders -> SenderStates] /\ \A s \in Senders : sender[s] = Idle
  BY EmptyBatch DEF Init
<1>4. Cardinality(Idle.left) + Idle.got <= BatchSize
  BY EmptyBatch DEF Idle, SenderStates
<1>5. QED
  BY <1>1, <1>2, <1>3, <1>4 DEF TypeOK, SenderStates

\* A step of one sender keeps the types if what it remembers is well typed and
\* within the batch limit.
LEMMA SenderStep ==
    ASSUME TypeOK, NEW s \in Senders, NEW to \in SenderStates,
           Cardinality(to.left) + to.got <= BatchSize,
           sender' = [sender EXCEPT ![s] = to], UNCHANGED tables,
           cursor' \in [Streams -> Position], sent' \in SUBSET (Streams \X Ids),
           faults' \in 0..MaxFaults
    PROVE  TypeOK'
<1>1. sender' \in [Senders -> SenderStates]
  BY DEF TypeOK, SenderStates
<1>2. ASSUME NEW t \in Senders
      PROVE  Cardinality(sender'[t].left) + sender'[t].got <= BatchSize
  <2>1. CASE t = s
    BY <2>1 DEF TypeOK
  <2>2. CASE t # s
    BY <2>2 DEF TypeOK
  <2>3. QED
    BY <2>1, <2>2
<1>3. QED
  BY <1>1, <1>2 DEF TypeOK, tables, SenderStates

\* Leaving a stream leaves the batch behind.
LEMMA NextStreamStep ==
    ASSUME TypeOK, NEW s \in Senders, NextStream(s), UNCHANGED <<tables, sent>>,
           cursor' \in [Streams -> Position], faults' \in 0..MaxFaults
    PROVE  TypeOK'
<1>1. PICK at \in {"readTime", "readId", "idle"}, stream \in Streams :
        sender' = [sender EXCEPT ![s] = [Idle EXCEPT !.at = at, !.stream = stream]]
  <2>1. CASE sender[s].stream = "login"
    <3>1. sender' = [sender EXCEPT ![s] = [Idle EXCEPT !.at = "readTime", !.stream = "logoff"]]
      BY <2>1 DEF NextStream, TypeOK
    <3>2. QED
      BY <3>1 DEF Streams
  <2>2. CASE sender[s].stream = "logoff"
    <3>1. sender' = [sender EXCEPT ![s] = [Idle EXCEPT !.at = "readId", !.stream = "ddl"]]
      BY <2>2 DEF NextStream, TypeOK
    <3>2. QED
      BY <3>1 DEF Streams
  <2>3. CASE sender[s].stream = "ddl"
    <3>1. sender' = [sender EXCEPT ![s] = [Idle EXCEPT !.at = "idle", !.stream = "login"]]
      BY <2>3 DEF NextStream, TypeOK, Idle
    <3>2. QED
      BY <3>1 DEF Streams
  <2>4. QED
    BY <2>1, <2>2, <2>3 DEF TypeOK, Streams
<1> DEFINE to == [Idle EXCEPT !.at = at, !.stream = stream]
<1>2. to \in SenderStates /\ to.left = {} /\ to.got = 0
  BY EmptyBatch DEF Idle
<1>3. Cardinality(to.left) + to.got <= BatchSize
  BY <1>2, EmptyBatch DEF SenderStates
<1>4. sent' \in SUBSET (Streams \X Ids)
  BY DEF TypeOK
<1> HIDE DEF to
<1>5. sender' = [sender EXCEPT ![s] = to]
  BY <1>1 DEF to
<1>6. QED
  BY <1>2, <1>3, <1>4, <1>5, SenderStep

\* The ids of sessions are ids.
LEMMA SessionIds == 1..MaxSessionId \subseteq Ids
BY RsyslogAssumption DEF Ids

\* Every step keeps the types, the batch in memory within its limit included.
LEMMA NextTypeOK == TypeOK /\ [Next]_vars => TypeOK'
<1> SUFFICES ASSUME TypeOK, [Next]_vars PROVE TypeOK'
  OBVIOUS
<1> USE RsyslogAssumption
<1>1. ASSUME NEW id \in Ids, InsertLogin(id) PROVE TypeOK'
  BY <1>1 DEF InsertLogin, TypeOK
<1>2. ASSUME NEW id \in Ids, InsertDdl(id) PROVE TypeOK'
  BY <1>2 DEF InsertDdl, TypeOK
<1>3. ASSUME NEW id \in Ids, NEW time \in 1..MaxTime, UpdateLogoff(id, time) PROVE TypeOK'
  BY <1>3 DEF UpdateLogoff, Open, TypeOK
<1>4. ASSUME NEW s \in Senders PROVE sender[s] \in SenderStates
  BY DEF TypeOK, SenderStates
<1>5. ASSUME NEW s \in Senders, SendStarts(s) PROVE TypeOK'
  BY <1>5 DEF SendStarts, Goto, tables, TypeOK
<1>6. ASSUME NEW s \in Senders, ReadTime(s) PROVE TypeOK'
  <2> DEFINE to == [sender[s] EXCEPT !.at = "readId",
                                     !.last = <<cursor["logoff"][1], @[2]>>]
  <2>1. <<cursor["logoff"][1], sender[s].last[2]>> \in Position
    BY DEF TypeOK, Streams, Position
  <2>2. to \in SenderStates /\ to.left = sender[s].left /\ to.got = sender[s].got
    BY <1>4, <2>1 DEF SenderStates
  <2>3. sender' = [sender EXCEPT ![s] = to]
    BY <1>6 DEF ReadTime, TypeOK
  <2> HIDE DEF to
  <2>4. QED
    BY <1>6, <2>2, <2>3, SenderStep DEF ReadTime, TypeOK
<1>7. ASSUME NEW s \in Senders, ReadId(s) PROVE TypeOK'
  <2> DEFINE to == [sender[s] EXCEPT !.at = "query",
                                     !.last = <<@[1], cursor[sender[s].stream][2]>>]
  <2>1. <<sender[s].last[1], cursor[sender[s].stream][2]>> \in Position
    BY DEF TypeOK, Position
  <2>2. to \in SenderStates /\ to.left = sender[s].left /\ to.got = sender[s].got
    BY <1>4, <2>1 DEF SenderStates
  <2>3. sender' = [sender EXCEPT ![s] = to]
    BY <1>7 DEF ReadId, TypeOK
  <2> HIDE DEF to
  <2>4. QED
    BY <1>7, <2>2, <2>3, SenderStep DEF ReadId, TypeOK
<1>8. ASSUME NEW s \in Senders, QueryBatch(s) PROVE TypeOK'
  <2> DEFINE batch == Batch(sender[s].stream, sender[s].last)
  <2>1. CASE batch = {}
    BY <1>8, <2>1, NextStreamStep DEF QueryBatch, tables, TypeOK
  <2>2. CASE batch # {}
    <3> DEFINE to == [sender[s] EXCEPT !.at = "send", !.left = batch, !.got = 0]
    <3>1. batch \in SUBSET Ids /\ Cardinality(batch) <= BatchSize
      BY BatchSmall DEF TypeOK
    <3>2. Cardinality(batch) \in Nat
      BY <3>1, IdsFinite
    <3> HIDE DEF batch
    <3>3. to \in SenderStates /\ to.left = batch /\ to.got = 0
      <4>1. 0 \in 0..BatchSize /\ batch \in SUBSET Ids
        BY <3>1
      <4>2. QED
        BY <1>4, <4>1 DEF SenderStates
    <3>4. sender' = [sender EXCEPT ![s] = to]
      BY <1>8, <2>2 DEF QueryBatch, batch, TypeOK
    <3> HIDE DEF to
    <3>5. UNCHANGED tables /\ cursor' \in [Streams -> Position] /\ faults' \in 0..MaxFaults
          /\ sent' \in SUBSET (Streams \X Ids)
      BY <1>8 DEF QueryBatch, TypeOK
    <3>6. Cardinality(to.left) + to.got <= BatchSize
      BY <3>1, <3>2, <3>3
    <3>7. QED
      BY <3>3, <3>4, <3>5, <3>6, SenderStep
  <2>3. QED
    BY <2>1, <2>2
<1>9. ASSUME NEW s \in Senders, SendRow(s) PROVE TypeOK'
  <2> DEFINE stream == sender[s].stream
             left == sender[s].left
  <2>1. PICK id \in left :
          /\ sent' = sent \cup {<<stream, id>>}
          /\ sender' = [sender EXCEPT ![s].left = @ \ {id}, ![s].got = @ + 1,
                                      ![s].last = Pos(stream, id)]
    BY <1>9 DEF SendRow
  <2>2. left \in SUBSET Ids /\ id \in Ids /\ stream \in Streams
    BY DEF TypeOK
  <2>3. Pos(stream, id) \in Position
    BY <2>2, RowPos
  <2>4. Cardinality(left \ {id}) = Cardinality(left) - 1
    BY <2>2, IdsFinite, FS_RemoveElement
  <2>5. Cardinality(left \ {id}) \in Nat /\ Cardinality(left) \in Nat
    BY <2>2, IdsFinite
  <2> DEFINE to == [sender[s] EXCEPT !.left = @ \ {id}, !.got = @ + 1, !.last = Pos(stream, id)]
  <2>6. to.left = left \ {id} /\ to.got = sender[s].got + 1
    BY <1>4 DEF SenderStates
  <2>7. Cardinality(to.left) + to.got <= BatchSize /\ to.got \in 0..BatchSize
    BY <2>4, <2>5, <2>6 DEF TypeOK
  <2>8. to \in SenderStates
    BY <1>4, <2>2, <2>3, <2>7 DEF SenderStates
  <2>9. sender' = [sender EXCEPT ![s] = to]
    BY <2>1 DEF TypeOK
  <2> HIDE DEF to
  <2>10. /\ UNCHANGED tables /\ cursor' \in [Streams -> Position]
         /\ faults' \in 0..MaxFaults /\ sent' \in SUBSET (Streams \X Ids)
    BY <1>9, <2>1, <2>2 DEF SendRow, TypeOK
  <2>11. QED
    BY <2>7, <2>8, <2>9, <2>10, SenderStep
<1>10. ASSUME NEW s \in Senders, UpdateCursor(s) PROVE TypeOK'
  <2>1. cursor' \in [Streams -> Position]
    BY <1>10 DEF UpdateCursor, TypeOK
  <2>2. CASE sender[s].got < BatchSize
    BY <1>10, <2>1, <2>2, NextStreamStep DEF UpdateCursor, tables, TypeOK
  <2>3. CASE ~(sender[s].got < BatchSize)
    BY <1>10, <2>1, <2>3 DEF UpdateCursor, Goto, tables, TypeOK
  <2>4. QED
    BY <2>2, <2>3
<1>11. ASSUME NEW s \in Senders, BatchCutShort(s) PROVE TypeOK'
  <2>1. faults' \in 0..MaxFaults
    BY <1>11 DEF BatchCutShort, Fault, TypeOK
  <2>2. CASE sender[s].got = 0
    BY <1>11, <2>1, <2>2, NextStreamStep DEF BatchCutShort, tables, TypeOK
  <2>3. CASE sender[s].got # 0
    <3> DEFINE to == [sender[s] EXCEPT !.left = {}]
    <3>1. to \in SenderStates /\ to.left = {} /\ to.got = sender[s].got
      BY <1>4 DEF SenderStates
    <3>3. sender' = [sender EXCEPT ![s] = to]
      BY <1>11, <2>3 DEF BatchCutShort, TypeOK
    <3> HIDE DEF to
    <3>2. Cardinality(to.left) + to.got <= BatchSize
      BY <3>1, EmptyBatch DEF SenderStates
    <3>4. /\ UNCHANGED tables /\ cursor' \in [Streams -> Position]
          /\ sent' \in SUBSET (Streams \X Ids)
      BY <1>11 DEF BatchCutShort, TypeOK
    <3>5. QED
      BY <2>1, <3>1, <3>2, <3>3, <3>4, SenderStep
  <2>4. QED
    BY <2>2, <2>3
<1>12. ASSUME NEW s \in Senders, SendFails(s) PROVE TypeOK'
  <2>1. /\ UNCHANGED tables /\ cursor' \in [Streams -> Position]
        /\ faults' \in 0..MaxFaults /\ sent' \in SUBSET (Streams \X Ids)
    BY <1>12 DEF SendFails, Fault, TypeOK
  <2>2. sender' = [sender EXCEPT ![s] = Idle]
    BY <1>12 DEF SendFails, Leave
  <2>3. Cardinality(Idle.left) + Idle.got <= BatchSize
    <3>1. Idle.left = {} /\ Idle.got = 0
      BY DEF Idle
    <3>2. QED
      BY <3>1, EmptyBatch DEF SenderStates
  <2>4. QED
    BY <2>1, <2>2, <2>3, EmptyBatch, SenderStep
<1>13. CASE UNCHANGED vars
  BY <1>13 DEF vars, tables, TypeOK
<1>14. QED
  BY <1>1, <1>2, <1>3, <1>5, <1>6, <1>7, <1>8, <1>9, <1>10, <1>11, <1>12, <1>13, SessionIds
     DEF Next, Writers, Send

\* Every reachable state is well typed: the cursors and what the senders
\* remember are positions of the tables, and a batch is never over its limit.
THEOREM RsyslogTypeCorrect == Spec => []TypeOK
<1>1. QED
  BY InitTypeOK, NextTypeOK, PTL DEF Spec

\* With the history: what was reached is a position, what came late a row.
THEOREM HistoryTypeCorrect == HistorySpec => []HistoryTypeOK
<1>1. HistoryInit => HistoryTypeOK
  <2>1. Origin \in Position
    BY RsyslogAssumption DEF Origin, Position
  <2>2. QED
    BY <2>1, InitTypeOK DEF HistoryInit, HistoryTypeOK
<1>2. HistoryTypeOK /\ [HistoryNext]_allVars => HistoryTypeOK'
  <2>1. SUFFICES ASSUME HistoryTypeOK, [HistoryNext]_allVars PROVE HistoryTypeOK'
    OBVIOUS
  <2>2. TypeOK'
    BY <2>1, NextTypeOK DEF HistoryTypeOK, HistoryNext, allVars
  <2>3. CASE HistoryNext
    BY <2>1, <2>2, <2>3 DEF HistoryTypeOK, HistoryNext, Remember, ClosedLate, TypeOK,
                            IdStreams, Streams
  <2>4. CASE UNCHANGED allVars
    BY <2>1, <2>2, <2>4 DEF HistoryTypeOK, allVars, history
  <2>5. QED
    BY <2>1, <2>3, <2>4
<1>3. QED
  BY <1>1, <1>2, PTL DEF HistorySpec

-----------------------------------------------------------------------------
(* Nothing is skipped: what the writers do.                                *)

\* A row is closed only after it appeared.
ClosedAreVisible == \A i \in Ids : logoffTime[i] # Open => i \in sessions

\* No row of a stream disappears or moves, and new rows come after all others.
Appends(stream) ==
    /\ Visible(stream) \subseteq Visible(stream)'
    /\ \A i \in Visible(stream) : Pos(stream, i)' = Pos(stream, i)
    /\ \A j \in Visible(stream)' \ Visible(stream) :
        /\ Before(Origin, Pos(stream, j)')
        /\ \A i \in Visible(stream) : Before(Pos(stream, i), Pos(stream, j)')

\* Appends, after any step.
LEMMA TablesStay ==
    ASSUME NEW stream \in Streams, UNCHANGED tables
    PROVE  Appends(stream)
BY DEF Appends, Visible, Pos, tables, Streams

\* What each writer does to the streams ordered by id.
LEMMA WritersAppend ==
    ASSUME TypeOK, NEW stream \in IdStreams, IdsInOrder, Writers
    PROVE  Appends(stream)
<1> USE RsyslogAssumption
<1>1. ASSUME NEW id \in Ids, InsertLogin(id) PROVE Appends(stream)
  <2>1. CASE stream = "login"
    BY <1>1, <2>1 DEF InsertLogin, NextVisible, Appends, Visible, Pos, Before, Origin, Ids, TypeOK
  <2>2. CASE stream = "ddl"
    BY <1>1, <2>2 DEF InsertLogin, Appends, Visible, Pos
  <2>3. QED
    BY <2>1, <2>2 DEF IdStreams
<1>2. ASSUME NEW id \in Ids, InsertDdl(id) PROVE Appends(stream)
  <2>1. CASE stream = "ddl"
    BY <1>2, <2>1 DEF InsertDdl, NextVisible, Appends, Visible, Pos, Before, Origin, Ids, TypeOK
  <2>2. CASE stream = "login"
    BY <1>2, <2>2 DEF InsertDdl, Appends, Visible, Pos
  <2>3. QED
    BY <2>1, <2>2 DEF IdStreams
<1>3. ASSUME NEW id \in Ids, NEW time \in 1..MaxTime, UpdateLogoff(id, time)
      PROVE  Appends(stream)
  BY <1>3 DEF UpdateLogoff, Appends, Visible, Pos, IdStreams
<1>4. QED
  BY <1>1, <1>2, <1>3, SessionIds DEF Writers

-----------------------------------------------------------------------------
(* Nothing is skipped: what the senders know.                              *)

\* The rows a stream may miss.
Excused(stream) == IF stream = "logoff" THEN late ELSE {}

\* The rows up to position p were sent, unless they came late.  Where the order
\* is that of the ids, p is the position of a row or before all of them.
Covered(stream, p) ==
    /\ stream \in IdStreams => p = Origin \/ \E i \in Visible(stream) : p = Pos(stream, i)
    /\ \A i \in Visible(stream) :
        <<stream, i>> \in sent \/ Before(p, Pos(stream, i)) \/ i \in Excused(stream)

\* A set of rows is the beginning of what comes after position p.
Prefix(stream, p, left) ==
    /\ left \subseteq After(stream, p)
    /\ \A i \in left, j \in After(stream, p) :
        j \in left \/ Before(Pos(stream, i), Pos(stream, j)) \/ j \in Excused(stream)

\* Rows that are appended do not make a covered position an uncovered one, nor
\* come into the middle of a batch.
LEMMA AppendsKeep ==
    ASSUME NEW stream \in IdStreams, Appends(stream), sent \subseteq sent'
    PROVE  /\ \A p : Covered(stream, p) => Covered(stream, p)'
           /\ \A p, left : Prefix(stream, p, left) => Prefix(stream, p, left)'
<1>1. ASSUME NEW p, Covered(stream, p) PROVE Covered(stream, p)'
  BY <1>1 DEF Appends, Covered, Excused, IdStreams, Visible, Pos, Origin
<1>2. ASSUME NEW p, NEW left, Prefix(stream, p, left) PROVE Prefix(stream, p, left)'
  BY <1>2 DEF Appends, Prefix, Excused, IdStreams, After, Visible, Pos
<1>3. QED
  BY <1>1, <1>2

\* The same for every stream where the tables stay.
LEMMA SendingKeeps ==
    ASSUME NEW stream \in Streams, UNCHANGED tables, sent \subseteq sent',
           stream = "logoff" => late \subseteq late'
    PROVE  /\ \A p : Covered(stream, p) => Covered(stream, p)'
           /\ \A p, left : Prefix(stream, p, left) => Prefix(stream, p, left)'
BY DEF tables, Covered, Prefix, Excused, After, Visible, Pos

\* Every position a sender read from the cursor of a stream or reached beyond it
\* is covered, and the rows of a batch still to be sent are next.
Knows(stream, s) ==
    sender[s].stream = stream =>
        /\ sender[s].at = "readId" /\ stream \in IdStreams => sender[s].last[1] = 0
        /\ sender[s].at \in {"query", "send"} => Covered(stream, sender[s].last)
        /\ sender[s].at = "send" => Prefix(stream, sender[s].last, sender[s].left)

Progress(stream) ==
    /\ Covered(stream, cursor[stream])
    /\ \A s \in Senders : Knows(stream, s)

\* Send begins with the logins and no time in memory, and only for logoffs is a
\* time read.
InStream ==
    \A s \in Senders :
        /\ sender[s].at = "idle" => sender[s].stream = "login" /\ sender[s].last = Origin
        /\ sender[s].at = "readTime" => sender[s].stream = "logoff"

\* The streams ordered by id have no time to mix up.
LEMMA TimeIsZero ==
    ASSUME NEW stream \in IdStreams
    PROVE  \A p : Covered(stream, p) => p[1] = 0
BY DEF Covered, Pos, Origin, IdStreams

\* What the steps of one sender leave alone.
SenderSteps(s) == Send(s) \/ BatchCutShort(s) \/ SendFails(s)

LEMMA OneSenderMoves ==
    ASSUME TypeOK, NEW s \in Senders, SenderSteps(s)
    PROVE  /\ UNCHANGED tables
           /\ sent \subseteq sent'
           /\ \A t \in Senders \ {s} : sender'[t] = sender[t]
           /\ \A stream \in Streams : cursor'[stream] # cursor[stream] =>
                /\ UpdateCursor(s)
                /\ stream = sender[s].stream
                /\ cursor'[stream] = sender[s].last
<1> USE DEF SenderSteps, Send, SendStarts, ReadTime, ReadId, QueryBatch, SendRow, UpdateCursor,
            BatchCutShort, SendFails, tables
<1>1. UNCHANGED tables
  OBVIOUS
<1>2. sent \subseteq sent'
  OBVIOUS
<1>3. ASSUME NEW t \in Senders \ {s} PROVE sender'[t] = sender[t]
  BY DEF TypeOK, Goto, Leave, NextStream
<1>4. ASSUME NEW stream \in Streams, cursor'[stream] # cursor[stream]
      PROVE  UpdateCursor(s) /\ stream = sender[s].stream /\ cursor'[stream] = sender[s].last
  BY <1>4 DEF TypeOK
<1>5. QED
  BY <1>1, <1>2, <1>3, <1>4

\* A batch is the beginning of what comes after the position asked for.
LEMMA BatchIsPrefix ==
    ASSUME TypeOK, NEW stream \in Streams, NEW p \in Position
    PROVE  Prefix(stream, p, Batch(stream, p))
<1>1. Batch(stream, p) \subseteq After(stream, p) /\ After(stream, p) \in SUBSET Ids
  BY RowPos DEF Batch, After
<1>2. ASSUME NEW i \in Batch(stream, p), NEW j \in After(stream, p), j \notin Batch(stream, p)
      PROVE  Before(Pos(stream, i), Pos(stream, j))
  <2>1. /\ Pos(stream, i) \in Position /\ Pos(stream, i)[2] = i
        /\ Pos(stream, j) \in Position /\ Pos(stream, j)[2] = j
    BY <1>1, RowPos
  <2>2. ~Before(Pos(stream, j), Pos(stream, i))
    <3>1. SUFFICES ASSUME Before(Pos(stream, j), Pos(stream, i)) PROVE FALSE
      OBVIOUS
    <3>2. i \in After(stream, p)
      BY <1>1
    <3>3. Cardinality(Earlier(stream, p, j)) < Cardinality(Earlier(stream, p, i))
          /\ Cardinality(Earlier(stream, p, j)) \in Nat
          /\ Cardinality(Earlier(stream, p, i)) \in Nat
      BY <3>1, <3>2, RankGrows
    <3>4. QED
      BY <1>2, <3>3, RsyslogAssumption DEF Batch
  <2>3. QED
    BY <1>2, <2>1, <2>2, BeforeIsOrder
<1>3. QED
  BY <1>1, <1>2 DEF Prefix

\* Behind the next row of a batch the rest of it is next.
LEMMA RowSent ==
    ASSUME TypeOK, NEW stream \in Streams, NEW p \in Position, NEW left \in SUBSET Ids,
           Covered(stream, p), Prefix(stream, p, left), NEW id \in left,
           \A other \in left \ {id} : Before(Pos(stream, id), Pos(stream, other)),
           UNCHANGED tables, sent' = sent \cup {<<stream, id>>},
           stream = "logoff" => late \subseteq late'
    PROVE  \A q, rest : q = Pos(stream, id) /\ rest = left \ {id}
                => Covered(stream, q)' /\ Prefix(stream, q, rest)'
<1> SUFFICES ASSUME NEW q, q = Pos(stream, id), NEW rest, rest = left \ {id}
             PROVE  Covered(stream, q)' /\ Prefix(stream, q, rest)'
  OBVIOUS
<1>1. id \in Visible(stream) /\ id \in Ids /\ q \in Position /\ Before(p, q)
  BY RowPos DEF Prefix, After
<1>2. ASSUME NEW i \in Visible(stream)
      PROVE  <<stream, i>> \in sent' \/ Before(q, Pos(stream, i)) \/ i \in Excused(stream)
  <2>1. i \in Ids /\ Pos(stream, i) \in Position
    BY RowPos
  <2>2. CASE i \in After(stream, p)
    <3>1. i = id => <<stream, i>> \in sent'
      OBVIOUS
    <3>2. i \in left /\ i # id => Before(q, Pos(stream, i))
      OBVIOUS
    <3>3. i \notin left => Before(q, Pos(stream, i)) \/ i \in Excused(stream)
      BY <2>2 DEF Prefix
    <3>4. QED
      BY <3>1, <3>2, <3>3
  <2>3. CASE i \notin After(stream, p)
    BY <2>3 DEF Covered, After
  <2>4. QED
    BY <2>2, <2>3
<1>3. ASSUME NEW i \in rest, NEW j \in After(stream, q)
      PROVE  j \in rest \/ Before(Pos(stream, i), Pos(stream, j)) \/ j \in Excused(stream)
  <2>1. j \in Visible(stream) /\ j \in Ids /\ Pos(stream, j) \in Position /\ Before(q, Pos(stream, j))
    BY RowPos DEF After
  <2>2. j \in After(stream, p)
    BY <1>1, <2>1, BeforeIsOrder DEF After
  <2>3. j # id
    BY <1>1, <2>1, BeforeIsOrder
  <2>4. QED
    BY <2>2, <2>3 DEF Prefix
<1>4. rest \subseteq After(stream, q)
  BY DEF Prefix, After
<1>5. Covered(stream, q)'
  BY <1>1, <1>2 DEF Covered, Excused, Visible, Pos, tables
<1>6. Prefix(stream, q, rest)'
  BY <1>3, <1>4 DEF Prefix, Excused, After, Visible, Pos, tables
<1>7. QED
  BY <1>5, <1>6

\* Where a sender begins a stream it knows nothing but the time zero.
LEMMA NextStreamKnows ==
    ASSUME TypeOK, NEW stream \in Streams, NEW s \in Senders, NextStream(s)
    PROVE  Knows(stream, s)'
<1>1. CASE sender[s].stream = "login"
  BY <1>1 DEF NextStream, Idle, Knows, TypeOK, Origin, IdStreams
<1>2. CASE sender[s].stream = "logoff"
  BY <1>2 DEF NextStream, Idle, Knows, TypeOK, Origin
<1>3. CASE sender[s].stream = "ddl"
  BY <1>3 DEF NextStream, Idle, Knows, TypeOK
<1>4. QED
  BY <1>1, <1>2, <1>3 DEF TypeOK, Streams

\* Each step of a sender leaves it with a position that is covered.
LEMMA StepKnows ==
    ASSUME TypeOK, TypeOK', InStream, NEW stream \in Streams, Progress(stream),
           NEW s \in Senders, SenderSteps(s),
           stream = "logoff" => late \subseteq late' /\ ~TornRead
    PROVE  Knows(stream, s)'
<1>1. UNCHANGED tables /\ sent \subseteq sent'
  BY OneSenderMoves
<1>2. /\ \A p : Covered(stream, p) => Covered(stream, p)'
      /\ \A p, left : Prefix(stream, p, left) => Prefix(stream, p, left)'
  BY <1>1, SendingKeeps
<1>3. CASE SendStarts(s)
  BY <1>3 DEF SendStarts, Goto, InStream, Idle, Origin, Knows, TypeOK
<1>4. CASE ReadTime(s)
  BY <1>4 DEF ReadTime, InStream, IdStreams, Knows, TypeOK
<1>5. CASE ReadId(s)
  <2> DEFINE read == <<sender[s].last[1], cursor[stream][2]>>
  <2>1. CASE sender[s].stream # stream
    BY <1>5, <2>1 DEF ReadId, Knows, TypeOK
  <2>2. CASE sender[s].stream = stream
    <3>1. sender'[s].at = "query" /\ sender'[s].last = read
      BY <1>5, <2>2 DEF ReadId, TypeOK
    <3>2. read \in Position /\ cursor[stream] \in Position
      BY DEF TypeOK, Position
    <3>3. stream \in IdStreams => read = cursor[stream]
      <4>1. SUFFICES ASSUME stream \in IdStreams PROVE read = cursor[stream]
        OBVIOUS
      <4>2. sender[s].last[1] = 0
        BY <1>5, <2>2, <4>1 DEF ReadId, Progress, Knows
      <4>3. cursor[stream][1] = 0
        BY <4>1, TimeIsZero DEF Progress
      <4>4. QED
        BY <3>2, <4>2, <4>3 DEF Position
    <3>4. ~Before(cursor[stream], read)
      <4>1. CASE stream \in IdStreams
        BY <3>2, <3>3, <4>1, BeforeIsOrder
      <4>2. CASE stream = "logoff"
        BY <1>5, <2>2, <3>2, <4>2 DEF TornRead, Before, Position
      <4>3. QED
        BY <4>1, <4>2 DEF Streams, IdStreams
    <3>5. Covered(stream, read)
      <4>1. ASSUME NEW i \in Visible(stream)
            PROVE  <<stream, i>> \in sent \/ Before(read, Pos(stream, i)) \/ i \in Excused(stream)
        <5>1. Pos(stream, i) \in Position
          BY RowPos
        <5>2. <<stream, i>> \in sent \/ Before(cursor[stream], Pos(stream, i))
              \/ i \in Excused(stream)
          BY DEF Progress, Covered
        <5>3. Before(cursor[stream], Pos(stream, i)) => Before(read, Pos(stream, i))
          BY <3>2, <3>4, <5>1, BeforeIsOrder
        <5>4. QED
          BY <5>2, <5>3
      <4>2. QED
        BY <3>3, <4>1 DEF Progress, Covered
    <3> HIDE DEF read
    <3>6. Covered(stream, sender[s].last)'
      <4>1. PICK p : p = read
        OBVIOUS
      <4>2. Covered(stream, p)'
        BY <1>2, <3>5, <4>1
      <4>3. sender'[s].last = p
        BY <3>1, <4>1
      <4>4. QED
        BY <4>2, <4>3, <3>1 DEF Covered
    <3>7. QED
      BY <3>1, <3>6 DEF Knows
  <2>3. QED
    BY <2>1, <2>2
<1>6. CASE QueryBatch(s)
  <2> DEFINE batch == Batch(sender[s].stream, sender[s].last)
  <2>1. CASE batch = {}
    BY <1>6, <2>1, NextStreamKnows DEF QueryBatch
  <2>2. CASE batch # {} /\ sender[s].stream # stream
    BY <1>6, <2>2 DEF QueryBatch, Knows, TypeOK
  <2>3. CASE batch # {} /\ sender[s].stream = stream
    <3>1. /\ sender'[s].last = sender[s].last
          /\ sender'[s].left = batch
          /\ sender'[s].at = "send"
      BY <1>6, <2>3 DEF QueryBatch, TypeOK
    <3>2. Covered(stream, sender[s].last)
      BY <1>6, <2>3 DEF QueryBatch, Progress, Knows
    <3>3. Prefix(stream, sender[s].last, batch)
      BY <2>3, BatchIsPrefix DEF TypeOK
    <3> HIDE DEF batch
    <3>4. QED
      <4>1. PICK p, left : p = sender[s].last /\ left = batch
        OBVIOUS
      <4>2. Covered(stream, p)' /\ Prefix(stream, p, left)'
        BY <1>2, <3>2, <3>3, <4>1
      <4>3. sender'[s].last = p /\ sender'[s].left = left /\ sender'[s].at = "send"
        BY <3>1, <4>1
      <4>4. QED
        BY <4>2, <4>3 DEF Knows, Covered, Prefix
  <2>4. QED
    BY <2>1, <2>2, <2>3
<1>7. CASE SendRow(s)
  <2>1. PICK id \in sender[s].left :
          /\ \A other \in sender[s].left \ {id} :
                Before(Pos(sender[s].stream, id), Pos(sender[s].stream, other))
          /\ sent' = sent \cup {<<sender[s].stream, id>>}
          /\ sender' = [sender EXCEPT ![s].left = @ \ {id}, ![s].got = @ + 1,
                                      ![s].last = Pos(sender[s].stream, id)]
    BY <1>7 DEF SendRow
  <2>2. CASE sender[s].stream # stream
    BY <2>1, <2>2 DEF Knows, TypeOK
  <2>3. CASE sender[s].stream = stream
    <3>1. /\ sender[s].left \in SUBSET Ids /\ sender[s].last \in Position
          /\ Covered(stream, sender[s].last)
          /\ Prefix(stream, sender[s].last, sender[s].left)
      BY <1>7, <2>3 DEF SendRow, Progress, Knows, TypeOK
    <3>2. \A q, rest : q = Pos(stream, id) /\ rest = sender[s].left \ {id}
            => Covered(stream, q)' /\ Prefix(stream, q, rest)'
      BY <1>1, <2>1, <2>3, <3>1, RowSent
    <3>3. /\ sender'[s].left = sender[s].left \ {id}
          /\ sender'[s].last = Pos(stream, id)
          /\ sender'[s].at = "send"
      BY <1>7, <2>1, <2>3 DEF SendRow, TypeOK
    <3>4. QED
      <4>1. PICK q, rest : q = Pos(stream, id) /\ rest = sender[s].left \ {id}
        OBVIOUS
      <4>2. Covered(stream, q)' /\ Prefix(stream, q, rest)'
        BY <3>2, <4>1
      <4>3. sender'[s].last = q /\ sender'[s].left = rest /\ sender'[s].at = "send"
        BY <3>3, <4>1
      <4>4. QED
        BY <4>2, <4>3 DEF Knows, Covered, Prefix
  <2>4. QED
    BY <2>2, <2>3
<1>8. CASE UpdateCursor(s)
  <2>1. CASE sender[s].got < BatchSize
    BY <1>8, <2>1, NextStreamKnows DEF UpdateCursor
  <2>2. CASE ~(sender[s].got < BatchSize)
    <3>1. /\ sender'[s].at = "query" /\ sender'[s].last = sender[s].last
          /\ sender'[s].stream = sender[s].stream
      BY <1>8, <2>2 DEF UpdateCursor, Goto, TypeOK
    <3>2. sender[s].stream = stream => Covered(stream, sender[s].last)
      BY <1>8 DEF UpdateCursor, Progress, Knows
    <3>3. QED
      BY <1>2, <3>1, <3>2 DEF Knows, Covered
  <2>3. QED
    BY <2>1, <2>2
<1>9. CASE BatchCutShort(s)
  <2>1. CASE sender[s].got = 0
    BY <1>9, <2>1, NextStreamKnows DEF BatchCutShort
  <2>2. CASE sender[s].got # 0
    <3>1. /\ sender'[s].last = sender[s].last
          /\ sender'[s].left = {}
          /\ sender'[s].at = "send"
          /\ sender'[s].stream = sender[s].stream
      BY <1>9, <2>2 DEF BatchCutShort, TypeOK
    <3>2. sender[s].stream = stream => Covered(stream, sender[s].last)
      BY <1>9 DEF BatchCutShort, Progress, Knows
    <3>3. QED
      BY <1>2, <3>1, <3>2 DEF Knows, Covered, Prefix
  <2>3. QED
    BY <2>1, <2>2
<1>10. CASE SendFails(s)
  BY <1>10 DEF SendFails, Leave, Idle, Knows, TypeOK
<1>11. QED
  BY <1>3, <1>4, <1>5, <1>6, <1>7, <1>8, <1>9, <1>10 DEF SenderSteps, Send

\* The invariants about writers and senders that hold whatever their order.
LEMMA InitHelpers == Init => ClosedAreVisible /\ InStream
BY DEF Init, ClosedAreVisible, InStream, Idle

LEMMA NextHelpers ==
    ASSUME TypeOK, ClosedAreVisible, InStream, [Next]_vars
    PROVE  ClosedAreVisible' /\ InStream'
<1>1. ClosedAreVisible'
  <2>1. CASE Writers
    BY <2>1 DEF Writers, InsertLogin, InsertDdl, UpdateLogoff, ClosedAreVisible, TypeOK
  <2>2. CASE UNCHANGED tables
    BY <2>2 DEF tables, ClosedAreVisible
  <2>3. QED
    BY <2>1, <2>2, OneSenderMoves DEF Next, SenderSteps, vars
<1>2. InStream'
  <2>1. CASE UNCHANGED sender
    BY <2>1 DEF InStream, Origin
  <2>2. ASSUME NEW s \in Senders, SenderSteps(s) PROVE InStream'
    <3> DEFINE Fine(to) ==
                /\ to.at = "idle" => to.stream = "login" /\ to.last = Origin
                /\ to.at = "readTime" => to.stream = "logoff"
    <3>1. ASSUME NEW t \in Senders \ {s} PROVE Fine(sender'[t])
      BY <2>2, OneSenderMoves DEF InStream
    <3>2. Fine(sender'[s])
      <4>1. CASE NextStream(s)
        BY <4>1 DEF NextStream, Idle, Streams, TypeOK
      <4>2. CASE Leave(s)
        BY <4>2 DEF Leave, Idle, TypeOK
      <4>3. CASE sender'[s].at \notin {"idle", "readTime"}
        BY <4>3
      <4>4. SendStarts(s) \/ ReadTime(s) \/ ReadId(s) => sender'[s].at \notin {"idle", "readTime"}
        BY DEF SendStarts, ReadTime, ReadId, Goto, TypeOK
      <4>5. QueryBatch(s) \/ UpdateCursor(s) =>
              NextStream(s) \/ sender'[s].at \notin {"idle", "readTime"}
        BY DEF QueryBatch, UpdateCursor, Goto, TypeOK
      <4>6. SendRow(s) \/ BatchCutShort(s) =>
              NextStream(s) \/ sender'[s].at \notin {"idle", "readTime"}
        BY DEF SendRow, BatchCutShort, TypeOK
      <4>7. SendFails(s) => Leave(s)
        BY DEF SendFails
      <4>8. QED
        BY <2>2, <4>1, <4>2, <4>3, <4>4, <4>5, <4>6, <4>7 DEF SenderSteps, Send
    <3>3. QED
      BY <3>1, <3>2 DEF InStream
  <2>3. CASE Writers
    BY <2>1, <2>3 DEF Writers, InsertLogin, InsertDdl, UpdateLogoff
  <2>4. QED
    BY <2>1, <2>2, <2>3 DEF Next, SenderSteps, vars
<1>3. QED
  BY <1>1, <1>2

\* No step of a sender spoils what the senders of a stream know.
LEMMA SendingProgress ==
    ASSUME NEW stream \in Streams, TypeOK, TypeOK', InStream, Progress(stream),
           NEW s \in Senders, SenderSteps(s),
           stream = "logoff" => late \subseteq late' /\ ~TornRead
    PROVE  Progress(stream)'
<1>1. /\ \A p : Covered(stream, p) => Covered(stream, p)'
      /\ \A p, left : Prefix(stream, p, left) => Prefix(stream, p, left)'
  BY OneSenderMoves, SendingKeeps
<1>2. Covered(stream, cursor'[stream])
  <2>1. CASE cursor'[stream] = cursor[stream]
    BY <2>1 DEF Progress
  <2>2. CASE cursor'[stream] # cursor[stream]
    <3>1. /\ UpdateCursor(s) /\ stream = sender[s].stream
          /\ cursor'[stream] = sender[s].last
      BY <2>2, OneSenderMoves
    <3>2. QED
      BY <3>1 DEF UpdateCursor, Progress, Knows
  <2>3. QED
    BY <2>1, <2>2
<1>3. Covered(stream, cursor[stream])'
  BY <1>1, <1>2 DEF Covered
<1>4. ASSUME NEW t \in Senders, t # s PROVE Knows(stream, t)'
  <2>1. sender'[t] = sender[t]
    BY <1>4, OneSenderMoves
  <2>2. QED
    BY <1>1, <2>1 DEF Progress, Knows, Covered, Prefix
<1>5. Knows(stream, s)'
  BY StepKnows
<1>6. QED
  BY <1>3, <1>4, <1>5 DEF Progress

\* Nor does a writer, where rows appear in the order of their ids.
LEMMA NextProgress ==
    ASSUME NEW stream \in IdStreams, IdsInOrder, TypeOK, TypeOK', InStream, Progress(stream),
           [Next]_vars
    PROVE  Progress(stream)'
<1>1. ASSUME Appends(stream), UNCHANGED <<cursor, sender, sent>> PROVE Progress(stream)'
  <2>1. /\ \A p : Covered(stream, p) => Covered(stream, p)'
        /\ \A p, left : Prefix(stream, p, left) => Prefix(stream, p, left)'
    BY <1>1, AppendsKeep
  <2>2. QED
    BY <1>1, <2>1 DEF Progress, Knows, Covered, Prefix
<1>2. CASE Writers
  <2>1. UNCHANGED <<cursor, sender, sent>>
    BY <1>2 DEF Writers, InsertLogin, InsertDdl, UpdateLogoff
  <2>2. QED
    BY <1>1, <1>2, <2>1, WritersAppend
<1>3. stream \in Streams /\ stream # "logoff"
  BY DEF Streams, IdStreams
<1>4. CASE UNCHANGED vars
  BY <1>1, <1>3, <1>4, TablesStay DEF vars
<1>5. ASSUME NEW s \in Senders, SenderSteps(s) PROVE Progress(stream)'
  BY <1>3, <1>5, SendingProgress
<1>6. QED
  BY <1>2, <1>4, <1>5 DEF Next, SenderSteps

LEMMA InitProgress ==
    ASSUME NEW stream \in Streams, Init
    PROVE  Progress(stream)
BY DEF Init, Progress, Knows, Covered, Visible, Idle, Streams, Open

\* No login and no DDL is skipped, however many hosts forward, restart and
\* regress each other's cursors, as long as rows appear in the order of ids.
THEOREM NoIdIsSkipped ==
    ASSUME IdsInOrder
    PROVE  Spec => []NoIdSkipped
<1>1. "login" \in IdStreams /\ "ddl" \in IdStreams /\ IdStreams \subseteq Streams
  BY DEF IdStreams, Streams
<1> DEFINE Inv == ClosedAreVisible /\ InStream /\ Progress("login") /\ Progress("ddl")
<1>2. Init => Inv
  BY <1>1, InitHelpers, InitProgress
<1>3. TypeOK /\ TypeOK' /\ Inv /\ [Next]_vars => Inv'
  BY <1>1, NextHelpers, NextProgress
<1>4. Inv => NoIdSkipped
  BY DEF Progress, Covered, Excused, Skipped, NoIdSkipped
<1> HIDE DEF Inv
<1>5. QED
  BY <1>2, <1>3, <1>4, RsyslogTypeCorrect, PTL DEF Spec

-----------------------------------------------------------------------------
(* Only late logoffs are skipped.                                          *)

\* A session that closes ahead of all that was reached, or is late, leaves the
\* senders with what they know.
LEMMA ClosingProgress ==
    ASSUME TypeOK, TypeOK', ClosedAreVisible, Progress("logoff"), Writers,
           late' = late \cup ClosedLate
    PROVE  Progress("logoff")'
<1> DEFINE V == Visible("logoff")
           P(i) == Pos("logoff", i)
<1>1. UNCHANGED <<cursor, sender, sent>>
  BY DEF Writers, InsertLogin, InsertDdl, UpdateLogoff
<1>2. V \subseteq V' /\ \A i \in V : P(i)' = P(i)
  <2>1. \A i \in Ids : logoffTime[i] # Open => logoffTime'[i] = logoffTime[i]
    BY DEF Writers, InsertLogin, InsertDdl, UpdateLogoff, TypeOK
  <2>2. sessions \subseteq sessions'
    BY DEF Writers, InsertLogin, InsertDdl, UpdateLogoff
  <2>3. QED
    BY <2>1, <2>2 DEF Visible, Pos, TypeOK
<1>3. ASSUME NEW j \in V', j \notin V
      PROVE  \/ j \in late'
             \/ /\ Before(cursor["logoff"], P(j)')
                /\ \A s \in Senders : \A q \in Reached(s) : Before(q, P(j)')
  <2>1. j \in Ids /\ logoffTime'[j] # Open /\ P(j)' = <<logoffTime'[j], j>>
    BY <1>3 DEF Visible, Pos, TypeOK
  <2>2. logoffTime[j] = Open
    <3>1. CASE j \in sessions
      BY <1>3, <3>1 DEF Visible
    <3>2. CASE j \notin sessions
      BY <2>1, <3>2 DEF ClosedAreVisible
    <3>3. QED
      BY <3>1, <3>2
  <2>3. CASE Overtaken(<<logoffTime'[j], j>>)
    BY <2>1, <2>2, <2>3 DEF ClosedLate
  <2>4. CASE ~Overtaken(<<logoffTime'[j], j>>)
    BY <2>1, <2>4 DEF Overtaken
  <2>5. QED
    BY <2>3, <2>4
<1>4. ASSUME NEW p, Covered("logoff", p), NEW q, q = p,
             q = cursor["logoff"] \/ \E s \in Senders : q \in Reached(s)
      PROVE  Covered("logoff", p)'
  <2>1. ASSUME NEW i \in V'
        PROVE  <<"logoff", i>> \in sent' \/ Before(p, P(i)') \/ i \in late'
    <3>1. CASE i \in V
      BY <1>1, <1>2, <1>4, <3>1 DEF Covered, Excused
    <3>2. CASE i \notin V
      BY <1>3, <1>4, <3>2
    <3>3. QED
      BY <3>1, <3>2
  <2>2. QED
    BY <2>1 DEF Covered, Excused, IdStreams
<1>5. Covered("logoff", cursor["logoff"])'
  <2>1. PICK p : p = cursor["logoff"]
    OBVIOUS
  <2>2. Covered("logoff", p)'
    BY <1>4, <2>1 DEF Progress
  <2>3. QED
    BY <1>1, <2>1, <2>2 DEF Covered
<1>6. ASSUME NEW s \in Senders PROVE Knows("logoff", s)'
  <2>1. CASE sender[s].stream # "logoff" \/ sender[s].at \notin {"query", "send"}
    BY <1>1, <2>1 DEF Knows, IdStreams
  <2>2. CASE sender[s].stream = "logoff" /\ sender[s].at \in {"query", "send"}
    <3>1. PICK p, left : p = sender[s].last /\ left = sender[s].left
      OBVIOUS
    <3>2. p \in Reached(s) /\ \A i \in left : P(i) \in Reached(s)
      BY <2>2, <3>1 DEF Reached
    <3>3. Covered("logoff", p) /\ (sender[s].at = "send" => Prefix("logoff", p, left))
      BY <2>2, <3>1 DEF Progress, Knows
    <3>4. Covered("logoff", p)'
      BY <1>4, <3>2, <3>3
    <3>5. ASSUME sender[s].at = "send" PROVE Prefix("logoff", p, left)'
      <4>1. left \subseteq After("logoff", p)'
        BY <1>2, <3>3, <3>5 DEF Prefix, After
      <4>2. ASSUME NEW i \in left, NEW j \in After("logoff", p)'
            PROVE  j \in left \/ Before(P(i)', P(j)') \/ j \in late'
        <5>1. i \in V /\ P(i)' = P(i)
          BY <1>2, <3>3, <3>5 DEF Prefix, After
        <5>2. CASE j \in V
          <6>1. j \in After("logoff", p)
            BY <1>2, <4>2, <5>2 DEF After
          <6>2. QED
            BY <1>1, <1>2, <3>3, <3>5, <5>1, <5>2, <6>1 DEF Prefix, Excused
        <5>3. CASE j \notin V
          BY <1>3, <3>2, <4>2, <5>1, <5>3 DEF After
        <5>4. QED
          BY <5>2, <5>3
      <4>3. QED
        BY <4>1, <4>2 DEF Prefix, Excused
    <3>6. QED
      BY <1>1, <3>1, <3>4, <3>5 DEF Knows, Covered, Prefix, IdStreams
  <2>3. QED
    BY <2>1, <2>2
<1>7. QED
  BY <1>5, <1>6 DEF Progress

\* What the senders of logoffs know holds until a cursor was read torn.
LogoffInv ==
    /\ ClosedAreVisible
    /\ InStream
    /\ torn \/ Progress("logoff")

LEMMA LogoffStep == TypeOK /\ TypeOK' /\ LogoffInv /\ [HistoryNext]_allVars => LogoffInv'
<1> SUFFICES ASSUME TypeOK, TypeOK', LogoffInv, [HistoryNext]_allVars PROVE LogoffInv'
  OBVIOUS
<1>1. [Next]_vars
  BY DEF HistoryNext, allVars
<1>2. ClosedAreVisible' /\ InStream'
  BY <1>1, NextHelpers DEF LogoffInv
<1>3. ASSUME ~torn' PROVE Progress("logoff")'
  <2>1. CASE UNCHANGED allVars
    <3>1. UNCHANGED vars /\ UNCHANGED <<late, torn>>
      BY <2>1 DEF allVars, history
    <3>2. QED
      BY <1>3, <3>1 DEF LogoffInv, Progress, Knows, Covered, Prefix, Excused, After, Visible, Pos,
                        vars, tables
  <2>2. CASE HistoryNext
    <3>1. late' = late \cup ClosedLate /\ ~torn /\ ~TornRead
      BY <1>3, <2>2 DEF HistoryNext, Remember
    <3>2. Progress("logoff") /\ "logoff" \in Streams
      BY <3>1 DEF LogoffInv, Streams
    <3>3. CASE Writers
      BY <3>1, <3>2, <3>3, ClosingProgress DEF LogoffInv
    <3>4. ASSUME NEW s \in Senders, SenderSteps(s) PROVE Progress("logoff")'
      BY <3>1, <3>2, <3>4, SendingProgress DEF LogoffInv
    <3>5. QED
      BY <2>2, <3>3, <3>4 DEF HistoryNext, Next, SenderSteps
  <2>3. QED
    BY <2>1, <2>2
<1>4. QED
  BY <1>2, <1>3 DEF LogoffInv

\* With any number of senders, in whatever order sessions are closed and over
\* all failures, a skipped logoff was closed behind what the senders had reached,
\* unless one of them read the time and the id of two different cursors.
THEOREM OnlyLateIsSkipped == HistorySpec => []OnlyLateSkipped
<1>1. HistoryInit => LogoffInv
  BY InitHelpers, InitProgress DEF HistoryInit, LogoffInv, Streams
<1>2. LogoffInv => OnlyLateSkipped
  BY DEF LogoffInv, OnlyLateSkipped, Progress, Covered, Excused, Skipped
<1>3. HistoryTypeOK => TypeOK
  BY DEF HistoryTypeOK
<1>4. QED
  BY <1>1, <1>2, <1>3, LogoffStep, HistoryTypeCorrect, PTL DEF HistorySpec

\* A sender that is alone reads the time and the id of one cursor.
ReadsOneCursor ==
    \A s \in Senders :
        sender[s].at = "readId" /\ sender[s].stream = "logoff"
            => sender[s].last[1] = cursor["logoff"][1]

\* A host that forwards alone skips only logoffs that came late.
THEOREM AloneOnlyLateIsSkipped ==
    ASSUME \A s, t \in Senders : s = t
    PROVE  HistorySpec => [](Skipped("logoff") \subseteq late)
<1> DEFINE Inv == InStream /\ ReadsOneCursor /\ ~torn
<1>1. HistoryInit => Inv
  BY InitHelpers DEF HistoryInit, Init, ReadsOneCursor, Idle
<1>2. ASSUME TypeOK, TypeOK', ClosedAreVisible, Inv, [HistoryNext]_allVars PROVE Inv'
  <2>1. InStream'
    BY <1>2, NextHelpers DEF HistoryNext, allVars
  <2>2. CASE UNCHANGED allVars
    BY <1>2, <2>1, <2>2 DEF ReadsOneCursor, allVars, history, vars
  <2>3. CASE HistoryNext
    <3>1. ~TornRead
      <4>1. SUFFICES ASSUME NEW s \in Senders, ReadId(s), sender[s].stream = "logoff",
                            cursor["logoff"][1] < sender[s].last[1]
                     PROVE  FALSE
        BY DEF TornRead
      <4>2. sender[s].last[1] = cursor["logoff"][1]
        BY <1>2, <4>1 DEF ReadsOneCursor, ReadId
      <4>3. cursor["logoff"][1] \in Int
        BY <1>2 DEF TypeOK, Position, Streams
      <4>4. QED
        BY <4>1, <4>2, <4>3
    <3>2. ASSUME Writers PROVE ReadsOneCursor'
      <4>1. UNCHANGED <<cursor, sender>>
        BY <3>2 DEF Writers, InsertLogin, InsertDdl, UpdateLogoff
      <4>2. QED
        BY <1>2, <4>1 DEF ReadsOneCursor
    <3>3. ASSUME NEW s \in Senders, SenderSteps(s) PROVE ReadsOneCursor'
      <4>1. SUFFICES ASSUME sender'[s].at = "readId", sender'[s].stream = "logoff"
                     PROVE  sender'[s].last[1] = cursor'["logoff"][1]
        BY DEF ReadsOneCursor
      <4>2. CASE ReadTime(s)
        BY <1>2, <4>2 DEF ReadTime, TypeOK, Streams
      <4>3. CASE SendStarts(s)
        BY <1>2, <4>1, <4>3 DEF SendStarts, Goto, InStream, TypeOK
      <4>4. CASE NextStream(s)
        BY <1>2, <4>1, <4>4 DEF NextStream, Idle, Streams, TypeOK
      <4>5. CASE Leave(s)
        BY <1>2, <4>1, <4>5 DEF Leave, Idle, TypeOK
      <4>6. /\ ReadId(s) => sender'[s].at # "readId"
            /\ SendRow(s) => sender'[s].at # "readId"
        <5>1. ReadId(s) => sender'[s].at # "readId"
          BY <1>2 DEF ReadId, TypeOK
        <5>2. SendRow(s) => sender'[s].at # "readId"
          BY <1>2 DEF SendRow, TypeOK
        <5>3. QED
          BY <5>1, <5>2
      <4>7. QueryBatch(s) \/ UpdateCursor(s) => NextStream(s) \/ sender'[s].at # "readId"
        BY <1>2 DEF QueryBatch, UpdateCursor, Goto, TypeOK
      <4>8. BatchCutShort(s) => NextStream(s) \/ sender'[s].at # "readId"
        BY <1>2 DEF BatchCutShort, TypeOK
      <4>9. QED
        BY <3>3, <4>1, <4>2, <4>3, <4>4, <4>5, <4>6, <4>7, <4>8 DEF SenderSteps, Send, SendFails
    <3>4. ReadsOneCursor'
      BY <2>3, <3>2, <3>3 DEF HistoryNext, Next, SenderSteps
    <3>5. QED
      BY <1>2, <2>1, <2>3, <3>1, <3>4 DEF HistoryNext, Remember
  <2>4. QED
    BY <1>2, <2>2, <2>3
<1>3. TypeOK /\ TypeOK' /\ LogoffInv /\ Inv /\ [HistoryNext]_allVars => Inv'
  BY <1>2 DEF LogoffInv
<1>4. HistoryInit => LogoffInv
  BY InitHelpers, InitProgress DEF HistoryInit, LogoffInv, Streams
<1>5. Inv /\ OnlyLateSkipped => Skipped("logoff") \subseteq late
  BY DEF OnlyLateSkipped
<1>6. HistoryTypeOK => TypeOK
  BY DEF HistoryTypeOK
<1> HIDE DEF Inv
<1>7. QED
  BY <1>1, <1>3, <1>4, <1>5, <1>6, LogoffStep, OnlyLateIsSkipped, HistoryTypeCorrect, PTL
     DEF HistorySpec

-----------------------------------------------------------------------------
(* At most one batch is sent beyond the furthest position of a cursor.     *)

\* Only rows of the stream are sent; those beyond the furthest position of the
\* cursor, and those a sender is about to send, are all within one batch of it.
Ahead(stream) ==
    {i \in Visible(stream) : <<stream, i>> \in sent /\ Before(furthest[stream], Pos(stream, i))}

Within(stream, s) ==
    sender[s].stream = stream =>
        /\ sender[s].at = "query" => ~Before(furthest[stream], sender[s].last)
        /\ sender[s].at = "send" =>
            \A i \in sender[s].left :
                /\ i \in Visible(stream)
                /\ Before(furthest[stream], Pos(stream, i)) => i \in Batch(stream, furthest[stream])

OneBatch(stream) ==
    /\ \A i \in Ids : <<stream, i>> \in sent => i \in Visible(stream)
    /\ ~Before(furthest[stream], cursor[stream])
    /\ Ahead(stream) \subseteq Batch(stream, furthest[stream])
    /\ \A s \in Senders : Within(stream, s)

\* A batch read later holds the rows of one read earlier.
LEMMA BatchGrows ==
    ASSUME TypeOK, TypeOK', NEW stream \in Streams, Appends(stream)
    PROVE  \A p \in Position : \A i \in Batch(stream, p) : i \in Batch(stream, p)'
<1> SUFFICES ASSUME NEW p \in Position, NEW i \in Batch(stream, p)
             PROVE  i \in Batch(stream, p)'
  OBVIOUS
<1>1. i \in After(stream, p) /\ i \in Visible(stream) /\ Cardinality(Earlier(stream, p, i)) < BatchSize
  BY DEF Batch, After
<1>2. i \in After(stream, p)'
  BY <1>1 DEF Appends, After, Visible, Pos
<1>3. Earlier(stream, p, i)' = Earlier(stream, p, i)
  <2>1. ASSUME NEW j \in Visible(stream)' \ Visible(stream)
        PROVE  ~Before(Pos(stream, j)', Pos(stream, i)')
    <3>1. Before(Pos(stream, i), Pos(stream, j)') /\ Pos(stream, i)' = Pos(stream, i)
      BY <1>1, <2>1 DEF Appends
    <3>2. i \in Ids /\ j \in Ids
      BY <1>1, <2>1 DEF TypeOK, Visible, Streams
    <3>3. Pos(stream, i) \in Position /\ Pos(stream, j)' \in Position
      <4>1. logoffTime[i] \in 0..MaxTime /\ logoffTime'[j] \in 0..MaxTime /\ 0 \in 0..MaxTime
        BY <3>2, RsyslogAssumption DEF TypeOK, Open
      <4>2. i \in 0..MaxId /\ j \in 0..MaxId
        BY <3>2, RsyslogAssumption DEF Ids
      <4>3. QED
        BY <4>1, <4>2 DEF Pos, Position
    <3>4. QED
      BY <3>1, <3>3, BeforeIsOrder
  <2>2. QED
    BY <1>1, <2>1 DEF Appends, Earlier, After, Visible, Pos
<1>4. QED
  BY <1>1, <1>2, <1>3 DEF Batch

\* A row of a batch is in the next batch too, unless the cursor passes it.
LEMMA BatchShifts ==
    ASSUME TypeOK, NEW stream \in Streams, NEW p \in Position, NEW q \in Position,
           ~Before(q, p), NEW i \in Batch(stream, p), i \in After(stream, q)
    PROVE  i \in Batch(stream, q)
<1>1. i \in After(stream, p) /\ Cardinality(Earlier(stream, p, i)) < BatchSize
  BY DEF Batch
<1>2. After(stream, q) \subseteq After(stream, p)
  BY RowPos, BeforeIsOrder DEF After
<1>3. After(stream, p) \in SUBSET Ids
  BY RowPos DEF After
<1>4. Earlier(stream, q, i) \subseteq Earlier(stream, p, i)
  BY <1>2 DEF Earlier
<1>5. Earlier(stream, p, i) \in SUBSET Ids /\ Earlier(stream, q, i) \in SUBSET Ids
  BY <1>2, <1>3 DEF Earlier
<1>6. IsFiniteSet(Earlier(stream, p, i))
      /\ Cardinality(Earlier(stream, p, i)) \in Nat /\ Cardinality(Earlier(stream, q, i)) \in Nat
  BY <1>5, IdsFinite
<1>7. Cardinality(Earlier(stream, q, i)) <= Cardinality(Earlier(stream, p, i))
  BY <1>4, <1>6, FS_Subset
<1>8. QED
  BY <1>1, <1>6, <1>7, RsyslogAssumption DEF Batch

\* What a writer appends spoils nothing, where rows appear in the order of ids.
LEMMA AppendsOneBatch ==
    ASSUME HistoryTypeOK, HistoryTypeOK', NEW stream \in IdStreams, OneBatch(stream),
           Appends(stream), UNCHANGED <<cursor, sender, sent>>, furthest'[stream] = furthest[stream]
    PROVE  OneBatch(stream)'
<1>1. TypeOK /\ TypeOK' /\ stream \in Streams
  BY DEF HistoryTypeOK, IdStreams, Streams
<1>2. PICK f : f = furthest[stream] /\ f \in Position
  BY DEF HistoryTypeOK
<1>3. \A i \in Batch(stream, f) : i \in Batch(stream, f)'
  BY <1>1, <1>2, BatchGrows
<1>4. Batch(stream, f)' = Batch(stream, furthest[stream])'
  BY <1>2 DEF Batch, Earlier, After
<1>5. \A i \in Visible(stream) : i \in Visible(stream)' /\ Pos(stream, i)' = Pos(stream, i)
  BY DEF Appends
<1>6. \A i \in Ids : <<stream, i>> \in sent' => i \in Visible(stream)
  BY DEF OneBatch
<1>7. Visible(stream)' \subseteq Ids
  BY <1>1 DEF Visible, TypeOK, IdStreams
<1>8. Ahead(stream)' \subseteq Ahead(stream)
  BY <1>5, <1>6, <1>7 DEF Ahead
<1>9. ASSUME NEW s \in Senders PROVE Within(stream, s)'
  BY <1>2, <1>3, <1>4, <1>5 DEF OneBatch, Within
<1>10. QED
  BY <1>2, <1>3, <1>4, <1>5, <1>6, <1>8, <1>9 DEF OneBatch

\* The furthest position moves with the cursor that passes it, and only then.
LEMMA FurthestMoves ==
    ASSUME HistoryTypeOK, HistoryTypeOK', NEW stream \in IdStreams, Remember,
           ~Before(furthest[stream], cursor[stream])
    PROVE  /\ ~Before(furthest'[stream], furthest[stream])
           /\ ~Before(furthest'[stream], cursor'[stream])
<1>1. furthest[stream] \in Position /\ cursor'[stream] \in Position
  BY DEF HistoryTypeOK, TypeOK, IdStreams, Streams
<1>2. furthest'[stream] = IF Before(furthest[stream], cursor'[stream])
                          THEN cursor'[stream] ELSE furthest[stream]
  BY DEF Remember
<1>3. QED
  BY <1>1, <1>2, BeforeIsOrder

\* A step of a sender, seen from the position that was furthest before it.
LEMMA SendingOneBatch ==
    ASSUME HistoryTypeOK, HistoryTypeOK', InStream, NEW stream \in IdStreams, Progress(stream),
           OneBatch(stream), NEW s \in Senders, SenderSteps(s), Remember
    PROVE  OneBatch(stream)'
<1>1. TypeOK /\ TypeOK' /\ stream \in Streams
  BY DEF HistoryTypeOK, IdStreams, Streams
<1>2. PICK f, g : /\ f = furthest[stream] /\ f \in Position
                  /\ g = furthest'[stream] /\ g \in Position
  BY DEF HistoryTypeOK
<1>3. ~Before(g, f) /\ ~Before(g, cursor'[stream])
  BY <1>2, FurthestMoves DEF OneBatch
<1>4. /\ Visible(stream)' = Visible(stream) /\ Visible(stream) \subseteq Ids
      /\ \A i \in Ids : Pos(stream, i)' = Pos(stream, i) /\ Pos(stream, i) \in Position
      /\ \A p \in Position : Batch(stream, p)' = Batch(stream, p)
  <2>1. /\ Visible(stream)' = Visible(stream) /\ Visible(stream) \subseteq Ids
        /\ \A i \in Ids : Pos(stream, i)' = Pos(stream, i) /\ Pos(stream, i) \in Position
    <3>1. UNCHANGED tables
      BY <1>1, OneSenderMoves
    <3>2. QED
      BY <1>1, <3>1, RowPos DEF Visible, Pos, tables
  <2>2. ASSUME NEW p \in Position PROVE Batch(stream, p)' = Batch(stream, p)
    <3>1. After(stream, p)' = After(stream, p) /\ After(stream, p) \subseteq Ids
      BY <2>1 DEF After
    <3>2. \A i \in Ids : Earlier(stream, p, i)' = Earlier(stream, p, i)
      BY <2>1, <3>1 DEF Earlier
    <3>3. QED
      BY <3>1, <3>2 DEF Batch
  <2>3. QED
    BY <2>1, <2>2
<1>5. Batch(stream, g)' = Batch(stream, furthest[stream])'
  BY <1>2 DEF Batch, Earlier, After
\* What is within a batch of the old position is within one of the new.
<1>6. ASSUME NEW i \in Batch(stream, f), Before(g, Pos(stream, i))
      PROVE  i \in Batch(stream, furthest[stream])'
  <2>1. i \in After(stream, g)
    BY <1>6 DEF Batch, After
  <2>2. i \in Batch(stream, g)
    BY <1>1, <1>2, <1>3, <1>6, <2>1, BatchShifts
  <2>3. QED
    BY <1>2, <1>4, <1>5, <2>2
<1>7. ASSUME NEW i \in Ids, Before(g, Pos(stream, i)) PROVE Before(f, Pos(stream, i))
  BY <1>2, <1>3, <1>4, <1>7, BeforeIsOrder
<1>8. ASSUME NEW i \in Ids, <<stream, i>> \in sent', <<stream, i>> \notin sent
      PROVE  i \in Visible(stream) /\ (Before(f, Pos(stream, i)) => i \in Batch(stream, f))
  <2>1. SendRow(s)
    BY <1>8 DEF SenderSteps, Send, SendStarts, ReadTime, ReadId, QueryBatch,
                UpdateCursor, BatchCutShort, SendFails
  <2>2. sender[s].at = "send" /\ sender[s].stream = stream /\ i \in sender[s].left
    BY <1>8, <2>1 DEF SendRow
  <2>3. QED
    BY <1>2, <2>2 DEF OneBatch, Within
<1>9. \A i \in Ids : <<stream, i>> \in sent' => i \in Visible(stream)'
  BY <1>4, <1>8 DEF OneBatch
<1>10. ASSUME NEW i \in Ahead(stream)' PROVE i \in Batch(stream, furthest[stream])'
  <2>1. i \in Visible(stream) /\ i \in Ids /\ <<stream, i>> \in sent' /\ Before(g, Pos(stream, i))
    BY <1>2, <1>4, <1>10 DEF Ahead
  <2>2. Before(f, Pos(stream, i))
    BY <1>7, <2>1
  <2>3. i \in Batch(stream, f)
    BY <1>2, <1>8, <2>1, <2>2 DEF OneBatch, Ahead
  <2>4. QED
    BY <1>6, <2>1, <2>3
\* What a sender had in mind, it still may.
<1>11. ASSUME NEW t \in Senders, sender'[t].stream = stream,
              sender[t].stream = stream,
              sender'[t].at = "query" => sender[t].at = "query" /\ sender'[t].last = sender[t].last,
              sender'[t].at = "send" => sender[t].at = "send" /\ sender'[t].left \subseteq sender[t].left
       PROVE  Within(stream, t)'
  <2>1. CASE sender'[t].at = "query"
    <3>1. sender[t].last \in Position /\ ~Before(f, sender[t].last)
      BY <1>1, <1>2, <1>11, <2>1 DEF OneBatch, Within, TypeOK
    <3>2. ~Before(g, sender[t].last)
      BY <1>2, <1>3, <3>1, BeforeIsOrder
    <3>3. QED
      BY <1>2, <1>11, <2>1, <3>2 DEF Within
  <2>2. CASE sender'[t].at = "send"
    <3>1. ASSUME NEW i \in sender'[t].left
          PROVE  /\ i \in Visible(stream)'
                 /\ Before(g, Pos(stream, i)') => i \in Batch(stream, furthest[stream])'
      <4>1. i \in Visible(stream) /\ (Before(f, Pos(stream, i)) => i \in Batch(stream, f))
        BY <1>2, <1>11, <2>2, <3>1 DEF OneBatch, Within
      <4>2. QED
        BY <1>4, <1>6, <1>7, <4>1
    <3>2. QED
      BY <1>2, <1>11, <2>2, <3>1 DEF Within
  <2>3. QED
    BY <1>11, <2>1, <2>2 DEF Within
<1>12. ASSUME NEW t \in Senders, t # s PROVE Within(stream, t)'
  <2>1. sender'[t] = sender[t]
    BY <1>1, <1>12, OneSenderMoves
  <2>2. QED
    BY <1>11, <2>1 DEF Within
<1>13. Within(stream, s)'
  <2>1. CASE sender'[s].stream # stream \/ sender'[s].at \notin {"query", "send"}
    BY <2>1 DEF Within
  <2>2. CASE NextStream(s) \/ Leave(s)
    <3>1. sender'[s].at \in {"readTime", "readId", "idle"}
      <4>1. CASE Leave(s)
        BY <1>1, <4>1 DEF Leave, Idle, TypeOK
      <4>2. CASE NextStream(s) /\ sender[s].stream = "login"
        BY <1>1, <4>2 DEF NextStream, Idle, TypeOK
      <4>3. CASE NextStream(s) /\ sender[s].stream = "logoff"
        BY <1>1, <4>3 DEF NextStream, Idle, TypeOK
      <4>4. CASE NextStream(s) /\ sender[s].stream = "ddl"
        BY <1>1, <4>4 DEF NextStream, Idle, TypeOK
      <4>5. QED
        BY <1>1, <2>2, <4>1, <4>2, <4>3, <4>4 DEF Streams, TypeOK
    <3>2. QED
      BY <2>1, <3>1
  <2>3. CASE SendStarts(s) \/ ReadTime(s)
    <3>1. sender'[s].at = "readId"
      BY <1>1, <2>3 DEF SendStarts, ReadTime, Goto, TypeOK
    <3>2. QED
      BY <2>1, <3>1
  <2>4. CASE ReadId(s) /\ sender[s].stream = stream
    <3>1. sender[s].last[1] = 0 /\ cursor[stream][1] = 0
      BY <2>4, TimeIsZero DEF ReadId, Progress, Knows
    <3>2. sender'[s].last = <<sender[s].last[1], cursor[stream][2]>> /\ cursor' = cursor
          /\ sender'[s].at = "query"
      BY <1>1, <2>4 DEF ReadId, TypeOK
    <3>3. cursor[stream] = <<cursor[stream][1], cursor[stream][2]>>
      BY <1>1 DEF TypeOK, Position
    <3>4. QED
      BY <1>2, <1>3, <3>1, <3>2, <3>3 DEF Within
  <2>5. CASE QueryBatch(s) /\ sender[s].stream = stream
    <3> DEFINE batch == Batch(stream, sender[s].last)
    <3>1. CASE batch = {}
      BY <2>2, <2>5, <3>1 DEF QueryBatch
    <3>2. CASE batch # {}
      <4>1. sender'[s].left = batch /\ sender'[s].at = "send"
        BY <1>1, <2>5, <3>2 DEF QueryBatch, TypeOK
      <4>2. sender[s].last \in Position /\ ~Before(f, sender[s].last)
        BY <1>1, <1>2, <2>5 DEF OneBatch, Within, QueryBatch, TypeOK
      <4>3. ASSUME NEW i \in batch
            PROVE  /\ i \in Visible(stream)'
                   /\ Before(g, Pos(stream, i)') => i \in Batch(stream, furthest[stream])'
        <5>1. i \in Visible(stream) /\ i \in Ids
          BY <1>4 DEF Batch, After
        <5>2. ASSUME Before(f, Pos(stream, i)) PROVE i \in Batch(stream, f)
          <6>1. i \in After(stream, f)
            BY <5>1, <5>2 DEF After
          <6>2. QED
            BY <1>1, <1>2, <4>2, <6>1, BatchShifts
        <5>3. QED
          BY <1>4, <1>6, <1>7, <5>1, <5>2
      <4> HIDE DEF batch
      <4>4. QED
        BY <1>2, <4>1, <4>3 DEF Within
    <3>3. QED
      BY <3>1, <3>2
  <2>6. CASE SendRow(s) /\ sender[s].stream = stream
    <3>1. sender'[s].at = "send" /\ sender'[s].left \subseteq sender[s].left /\ sender[s].at = "send"
          /\ sender'[s].stream = stream
      BY <1>1, <2>6 DEF SendRow, TypeOK
    <3>2. QED
      BY <1>11, <2>6, <3>1
  <2>7. CASE UpdateCursor(s) /\ sender[s].stream = stream
    <3>1. CASE sender[s].got < BatchSize
      BY <2>2, <2>7, <3>1 DEF UpdateCursor
    <3>2. CASE ~(sender[s].got < BatchSize)
      <4>1. sender'[s].at = "query" /\ sender'[s].last = cursor'[stream]
        BY <1>1, <2>7, <3>2 DEF UpdateCursor, Goto, TypeOK
      <4>2. QED
        BY <1>2, <1>3, <4>1 DEF Within
    <3>3. QED
      BY <3>1, <3>2
  <2>8. CASE BatchCutShort(s) /\ sender[s].stream = stream
    <3>1. CASE sender[s].got = 0
      BY <2>2, <2>8, <3>1 DEF BatchCutShort
    <3>2. CASE sender[s].got # 0
      <4>1. sender'[s].at = "send" /\ sender'[s].left = {} /\ sender[s].at = "send"
            /\ sender'[s].stream = stream
        BY <1>1, <2>8, <3>2 DEF BatchCutShort, TypeOK
      <4>2. QED
        BY <4>1 DEF Within
    <3>3. QED
      BY <3>1, <3>2
  <2>9. CASE SendFails(s)
    BY <2>2, <2>9 DEF SendFails
  <2>10. CASE sender[s].stream # stream
    <3>1. /\ ReadId(s) => sender'[s].stream = sender[s].stream
          /\ SendRow(s) => sender'[s].stream = sender[s].stream
      <4>1. ReadId(s) => sender'[s].stream = sender[s].stream
        BY <1>1 DEF ReadId, TypeOK
      <4>2. SendRow(s) => sender'[s].stream = sender[s].stream
        BY <1>1 DEF SendRow, TypeOK
      <4>3. QED
        BY <4>1, <4>2
    <3>2. QueryBatch(s) \/ UpdateCursor(s) => NextStream(s) \/ sender'[s].stream = sender[s].stream
      BY <1>1 DEF QueryBatch, UpdateCursor, Goto, TypeOK
    <3>3. BatchCutShort(s) => NextStream(s) \/ sender'[s].stream = sender[s].stream
      BY <1>1 DEF BatchCutShort, TypeOK
    <3>4. QED
      BY <2>1, <2>2, <2>3, <2>9, <2>10, <3>1, <3>2, <3>3 DEF SenderSteps, Send
  <2>11. QED
    BY <2>3, <2>4, <2>5, <2>6, <2>7, <2>8, <2>9, <2>10 DEF SenderSteps, Send
<1>14. ~Before(furthest[stream], cursor[stream])'
  BY <1>2, <1>3
<1>15. QED
  BY <1>9, <1>10, <1>12, <1>13, <1>14 DEF OneBatch

LEMMA NextOneBatch ==
    ASSUME IdsInOrder, NEW stream \in IdStreams, HistoryTypeOK, HistoryTypeOK', InStream,
           Progress(stream), OneBatch(stream), [HistoryNext]_allVars
    PROVE  OneBatch(stream)'
<1>1. TypeOK /\ stream \in Streams
  BY DEF HistoryTypeOK, IdStreams, Streams
<1>2. CASE HistoryNext /\ Writers
  <2>1. UNCHANGED <<cursor, sender, sent>>
    BY <1>2 DEF Writers, InsertLogin, InsertDdl, UpdateLogoff
  <2>2. furthest'[stream] = furthest[stream]
    BY <1>2, <2>1 DEF HistoryNext, Remember, OneBatch
  <2>3. Appends(stream)
    BY <1>1, <1>2, WritersAppend
  <2>4. QED
    BY <2>1, <2>2, <2>3, AppendsOneBatch
<1>3. CASE UNCHANGED allVars
  <2>1. UNCHANGED <<tables, cursor, sender, sent>> /\ furthest'[stream] = furthest[stream]
    BY <1>3 DEF allVars, vars, history
  <2>2. QED
    BY <1>1, <2>1, TablesStay, AppendsOneBatch
<1>4. ASSUME HistoryNext, NEW s \in Senders, SenderSteps(s) PROVE OneBatch(stream)'
  BY <1>4, SendingOneBatch DEF HistoryNext
<1>5. QED
  BY <1>2, <1>3, <1>4 DEF HistoryNext, Next, SenderSteps

LEMMA InitOneBatch ==
    ASSUME NEW stream \in IdStreams, HistoryInit
    PROVE  OneBatch(stream)
<1>1. ~Before(Origin, Origin)
  BY DEF Before, Origin
<1>2. QED
  BY <1>1 DEF HistoryInit, Init, OneBatch, Within, Ahead, Idle, IdStreams, Streams

\* However many hosts forward, crash and set the cursors back, no more than one
\* batch of logins and one of DDL was ever sent beyond the furthest position of
\* the cursor, as long as rows appear in the order of their ids.
THEOREM OneBatchIsAhead ==
    ASSUME IdsInOrder
    PROVE  HistorySpec => []OneBatchAhead
<1> DEFINE Inv == /\ ClosedAreVisible /\ InStream
                  /\ \A stream \in IdStreams : Progress(stream) /\ OneBatch(stream)
<1>1. IdStreams \subseteq Streams
  BY DEF IdStreams, Streams
<1>2. HistoryInit => Inv
  BY <1>1, InitHelpers, InitProgress, InitOneBatch DEF HistoryInit
<1>3. ASSUME HistoryTypeOK, HistoryTypeOK', Inv, [HistoryNext]_allVars PROVE Inv'
  <2>1. TypeOK /\ TypeOK' /\ [Next]_vars
    BY <1>3 DEF HistoryTypeOK, HistoryNext, allVars
  <2>2. ClosedAreVisible' /\ InStream'
    BY <1>3, <2>1, NextHelpers
  <2>3. \A stream \in IdStreams : Progress(stream)'
    BY <1>3, <2>1, NextProgress
  <2>4. \A stream \in IdStreams : OneBatch(stream)'
    BY <1>3, NextOneBatch
  <2>5. QED
    BY <2>2, <2>3, <2>4
<1>4. ASSUME HistoryTypeOK, Inv PROVE OneBatchAhead
  <2>1. ASSUME NEW stream \in IdStreams PROVE Cardinality(Ahead(stream)) <= BatchSize
    <3>1. /\ Batch(stream, furthest[stream]) \in SUBSET Ids
          /\ Cardinality(Batch(stream, furthest[stream])) <= BatchSize
      BY <1>1, <1>4, BatchSmall DEF HistoryTypeOK
    <3>2. Ahead(stream) \subseteq Batch(stream, furthest[stream])
      BY <1>4 DEF OneBatch
    <3>3. /\ IsFiniteSet(Batch(stream, furthest[stream]))
          /\ Cardinality(Batch(stream, furthest[stream])) \in Nat
      BY <3>1, IdsFinite
    <3>4. Ahead(stream) \in SUBSET Ids
      BY <3>1, <3>2
    <3>5. Cardinality(Ahead(stream)) \in Nat
      BY <3>4, IdsFinite
    <3>6. Cardinality(Ahead(stream)) <= Cardinality(Batch(stream, furthest[stream]))
      BY <3>2, <3>3, FS_Subset
    <3>7. QED
      BY <3>1, <3>3, <3>5, <3>6, RsyslogAssumption
  <2>2. QED
    BY <2>1 DEF OneBatchAhead, Ahead
<1>5. HistoryTypeOK /\ HistoryTypeOK' /\ Inv /\ [HistoryNext]_allVars => Inv'
  BY <1>3
<1>6. HistoryTypeOK /\ Inv => OneBatchAhead
  BY <1>4
<1> HIDE DEF Inv
<1>7. QED
  BY <1>2, <1>5, <1>6, HistoryTypeCorrect, PTL DEF HistorySpec
=============================================================================
