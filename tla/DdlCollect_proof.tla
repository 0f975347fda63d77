-------------------------- MODULE DdlCollect_proof --------------------------
(***************************************************************************)
(* Proofs about DdlCollect, for any number of collectors, units, hosts and *)
(* request ids and any bounds.                                             *)
(***************************************************************************)
EXTENDS DdlCollect, TLAPS

\* Resetting or finishing a collector's local state keeps its type.
LEMMA NoWindowType == NoWindow \in Window /\ NoCheckpoints \in [Units -> Cursor]
<1>1. (CHOOSE u \in Units : TRUE) \in Units
  BY UnitsAssumption
<1> QED
  BY <1>1 DEF NoWindow, NoCheckpoints, Window, Cursor

\* The initial state is well typed.
LEMMA InitTypeOK == Init => TypeOK
  BY NoWindowType, BoundsAssumption
  DEF Init, TypeOK, Cursor, Ends, NoCheckpoints

\* Every variable keeps its type in every step.
LEMMA NextTypeOK == TypeOK /\ [Next]_vars => TypeOK'
<1> SUFFICES ASSUME TypeOK, [Next]_vars PROVE TypeOK'
  OBVIOUS
<1> USE DEF TypeOK
<1>1. ASSUME NEW u \in Units, NEW id \in RequestIds, NEW end \in 1..MaxEnd,
             NEW ddl \in BOOLEAN, Finish(u, id, end, ddl)
      PROVE TypeOK'
  <2>1. [unit |-> u, id |-> id, end |-> end, ddl |-> ddl] \in Row /\ end \in Ends
    BY BoundsAssumption DEF Row, Ends
  <2> QED
    BY <1>1, <2>1 DEF Finish, tables, locals
<1>2. ASSUME NEW r \in sqlAudit, Evict(r) PROVE TypeOK'
  BY <1>2 DEF Evict, tables, locals
<1>3. ASSUME NEW h \in Hosts, ObserverRestart(h) PROVE TypeOK'
  <2>1. restarts' \in 0..MaxRestarts
    BY <1>3, BoundsAssumption DEF ObserverRestart
  <2>2. sqlAudit' \subseteq sqlAudit /\ issued' \subseteq issued
    BY <1>3 DEF ObserverRestart
  <2> QED
    BY <1>3, <2>1, <2>2 DEF ObserverRestart, tables, locals
<1>4. ASSUME NEW u \in Units, UnitFlap(u) PROVE TypeOK'
  <2>1. flaps' \in 0..MaxFlaps
    BY <1>4, BoundsAssumption DEF UnitFlap
  <2> QED
    BY <1>4, <2>1 DEF UnitFlap, tables, locals
<1> USE DEF envVars, tables
<1>5. ASSUME Fault PROVE faults' \in 0..MaxFaults
  BY <1>5, BoundsAssumption DEF Fault
<1>6. ASSUME NEW c \in Collectors, Leave(c)
      PROVE /\ pc' \in [Collectors -> {"idle", "ghosts", "load", "units", "insert", "update", "purge"}]
            /\ ghosts' \in [Collectors -> SUBSET Units]
            /\ loaded' \in [Collectors -> [Units -> Cursor]]
            /\ window' \in [Collectors -> Window]
  BY <1>6, NoWindowType DEF Leave
<1>7. ASSUME NEW c \in Collectors, NextUnit(c)
      PROVE /\ pc' \in [Collectors -> {"idle", "ghosts", "load", "units", "insert", "update", "purge"}]
            /\ loaded' \in [Collectors -> [Units -> Cursor]]
            /\ window' \in [Collectors -> Window]
  BY <1>7, NoWindowType DEF NextUnit, Cursor
<1>8. ASSUME NEW c \in Collectors, SyncUnits(c) PROVE TypeOK'
  <2>1. 0 \in Cursor
    BY BoundsAssumption DEF Cursor, Ends
  <2> QED
    BY <1>8, <2>1 DEF SyncUnits
<1>9. ASSUME NEW c \in Collectors, SnapshotGhostUnits(c) PROVE TypeOK'
  BY <1>9 DEF SnapshotGhostUnits
<1>10. ASSUME NEW c \in Collectors, LoadCheckpoints(c) PROVE TypeOK'
  BY <1>10 DEF LoadCheckpoints
<1>11. ASSUME NEW c \in Collectors, NEW u \in Units, GetUnitWindow(c, u) PROVE TypeOK'
  <2>1. CASE /\ loaded' = [loaded EXCEPT ![c][u] = NoRow]
             /\ UNCHANGED <<pc, window>>
    BY <1>11, <2>1 DEF GetUnitWindow, Cursor
  <2>2. ASSUME NEW r \in NewRows(u, loaded[c][u]),
               window' = [window EXCEPT ![c] = [unit |-> u, newEnd |-> r.end]],
               pc' = [pc EXCEPT ![c] = "insert"],
               UNCHANGED loaded
        PROVE TypeOK'
    <3>1. r.end \in Cursor
      BY <2>2 DEF NewRows, Row, Cursor
    <3>2. [unit |-> u, newEnd |-> r.end] \in Window
      BY <3>1 DEF Window
    <3> QED
      BY <1>11, <2>2, <3>2 DEF GetUnitWindow
  <2> QED
    BY <1>11, <2>1, <2>2 DEF GetUnitWindow
<1>12. ASSUME NEW c \in Collectors, InsertWindow(c) PROVE TypeOK'
  BY <1>12 DEF InsertWindow, InsertIgnore, Candidates
<1>13. ASSUME NEW c \in Collectors, UpdateCheckpoint(c) PROVE TypeOK'
  <2>1. window[c].newEnd \in Cursor /\ NoRow \in Cursor
    BY DEF Window, Cursor
  <2>2. checkpoint' \in [Units -> Cursor]
    BY <1>13, <2>1 DEF UpdateCheckpoint, CursorMoved
  <2> QED
    BY <1>13, <2>2, <1>7 DEF UpdateCheckpoint
<1>14. ASSUME NEW c \in Collectors, UnitsDone(c) PROVE TypeOK'
  <2>1. CASE Leave(c)
    BY <1>14, <2>1, <1>6 DEF UnitsDone
  <2>2. CASE pc' = [pc EXCEPT ![c] = "purge"] /\ UNCHANGED <<ghosts, loaded, window>>
    BY <1>14, <2>2 DEF UnitsDone
  <2> QED
    BY <1>14, <2>1, <2>2 DEF UnitsDone
<1>15. ASSUME NEW c \in Collectors, NEW u \in Units, PurgeGhost(c, u) PROVE TypeOK'
  <2>1. checkpoint' \in [Units -> Cursor]
    BY <1>15 DEF PurgeGhost, Cursor
  <2>2. CASE Leave(c)
    BY <1>15, <2>1, <2>2, <1>6 DEF PurgeGhost
  <2>3. CASE ghosts' = [ghosts EXCEPT ![c] = @ \ {u}] /\ UNCHANGED <<pc, loaded, window>>
    BY <1>15, <2>1, <2>3 DEF PurgeGhost
  <2> QED
    BY <1>15, <2>2, <2>3 DEF PurgeGhost
<1>16. ASSUME NEW c \in Collectors, Failure(c) PROVE TypeOK'
  <2>1. CASE AbortCollect(c)
    BY <2>1, <1>5, <1>6 DEF AbortCollect
  <2>2. ASSUME NEW u \in Units, WindowFails(c, u) PROVE TypeOK'
    BY <2>2, <1>5 DEF WindowFails, Cursor
  <2>3. CASE InsertFails(c)
    <3>1. auditLog' \in SUBSET Row
      BY <2>3 DEF InsertFails, InsertIgnore, Candidates
    <3> QED
      BY <2>3, <3>1, <1>5, <1>7 DEF InsertFails
  <2>4. CASE UpdateFails(c)
    BY <2>4, <1>5, <1>7 DEF UpdateFails
  <2>5. CASE PurgeFails(c)
    BY <2>5, <1>5, <1>6 DEF PurgeFails
  <2>6. CASE Crash(c)
    BY <2>6, <1>5, <1>6 DEF Crash
  <2> QED
    BY <1>16, <2>1, <2>2, <2>3, <2>4, <2>5, <2>6 DEF Failure
<1>17. CASE UNCHANGED vars
  BY <1>17 DEF vars, locals
<1> QED
  BY <1>1, <1>2, <1>3, <1>4, <1>8, <1>9, <1>10, <1>11, <1>12, <1>13, <1>14,
     <1>15, <1>16, <1>17 DEF Next, Observer, Collect

\* The tables, the buffers and the collectors' memory always hold values of
\* their type.
THEOREM TypeCorrect == Spec => []TypeOK
<1>1. Init => TypeOK
  BY InitTypeOK
<1>2. TypeOK /\ [Next]_vars => TypeOK'
  BY NextTypeOK
<1> QED
  BY <1>1, <1>2, PTL DEF Spec

-----------------------------------------------------------------------------
(* The cursor never claims more than the log holds.                        *)

\* Sound(u, e) in the next state, for a value e of this state.
SoundAfter(u, e) ==
    /\ e <= lastFin'[u]
    /\ \A r \in sqlAudit' :
        r.ddl /\ r.unit = u /\ r.end <= e => Key(r) \in KeysOf(auditLog')

\* A growing log and a shrinking buffer keep every cursor value sound.
LEMMA KeepSound ==
    ASSUME sqlAudit' \subseteq sqlAudit, auditLog \subseteq auditLog', lastFin' = lastFin,
           NEW u, NEW e, Sound(u, e)
    PROVE  SoundAfter(u, e)
  BY DEF Sound, SoundAfter, Logged, KeysOf

\* A cursor never set, and one just created, claim nothing.
LEMMA FreshSound ==
    ASSUME TypeOK, CursorInv, NEW u \in Units
    PROVE  Sound(u, NoRow) /\ Sound(u, 0)
<1>1. lastFin[u] \in Nat
  BY BoundsAssumption DEF TypeOK, Ends
<1>2. \A r \in sqlAudit : r.end \in Int /\ 0 < r.end
  BY DEF TypeOK, Row, Ends, CursorInv
<1> QED
  BY <1>1, <1>2 DEF Sound, Logged, NoRow

\* The log loses nothing to InsertIgnore, and gains a key for each candidate.
LEMMA InsertIgnoreKeys ==
    ASSUME NEW S
    PROVE  /\ auditLog \subseteq InsertIgnore(S)
           /\ \A r \in S : Key(r) \in KeysOf(InsertIgnore(S))
  BY DEF InsertIgnore, KeysOf

\* The invariant holds at the start.
LEMMA InitCursorInv == Init => CursorInv
<1> SUFFICES ASSUME Init PROVE CursorInv
  OBVIOUS
<1>1. \A c \in Collectors : window[c].newEnd = NoRow /\ window[c].unit \in Units
  BY UnitsAssumption DEF Init, NoWindow
<1> QED
  BY <1>1 DEF Init, CursorInv, Sound, Logged, NoCheckpoints, NoRow

\* When no row appears and the log only grows, the invariant is kept if every
\* cursor written in the step was sound before it.
LEMMA QuietStep ==
    ASSUME TypeOK, TypeOK', CursorInv,
           sqlAudit' \subseteq sqlAudit, auditLog \subseteq auditLog', lastFin' = lastFin,
           \A u \in Units : checkpoint'[u] = checkpoint[u] \/ Sound(u, checkpoint'[u]),
           \A c \in Collectors, u \in Units :
                loaded'[c][u] = loaded[c][u] \/ Sound(u, loaded'[c][u]),
           \A c \in Collectors :
                /\ window'[c].newEnd <= lastFin[window'[c].unit]
                /\ pc'[c] = "update" => SoundAfter(window'[c].unit, window'[c].newEnd)
    PROVE  CursorInv'
<1>1. \A r \in sqlAudit' : 0 < r.end /\ r.end <= lastFin'[r.unit]
  BY DEF CursorInv
<1>2. \A u \in Units : SoundAfter(u, checkpoint'[u])
  BY KeepSound DEF CursorInv
<1>3. \A c \in Collectors, u \in Units : SoundAfter(u, loaded'[c][u])
  BY KeepSound DEF CursorInv
<1>4. (\A u \in Units : Sound(u, checkpoint[u]))'
  BY <1>2 DEF SoundAfter, Sound, Logged, Key, KeysOf
<1>5. (\A c \in Collectors, u \in Units : Sound(u, loaded[c][u]))'
  BY <1>3 DEF SoundAfter, Sound, Logged, Key, KeysOf
<1>6. (\A c \in Collectors :
        LET w == window[c] IN
        /\ w.newEnd <= lastFin[w.unit]
        /\ pc[c] = "update" => Logged(w.unit, w.newEnd))'
  BY DEF SoundAfter, Logged, Key, KeysOf
<1> QED
  BY <1>1, <1>4, <1>5, <1>6 DEF CursorInv

\* A finished statement gets an end time no cursor has reached.
LEMMA FinishStep ==
    ASSUME EndStep > 0, TypeOK, CursorInv,
           NEW u \in Units, NEW id \in RequestIds, NEW end \in 1..MaxEnd,
           NEW ddl \in BOOLEAN, Finish(u, id, end, ddl)
    PROVE  CursorInv'
<1> DEFINE row == [unit |-> u, id |-> id, end |-> end, ddl |-> ddl]
<1>1. /\ sqlAudit' = sqlAudit \cup {row}
      /\ lastFin' = [lastFin EXCEPT ![u] = end]
      /\ UNCHANGED <<auditLog, checkpoint, pc, loaded, window>>
      /\ end >= lastFin[u] + EndStep
  BY DEF Finish, tables, locals
<1>2. /\ end \in Int
      /\ \A v \in Units : lastFin[v] \in Int /\ checkpoint[v] \in Int
      /\ \A c \in Collectors, v \in Units : loaded[c][v] \in Int
      /\ \A c \in Collectors : window[c].newEnd \in Int /\ window[c].unit \in Units
      /\ lastFin \in [Units -> Ends]
      /\ \A r \in sqlAudit : r.unit \in Units /\ r.end \in Int
  BY BoundsAssumption DEF TypeOK, Ends, Cursor, NoRow, Window, Row
<1>3. \A v \in Units : lastFin[v] <= lastFin'[v]
  BY <1>1, <1>2, EndStepAssumption
<1>4. end > lastFin[u] /\ lastFin'[u] = end
  BY <1>1, <1>2, EndStepAssumption
<1>5. ASSUME NEW v \in Units, NEW e \in Int, Sound(v, e) PROVE Sound(v, e)'
  <2>1. e <= lastFin'[v]
    BY <1>2, <1>3, <1>5, <1>1 DEF Sound
  <2>2. ASSUME NEW r \in sqlAudit', r.ddl, r.unit = v, r.end <= e
        PROVE  r \in sqlAudit
    BY <2>2, <1>1, <1>2, <1>4, <1>5 DEF Sound
  <2>3. \A r \in sqlAudit' : r.ddl /\ r.unit = v /\ r.end <= e => Key(r) \in KeysOf(auditLog')
    BY <2>2, <1>1, <1>5 DEF Sound, Logged
  <2> QED
    BY <2>1, <2>3 DEF Sound, Logged, Key, KeysOf
<1>6. \A r \in sqlAudit' : 0 < r.end /\ r.end <= lastFin'[r.unit]
  BY <1>1, <1>2, <1>3, <1>4 DEF CursorInv
<1>7. (\A v \in Units : Sound(v, checkpoint[v]))'
  BY <1>1, <1>2, <1>5 DEF CursorInv
<1>8. (\A c \in Collectors, v \in Units : Sound(v, loaded[c][v]))'
  BY <1>1, <1>2, <1>5 DEF CursorInv
<1>9. ASSUME NEW c \in Collectors
      PROVE  (LET w == window[c] IN
              /\ w.newEnd <= lastFin[w.unit]
              /\ pc[c] = "update" => Logged(w.unit, w.newEnd))'
  <2> DEFINE w == window[c]
  <2>1. w' = w /\ w.newEnd <= lastFin[w.unit] /\ w.newEnd <= lastFin'[w.unit]
    BY <1>1, <1>2, <1>3 DEF CursorInv
  <2>2. ASSUME pc'[c] = "update" PROVE Logged(w.unit, w.newEnd)'
    <3>1. Sound(w.unit, w.newEnd)
      BY <2>1, <2>2, <1>1 DEF CursorInv, Sound
    <3> QED
      BY <2>1, <3>1, <1>2, <1>5 DEF Sound
  <2> QED
    BY <2>1, <2>2
<1> QED
  BY <1>6, <1>7, <1>8, <1>9 DEF CursorInv

\* Leaving Collect or a unit forgets cursors, it invents none.
LEMMA ForgetCursors ==
    ASSUME TypeOK, CursorInv, NEW c \in Collectors, Leave(c) \/ NextUnit(c)
    PROVE  /\ \A d \in Collectors, u \in Units :
                loaded'[d][u] = loaded[d][u] \/ Sound(u, loaded'[d][u])
           /\ \A d \in Collectors :
                \/ window'[d] = window[d] /\ pc'[d] = pc[d]
                \/ /\ window'[d].newEnd = NoRow /\ window'[d].unit \in Units
                   /\ pc'[d] # "update"
<1>1. NoWindow.unit \in Units /\ NoWindow.newEnd = NoRow
  BY UnitsAssumption DEF NoWindow
<1>2. \A u \in Units : Sound(u, NoRow)
  BY FreshSound
<1>3. CASE Leave(c)
  BY <1>1, <1>2, <1>3 DEF Leave, TypeOK, NoCheckpoints
<1>4. CASE NextUnit(c)
  BY <1>1, <1>2, <1>4 DEF NextUnit, TypeOK
<1> QED
  BY <1>3, <1>4

\* Each step of a collector, successful or failed, keeps the invariant.
LEMMA CollectorStep ==
    ASSUME TypeOK, TypeOK', CursorInv, NEW c \in Collectors, Collect(c) \/ Failure(c)
    PROVE  CursorInv'
<1> USE DEF envVars, tables
<1> DEFINE CheckpointOK == \A u \in Units : checkpoint'[u] = checkpoint[u] \/ Sound(u, checkpoint'[u])
           LoadedOK == \A d \in Collectors, u \in Units :
                loaded'[d][u] = loaded[d][u] \/ Sound(u, loaded'[d][u])
           WindowOK == \A d \in Collectors :
                /\ window'[d].newEnd <= lastFin[window'[d].unit]
                /\ pc'[d] = "update" => SoundAfter(window'[d].unit, window'[d].newEnd)
           WindowKept(d) == window'[d] = window[d] /\ (pc'[d] = pc[d] \/ pc'[d] # "update")
           WindowGone(d) == /\ window'[d].newEnd = NoRow /\ window'[d].unit \in Units
                            /\ pc'[d] # "update"
<1>1. sqlAudit' = sqlAudit /\ lastFin' = lastFin
  BY DEF Collect, Failure, SyncUnits, SnapshotGhostUnits, LoadCheckpoints, GetUnitWindow,
     InsertWindow, UpdateCheckpoint, UnitsDone, PurgeGhost, AbortCollect, WindowFails,
     InsertFails, UpdateFails, PurgeFails, Crash
<1>2. auditLog \subseteq auditLog'
  BY InsertIgnoreKeys
  DEF Collect, Failure, SyncUnits, SnapshotGhostUnits, LoadCheckpoints, GetUnitWindow,
     InsertWindow, UpdateCheckpoint, UnitsDone, PurgeGhost, AbortCollect, WindowFails,
     InsertFails, UpdateFails, PurgeFails, Crash
<1>3. ASSUME CheckpointOK, LoadedOK, WindowOK PROVE CursorInv'
  BY <1>1, <1>2, <1>3, QuietStep
<1>4. \A u \in Units : Sound(u, NoRow) /\ Sound(u, 0)
  BY FreshSound
<1>5. ASSUME \A d \in Collectors : WindowKept(d) \/ WindowGone(d) PROVE WindowOK
  <2> SUFFICES ASSUME NEW d \in Collectors
               PROVE  /\ window'[d].newEnd <= lastFin[window'[d].unit]
                      /\ pc'[d] = "update" => SoundAfter(window'[d].unit, window'[d].newEnd)
    OBVIOUS
  <2>1. CASE WindowKept(d)
    <3>1. window[d].newEnd <= lastFin[window[d].unit]
      BY DEF CursorInv
    <3>2. ASSUME pc'[d] = "update" PROVE Sound(window[d].unit, window[d].newEnd)
      BY <2>1, <3>1, <3>2 DEF CursorInv, Sound
    <3> QED
      BY <1>1, <1>2, <2>1, <3>1, <3>2, KeepSound
  <2>2. CASE WindowGone(d)
    BY <1>4, <2>2 DEF Sound
  <2> QED
    BY <1>5, <2>1, <2>2
<1>6. CASE SyncUnits(c)
  <2>1. CheckpointOK
    BY <1>6, <1>4 DEF SyncUnits
  <2>2. LoadedOK /\ \A d \in Collectors : WindowKept(d)
    BY <1>6 DEF SyncUnits, TypeOK
  <2> QED
    BY <1>3, <1>5, <2>1, <2>2
<1>7. CASE SnapshotGhostUnits(c)
  <2>1. CheckpointOK /\ LoadedOK /\ \A d \in Collectors : WindowKept(d)
    BY <1>7 DEF SnapshotGhostUnits, TypeOK
  <2> QED
    BY <1>3, <1>5, <2>1
<1>8. CASE LoadCheckpoints(c)
  <2>1. CheckpointOK /\ \A d \in Collectors : WindowKept(d)
    BY <1>8 DEF LoadCheckpoints, TypeOK
  <2>2. LoadedOK
    BY <1>8 DEF LoadCheckpoints, TypeOK, CursorInv
  <2> QED
    BY <1>3, <1>5, <2>1, <2>2
<1>9. ASSUME NEW u \in Units, GetUnitWindow(c, u) PROVE CursorInv'
  <2>1. CheckpointOK
    BY <1>9 DEF GetUnitWindow
  <2>2. CASE loaded' = [loaded EXCEPT ![c][u] = NoRow] /\ UNCHANGED <<pc, window>>
    <3>1. LoadedOK
      BY <2>2, <1>4 DEF TypeOK
    <3> QED
      BY <1>3, <1>5, <2>1, <2>2, <3>1
  <2>3. ASSUME NEW r \in NewRows(u, loaded[c][u]),
               window' = [window EXCEPT ![c] = [unit |-> u, newEnd |-> r.end]],
               pc' = [pc EXCEPT ![c] = "insert"],
               UNCHANGED loaded
        PROVE CursorInv'
    <3>1. r.end <= lastFin[u]
      BY DEF NewRows, CursorInv
    <3>2. /\ pc'[c] = "insert" /\ window'[c].newEnd = r.end /\ window'[c].unit = u
          /\ \A d \in Collectors : d # c => WindowKept(d)
      BY <2>3 DEF TypeOK
    <3>3. ASSUME NEW d \in Collectors
          PROVE  /\ window'[d].newEnd <= lastFin[window'[d].unit]
                 /\ pc'[d] = "update" => SoundAfter(window'[d].unit, window'[d].newEnd)
      <4>1. CASE d = c
        BY <3>1, <3>2, <4>1
      <4>2. CASE d # c
        <5>1. WindowKept(d)
          BY <3>2, <4>2
        <5>2. window[d].newEnd <= lastFin[window[d].unit]
          BY DEF CursorInv
        <5>3. ASSUME pc'[d] = "update" PROVE Sound(window[d].unit, window[d].newEnd)
          BY <5>1, <5>2, <5>3 DEF CursorInv, Sound
        <5> QED
          BY <1>1, <1>2, <5>1, <5>2, <5>3, KeepSound
      <4> QED
        BY <4>1, <4>2
    <3> QED
      BY <1>3, <2>1, <2>3, <3>3
  <2> QED
    BY <1>9, <2>2, <2>3 DEF GetUnitWindow
<1>10. CASE InsertWindow(c)
  <2> DEFINE u == window[c].unit
             n == window[c].newEnd
  <2>1. CheckpointOK /\ LoadedOK
    BY <1>10 DEF InsertWindow
  <2>2. /\ window' = window
        /\ \A d \in Collectors : d # c => pc'[d] = pc[d]
        /\ auditLog' = InsertIgnore(Candidates(c))
    BY <1>10 DEF InsertWindow, TypeOK
  <2>3. \A d \in Collectors : window[d].newEnd <= lastFin[window[d].unit]
    BY DEF CursorInv
  <2>4. ASSUME NEW r \in sqlAudit, r.ddl, r.unit = u, r.end <= n
        PROVE  Key(r) \in KeysOf(auditLog')
    <3>1. u \in Units /\ r.end \in Int /\ loaded[c][u] \in Int
      BY BoundsAssumption DEF TypeOK, Window, Row, Ends, Cursor, NoRow
    <3>2. CASE r.end <= loaded[c][u]
      BY <1>2, <2>4, <3>1, <3>2 DEF CursorInv, Sound, Logged, KeysOf
    <3>3. CASE r.end > loaded[c][u]
      <4>1. r \in Candidates(c)
        BY <2>4, <3>1, <3>3 DEF Candidates, InWindow
      <4> QED
        BY <2>2, <4>1, InsertIgnoreKeys
    <3> QED
      BY <3>1, <3>2, <3>3
  <2>5. SoundAfter(u, n)
    BY <1>1, <2>3, <2>4 DEF SoundAfter
  <2>6. ASSUME NEW d \in Collectors, d # c, pc[d] = "update"
        PROVE  SoundAfter(window[d].unit, window[d].newEnd)
    <3>1. Sound(window[d].unit, window[d].newEnd)
      BY <2>6 DEF CursorInv, Sound
    <3> QED
      BY <1>1, <1>2, <3>1, KeepSound
  <2> QED
    BY <1>3, <2>1, <2>2, <2>3, <2>5, <2>6
<1>11. CASE UpdateCheckpoint(c)
  <2>1. Sound(window[c].unit, window[c].newEnd) /\ window[c].unit \in Units
    BY <1>11 DEF UpdateCheckpoint, CursorInv, Sound, TypeOK, Window
  <2>2. CheckpointOK
    BY <1>11, <1>4, <2>1 DEF UpdateCheckpoint, CursorMoved, TypeOK
  <2> QED
    BY <1>11, <1>3, <1>5, <2>2, ForgetCursors DEF UpdateCheckpoint
<1>12. CASE UnitsDone(c)
  <2>1. CheckpointOK
    BY <1>12 DEF UnitsDone
  <2>2. CASE Leave(c)
    BY <1>3, <1>5, <2>1, <2>2, ForgetCursors
  <2>3. CASE pc' = [pc EXCEPT ![c] = "purge"] /\ UNCHANGED <<ghosts, loaded, window>>
    <3>1. LoadedOK /\ \A d \in Collectors : WindowKept(d)
      BY <2>3 DEF TypeOK
    <3> QED
      BY <1>3, <1>5, <2>1, <3>1
  <2> QED
    BY <1>12, <2>2, <2>3 DEF UnitsDone
<1>13. ASSUME NEW u \in Units, PurgeGhost(c, u) PROVE CursorInv'
  <2>1. CheckpointOK
    BY <1>13, <1>4 DEF PurgeGhost, TypeOK
  <2>2. CASE Leave(c)
    BY <1>3, <1>5, <2>1, <2>2, ForgetCursors
  <2>3. CASE UNCHANGED <<pc, loaded, window>>
    BY <1>3, <1>5, <2>1, <2>3
  <2> QED
    BY <1>13, <2>2, <2>3 DEF PurgeGhost
<1>14. CASE Failure(c)
  <2>1. CheckpointOK
    BY <1>14 DEF Failure, AbortCollect, WindowFails, InsertFails, UpdateFails, PurgeFails, Crash
  <2>2. CASE Leave(c) \/ NextUnit(c)
    BY <1>3, <1>5, <2>1, <2>2, ForgetCursors
  <2>3. ASSUME NEW u \in Units, WindowFails(c, u) PROVE CursorInv'
    <3>1. LoadedOK /\ \A d \in Collectors : WindowKept(d)
      BY <2>3, <1>4 DEF WindowFails, TypeOK
    <3> QED
      BY <1>3, <1>5, <2>1, <3>1
  <2> QED
    BY <1>14, <2>2, <2>3
    DEF Failure, AbortCollect, InsertFails, UpdateFails, PurgeFails, Crash
<1> QED
  BY <1>6, <1>7, <1>8, <1>9, <1>10, <1>11, <1>12, <1>13, <1>14 DEF Collect

\* The observers' other steps touch neither the log nor any cursor.
LEMMA ObserverStep ==
    ASSUME EndStep > 0, TypeOK, TypeOK', CursorInv, Observer \/ UNCHANGED vars
    PROVE  CursorInv'
<1>1. ASSUME NEW u \in Units, NEW id \in RequestIds, NEW end \in 1..MaxEnd,
             NEW ddl \in BOOLEAN, Finish(u, id, end, ddl)
      PROVE CursorInv'
  BY <1>1, FinishStep
<1>2. ASSUME sqlAudit' \subseteq sqlAudit,
             UNCHANGED <<auditLog, checkpoint, pc, loaded, window, lastFin>>
      PROVE CursorInv'
  <2>1. ASSUME NEW c \in Collectors
        PROVE  /\ window'[c].newEnd <= lastFin[window'[c].unit]
               /\ pc'[c] = "update" => SoundAfter(window'[c].unit, window'[c].newEnd)
    <3>1. window[c].newEnd <= lastFin[window[c].unit]
      BY DEF CursorInv
    <3>2. ASSUME pc[c] = "update" PROVE Sound(window[c].unit, window[c].newEnd)
      BY <3>1, <3>2 DEF CursorInv, Sound
    <3> QED
      BY <1>2, <3>1, <3>2, KeepSound
  <2> QED
    BY <1>2, <2>1, QuietStep
<1> USE DEF tables, locals
<1>3. ASSUME NEW r \in sqlAudit, Evict(r) PROVE CursorInv'
  BY <1>2, <1>3 DEF Evict
<1>4. ASSUME NEW h \in Hosts, ObserverRestart(h) PROVE CursorInv'
  BY <1>2, <1>4 DEF ObserverRestart
<1>5. ASSUME NEW u \in Units, UnitFlap(u) PROVE CursorInv'
  BY <1>2, <1>5 DEF UnitFlap
<1>6. CASE UNCHANGED vars
  BY <1>2, <1>6 DEF vars, envVars
<1> QED
  BY <1>1, <1>3, <1>4, <1>5, <1>6 DEF Observer

\* Whatever collectors, observers and failures do, every cursor is sound:
\* provided the end times of a unit's rows strictly increase, the premise
\* under which the strict comparison of getUnitWindow may be used.
THEOREM CursorSound ==
    ASSUME EndStep > 0
    PROVE  Spec => []CursorInv
<1>1. Init => CursorInv
  BY InitCursorInv
<1>2. TypeOK /\ TypeOK' /\ CursorInv /\ [Next]_vars => CursorInv'
  BY ObserverStep, CollectorStep DEF Next
<1> QED
  BY <1>1, <1>2, TypeCorrect, PTL DEF Spec

\* No DDL row the cursor has passed is without its key in the log.
THEOREM CursorNeverPasses ==
    ASSUME EndStep > 0
    PROVE  Spec => []CursorCovers
<1>1. CursorInv => CursorCovers
  BY DEF CursorInv, CursorCovers, Sound
<1> QED
  BY <1>1, CursorSound, PTL

-----------------------------------------------------------------------------
(* Request ids.                                                            *)

\* The log takes rows from the buffer only.
LEMMA LogFromBuffer ==
    ASSUME NEW c \in Collectors, Collect(c) \/ Failure(c)
    PROVE  /\ auditLog' \subseteq auditLog \cup sqlAudit
           /\ sqlAudit' = sqlAudit /\ issued' = issued
  BY DEF Collect, Failure, SyncUnits, SnapshotGhostUnits, LoadCheckpoints, GetUnitWindow,
     InsertWindow, UpdateCheckpoint, UnitsDone, PurgeGhost, AbortCollect, WindowFails,
     InsertFails, UpdateFails, PurgeFails, Crash, InsertIgnore, Candidates, envVars, tables

\* No two rows ever share a key while request ids are drawn from one counter
\* per host that is never reset.
LEMMA IdsUnique ==
    ASSUME ServerWideIds = TRUE, MaxRestarts = 0
    PROVE  Spec => []IdInv
<1>1. Init => IdInv
  BY DEF Init, IdInv
<1>2. ASSUME TypeOK, IdInv, [Next]_vars PROVE IdInv'
  <2>1. ASSUME NEW u \in Units, NEW id \in RequestIds, NEW end \in 1..MaxEnd,
               NEW ddl \in BOOLEAN, Finish(u, id, end, ddl)
        PROVE  IdInv'
    <3> DEFINE row == [unit |-> u, id |-> id, end |-> end, ddl |-> ddl]
    <3>1. /\ sqlAudit' = sqlAudit \cup {row} /\ auditLog' = auditLog
          /\ issued' = issued \cup {<<u, id>>}
      BY <2>1 DEF Finish, tables
    <3>2. ASSUME NEW q \in sqlAudit \cup auditLog PROVE Key(q) # Key(row)
      <4>1. q.unit \in Units /\ <<q.unit, q.id>> \in issued
        BY <1>2, <3>2 DEF TypeOK, Row, IdInv
      <4>2. SvrIp[q.unit] = SvrIp[u] => <<q.unit, id>> \notin issued
        BY <2>1, <4>1 DEF Finish, IdScope
      <4> QED
        BY <4>1, <4>2 DEF Key
    <3>3. \A r \in (sqlAudit \cup auditLog)' : <<r.unit, r.id>> \in issued'
      <4>1. <<row.unit, row.id>> \in issued'
        BY <3>1
      <4> HIDE DEF row
      <4> QED
        BY <1>2, <3>1, <4>1 DEF IdInv
    <3>4. \A r, q \in (sqlAudit \cup auditLog)' : Key(r) = Key(q) => r = q
      BY <1>2, <3>1, <3>2 DEF IdInv
    <3> QED
      BY <3>3, <3>4 DEF IdInv, Key
  <2>2. ASSUME NEW r \in sqlAudit, Evict(r) PROVE IdInv'
    BY <1>2, <2>2 DEF Evict, IdInv, Key, tables
  <2>3. ASSUME NEW h \in Hosts, ObserverRestart(h) PROVE IdInv'
    BY <1>2, <2>3 DEF ObserverRestart, TypeOK
  <2>4. ASSUME NEW u \in Units, UnitFlap(u) PROVE IdInv'
    BY <1>2, <2>4 DEF UnitFlap, IdInv, Key, tables
  <2>5. ASSUME NEW c \in Collectors, Collect(c) \/ Failure(c) PROVE IdInv'
    BY <1>2, <2>5, LogFromBuffer DEF IdInv, Key
  <2>6. CASE UNCHANGED vars
    BY <1>2, <2>6 DEF vars, envVars, tables, IdInv, Key
  <2> QED
    BY <1>2, <2>1, <2>2, <2>3, <2>4, <2>5, <2>6 DEF Next, Observer
<1> QED
  BY <1>1, <1>2, TypeCorrect, PTL DEF Spec

\* While ids are unique, no DDL row the cursor has passed is missing from the
\* log: INSERT IGNORE never drops a row for another one's sake.
THEOREM NothingLost ==
    ASSUME EndStep > 0, ServerWideIds = TRUE, MaxRestarts = 0
    PROVE  Spec => []NoDdlLost
<1>1. TypeOK /\ CursorCovers /\ IdInv => NoDdlLost
  <2> SUFFICES ASSUME TypeOK, CursorCovers, IdInv,
                      NEW r \in sqlAudit, r.ddl, r.end <= checkpoint[r.unit]
               PROVE  r \in auditLog
    BY DEF NoDdlLost
  <2>1. Key(r) \in KeysOf(auditLog)
    BY DEF CursorCovers, Logged, TypeOK, Row
  <2>2. PICK q \in auditLog : Key(r) = Key(q)
    BY <2>1 DEF KeysOf
  <2> QED
    BY <2>2 DEF IdInv
<1> QED
  BY <1>1, TypeCorrect, CursorNeverPasses, IdsUnique, PTL

\* The keys of buffer and log stay unique whatever restarts and id scopes do.
LEMMA KeysUnique == Spec => []KeyInv
<1>1. Init => KeyInv
  BY DEF Init, KeyInv
<1>2. ASSUME TypeOK, KeyInv, [Next]_vars PROVE KeyInv'
  <2>1. ASSUME NEW u \in Units, NEW id \in RequestIds, NEW end \in 1..MaxEnd,
               NEW ddl \in BOOLEAN, Finish(u, id, end, ddl)
        PROVE  KeyInv'
    <3> DEFINE row == [unit |-> u, id |-> id, end |-> end, ddl |-> ddl]
    <3>1. /\ sqlAudit' = sqlAudit \cup {row} /\ auditLog' = auditLog
          /\ issued' = issued \cup {<<u, id>>} /\ <<u, id>> \notin issued
      BY <2>1 DEF Finish, tables, IdScope
    <3>2. row.unit = u /\ row.id = id
      OBVIOUS
    <3> HIDE DEF row
    <3> QED
      BY <1>2, <3>1, <3>2 DEF KeyInv, Key
  <2>2. ASSUME NEW r \in sqlAudit, Evict(r) PROVE KeyInv'
    BY <1>2, <2>2 DEF Evict, KeyInv, Key, tables
  <2>3. ASSUME NEW h \in Hosts, ObserverRestart(h) PROVE KeyInv'
    BY <1>2, <2>3 DEF ObserverRestart, KeyInv, Key, tables
  <2>4. ASSUME NEW u \in Units, UnitFlap(u) PROVE KeyInv'
    BY <1>2, <2>4 DEF UnitFlap, KeyInv, Key, tables
  <2>5. ASSUME NEW c \in Collectors, Collect(c) \/ Failure(c) PROVE KeyInv'
    <3>1. auditLog' = auditLog \/ auditLog' = InsertIgnore(Candidates(c))
      BY <2>5 DEF Collect, Failure, SyncUnits, SnapshotGhostUnits, LoadCheckpoints,
         GetUnitWindow, InsertWindow, UpdateCheckpoint, UnitsDone, PurgeGhost, AbortCollect,
         WindowFails, InsertFails, UpdateFails, PurgeFails, Crash, envVars, tables
    <3>2. \A r, q \in Candidates(c) : Key(r) = Key(q) => r = q
      BY <1>2 DEF Candidates, InWindow, KeyInv, Key
    <3>3. \A r, q \in auditLog' : Key(r) = Key(q) => r = q
      BY <1>2, <3>1, <3>2 DEF KeyInv, InsertIgnore, KeysOf
    <3> QED
      BY <1>2, <2>5, <3>3, LogFromBuffer DEF KeyInv, Key
  <2>6. CASE UNCHANGED vars
    BY <1>2, <2>6 DEF vars, envVars, tables, KeyInv, Key
  <2> QED
    BY <1>2, <2>1, <2>2, <2>3, <2>4, <2>5, <2>6 DEF Next, Observer
<1> QED
  BY <1>1, <1>2, TypeCorrect, PTL DEF Spec

-----------------------------------------------------------------------------
(* Collect implements the abstract trail.                                  *)

\* Collection, by any number of collectors and with any failures, is an
\* AuditTrail: it records each key once and publishes only sound cursors.
THEOREM ImplementsTrail ==
    ASSUME EndStep > 0
    PROVE  Spec => TrailSpec
<1>1. Init => Trail!Init
  BY DEF Init, Trail!Init, NoCheckpoints, NoRow
<1> USE DEF envVars, tables
<1>2. ASSUME TypeOK, TypeOK', CursorInv, CursorInv', KeyInv', [Next]_vars
      PROVE  [Trail!Next]_Trail!vars
  <2>1. ASSUME NEW u \in Units, NEW id \in RequestIds, NEW end \in 1..MaxEnd,
               NEW ddl \in BOOLEAN, Finish(u, id, end, ddl)
        PROVE  Trail!Next
    <3> DEFINE row == [unit |-> u, id |-> id, end |-> end, ddl |-> ddl]
    <3>1. row \in Trail!Row
      BY BoundsAssumption DEF Trail!Row
    <3>2. end > checkpoint[u]
      <4>1. checkpoint[u] <= lastFin[u] /\ end >= lastFin[u] + EndStep
        BY <1>2, <2>1 DEF CursorInv, Sound, Finish
      <4>2. checkpoint[u] \in Int /\ lastFin[u] \in Int /\ end \in Int
        BY <1>2, BoundsAssumption DEF TypeOK, Cursor, Ends, NoRow
      <4> QED
        BY <4>1, <4>2, EndStepAssumption
    <3>3. Trail!Appear(row)
      BY <2>1, <3>2 DEF Trail!Appear, Finish
    <3> QED
      BY <3>1, <3>3 DEF Trail!Next
  <2>2. ASSUME NEW r \in sqlAudit, Evict(r) PROVE Trail!Next
    BY <2>2 DEF Evict, Trail!Next, Trail!Forget
  <2>3. ASSUME NEW h \in Hosts, ObserverRestart(h) PROVE Trail!Next
    BY <2>3 DEF ObserverRestart, Trail!Next, Trail!Forget
  <2>4. ASSUME NEW u \in Units, UnitFlap(u) PROVE UNCHANGED Trail!vars
    BY <2>4 DEF UnitFlap, Trail!vars
  <2>5. ASSUME NEW c \in Collectors, auditLog' = InsertIgnore(Candidates(c)),
               UNCHANGED <<sqlAudit, checkpoint>>
        PROVE  Trail!Next
    BY <1>2, <2>5 DEF InsertIgnore, Candidates, KeysOf, Key, KeyInv,
       Trail!Next, Trail!Record, Trail!KeysOf, Trail!Key
  <2>6. ASSUME UNCHANGED <<sqlAudit, auditLog>> PROVE Trail!Next
    <3>1. checkpoint' \in [Units -> Trail!Cursor]
      BY <1>2, BoundsAssumption DEF TypeOK, Cursor, Ends, NoRow, Trail!Cursor
    <3>2. \A u \in Units : Trail!Recorded(u, checkpoint'[u])
      BY <1>2, <2>6 DEF CursorInv, Sound, Logged, KeysOf, Key,
         Trail!Recorded, Trail!KeysOf, Trail!Key
    <3> QED
      BY <2>6, <3>1, <3>2 DEF Trail!Next, Trail!Publish
  <2>7. ASSUME NEW c \in Collectors, Collect(c) \/ Failure(c) PROVE Trail!Next
    BY <2>5, <2>6, <2>7
    DEF Collect, Failure, SyncUnits, SnapshotGhostUnits, LoadCheckpoints, GetUnitWindow,
       InsertWindow, UpdateCheckpoint, UnitsDone, PurgeGhost, AbortCollect, WindowFails,
       InsertFails, UpdateFails, PurgeFails, Crash
  <2>8. CASE UNCHANGED vars
    BY <2>8 DEF vars, Trail!vars
  <2> QED
    BY <1>2, <2>1, <2>2, <2>3, <2>4, <2>7, <2>8 DEF Next, Observer
<1> QED
  BY <1>1, <1>2, TypeCorrect, CursorSound, KeysUnique, PTL DEF Spec, TrailSpec, Trail!Spec

-----------------------------------------------------------------------------
(* A single collector.                                                     *)

\* What a lone collector has loaded is what the table holds.
LEMMA AloneCorrect ==
    ASSUME \A c, d \in Collectors : c = d
    PROVE  Spec => []AloneInv
<1>1. Init => AloneInv
  BY DEF Init, AloneInv, NoCheckpoints
<1> USE DEF envVars, tables
<1>2. ASSUME TypeOK, AloneInv, [Next]_vars PROVE AloneInv'
  <2>1. ASSUME UNCHANGED <<checkpoint, pc, loaded, window>> PROVE AloneInv'
    BY <1>2, <2>1 DEF AloneInv
  <2>2. ASSUME NEW c \in Collectors, Leave(c) PROVE AloneInv'
    <3>1. pc'[c] = "idle" /\ loaded'[c] = NoCheckpoints /\ \A d \in Collectors : d = c
      BY <1>2, <2>2 DEF Leave, TypeOK
    <3> QED
      BY <3>1 DEF AloneInv, NoCheckpoints
  <2>3. ASSUME NEW c \in Collectors, NextUnit(c), pc[c] \in {"insert", "update"},
               \A u \in Units : u = window[c].unit \/ checkpoint'[u] = checkpoint[u]
        PROVE  AloneInv'
    <3>1. /\ pc'[c] = "units" /\ \A d \in Collectors : d = c
          /\ \A u \in Units : loaded'[c][u] =
                IF u = window[c].unit THEN NoRow ELSE loaded[c][u]
      BY <1>2, <2>3 DEF NextUnit, TypeOK
    <3> QED
      BY <1>2, <2>3, <3>1 DEF AloneInv
  <2>4. ASSUME Observer PROVE AloneInv'
    BY <2>1, <2>4 DEF Observer, Finish, Evict, ObserverRestart, UnitFlap, locals
  <2>5. ASSUME NEW c \in Collectors, SyncUnits(c) \/ SnapshotGhostUnits(c) PROVE AloneInv'
    <3>1. /\ pc[c] \notin {"units", "insert", "update"} /\ loaded' = loaded
          /\ pc'[c] \notin {"units", "insert", "update"} /\ \A d \in Collectors : d = c
      BY <1>2, <2>5 DEF SyncUnits, SnapshotGhostUnits, TypeOK
    <3> QED
      BY <1>2, <3>1 DEF AloneInv, NoCheckpoints
  <2>6. ASSUME NEW c \in Collectors, LoadCheckpoints(c) PROVE AloneInv'
    <3>1. /\ pc'[c] = "units" /\ loaded'[c] = checkpoint /\ checkpoint' = checkpoint
          /\ \A d \in Collectors : d = c
      BY <1>2, <2>6 DEF LoadCheckpoints, TypeOK
    <3> QED
      BY <3>1 DEF AloneInv
  <2>7. ASSUME NEW c \in Collectors, NEW u \in Units, GetUnitWindow(c, u) PROVE AloneInv'
    <3>1. CASE loaded' = [loaded EXCEPT ![c][u] = NoRow] /\ UNCHANGED <<pc, window>>
      <4>1. /\ pc'[c] = "units" /\ \A d \in Collectors : d = c
            /\ \A v \in Units : loaded'[c][v] = NoRow \/ loaded'[c][v] = loaded[c][v]
        BY <1>2, <2>7, <3>1 DEF GetUnitWindow, TypeOK
      <4> QED
        BY <1>2, <2>7, <4>1 DEF AloneInv, GetUnitWindow
    <3>2. ASSUME NEW r \in NewRows(u, loaded[c][u]),
                 window' = [window EXCEPT ![c] = [unit |-> u, newEnd |-> r.end]],
                 pc' = [pc EXCEPT ![c] = "insert"],
                 UNCHANGED loaded
          PROVE AloneInv'
      <4>1. /\ pc'[c] = "insert" /\ window'[c] = [unit |-> u, newEnd |-> r.end]
            /\ \A d \in Collectors : d = c
        BY <1>2, <3>2 DEF TypeOK
      <4>2. loaded[c][u] # NoRow /\ checkpoint' = checkpoint /\ loaded[c][u] < r.end
        <5>1. r.end \in Int /\ loaded[c][u] \in Int
          BY <1>2, BoundsAssumption DEF TypeOK, Row, Cursor, Ends, NoRow, NewRows
        <5> QED
          BY <2>7, <5>1 DEF GetUnitWindow, NewRows
      <4> QED
        BY <1>2, <3>2, <4>1, <4>2 DEF AloneInv
    <3> QED
      BY <2>7, <3>1, <3>2 DEF GetUnitWindow
  <2>8. ASSUME NEW c \in Collectors, InsertWindow(c) PROVE AloneInv'
    <3>1. /\ pc[c] = "insert" /\ pc'[c] = "update" /\ \A d \in Collectors : d = c
          /\ UNCHANGED <<checkpoint, loaded, window>>
      BY <1>2, <2>8 DEF InsertWindow, TypeOK
    <3> QED
      BY <1>2, <3>1 DEF AloneInv
  <2>9. ASSUME NEW c \in Collectors, UpdateCheckpoint(c) PROVE AloneInv'
    <3>1. \A u \in Units : u = window[c].unit \/ checkpoint'[u] = checkpoint[u]
      BY <1>2, <2>9 DEF UpdateCheckpoint, CursorMoved, TypeOK
    <3> QED
      BY <2>3, <2>9, <3>1 DEF UpdateCheckpoint
  <2>10. ASSUME NEW c \in Collectors, UnitsDone(c) PROVE AloneInv'
    <3>1. CASE Leave(c)
      BY <2>2, <3>1
    <3>2. CASE pc' = [pc EXCEPT ![c] = "purge"] /\ UNCHANGED <<ghosts, loaded, window>>
      <4>1. pc'[c] = "purge" /\ loaded'[c] = NoCheckpoints /\ \A d \in Collectors : d = c
        BY <1>2, <2>10, <3>2 DEF UnitsDone, TypeOK
      <4> QED
        BY <4>1 DEF AloneInv, NoCheckpoints
    <3> QED
      BY <2>10, <3>1, <3>2 DEF UnitsDone
  <2>11. ASSUME NEW c \in Collectors, NEW u \in Units, PurgeGhost(c, u) PROVE AloneInv'
    <3>1. CASE Leave(c)
      BY <2>2, <3>1
    <3>2. CASE UNCHANGED <<pc, loaded, window>>
      <4>1. pc[c] = "purge" /\ loaded[c] = NoCheckpoints /\ \A d \in Collectors : d = c
        BY <1>2, <2>11 DEF PurgeGhost, AloneInv
      <4> QED
        BY <3>2, <4>1 DEF AloneInv, NoCheckpoints
    <3> QED
      BY <2>11, <3>1, <3>2 DEF PurgeGhost
  <2>12. ASSUME NEW c \in Collectors, NEW u \in Units, WindowFails(c, u) PROVE AloneInv'
    <3>1. /\ pc[c] = "units" /\ pc' = pc /\ \A d \in Collectors : d = c
          /\ checkpoint' = checkpoint
          /\ \A v \in Units : loaded'[c][v] = NoRow \/ loaded'[c][v] = loaded[c][v]
      BY <1>2, <2>12 DEF WindowFails, TypeOK
    <3> QED
      BY <1>2, <3>1 DEF AloneInv
  <2>13. ASSUME NEW c \in Collectors, InsertFails(c) \/ UpdateFails(c) PROVE AloneInv'
    BY <2>3, <2>13 DEF InsertFails, UpdateFails
  <2>14. ASSUME NEW c \in Collectors, AbortCollect(c) \/ PurgeFails(c) \/ Crash(c)
         PROVE  AloneInv'
    BY <2>2, <2>14 DEF AbortCollect, PurgeFails, Crash
  <2>15. CASE UNCHANGED vars
    BY <2>1, <2>15 DEF vars, locals
  <2> QED
    BY <1>2, <2>4, <2>5, <2>6, <2>7, <2>8, <2>9, <2>10, <2>11, <2>12, <2>13, <2>14, <2>15
    DEF Next, Collect, Failure
<1> QED
  BY <1>1, <1>2, TypeCorrect, PTL DEF Spec

\* The cursor of a lone collector never moves back.
THEOREM CursorMonotone ==
    ASSUME \A c, d \in Collectors : c = d
    PROVE  Spec => MonotoneCursor
<1> DEFINE Grows == \A u \in Units :
                checkpoint'[u] >= checkpoint[u] \/ checkpoint'[u] = NoRow
<1> USE DEF envVars, tables
<1>1. ASSUME TypeOK, AloneInv, [Next]_vars PROVE Grows
  <2>1. \A u \in Units : checkpoint[u] \in Int
    BY <1>1, BoundsAssumption DEF TypeOK, Cursor, Ends, NoRow
  <2>2. CASE UNCHANGED checkpoint
    BY <2>1, <2>2
  <2>3. ASSUME NEW c \in Collectors, SyncUnits(c) PROVE Grows
    BY <2>1, <2>3 DEF SyncUnits, NoRow
  <2>4. ASSUME NEW c \in Collectors, UpdateCheckpoint(c) PROVE Grows
    <3>1. /\ loaded[c][window[c].unit] < window[c].newEnd
          /\ checkpoint[window[c].unit] = loaded[c][window[c].unit]
          /\ window[c].unit \in Units /\ window[c].newEnd \in Int
      BY <1>1, <2>4, BoundsAssumption
      DEF UpdateCheckpoint, AloneInv, TypeOK, Window, Cursor, Ends, NoRow
    <3> QED
      BY <1>1, <2>1, <2>4, <3>1 DEF UpdateCheckpoint, CursorMoved, TypeOK
  <2>5. ASSUME NEW c \in Collectors, NEW u \in Units, PurgeGhost(c, u) PROVE Grows
    BY <1>1, <2>1, <2>5 DEF PurgeGhost, TypeOK
  <2> QED
    BY <1>1, <2>2, <2>3, <2>4, <2>5
    DEF Next, Observer, Collect, Failure, Finish, Evict, ObserverRestart, UnitFlap,
        SnapshotGhostUnits, LoadCheckpoints, GetUnitWindow, InsertWindow, UnitsDone,
        AbortCollect, WindowFails, InsertFails, UpdateFails, PurgeFails, Crash, vars
<1>2. TypeOK /\ AloneInv /\ [Next]_vars => [Grows]_vars
  BY <1>1
<1> QED
  BY <1>2, TypeCorrect, AloneCorrect, PTL DEF Spec, MonotoneCursor
=============================================================================
