---------------------------- MODULE Service_proof ----------------------------
(***************************************************************************)
(* Proofs about Service: what Daemon_proof shows of one process holds of   *)
(* every process that systemd starts, and the start limit is not used up   *)
(* by the watchdog.                                                        *)
(***************************************************************************)
EXTENDS Service, Daemon_proof, SequenceTheorems, WellFoundedInduction

-----------------------------------------------------------------------------
(* Processes come and go.                                                  *)

\* Only a running process belongs to an active unit, and a restart is pending
\* only for a process that nobody signalled: it failed to start, or the watchdog
\* ended it.
Lives ==
    /\ proc = "up" => unit = "active"
    /\ unit = "auto-restart" => ~cancelled
    /\ unit = "active" /\ proc \in {"exit0", "exit1"} => cancelled

\* To Daemon, a step of the service is a step of its process, or nothing; or it
\* starts a new process, or one that fails at once.
LEMMA ProcessStep ==
    ASSUME [ServiceNext]_service
    PROVE  [Next]_vars \/ Boot \/ StartFails
BY DEF ServiceNext, StartUp, GiveUp, ProcessEnded, StopPending, Outage, Recovery, SaveRecord,
    Loop, Others, Stop, ProcessTime, PauseTime, Next, service, vars

\* Before the first start everything is off.
LEMMA ServiceInitTypeOK == ServiceInit => TypeOK
<1> SUFFICES ASSUME ServiceInit PROVE TypeOK
  OBVIOUS
<1>1. 0 \in 0..MaxAge /\ 0 \in 0..CheckInterval /\ 0 \in 0..ShutdownTimeout
  BY MaxAgeBounds, DurationAssumption
<1>2. loop \in [Loops -> {"off", "top", "tick", "sleep", "done"}]
  BY DEF ServiceInit
<1>3. QED
  BY <1>1, <1>2 DEF ServiceInit, TypeOK

\* A start gives the process the state in which Daemon begins.
LEMMA BootIsInit ==
    ASSUME Boot PROVE Init'
BY DEF Boot, Init

\* Every process is well typed, and so is what is left of it when it ended.
LEMMA ServiceNextProcessTypeOK == TypeOK /\ [ServiceNext]_service => TypeOK'
<1> SUFFICES ASSUME TypeOK, [ServiceNext]_service PROVE TypeOK'
  OBVIOUS
<1>1. CASE [Next]_vars
  BY <1>1, NextTypeOK
<1>2. CASE Boot
  <2>1. Init'
    BY <1>2, BootIsInit
  <2>2. (Init => TypeOK)'
    BY InitTypeOK, PTL
  <2>3. QED
    BY <2>1, <2>2
<1>3. CASE StartFails
  BY <1>3 DEF StartFails, TypeOK
<1>4. QED
  BY <1>1, <1>2, <1>3, ProcessStep

\* systemd and the process agree on who is alive.
LEMMA NextLives == Lives /\ [ServiceNext]_service => Lives'
<1> SUFFICES ASSUME Lives, [ServiceNext]_service PROVE Lives'
  OBVIOUS
<1> USE DEF Lives, systemd, database, ingestion
<1>1. CASE StartUp
  BY <1>1 DEF StartUp, Boot
<1>2. CASE StartFails
  BY <1>2 DEF StartFails, StartDue
<1>3. CASE GiveUp
  BY <1>3 DEF GiveUp, StartDue, vars
<1>4. CASE ProcessEnded
  BY <1>4 DEF ProcessEnded, vars
<1>5. CASE StopPending
  BY <1>5 DEF StopPending, vars
<1>6. CASE Outage \/ Recovery \/ SaveRecord
  BY <1>6 DEF Outage, Recovery, SaveRecord, vars
<1>7. ASSUME NEW l \in Loops, Loop(l) PROVE Lives'
  BY <1>7 DEF Loop, RunLoop
<1>8. CASE Others
  BY <1>8 DEF Others, WatchdogCheck, WatchdogStops, Main, CleanExit, ForcedExit
<1>9. CASE Stop
  BY <1>9 DEF Stop, Signal
<1>10. CASE ProcessTime
  BY <1>10 DEF ProcessTime, TimePasses
<1>11. CASE PauseTime
  BY <1>11 DEF PauseTime, vars
<1>12. CASE UNCHANGED service
  BY <1>12 DEF service, vars
<1>13. QED
  BY <1>1, <1>2, <1>3, <1>4, <1>5, <1>6, <1>7, <1>8, <1>9, <1>10, <1>11, <1>12 DEF ServiceNext

-----------------------------------------------------------------------------
(* What holds of one process holds of every process.                       *)

\* The invariants of Daemon_proof that need no assumption on the durations.
ProcessInv == Heartbeats /\ CheckedInTime /\ DrainTrue /\ ShutdownIsClean

\* They hold while nothing runs, and wherever a process begins.
LEMMA InitProcessInv == Init => ProcessInv
BY InitHeartbeats, DurationAssumption
   DEF Init, ProcessInv, CheckedInTime, Registered, Loops, DrainTrue, ShutdownIsClean

\* A process that fails to start leaves them alone: it was not signalled.
LEMMA NextProcessInv ==
    TypeOK /\ Lives /\ ProcessInv /\ [ServiceNext]_service => ProcessInv'
<1> SUFFICES ASSUME TypeOK, Lives, ProcessInv, [ServiceNext]_service PROVE ProcessInv'
  OBVIOUS
<1>1. CASE [Next]_vars
  BY <1>1, NextHeartbeats, NextCheckedInTime, NextDrainTrue, NextShutdownIsClean DEF ProcessInv
<1>2. CASE Boot
  <2>1. Init'
    BY <1>2, BootIsInit
  <2>2. (Init => ProcessInv)'
    BY InitProcessInv, PTL
  <2>3. QED
    BY <2>1, <2>2
<1>3. CASE StartFails
  BY <1>3 DEF StartFails, StartDue, Lives, ProcessInv, Heartbeats, CheckedInTime, DrainTrue,
      ShutdownIsClean
<1>4. QED
  BY <1>1, <1>2, <1>3, ProcessStep

\* The same, in the temporal form the theorems cite.
LEMMA ProcessInvariant == ServiceSpec => [](TypeOK /\ Lives /\ ProcessInv)
<1>1. ServiceInit => Lives /\ ProcessInv
  BY DEF ServiceInit, Lives, ProcessInv, Heartbeats, CheckedInTime, DrainTrue, ShutdownIsClean
<1>2. QED
  BY <1>1, ServiceInitTypeOK, ServiceNextProcessTypeOK, NextLives, NextProcessInv,
     PTL DEF ServiceSpec

\* Every process that systemd starts is well typed at all times.
THEOREM ProcessTypeCorrect == ServiceSpec => []TypeOK
<1>1. QED
  BY ProcessInvariant, PTL

\* No tick of any process outlives the threshold by more than a check interval.
THEOREM ServiceHangsNoticed == ServiceSpec => []HangNoticed
<1>1. TypeOK /\ ProcessInv => HangNoticed
  BY CheckNotices DEF ProcessInv
<1>2. QED
  BY <1>1, ProcessInvariant, PTL

\* A signalled process ends with 0 unless a tick takes as long as the timeout; an
\* exit with 1 that nobody asked for is a start that failed.
THEOREM ServiceShutdownClean == ServiceSpec => []ShutdownIsClean
<1>1. ProcessInv => ShutdownIsClean
  BY DEF ProcessInv
<1>2. QED
  BY <1>1, ProcessInvariant, PTL

\* In every life of the service, in any mode and with any pauses, a loop that was
\* started and whose pause the threshold covers is stale only in a hung tick.
THEOREM ServiceWatchdogIsRight == ServiceSpec => []StaleIsHung
<1>1. ServiceInit => StaleIsHung
  BY DEF ServiceInit, StaleIsHung
<1>2. TypeOK /\ ProcessInv /\ StaleIsHung /\ [ServiceNext]_service => StaleIsHung'
  <2> SUFFICES ASSUME TypeOK, ProcessInv, StaleIsHung, [ServiceNext]_service
               PROVE  StaleIsHung'
    OBVIOUS
  <2>1. CASE [Next]_vars
    BY <2>1, NextStaleIsHung DEF ProcessInv
  <2>2. CASE Boot
    BY <2>2, DurationAssumption, StartedRegistered DEF Boot, StaleIsHung, Stale
  <2>3. CASE StartFails
    BY <2>3 DEF StartFails, StaleIsHung, Stale
  <2>4. QED
    BY <2>1, <2>2, <2>3, ProcessStep
<1>3. QED
  BY <1>1, <1>2, ProcessInvariant, PTL DEF ServiceSpec

-----------------------------------------------------------------------------
(* The starts that systemd remembers.                                      *)

\* A bounded set of naturals has a greatest element (least distance to the bound).
LEMMA GreatestExists ==
    ASSUME NEW n \in Nat, NEW S \in SUBSET (0..n), S # {}
    PROVE  Max(S) \in S /\ \A x \in S : Max(S) >= x
<1> DEFINE Less == {ss \in Nat \X Nat : ss[1] < ss[2]}
           Distances == {n - x : x \in S}
<1>1. \A x \in S : n - x \in Nat /\ x \in Int
  OBVIOUS
<1>2. Distances \subseteq Nat /\ Distances # {}
  BY <1>1
<1>3. IsWellFoundedOn(Less, Nat)
  BY NatLessThanWellFounded DEF OpToRel
<1>4. \E d \in Distances : \A e \in Distances : ~(<<e, d>> \in Less)
  <2> HIDE DEF Less, Distances
  <2> QED
    BY <1>2, <1>3, WFMin
<1>5. PICK m \in S : \A x \in S : ~(<<n - x, n - m>> \in Less)
  BY <1>4
<1>6. ASSUME NEW x \in S PROVE m >= x
  <2>1. ~(n - x < n - m)
    BY <1>1, <1>5
  <2>2. QED
    BY <1>1, <2>1
<1>7. QED
  BY <1>6 DEF Max

\* What systemd forgets is a prefix of the starts, Older the rest, all of it
\* within the interval.
LEMMA OlderIsSuffix ==
    ASSUME ServiceTypeOK
    PROVE  /\ Older \in Seq([age : Nat, up : BOOLEAN])
           /\ \E k \in 0..Len(starts) :
                /\ Len(Older) = Len(starts) - k
                /\ \A i \in 1..(Len(starts) - k) :
                     /\ Older[i].age = starts[i + k].age + 1
                     /\ Older[i].up = starts[i + k].up
                     /\ Older[i].age < StartLimitInterval
<1> DEFINE Start == [age : Nat, up : BOOLEAN]
           older == [i \in DOMAIN starts |-> [starts[i] EXCEPT !.age = @ + 1]]
           forgotten == {i \in DOMAIN older : older[i].age >= StartLimitInterval}
           k == Max({0} \cup forgotten)
<1>1. starts \in Seq(Start) /\ Len(starts) \in Nat /\ DOMAIN starts = 1..Len(starts)
  BY DEF ServiceTypeOK
<1>2. ASSUME NEW i \in 1..Len(starts)
      PROVE  /\ older[i] \in Start
             /\ starts[i].age \in Nat
             /\ older[i].age = starts[i].age + 1
             /\ older[i].up = starts[i].up
  <2>1. starts[i] \in Start
    BY <1>1, ElementOfSeq
  <2>2. older[i] = [starts[i] EXCEPT !.age = starts[i].age + 1]
    BY <1>1
  <2>3. QED
    BY <2>1, <2>2
<1>3. older \in Seq(Start) /\ Len(older) = Len(starts) /\ DOMAIN older = 1..Len(starts)
  <2>1. older \in [1..Len(starts) -> Start]
    BY <1>1, <1>2
  <2> HIDE DEF older
  <2>2. older \in Seq(Start)
    BY <1>1, <2>1, SeqDef
  <2>3. QED
    BY <1>1, <2>1, <2>2, LenProperties
<1>4. {0} \cup forgotten \in SUBSET (0..Len(starts)) /\ {0} \cup forgotten # {}
  BY <1>1
<1>5. k \in 0..Len(starts) /\ \A i \in forgotten : k >= i
  <2> HIDE DEF forgotten
  <2> QED
    BY <1>1, <1>4, GreatestExists
<1>6. Older = SubSeq(older, k + 1, Len(starts))
  BY <1>3 DEF Older
<1> HIDE DEF k, older, Start
<1>7. /\ Older \in Seq(Start)
      /\ Len(Older) = Len(starts) - k
      /\ \A i \in 1..(Len(starts) - k) : Older[i] = older[i + k]
  <2>1. \A i \in (k + 1)..Len(starts) : older[i] \in Start
    BY <1>1, <1>2, <1>5
  <2>2. /\ SubSeq(older, k + 1, Len(starts)) \in Seq(Start)
        /\ Len(SubSeq(older, k + 1, Len(starts))) =
              IF k + 1 <= Len(starts) THEN Len(starts) - (k + 1) + 1 ELSE 0
        /\ \A i \in 1..(Len(starts) - (k + 1) + 1) :
              SubSeq(older, k + 1, Len(starts))[i] = older[k + 1 + i - 1]
    BY <1>1, <1>5, <2>1, SubSeqProperties
  <2>3. Len(SubSeq(older, k + 1, Len(starts))) = Len(starts) - k
    <3>1. k \in Nat /\ Len(starts) \in Nat /\ k <= Len(starts)
      BY <1>1, <1>5
    <3>2. CASE k + 1 <= Len(starts)
      <4>1. Len(SubSeq(older, k + 1, Len(starts))) = Len(starts) - (k + 1) + 1
        BY <2>2, <3>2
      <4>2. QED
        BY <3>1, <4>1
    <3>3. CASE ~(k + 1 <= Len(starts))
      <4>1. Len(SubSeq(older, k + 1, Len(starts))) = 0
        BY <2>2, <3>3
      <4>2. QED
        BY <3>1, <3>3, <4>1
    <3>4. QED
      BY <3>2, <3>3
  <2>4. ASSUME NEW i \in 1..(Len(starts) - k)
        PROVE  SubSeq(older, k + 1, Len(starts))[i] = older[i + k]
    <3>1. i \in 1..(Len(starts) - (k + 1) + 1) /\ k + 1 + i - 1 = i + k
      BY <1>1, <1>5
    <3>2. SubSeq(older, k + 1, Len(starts))[i] = older[k + 1 + i - 1]
      BY <2>2, <3>1
    <3>3. QED
      BY <3>1, <3>2
  <2>5. QED
    BY <1>6, <2>2, <2>3, <2>4
<1>8. ASSUME NEW i \in 1..(Len(starts) - k)
      PROVE  /\ Older[i].age = starts[i + k].age + 1
             /\ Older[i].up = starts[i + k].up
             /\ Older[i].age < StartLimitInterval
  <2>1. i + k \in 1..Len(starts) /\ ~(k >= i + k)
    BY <1>1, <1>5
  <2>2. ~(older[i + k].age >= StartLimitInterval)
    BY <1>3, <1>5, <2>1
  <2>3. QED
    BY <1>2, <1>7, <2>1, <2>2, ServiceAssumption
<1>9. QED
  BY <1>5, <1>7, <1>8 DEF Start

\* Service's own variables: no file is read beyond its end, and no more starts
\* are remembered than the limit allows.
LEMMA NextServiceTypeOK == ServiceTypeOK /\ [ServiceNext]_service => ServiceTypeOK'
<1> SUFFICES ASSUME ServiceTypeOK, [ServiceNext]_service PROVE ServiceTypeOK'
  OBVIOUS
<1> DEFINE Start == [age : Nat, up : BOOLEAN]
<1> USE ServiceAssumption DEF systemd, database, ingestion
<1>1. ASSUME NEW start \in Start, ~LimitHit
      PROVE  /\ Append(starts, start) \in Seq(Start)
             /\ Len(Append(starts, start)) <= StartLimitBurst
  <2>1. starts \in Seq(Start) /\ Len(starts) \in Nat /\ Len(starts) < StartLimitBurst
    BY <1>1, LenProperties DEF LimitHit, ServiceTypeOK
  <2>2. Append(starts, start) \in Seq(Start) /\ Len(Append(starts, start)) = Len(starts) + 1
    BY <2>1, AppendProperties
  <2>3. QED
    BY <2>1, <2>2
<1>2. CASE StartUp
  <2>1. [age |-> 0, up |-> TRUE] \in Start
    OBVIOUS
  <2>2. backlog # <<>> => 0 <= Head(backlog)
    BY HeadTailProperties DEF ServiceTypeOK
  <2>3. starts' \in Seq(Start) /\ Len(starts') <= StartLimitBurst
    BY <1>1, <1>2, <2>1 DEF StartUp
  <2>4. QED
    BY <1>2, <2>2, <2>3 DEF StartUp, Boot, ServiceTypeOK
<1>3. CASE StartFails
  <2>1. [age |-> 0, up |-> FALSE] \in Start
    OBVIOUS
  <2>2. starts' \in Seq(Start) /\ Len(starts') <= StartLimitBurst
    BY <1>1, <1>3, <2>1 DEF StartFails
  <2>3. QED
    BY <1>3, <2>2 DEF StartFails, ServiceTypeOK
<1>4. CASE GiveUp \/ StopPending
  BY <1>4 DEF GiveUp, StopPending, ServiceTypeOK
<1>5. CASE ProcessEnded
  <2>1. unit' \in {"stopped", "auto-restart", "inactive"}
    BY <1>5 DEF ProcessEnded, Restarts
  <2>2. QED
    BY <1>5, <2>1 DEF ProcessEnded, ServiceTypeOK
<1>6. CASE Outage \/ Recovery
  <2>1. dbUp' \in BOOLEAN
    BY <1>6 DEF Outage, Recovery
  <2>2. outages' \in 0..MaxOutages
    BY <1>6 DEF Outage, Recovery, ServiceTypeOK
  <2>3. UNCHANGED <<unit, rest, starts, backlog, read>>
    BY <1>6 DEF Outage, Recovery
  <2>4. QED
    BY <2>1, <2>2, <2>3 DEF ServiceTypeOK
<1>7. CASE SaveRecord
  <2>1. backlog # <<>> /\ backlog \in Seq(Nat \ {0})
    BY <1>7 DEF SaveRecord, FileRead, Reading, ServiceTypeOK
  <2>2. Tail(backlog) \in Seq(Nat \ {0})
    BY <2>1, HeadTailProperties
  <2>3. Tail(backlog) # <<>> => 0 <= Head(Tail(backlog))
    BY <2>2, HeadTailProperties
  <2>4. QED
    BY <1>7, <2>2, <2>3 DEF SaveRecord, ServiceTypeOK
<1>8. ASSUME NEW l \in Loops, Loop(l) PROVE ServiceTypeOK'
  <2>1. backlog # <<>> => 0 <= Head(backlog)
    BY HeadTailProperties DEF ServiceTypeOK
  <2>2. QED
    BY <1>8, <2>1 DEF Loop, ServiceTypeOK
<1>9. CASE Others \/ Stop
  BY <1>9 DEF Others, Stop, ServiceTypeOK
<1>10. CASE ProcessTime
  <2>1. Older \in Seq(Start) /\ Len(Older) <= StartLimitBurst
    BY OlderIsSuffix, LenProperties DEF ServiceTypeOK
  <2>2. backlog # <<>> => Head(backlog) \in Nat
    BY HeadTailProperties DEF ServiceTypeOK
  <2>3. read' \in Nat /\ (backlog # <<>> => read' <= Head(backlog))
    BY <1>10, <2>2 DEF ProcessTime, FileRead, Reading, ServiceTypeOK
  <2>4. QED
    BY <1>10, <2>1, <2>3 DEF ProcessTime, ServiceTypeOK
<1>11. CASE PauseTime
  <2>1. Older \in Seq(Start) /\ Len(Older) <= StartLimitBurst
    BY OlderIsSuffix, LenProperties DEF ServiceTypeOK
  <2>2. QED
    BY <1>11, <2>1 DEF PauseTime, ServiceTypeOK
<1>12. CASE UNCHANGED service
  BY <1>12 DEF service, ServiceTypeOK
<1>13. QED
  BY <1>2, <1>3, <1>4, <1>5, <1>6, <1>7, <1>8, <1>9, <1>10, <1>11, <1>12 DEF ServiceNext

\* systemd, the database and the files are well typed in every reachable state.
THEOREM ServiceTypeCorrect == ServiceSpec => []ServiceTypeOK
<1>1. ServiceInit => ServiceTypeOK
  <2>1. <<>> \in Seq([age : Nat, up : BOOLEAN]) /\ Len(<<>>) = 0
    BY EmptySeq
  <2>2. Files # <<>> => 0 <= Head(Files)
    BY ServiceAssumption, HeadTailProperties
  <2>3. QED
    BY <2>1, <2>2, ServiceAssumption DEF ServiceInit, ServiceTypeOK
<1>2. QED
  BY <1>1, NextServiceTypeOK, PTL DEF ServiceSpec

-----------------------------------------------------------------------------
(* The start limit.                                                        *)

\* The shortest time from a start that comes up to the next start.
Life == WatchdogThreshold + 1 + RestartSec

\* Starts that came up are at least a life apart, the last one t ago or more.
Spaced(s, t) ==
    \A i \in 1..Len(s) :
        (\A j \in i..Len(s) : s[j].up) => s[i].age >= (Len(s) - i) * Life + t

\* The starts are as old as the lives that followed them: the current life is as
\* long as any heartbeat is old, one that the watchdog ended outlasted the
\* threshold, and then comes the pause before the restart.
StartsSpaced ==
    /\ proc = "up" => \A l \in Loops : Spaced(starts, age[l])
    /\ unit = "active" /\ proc = "watchdog" => Spaced(starts, WatchdogThreshold + 1)
    /\ unit = "auto-restart" => Spaced(starts, WatchdogThreshold + 1 + rest)

\* What systemd remembers is recent.
StartsRecent ==
    \A i \in 1..Len(starts) : starts[i].age = 0 \/ starts[i].age < StartLimitInterval

\* A life takes time.
LEMMA LifeType == Life \in Nat /\ Life >= 1
BY DurationAssumption, ServiceAssumption DEF Life

\* The age of a remembered start is a natural number.
LEMMA StartAges ==
    ASSUME ServiceTypeOK
    PROVE  /\ Len(starts) \in Nat
           /\ \A i \in 1..Len(starts) : starts[i].age \in Nat /\ starts[i].up \in BOOLEAN
<1>1. starts \in Seq([age : Nat, up : BOOLEAN])
  BY DEF ServiceTypeOK
<1>2. \A i \in 1..Len(starts) : starts[i] \in [age : Nat, up : BOOLEAN]
  BY <1>1, ElementOfSeq
<1>3. QED
  BY <1>1, <1>2, LenProperties

\* The distance of a start from the last one is a multiple of a life.
LEMMA LivesBetween ==
    ASSUME NEW m \in Nat, NEW i \in 1..m
    PROVE  /\ (m - i) * Life \in Nat
           /\ (m + 1 - i) * Life = (m - i) * Life + Life
BY LifeType

\* Starts that are far apart for t are so for less.
LEMMA SpacedWeaken ==
    ASSUME NEW s \in Seq([age : Nat, up : BOOLEAN]),
           NEW t \in Nat, NEW u \in 0..t, Spaced(s, t)
    PROVE  Spaced(s, u)
<1> SUFFICES ASSUME NEW i \in 1..Len(s), \A j \in i..Len(s) : s[j].up
             PROVE  s[i].age >= (Len(s) - i) * Life + u
  BY DEF Spaced
<1>1. s[i].age >= (Len(s) - i) * Life + t
  BY DEF Spaced
<1>2. s[i] \in [age : Nat, up : BOOLEAN] /\ Len(s) \in Nat
  BY ElementOfSeq, LenProperties
<1>3. s[i].age \in Nat /\ (Len(s) - i) * Life \in Nat
  BY <1>2, LivesBetween
<1>4. QED
  BY <1>1, <1>3

\* Starts that are forgotten, and time, leave the others as far apart.
LEMMA SpacedOlder ==
    ASSUME ServiceTypeOK, NEW t \in Nat, Spaced(starts, t)
    PROVE  Spaced(Older, t + 1)
<1>1. PICK k \in 0..Len(starts) :
        /\ Len(Older) = Len(starts) - k
        /\ \A i \in 1..(Len(starts) - k) :
             /\ Older[i].age = starts[i + k].age + 1
             /\ Older[i].up = starts[i + k].up
  BY OlderIsSuffix
<1>2. Len(starts) \in Nat /\ k \in Nat
  BY StartAges
<1> SUFFICES ASSUME NEW i \in 1..Len(Older), \A j \in i..Len(Older) : Older[j].up
             PROVE  Older[i].age >= (Len(Older) - i) * Life + (t + 1)
  BY DEF Spaced
<1>3. i + k \in 1..Len(starts)
  BY <1>1, <1>2
<1>4. ASSUME NEW j \in (i + k)..Len(starts) PROVE starts[j].up
  <2>1. j - k \in i..Len(Older) /\ j - k \in 1..(Len(starts) - k) /\ (j - k) + k = j
    BY <1>1, <1>2
  <2>2. Older[j - k].up /\ Older[j - k].up = starts[(j - k) + k].up
    BY <1>1, <2>1
  <2>3. QED
    BY <2>1, <2>2
<1>5. starts[i + k].age >= (Len(starts) - (i + k)) * Life + t
  BY <1>3, <1>4 DEF Spaced
<1>6. Len(starts) - (i + k) = Len(Older) - i
  BY <1>1, <1>2
<1>7. Older[i].age = starts[i + k].age + 1
  BY <1>1
<1>8. starts[i + k].age \in Nat /\ (Len(starts) - (i + k)) * Life \in Nat
  BY <1>2, <1>3, StartAges, LivesBetween
<1> DEFINE distance == (Len(starts) - (i + k)) * Life
<1>9. (Len(Older) - i) * Life = distance
  BY <1>6
<1> HIDE DEF distance
<1>10. Older[i].age >= distance + (t + 1)
  BY <1>5, <1>7, <1>8 DEF distance
<1>11. QED
  BY <1>9, <1>10

\* A start a whole life after the last one keeps the distance.
LEMMA SpacedStart ==
    ASSUME ServiceTypeOK, NEW t \in Nat, t >= Life, Spaced(starts, t)
    PROVE  Spaced(Append(starts, [age |-> 0, up |-> TRUE]), 0)
<1> DEFINE later == Append(starts, [age |-> 0, up |-> TRUE])
           n == Len(starts)
<1>1. /\ n \in Nat /\ Len(later) = n + 1
      /\ later[n + 1] = [age |-> 0, up |-> TRUE]
      /\ \A i \in 1..n : later[i] = starts[i]
  <2>1. starts \in Seq([age : Nat, up : BOOLEAN])
    BY DEF ServiceTypeOK
  <2>2. [age |-> 0, up |-> TRUE] \in [age : Nat, up : BOOLEAN]
    OBVIOUS
  <2>3. QED
    BY <2>1, <2>2, AppendProperties, LenProperties
<1> SUFFICES ASSUME NEW i \in 1..Len(later), \A j \in i..Len(later) : later[j].up
             PROVE  later[i].age >= (Len(later) - i) * Life + 0
  BY DEF Spaced
<1> HIDE DEF later
<1>2. CASE i = n + 1
  <2>1. (Len(later) - i) * Life = 0
    BY <1>1, <1>2, LifeType
  <2>2. QED
    BY <1>1, <1>2, <2>1
<1>3. CASE i \in 1..n
  <2>1. \A j \in i..n : starts[j].up
    BY <1>1, <1>3
  <2>2. starts[i].age >= (n - i) * Life + t
    BY <1>3, <2>1 DEF Spaced
  <2>3. (n - i) * Life \in Nat /\ (n + 1 - i) * Life = (n - i) * Life + Life
    BY <1>1, <1>3, LivesBetween
  <2>4. starts[i].age \in Nat /\ Len(later) - i = n + 1 - i
    BY <1>1, <1>3, StartAges
  <2>5. QED
    BY <1>1, <1>3, <2>2, <2>3, <2>4, LifeType
<1>4. QED
  BY <1>1, <1>2, <1>3

\* Behind a start that failed nothing is claimed.
LEMMA SpacedFailed ==
    ASSUME ServiceTypeOK, NEW t
    PROVE  Spaced(Append(starts, [age |-> 0, up |-> FALSE]), t)
<1> DEFINE later == Append(starts, [age |-> 0, up |-> FALSE])
           n == Len(starts)
<1>1. n \in Nat /\ Len(later) = n + 1 /\ later[n + 1] = [age |-> 0, up |-> FALSE]
  <2>1. starts \in Seq([age : Nat, up : BOOLEAN])
    BY DEF ServiceTypeOK
  <2>2. [age |-> 0, up |-> FALSE] \in [age : Nat, up : BOOLEAN]
    OBVIOUS
  <2>3. QED
    BY <2>1, <2>2, AppendProperties, LenProperties
<1> HIDE DEF later
<1>2. \A i \in 1..Len(later) : Len(later) \in i..Len(later)
  BY <1>1
<1>3. ~later[Len(later)].up
  BY <1>1
<1>4. Spaced(later, t)
  BY <1>2, <1>3 DEF Spaced
<1>5. QED
  BY <1>4 DEF later

\* Starts keep their distance through every step of systemd and of the process.
LEMMA NextStartsSpaced ==
    ASSUME TypeOK, ServiceTypeOK, Lives, StartsSpaced, [ServiceNext]_service
    PROVE  StartsSpaced'
<1> USE DurationAssumption, ServiceAssumption, MaxAgeBounds DEF systemd, database, ingestion
<1>1. ASSUME UNCHANGED <<starts, unit, rest>>, proc' = proc,
             \A l \in Loops : age'[l] = age[l] \/ age'[l] = 0
      PROVE  StartsSpaced'
  <2>1. ASSUME proc = "up", NEW l \in Loops PROVE Spaced(starts, age'[l])
    <3>1. Spaced(starts, age[l]) /\ age[l] \in Nat
      BY <2>1 DEF StartsSpaced, TypeOK
    <3>2. Spaced(starts, 0)
      BY <3>1, SpacedWeaken DEF ServiceTypeOK
    <3>3. QED
      BY <1>1, <3>1, <3>2
  <2>2. QED
    BY <1>1, <2>1 DEF StartsSpaced
<1>2. CASE StartUp
  <2>1. Spaced(starts, WatchdogThreshold + 1 + rest)
    BY <1>2 DEF StartUp, StartDue, StartsSpaced
  <2>2. WatchdogThreshold + 1 + rest \in Nat /\ WatchdogThreshold + 1 + rest >= Life
    BY <1>2 DEF StartUp, StartDue, Life, ServiceTypeOK
  <2>3. Spaced(starts', 0)
    BY <1>2, <2>1, <2>2, SpacedStart DEF StartUp
  <2>4. QED
    BY <1>2, <2>3 DEF StartUp, Boot, StartsSpaced
<1>3. CASE StartFails
  <2>1. \A t : Spaced(starts', t)
    BY <1>3, SpacedFailed DEF StartFails
  <2>2. QED
    BY <1>3, <2>1 DEF StartFails, StartsSpaced
<1>4. CASE GiveUp \/ StopPending
  BY <1>4 DEF GiveUp, StopPending, StartDue, Lives, StartsSpaced, vars
<1>5. CASE ProcessEnded
  <2>1. unit' = "auto-restart" => Spaced(starts, WatchdogThreshold + 1)
    BY <1>5 DEF ProcessEnded, Restarts, Lives, StartsSpaced, TypeOK
  <2>2. rest' = 0 /\ unit' # "active" /\ proc' # "up" /\ starts' = starts
    BY <1>5 DEF ProcessEnded, Restarts, vars
  <2>3. WatchdogThreshold + 1 + 0 = WatchdogThreshold + 1
    OBVIOUS
  <2>4. QED
    BY <2>1, <2>2, <2>3 DEF StartsSpaced
<1>6. CASE Outage \/ Recovery \/ SaveRecord
  BY <1>1, <1>6 DEF Outage, Recovery, SaveRecord, vars
<1>7. ASSUME NEW l \in Loops, Loop(l) PROVE StartsSpaced'
  <2>1. UNCHANGED <<starts, unit, rest>> /\ proc' = proc
    BY <1>7 DEF Loop, RunLoop
  <2>2. \A k \in Loops : age'[k] = age[k] \/ age'[k] = 0
    BY <1>7 DEF Loop, RunLoop, LoopStops, TickStarts, TickEnds, SleepInterrupted, SleepEnds,
        Touch, TypeOK
  <2>3. QED
    BY <1>1, <2>1, <2>2
<1>8. CASE Others \/ Stop
  <2>1. CASE WatchdogCheck /\ proc' = "watchdog"
    <3>1. PICK l \in Loops : age[l] > WatchdogThreshold
      BY <2>1 DEF WatchdogCheck, Stale, Registered, Loops
    <3>2. Spaced(starts, age[l]) /\ age[l] \in Nat /\ WatchdogThreshold + 1 \in 0..age[l]
      BY <2>1, <3>1 DEF WatchdogCheck, StartsSpaced, TypeOK
    <3>3. Spaced(starts, WatchdogThreshold + 1)
      BY <3>2, SpacedWeaken DEF ServiceTypeOK
    <3>4. UNCHANGED <<starts, unit, rest>> /\ unit # "auto-restart"
      BY <1>8, <2>1 DEF Others, Stop, WatchdogCheck, Lives
    <3>5. QED
      BY <2>1, <3>3, <3>4 DEF StartsSpaced
  <2>2. CASE ~(WatchdogCheck /\ proc' = "watchdog")
    BY <1>8, <2>2 DEF Others, Stop, WatchdogCheck, WatchdogStops, Main, CleanExit, ForcedExit,
        Signal, Lives, StartsSpaced
  <2>3. QED
    BY <2>1, <2>2
<1>9. CASE ProcessTime
  <2>1. proc = "up" /\ proc' = "up" /\ unit' = unit /\ unit = "active" /\ starts' = Older
    BY <1>9 DEF ProcessTime, TimePasses, Lives
  <2>2. ASSUME NEW l \in Loops PROVE Spaced(Older, age'[l])
    <3>1. Spaced(starts, age[l]) /\ age[l] \in Nat
      BY <2>1 DEF StartsSpaced, TypeOK
    <3>2. age'[l] = age[l] + 1 \/ age'[l] = age[l]
      BY <1>9 DEF ProcessTime, TimePasses, Bump
    <3>3. Spaced(Older, age[l] + 1)
      BY <3>1, SpacedOlder
    <3>4. Spaced(Older, age[l])
      BY <3>1, <3>3, OlderIsSuffix, SpacedWeaken
    <3>5. QED
      BY <3>2, <3>3, <3>4
  <2>3. QED
    BY <2>1, <2>2 DEF StartsSpaced
<1>10. CASE PauseTime
  <2>1. Spaced(starts, WatchdogThreshold + 1 + rest) /\ WatchdogThreshold + 1 + rest \in Nat
    BY <1>10 DEF PauseTime, StartsSpaced, ServiceTypeOK
  <2>2. Spaced(Older, WatchdogThreshold + 1 + rest + 1)
    BY <2>1, SpacedOlder
  <2>3. WatchdogThreshold + 1 + rest + 1 = WatchdogThreshold + 1 + (rest + 1)
    BY DEF ServiceTypeOK
  <2>4. QED
    BY <1>10, <2>2, <2>3 DEF PauseTime, vars, Lives, StartsSpaced
<1>11. CASE UNCHANGED service
  BY <1>1, <1>11 DEF service, vars
<1>12. QED
  BY <1>2, <1>3, <1>4, <1>5, <1>6, <1>7, <1>8, <1>9, <1>10, <1>11 DEF ServiceNext

\* A start is remembered when it is new, and forgotten by time only.
LEMMA NextStartsRecent ==
    ASSUME ServiceTypeOK, StartsRecent, [ServiceNext]_service
    PROVE  StartsRecent'
<1>1. ASSUME NEW start, start.age = 0, starts' = Append(starts, start) PROVE StartsRecent'
  <2>1. starts \in Seq([age : Nat, up : BOOLEAN])
    BY DEF ServiceTypeOK
  <2>2. /\ Len(starts) \in Nat /\ Len(starts') = Len(starts) + 1
        /\ starts'[Len(starts) + 1] = start
        /\ \A i \in 1..Len(starts) : starts'[i] = starts[i]
    BY <1>1, <2>1, LenProperties
  <2>3. \A i \in 1..Len(starts') : i \in 1..Len(starts) \/ i = Len(starts) + 1
    BY <2>2
  <2>4. QED
    BY <1>1, <2>2, <2>3 DEF StartsRecent
<1>2. ASSUME starts' = Older PROVE StartsRecent'
  BY <1>2, OlderIsSuffix DEF StartsRecent
<1>3. ASSUME starts' = starts PROVE StartsRecent'
  BY <1>3 DEF StartsRecent
<1>4. QED
  BY <1>1, <1>2, <1>3 DEF ServiceNext, StartUp, StartFails, GiveUp, ProcessEnded, StopPending,
      Outage, Recovery, SaveRecord, Loop, Others, Stop, ProcessTime, PauseTime, service, systemd

\* systemd gives up only over starts of which one failed: as many lives as the
\* limit allows take longer than the interval.
LEMMA NextGivesUp ==
    ASSUME StartLimitBurst * Life >= StartLimitInterval,
           TypeOK, ServiceTypeOK, Lives, StartsSpaced, StartsRecent,
           GivesUpOnlyOnFailedStarts, [ServiceNext]_service
    PROVE  GivesUpOnlyOnFailedStarts'
<1>1. CASE GiveUp
  <2> DEFINE n == Len(starts)
  <2>1. n \in Nat /\ n = StartLimitBurst /\ n >= 1 /\ DOMAIN starts = 1..n
    BY <1>1, LenProperties, ServiceAssumption DEF GiveUp, LimitHit, ServiceTypeOK
  <2>2. SUFFICES ASSUME \A i \in DOMAIN starts : starts[i].up PROVE FALSE
    BY <1>1 DEF GiveUp, GivesUpOnlyOnFailedStarts
  <2>3. Spaced(starts, WatchdogThreshold + 1 + rest) /\ rest \in Nat /\ rest >= RestartSec
    BY <1>1, ServiceAssumption DEF GiveUp, StartDue, StartsSpaced, ServiceTypeOK
  <2>4. starts[1].age >= (n - 1) * Life + (WatchdogThreshold + 1 + rest)
    BY <2>1, <2>2, <2>3 DEF Spaced
  <2>5. (n - 1) * Life \in Nat /\ (n + 1 - 1) * Life = (n - 1) * Life + Life
    <3>1. n \in Nat /\ 1 \in 1..n
      BY <2>1
    <3> HIDE DEF n
    <3>2. QED
      BY <3>1, LivesBetween
  <2>6. n + 1 - 1 = n
    BY <2>1
  <2>7. n * Life = (n - 1) * Life + Life
    BY <2>5, <2>6
  <2>8. starts[1].age \in Nat /\ (starts[1].age = 0 \/ starts[1].age < StartLimitInterval)
    BY <2>1, StartAges DEF StartsRecent
  <2>9. n * Life >= StartLimitInterval
    BY <2>1
  <2> HIDE DEF n
  <2>10. starts[1].age >= n * Life
    <3> DEFINE lives == (n - 1) * Life
    <3>1. lives \in Nat /\ n * Life = lives + Life
      BY <2>5, <2>7
    <3>2. starts[1].age >= lives + (WatchdogThreshold + 1 + rest)
      BY <2>4
    <3>3. WatchdogThreshold + 1 + rest >= Life
      BY <2>3, DurationAssumption, ServiceAssumption DEF Life
    <3> HIDE DEF lives
    <3>4. starts[1].age >= lives + Life
      BY <2>3, <2>8, <3>1, <3>2, <3>3, LifeType, DurationAssumption
    <3>5. QED
      BY <3>1, <3>4
  <2>11. starts[1].age >= 1
    BY <2>3, <2>4, <2>5, <2>8, DurationAssumption
  <2>12. QED
    BY <2>5, <2>7, <2>8, <2>9, <2>10, <2>11, LifeType, ServiceAssumption
<1>2. CASE ~GiveUp /\ unit' = "failed"
  <2>1. unit = "failed" /\ proc # "up"
    BY <1>2 DEF Lives, ServiceNext, StartUp, StartFails, ProcessEnded, Restarts, StopPending,
        StartDue, Outage, Recovery, SaveRecord, Loop, Others, Stop, ProcessTime, PauseTime,
        service, systemd
  <2>2. starts' = starts
    BY <1>2, <2>1 DEF ServiceNext, StartUp, StartFails, ProcessEnded, StopPending,
        StartDue, Outage, Recovery, SaveRecord, Loop, Others, Stop, ProcessTime, TimePasses,
        PauseTime, service, systemd
  <2>3. QED
    BY <2>1, <2>2 DEF GivesUpOnlyOnFailedStarts
<1>3. CASE unit' # "failed"
  BY <1>3 DEF GivesUpOnlyOnFailedStarts
<1>4. QED
  BY <1>1, <1>2, <1>3

\* Kills by the watchdog alone never leave the unit failed, when as many lives as
\* StartLimitBurst allows last at least StartLimitInterval (obauditor.service).
THEOREM WatchdogNeverExhaustsStarts ==
    ASSUME StartLimitBurst * Life >= StartLimitInterval
    PROVE  ServiceSpec => []GivesUpOnlyOnFailedStarts
<1>1. ServiceInit => StartsSpaced /\ StartsRecent /\ GivesUpOnlyOnFailedStarts
  <2>1. Len(<<>>) = 0
    OBVIOUS
  <2>2. QED
    BY <2>1 DEF ServiceInit, StartsSpaced, StartsRecent, Spaced, GivesUpOnlyOnFailedStarts
<1>2. TypeOK /\ ServiceTypeOK /\ Lives /\ StartsSpaced /\ [ServiceNext]_service => StartsSpaced'
  BY NextStartsSpaced
<1>3. ServiceTypeOK /\ StartsRecent /\ [ServiceNext]_service => StartsRecent'
  BY NextStartsRecent
<1>4. TypeOK /\ ServiceTypeOK /\ Lives /\ StartsSpaced /\ StartsRecent
        /\ GivesUpOnlyOnFailedStarts /\ [ServiceNext]_service => GivesUpOnlyOnFailedStarts'
  BY NextGivesUp
<1>5. QED
  BY <1>1, <1>2, <1>3, <1>4, ProcessInvariant, ServiceTypeCorrect, PTL DEF ServiceSpec
=============================================================================
