--------------------------- MODULE Fallback_proof ----------------------------
(***************************************************************************)
(* Proofs about Fallback, for any threshold, pause, length of a Collect    *)
(* and number of failed ticks.                                             *)
(***************************************************************************)
EXTENDS Fallback, TLAPS

-----------------------------------------------------------------------------
(* Type correctness.                                                       *)

\* Both daemons start with a due tick, or the main one is down.
LEMMA InitTypeOK == Init => TypeOK
BY FallbackAssumption DEF Init, TypeOK, Daemons, Null, MaxAge

\* Every step of the ddl loop keeps the types; no timer outruns its phase.
LEMMA NextTypeOK == TypeOK /\ [Next]_vars => TypeOK'
<1> SUFFICES ASSUME TypeOK, [Next]_vars PROVE TypeOK'
  OBVIOUS
<1> USE FallbackAssumption DEF Null, MaxAge
<1>1. ASSUME NEW d \in Daemons, TickCollects(d) PROVE TypeOK'
  BY <1>1 DEF TickCollects, Enter, TypeOK
<1>2. ASSUME NEW d \in Daemons, TickSkips(d) PROVE TypeOK'
  BY <1>2 DEF TickSkips, Enter, TypeOK
<1>3. ASSUME NEW d \in Daemons, TickFails(d) PROVE TypeOK'
  BY <1>3 DEF TickFails, Fault, Enter, TypeOK
<1>4. ASSUME NEW d \in Daemons, TouchUnit(d) PROVE TypeOK'
  BY <1>4 DEF TouchUnit, TypeOK
<1>5. ASSUME NEW d \in Daemons, CollectEnds(d) PROVE TypeOK'
  BY <1>5 DEF CollectEnds, Enter, TypeOK
<1>6. ASSUME NEW d \in Daemons, Wake(d) PROVE TypeOK'
  BY <1>6 DEF Wake, Enter, TypeOK
<1>7. CASE MainDies
  BY <1>7 DEF MainDies, Enter, TypeOK, Daemons
<1>8. CASE MainStarts
  BY <1>8 DEF MainStarts, Enter, TypeOK, Daemons
<1>9. CASE TimePasses
  <2>1. updatedAge' \in Null..MaxAge
    BY <1>9 DEF TimePasses, TypeOK
  <2>2. timer' \in [Daemons -> Nat]
    BY <1>9 DEF TimePasses, TypeOK
  <2>3. ASSUME NEW d \in Daemons
        PROVE  timer'[d] \in CASE phase[d] = "collect" -> 0..MaxCollect
                                [] phase[d] = "sleep" -> 0..DdlDclInterval
                                [] OTHER -> {0}
    BY <1>9 DEF TimePasses, Due, TypeOK
  <2>4. QED
    BY <1>9, <2>1, <2>2, <2>3 DEF TimePasses, TypeOK
<1>10. CASE UNCHANGED vars
  BY <1>10 DEF vars, TypeOK
<1>11. QED
  BY <1>1, <1>2, <1>3, <1>4, <1>5, <1>6, <1>7, <1>8, <1>9, <1>10 DEF Next, Tick

\* Every reachable state is well typed: ticks, Collects and pauses end in time.
THEOREM FallbackTypeCorrect == Spec => []TypeOK
<1>1. QED
  BY InitTypeOK, NextTypeOK, PTL DEF Spec

-----------------------------------------------------------------------------
(* The fallback takes over in time.                                        *)

\* The greatest silence in each phase of the daemon that is to end it: the
\* pause that follows a tick which found t or less, the tick, the Collect.
SilenceIn(d, t) ==
    CASE phase[d] = "sleep"   -> t + timer[d]
      [] phase[d] = "tick"    -> t + DdlDclInterval
      [] phase[d] = "collect" -> t + DdlDclInterval + timer[d]
      [] OTHER                -> t

\* The silence, measured on the clock of the fallback's current phase.
FallbackPace ==
    /\ phase["fallback"] # "down"
    /\ faults = 0 => updatedAge <= SilenceIn("fallback", FallbackThreshold)

\* The pace is kept whatever main does, because main only ends the silence.
LEMMA NextFallbackPace ==
    TypeOK /\ FallbackPace /\ [Next]_vars => FallbackPace'
<1> SUFFICES ASSUME TypeOK, FallbackPace, [Next]_vars PROVE FallbackPace'
  OBVIOUS
<1> USE FallbackAssumption DEF Null, Daemons, SilenceIn, FallbackPace
<1>1. ASSUME NEW d \in Daemons, TickCollects(d) PROVE FallbackPace'
  BY <1>1 DEF TickCollects, Enter, TypeOK
<1>2. ASSUME NEW d \in Daemons, TickSkips(d) PROVE FallbackPace'
  BY <1>2 DEF TickSkips, DoCollect, ShouldCollectFallback, Enter, TypeOK
<1>3. ASSUME NEW d \in Daemons, TickFails(d) PROVE FallbackPace'
  BY <1>3 DEF TickFails, Fault, Enter, TypeOK
<1>4. ASSUME NEW d \in Daemons, TouchUnit(d) PROVE FallbackPace'
  BY <1>4 DEF TouchUnit, TypeOK
<1>5. ASSUME NEW d \in Daemons, CollectEnds(d) PROVE FallbackPace'
  BY <1>5 DEF CollectEnds, Enter, TypeOK
<1>6. ASSUME NEW d \in Daemons, Wake(d) PROVE FallbackPace'
  BY <1>6 DEF Wake, Enter, TypeOK
<1>7. CASE MainDies
  BY <1>7 DEF MainDies, Enter, TypeOK
<1>8. CASE MainStarts
  BY <1>8 DEF MainStarts, Enter, TypeOK
<1>9. CASE TimePasses
  BY <1>9 DEF TimePasses, Due, TypeOK, MaxAge
<1>10. CASE UNCHANGED vars
  BY <1>10 DEF vars
<1>11. QED
  BY <1>1, <1>2, <1>3, <1>4, <1>5, <1>6, <1>7, <1>8, <1>9, <1>10 DEF Next, Tick

\* While no tick fails, the audit is never silent for longer than the threshold,
\* one pause and one Collect, whenever the main daemon dies or returns.
THEOREM FallbackTakesOver == Spec => []TakesOver
<1>1. Init => FallbackPace
  BY FallbackAssumption DEF Init, FallbackPace, SilenceIn, Null, Daemons
<1>2. TypeOK /\ FallbackPace => TakesOver
  BY FallbackAssumption
     DEF TypeOK, FallbackPace, SilenceIn, TakesOver, SilenceBounded, Daemons, Null, MaxAge
<1>3. QED
  BY <1>1, <1>2, FallbackTypeCorrect, NextFallbackPace, PTL DEF Spec

-----------------------------------------------------------------------------
(* The fallback leaves a working main alone.                               *)

\* A main daemon that has fed updated_at goes on doing so: the silence is never
\* longer than its own pause and Collect have taken.
MainFeeds ==
    fed["main"] =>
        /\ phase["main"] # "down"
        /\ updatedAge \in 0..SilenceIn("main", 0)

\* Main's own steps, and time, keep it; the fallback can only end a silence.
LEMMA NextMainFeeds ==
    TypeOK /\ MainFeeds /\ [Next]_vars => MainFeeds'
<1> SUFFICES ASSUME TypeOK, MainFeeds, [Next]_vars PROVE MainFeeds'
  OBVIOUS
<1> USE FallbackAssumption DEF Null, Daemons, SilenceIn, MainFeeds
<1>1. ASSUME NEW d \in Daemons, TickCollects(d) PROVE MainFeeds'
  BY <1>1 DEF TickCollects, Enter, TypeOK
<1>2. ASSUME NEW d \in Daemons, TickSkips(d) PROVE MainFeeds'
  BY <1>2 DEF TickSkips, DoCollect, Enter, TypeOK
<1>3. ASSUME NEW d \in Daemons, TickFails(d) PROVE MainFeeds'
  BY <1>3 DEF TickFails, Enter, TypeOK
<1>4. ASSUME NEW d \in Daemons, TouchUnit(d) PROVE MainFeeds'
  BY <1>4 DEF TouchUnit, TypeOK
<1>5. ASSUME NEW d \in Daemons, CollectEnds(d) PROVE MainFeeds'
  BY <1>5 DEF CollectEnds, Enter, TypeOK
<1>6. ASSUME NEW d \in Daemons, Wake(d) PROVE MainFeeds'
  BY <1>6 DEF Wake, Enter, TypeOK
<1>7. CASE MainDies
  BY <1>7 DEF MainDies, Enter, TypeOK
<1>8. CASE MainStarts
  BY <1>8 DEF MainStarts, Enter, TypeOK
<1>9. CASE TimePasses
  BY <1>9 DEF TimePasses, Due, TypeOK, MaxAge
<1>10. CASE UNCHANGED vars
  BY <1>10 DEF vars
<1>11. QED
  BY <1>1, <1>2, <1>3, <1>4, <1>5, <1>6, <1>7, <1>8, <1>9, <1>10 DEF Next, Tick

\* With a threshold of at least one pause and one Collect, the fallback begins a
\* Collect only when nothing was ever collected or main has died or failed.
THEOREM FallbackKeepsOut ==
    ASSUME DdlDclInterval + MaxCollect <= FallbackThreshold
    PROVE  Spec => FallbackLeavesMainAlone
<1> DEFINE Allowed ==
        phase["fallback"] = "tick" /\ phase'["fallback"] = "collect"
            => updatedAge = Null \/ ~fed["main"]
<1>1. Init => MainFeeds
  BY DEF Init, MainFeeds, Daemons
<1>2. ASSUME TypeOK, MainFeeds, [Next]_vars PROVE [Allowed]_vars
  <2>1. SUFFICES ASSUME phase["fallback"] = "tick", phase'["fallback"] = "collect",
                        updatedAge # Null, fed["main"]
                 PROVE  FALSE
    OBVIOUS
  <2>2. ShouldCollectFallback
    BY <1>2, <2>1 DEF Next, Tick, TickCollects, TickSkips, TickFails, TouchUnit, CollectEnds,
        Wake, MainDies, MainStarts, TimePasses, Enter, DoCollect, TypeOK, Daemons, vars
  <2>3. updatedAge <= DdlDclInterval + MaxCollect
    BY <1>2, <2>1, FallbackAssumption DEF MainFeeds, SilenceIn, TypeOK, Daemons
  <2>4. QED
    BY <1>2, <2>1, <2>2, <2>3, FallbackAssumption DEF ShouldCollectFallback, TypeOK, Null, MaxAge
<1>3. QED
  BY <1>1, <1>2, FallbackTypeCorrect, NextMainFeeds, PTL DEF Spec, FallbackLeavesMainAlone
=============================================================================
