---------------------------- MODULE SessionTrail -----------------------------
(***************************************************************************)
(* What log ingestion promises to those who read the table sessions,       *)
(* without files, offsets, ticks and failures: a log that grows, and rows  *)
(* that its lines bring about.  The row of a login appears once and stays; *)
(* its logoff is set once, together with that of every open session that   *)
(* bears the id.  In which order the lines take effect is left open.       *)
(***************************************************************************)
EXTENDS Integers, Sequences

CONSTANTS Lines

VARIABLES log, done, rows

vars == <<log, done, rows>>

Init == log = <<>> /\ done = {} /\ rows = {}

Write(line) ==
    /\ log' = Append(log, line)
    /\ UNCHANGED <<done, rows>>

\* A login takes effect once.
Appear(i) ==
    /\ log[i].kind = "LOGIN"
    /\ i \notin done
    /\ rows' = rows \cup {[sess |-> log[i].sess, login |-> i, logoff |-> 0]}
    /\ done' = done \cup {i}
    /\ UNCHANGED log

\* A logoff closes what is open; it may take effect again.
Close(i) ==
    /\ log[i].kind = "LOGOFF"
    /\ rows' = {IF r.sess = log[i].sess /\ r.logoff = 0 THEN [r EXCEPT !.logoff = i] ELSE r :
                    r \in rows}
    /\ done' = done \cup {i}
    /\ UNCHANGED log

Pass(i) ==
    /\ log[i].kind = "noise"
    /\ done' = done \cup {i}
    /\ UNCHANGED <<log, rows>>

Next ==
    \/ \E line \in Lines : Write(line)
    \/ \E i \in DOMAIN log : Appear(i) \/ Close(i) \/ Pass(i)

Spec == Init /\ [][Next]_vars
=============================================================================
