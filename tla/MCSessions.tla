----------------------------- MODULE MCSessions -----------------------------
(***************************************************************************)
(* Instances of Sessions for TLC.                                          *)
(***************************************************************************)
EXTENDS Sessions

CONSTANT c1

\* sm_id and cs_id of a client are one number.
MCSmId == [c \in Clients |-> c]

\* Only obproxy.log is rotated; LogIngest has the rotation of observer.log.
MCMaxFiles == [s \in Sources |-> IF s = "PROXY" THEN 2 ELSE 1]

\* A client may open a second server session after its login, the first one may
\* close while the client is at work, and the proxy may log four of its lines.
MCMaxLines == [s \in Sources |-> IF s = "PROXY" THEN 4 ELSE 2]
=============================================================================
