----------------------------- MODULE AuditTrail -----------------------------
(***************************************************************************)
(* What DDL/DCL collection promises, without saying how it is done: rows   *)
(* come and go in a volatile buffer, some of them are recorded in a log    *)
(* that never forgets and never holds two rows of one key, and a published *)
(* cursor per unit never claims more than what is recorded.                *)
(***************************************************************************)
EXTENDS Integers

CONSTANTS Units, Hosts, SvrIp, RequestIds, MaxEnd

VARIABLES sqlAudit, auditLog, checkpoint

vars == <<sqlAudit, auditLog, checkpoint>>

Row == [unit : Units, id : RequestIds, end : 0..MaxEnd, ddl : BOOLEAN]
Cursor == -1..MaxEnd

Key(r) == <<SvrIp[r.unit], r.id>>
KeysOf(S) == {Key(r) : r \in S}

\* Everything of unit u up to end time e that needs recording is recorded.
Recorded(u, e) ==
    \A r \in sqlAudit : r.ddl /\ r.unit = u /\ r.end <= e => Key(r) \in KeysOf(auditLog)

Init ==
    /\ sqlAudit = {}
    /\ auditLog = {}
    /\ checkpoint = [u \in Units |-> -1]

\* A row appears, beyond the cursor of its unit.
Appear(r) ==
    /\ r.end > checkpoint[r.unit]
    /\ sqlAudit' = sqlAudit \cup {r}
    /\ UNCHANGED <<auditLog, checkpoint>>

\* The buffer forgets rows.
Forget ==
    /\ sqlAudit' \in SUBSET sqlAudit
    /\ UNCHANGED <<auditLog, checkpoint>>

\* DDL rows are copied, never one whose key the log has already.
Record ==
    /\ auditLog \subseteq auditLog'
    /\ \A r \in auditLog' \ auditLog :
        r \in sqlAudit /\ r.ddl /\ Key(r) \notin KeysOf(auditLog)
    /\ \A r, q \in auditLog' : Key(r) = Key(q) => r = q
    /\ UNCHANGED <<sqlAudit, checkpoint>>

\* Cursors are published, moved back or withdrawn.
Publish ==
    /\ checkpoint' \in [Units -> Cursor]
    /\ \A u \in Units : Recorded(u, checkpoint'[u])
    /\ UNCHANGED <<sqlAudit, auditLog>>

Next ==
    \/ \E r \in Row : Appear(r)
    \/ Forget
    \/ Record
    \/ Publish

Spec == Init /\ [][Next]_vars
=============================================================================
