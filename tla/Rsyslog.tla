------------------------------ MODULE Rsyslog -------------------------------
(***************************************************************************)
(* Forwarding to rsyslog, RsyslogSender (internal/logproc/rsyslog.go).     *)
(*                                                                         *)
(* Each daemon's rsyslog loop walks three streams with one cursor each in  *)
(* the shared table rsyslog_cursor: logins (sessions by id), logoffs       *)
(* (closed sessions by logoff_time and id) and ddl (ddl_dcl_audit_log by   *)
(* id).  A cursor moves after a whole batch was handed to the UDP socket.  *)
(* Meanwhile the log processors and collectors write the tables.           *)
(***************************************************************************)
EXTENDS Integers, FiniteSets, FiniteSetsExt

CONSTANTS
    Senders,        \* daemons with rsyslog.host set
    BatchSize,      \* config rsyslog.batchSize
    IdsInOrder,     \* TRUE: rows become visible in the order of their ids
    MaxId,          \* bound: greatest id of sessions and of ddl_dcl_audit_log
    MaxSessionId,   \* bound: greatest id of sessions, to keep instances small
    MaxTime,        \* bound: greatest logoff_time
    MaxFaults       \* bound: failed statements or sends, and killed daemons

\* NewRsyslogSender replaces a non-positive batch size.
ASSUME RsyslogAssumption ==
    /\ BatchSize \in Nat \ {0}
    /\ IdsInOrder \in BOOLEAN
    /\ MaxId \in Nat /\ MaxSessionId \in 0..MaxId /\ MaxTime \in Nat /\ MaxFaults \in Nat

Streams == {"login", "logoff", "ddl"}
Ids == 1..MaxId
Open == 0

VARIABLES
    sessions,   \* ids of the visible rows of sessions
    logoffTime, \* per id: logoff_time, Open while NULL
    ddlLog,     \* ids of the visible rows of ddl_dcl_audit_log
    cursor,     \* rsyslog_cursor: per stream <<last_time, last_id>>
    sender,     \* per sender: where it is in Send
    sent,       \* <<stream, id>> handed to the socket at least once
    faults

tables == <<sessions, logoffTime, ddlLog>>
vars == <<tables, cursor, sender, sent, faults>>

\* The rows of a stream and their order; only logoffs are ordered by time.
Visible(stream) ==
    CASE stream = "login"  -> sessions
      [] stream = "logoff" -> {i \in sessions : logoffTime[i] # Open}
      [] stream = "ddl"    -> ddlLog

\* Mutant of Pos: logoffs are ordered by id alone.
PosById(stream, id) == <<0, id>>

Pos(stream, id) == <<IF stream = "logoff" THEN logoffTime[id] ELSE 0, id>>

Before(p, q) == p[1] < q[1] \/ (p[1] = q[1] /\ p[2] < q[2])

Origin == <<0, 0>>

\* A sender outside Send.  at: the next step; last: the cursor in memory, or
\* the last row sent; left: rows of the batch not yet sent; got: rows sent.
Idle == [at |-> "idle", stream |-> "login", last |-> Origin, left |-> {}, got |-> 0]

Init ==
    /\ sessions = {}
    /\ logoffTime = [i \in Ids |-> Open]
    /\ ddlLog = {}
    /\ cursor = [s \in Streams |-> Origin]
    /\ sender = [s \in Senders |-> Idle]
    /\ sent = {}
    /\ faults = 0

-----------------------------------------------------------------------------
(* The writers of the tables, as far as the streams see them.              *)

NextVisible(id, seen) ==
    /\ id \notin seen
    /\ IdsInOrder => \A i \in seen : i < id

InsertLogin(id) ==
    /\ NextVisible(id, sessions)
    /\ sessions' = sessions \cup {id}
    /\ UNCHANGED <<logoffTime, ddlLog, cursor, sender, sent, faults>>

InsertDdl(id) ==
    /\ NextVisible(id, ddlLog)
    /\ ddlLog' = ddlLog \cup {id}
    /\ UNCHANGED <<sessions, logoffTime, cursor, sender, sent, faults>>

\* UpdateLogoff, UpdateLogoffDirect, SyncFailedProxySessions: only open rows.
\* The time is that of the log line, in whatever order the lines are read.
UpdateLogoff(id, time) ==
    /\ id \in sessions
    /\ logoffTime[id] = Open
    /\ logoffTime' = [logoffTime EXCEPT ![id] = time]
    /\ UNCHANGED <<sessions, ddlLog, cursor, sender, sent, faults>>

-----------------------------------------------------------------------------
(* Send.                                                                   *)

Goto(s, at) == sender' = [sender EXCEPT ![s].at = at]
Leave(s) == sender' = [sender EXCEPT ![s] = Idle]

\* sendLogins, sendLogoffs, sendDdl, in this order.
NextStream(s) ==
    sender' = [sender EXCEPT ![s] =
        CASE @.stream = "login"  -> [Idle EXCEPT !.at = "readTime", !.stream = "logoff"]
          [] @.stream = "logoff" -> [Idle EXCEPT !.at = "readId", !.stream = "ddl"]
          [] @.stream = "ddl"    -> Idle]

Fault == faults < MaxFaults /\ faults' = faults + 1

\* ensureCursorRows, then sendLogins begins.
SendStarts(s) ==
    /\ sender[s].at = "idle"
    /\ Goto(s, "readId")
    /\ UNCHANGED <<tables, cursor, sent, faults>>

\* getLogoffLastTime and getLastId are two queries.
ReadTime(s) ==
    /\ sender[s].at = "readTime"
    /\ sender' = [sender EXCEPT ![s].at = "readId", ![s].last = <<cursor["logoff"][1], @[2]>>]
    /\ UNCHANGED <<tables, cursor, sent, faults>>

ReadId(s) ==
    /\ sender[s].at = "readId"
    /\ sender' = [sender EXCEPT ![s].at = "query",
                                  ![s].last = <<@[1], cursor[sender[s].stream][2]>>]
    /\ UNCHANGED <<tables, cursor, sent, faults>>

After(stream, p) == {i \in Visible(stream) : Before(p, Pos(stream, i))}

Earlier(stream, p, id) == {i \in After(stream, p) : Before(Pos(stream, i), Pos(stream, id))}

\* Mutants of Batch: no LIMIT; logoffs read in the order of their ids; the
\* newest rows first.
BatchUnlimited(stream, p) == After(stream, p)

BatchById(stream, p) ==
    {id \in After(stream, p) : Cardinality({i \in After(stream, p) : i < id}) < BatchSize}

BatchNewest(stream, p) ==
    {id \in After(stream, p) :
        Cardinality({i \in After(stream, p) : Before(Pos(stream, id), Pos(stream, i))}) < BatchSize}

\* The rows after position p, the first BatchSize of them.
Batch(stream, p) ==
    {id \in After(stream, p) : Cardinality(Earlier(stream, p, id)) < BatchSize}

QueryBatch(s) ==
    /\ sender[s].at = "query"
    /\ LET batch == Batch(sender[s].stream, sender[s].last) IN
        IF batch = {}
        THEN NextStream(s)
        ELSE sender' = [sender EXCEPT ![s].at = "send", ![s].left = batch, ![s].got = 0]
    /\ UNCHANGED <<tables, cursor, sent, faults>>

\* sendUdp of the next row.
SendRow(s) ==
    /\ sender[s].at = "send"
    /\ LET stream == sender[s].stream
           left == sender[s].left IN
        \E id \in left :
            /\ \A other \in left \ {id} : Before(Pos(stream, id), Pos(stream, other))
            /\ sent' = sent \cup {<<stream, id>>}
            /\ sender' = [sender EXCEPT ![s].left = @ \ {id}, ![s].got = @ + 1,
                                        ![s].last = Pos(stream, id)]
    /\ UNCHANGED <<tables, cursor, faults>>

\* Mutants of UpdateCursor: the cursor moves once, after the last batch; it
\* moves to the newest row of the table.
UpdateCursorAtEnd(s) ==
    /\ sender[s].at = "send"
    /\ sender[s].left = {}
    /\ sender[s].got > 0
    /\ IF sender[s].got < BatchSize
       THEN NextStream(s) /\ cursor' = [cursor EXCEPT ![sender[s].stream] = sender[s].last]
       ELSE Goto(s, "query") /\ UNCHANGED cursor
    /\ UNCHANGED <<tables, sent, faults>>

UpdateCursorToNewest(s) ==
    LET stream == sender[s].stream
        newest == Max({i \in Visible(stream) : \A j \in Visible(stream) :
                        j = i \/ Before(Pos(stream, j), Pos(stream, i))}) IN
    /\ sender[s].at = "send"
    /\ sender[s].left = {}
    /\ sender[s].got > 0
    /\ cursor' = [cursor EXCEPT ![stream] = Pos(stream, newest)]
    /\ IF sender[s].got < BatchSize THEN NextStream(s) ELSE Goto(s, "query")
    /\ UNCHANGED <<tables, sent, faults>>

\* The cursor moves to the last row of the batch; a full batch asks for more.
UpdateCursor(s) ==
    /\ sender[s].at = "send"
    /\ sender[s].left = {}
    /\ sender[s].got > 0
    /\ cursor' = [cursor EXCEPT ![sender[s].stream] = sender[s].last]
    /\ IF sender[s].got < BatchSize THEN NextStream(s) ELSE Goto(s, "query")
    /\ UNCHANGED <<tables, sent, faults>>

\* rows.Next returns FALSE on a read error, which nobody asks for: the batch
\* seems to end there.
BatchCutShort(s) ==
    /\ sender[s].at = "send"
    /\ sender[s].left # {}
    /\ Fault
    /\ IF sender[s].got = 0
       THEN NextStream(s)
       ELSE sender' = [sender EXCEPT ![s].left = {}]
    /\ UNCHANGED <<tables, cursor, sent>>

\* A query, a send or the UPDATE fails, or the daemon dies: Send is left with
\* the cursor as it was.
SendFails(s) ==
    /\ sender[s].at # "idle"
    /\ Fault
    /\ Leave(s)
    /\ UNCHANGED <<tables, cursor, sent>>

Send(s) ==
    \/ SendStarts(s)
    \/ ReadTime(s)
    \/ ReadId(s)
    \/ QueryBatch(s)
    \/ SendRow(s)
    \/ UpdateCursor(s)

Writers ==
    \/ \E id \in 1..MaxSessionId : InsertLogin(id)
    \/ \E id \in Ids : InsertDdl(id)
    \/ \E id \in Ids, time \in 1..MaxTime : UpdateLogoff(id, time)

Next ==
    \/ Writers
    \/ \E s \in Senders : Send(s) \/ BatchCutShort(s) \/ SendFails(s)

Spec == Init /\ [][Next]_vars

\* The rsyslog loop calls Send again and again.
FairSpec == Spec /\ \A s \in Senders : WF_vars(Send(s))

-----------------------------------------------------------------------------
(* Properties.                                                             *)

Position == (0..MaxTime) \X (0..MaxId)

TypeOK ==
    /\ sessions \in SUBSET Ids
    /\ logoffTime \in [Ids -> Open..MaxTime]
    /\ ddlLog \in SUBSET Ids
    /\ cursor \in [Streams -> Position]
    /\ sender \in [Senders ->
            [at : {"idle", "readTime", "readId", "query", "send"}, stream : Streams,
             last : Position, left : SUBSET Ids, got : 0..BatchSize]]
    /\ \A s \in Senders : Cardinality(sender[s].left) + sender[s].got <= BatchSize
    /\ sent \in SUBSET (Streams \X Ids)
    /\ faults \in 0..MaxFaults

Skipped(stream) ==
    {i \in Visible(stream) :
        ~Before(cursor[stream], Pos(stream, i)) /\ <<stream, i>> \notin sent}

\* Whatever the cursor of logins and the cursor of DDL have passed was sent, over
\* batches, failures, restarts and senders that set the cursor back.
NoIdSkipped == Skipped("login") = {} /\ Skipped("ddl") = {}

\* The same for the stream ordered by time: "the cursor works with logoff_time,
\* generated by the server at the UPDATE" (ARCHITECTURE.md 11.2).
NoLogoffSkipped == Skipped("logoff") = {}
=============================================================================
