--------------------------- MODULE RsyslogHistory ----------------------------
(***************************************************************************)
(* Rsyslog with three auxiliary variables that record what the properties  *)
(* of several senders need to know of the past.  They change no step.      *)
(***************************************************************************)
EXTENDS Rsyslog

VARIABLES
    late,     \* ids of sessions that closed behind what the senders had reached
    torn,     \* a sender read the time and the id of two logoff cursors, the
              \* second behind the first
    furthest  \* per stream ordered by id: the furthest position of its cursor

IdStreams == {"login", "ddl"}

history == <<late, torn, furthest>>
allVars == <<vars, history>>

HistoryInit ==
    /\ Init
    /\ late = {}
    /\ torn = FALSE
    /\ furthest = [stream \in IdStreams |-> Origin]

\* The positions in the stream of logoffs that a sender has in memory: behind
\* them it will not look again.
Reached(s) ==
    IF sender[s].stream = "logoff" /\ sender[s].at \in {"query", "send"}
    THEN {sender[s].last} \cup {Pos("logoff", i) : i \in sender[s].left}
    ELSE {}

Overtaken(p) == \E q \in {cursor["logoff"]} \cup UNION {Reached(s) : s \in Senders} : ~Before(q, p)

ClosedLate ==
    {i \in Ids : logoffTime[i] = Open /\ logoffTime'[i] # Open
                    /\ Overtaken(<<logoffTime'[i], i>>)}

TornRead ==
    \E s \in Senders :
        /\ ReadId(s)
        /\ sender[s].stream = "logoff"
        /\ cursor["logoff"][1] < sender[s].last[1]

Remember ==
    /\ late' = late \cup ClosedLate
    /\ torn' = (torn \/ TornRead)
    /\ furthest' = [stream \in IdStreams |->
        IF Before(furthest[stream], cursor'[stream]) THEN cursor'[stream] ELSE furthest[stream]]

HistoryNext == Next /\ Remember

HistorySpec == HistoryInit /\ [][HistoryNext]_allVars

FairHistory == HistorySpec /\ \A s \in Senders : WF_allVars(Send(s) /\ Remember)

-----------------------------------------------------------------------------
(* Properties.                                                             *)

\* Every variable holds values the program can produce.
HistoryTypeOK ==
    /\ TypeOK
    /\ late \subseteq Ids
    /\ torn \in BOOLEAN
    /\ furthest \in [IdStreams -> Position]

\* The stream of logoffs, too, skips only what nobody could have seen in time: a
\* logoff that the cursor has passed and that was not sent was closed behind
\* what the senders had reached, over batches, failures, restarts and several
\* senders, unless one of them took the time and the id of two different cursors
\* (getLogoffLastTime and getLastId, updateCursorLogoff).
OnlyLateSkipped == torn \/ Skipped("logoff") \subseteq late

\* "At most one batch is sent again" (ARCHITECTURE.md 11.1), of logins and of
\* DDL: no matter how many hosts send and crash, no more than a batch was ever
\* sent beyond the furthest position of the cursor.  What more is repeated, is
\* so because a sender has set the cursor back.
OneBatchAhead ==
    \A stream \in IdStreams :
        Cardinality({i \in Visible(stream) :
            <<stream, i>> \in sent /\ Before(furthest[stream], Pos(stream, i))}) <= BatchSize

\* Once the writers are quiet and nothing fails, every login, every DDL and every
\* logoff that was not late has been sent.
AllSent ==
    <>[](\A stream \in Streams : \A i \in Visible(stream) :
            \/ <<stream, i>> \in sent
            \/ stream = "logoff" /\ (torn \/ i \in late))
=============================================================================
