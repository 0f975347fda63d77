------------------------------ MODULE Pipeline -------------------------------
(***************************************************************************)
(* The table sessions between its three users: log processors insert,      *)
(* cleaners trim (module Cleanup), syslog senders forward (module          *)
(* Rsyslog).  Nothing in the code ties the cleaners to the senders.        *)
(*                                                                         *)
(* The stream of logins stands for the three: ddl_dcl_audit_log is read    *)
(* and trimmed the same way, and sessions stay open here.                  *)
(***************************************************************************)
EXTENDS Cleanup

CONSTANTS Senders, BatchSize

ASSUME PipelineAssumption == BatchSize \in Nat \ {0}

VARIABLES logoffTime, ddlLog, cursor, sender, sent

Forward == INSTANCE Rsyslog WITH
    sessions <- rows, IdsInOrder <- TRUE, MaxSessionId <- MaxId, MaxTime <- 0

trimming == <<pc, count, boundary>>
forwarding == <<logoffTime, ddlLog, cursor, sender, sent>>
pipeline == <<vars, forwarding>>

PipelineInit == Init /\ Forward!Init

Trim(c) == CleanTable(c) \/ Abort(c)
Send(s) == Forward!Send(s) \/ Forward!BatchCutShort(s) \/ Forward!SendFails(s)

PipelineNext ==
    \/ Insert /\ UNCHANGED forwarding
    \/ \E c \in Cleaners : Trim(c) /\ UNCHANGED forwarding
    \/ \E s \in Senders : Send(s) /\ UNCHANGED <<nextId, trimming>>

PipelineSpec == PipelineInit /\ [][PipelineNext]_pipeline

\* Rsyslog loops and log loops of all daemons go on.
FairPipeline ==
    /\ PipelineSpec
    /\ \A c \in Cleaners : WF_pipeline(CleanTable(c) /\ UNCHANGED forwarding)
    /\ \A s \in Senders : WF_pipeline(Forward!Send(s) /\ UNCHANGED <<nextId, trimming>>)

-----------------------------------------------------------------------------
(* Properties.                                                             *)

Unsent == {i \in rows : <<"login", i>> \notin sent}

\* The rows that one cleaner, or several with stale counts, are sure to keep.
Kept == IF Cardinality(Cleaners) = 1 THEN TargetRows ELSE 1

\* A login is trimmed before it was forwarded only when the senders are behind
\* by more rows than a cleaner keeps (cleanTable, sendLogins).
OnlyBacklogLost ==
    [][\A i \in Unsent \ rows' : Cardinality({j \in rows' \cap Unsent : j > i}) >= Kept]_pipeline
=============================================================================
