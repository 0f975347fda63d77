------------------------------ MODULE MCService ------------------------------
(***************************************************************************)
(* Instances of Service for TLC.                                           *)
(***************************************************************************)
EXTENDS Service

\* Pauses in the proportion of config.yaml (60s, 20s, 10s), at most the threshold.
MCInterval == [l \in Loops |-> CASE l = "logs" -> 3 [] l = "ddl" -> 2 [] l = "rsyslog" -> 1]

\* Two files that take a tick longer than the threshold together, not alone.
MCFiles == <<3, 4>>
=============================================================================
