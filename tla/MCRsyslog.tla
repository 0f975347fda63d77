----------------------------- MODULE MCRsyslog ------------------------------
(***************************************************************************)
(* Instances of Rsyslog for TLC.                                           *)
(***************************************************************************)
EXTENDS RsyslogHistory

CONSTANTS s1, s2
=============================================================================
