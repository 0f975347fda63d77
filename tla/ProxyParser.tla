----------------------------- MODULE ProxyParser -----------------------------
(***************************************************************************)
(* ObProxyLineParser (internal/logproc/proxy_parser.go): a line of         *)
(* obproxy.log and what was remembered of the lines before it become at    *)
(* most one event.                                                         *)
(*                                                                         *)
(* A line is its kind, the number it bears (its time), the ids found in    *)
(* it and two outcomes of matching: audited says that the user is neither  *)
(* ignored nor the proxy's own probe and that a tenant is named, ok that   *)
(* client_response_bytes is there and at most 60.                          *)
(***************************************************************************)

\* bornMap: cs_ids; failMap: cs_ids with the time of their error_transfer.
NewParser == [bornMap |-> {}, failMap |-> {}]

NoEvent == [type |-> "none"]
Event(type, line, time) == [type |-> type, cs |-> line.cs, time |-> time]

Remembered(p, event) == [parser |-> p, event |-> event]

FailOf(p, cs) == {f \in p.failMap : f.cs = cs}
ForgetFail(p, cs) == p.failMap \ FailOf(p, cs)

HandleBorn(p, line) ==
    IF line.audited THEN [p EXCEPT !.bornMap = @ \cup {line.cs}] ELSE p

\* Mutant of HandleLoginCmdStats: the entry of bornMap stays.
HandleLoginKeepsBorn(p, line) ==
    Remembered(p,
        IF line.cs \in p.bornMap
        THEN Event(IF line.ok THEN "LOGIN_OK" ELSE "LOGIN_FAIL", line, line.time)
        ELSE NoEvent)

HandleLoginCmdStats(p, line) ==
    Remembered([p EXCEPT !.bornMap = @ \ {line.cs}],
        IF line.cs \in p.bornMap
        THEN Event(IF line.ok THEN "LOGIN_OK" ELSE "LOGIN_FAIL", line, line.time)
        ELSE NoEvent)

\* Mutant of HandleErrorTransfer: the time of the line is not kept.
HandleErrorTransferTimeless(p, line) ==
    [p EXCEPT !.failMap = ForgetFail(p, line.sm) \cup {[cs |-> line.sm, time |-> 0]}]

\* The key is sm_id, which stands before cs_id in the code's order of choice.
HandleErrorTransfer(p, line) ==
    [p EXCEPT !.failMap = ForgetFail(p, line.sm) \cup {[cs |-> line.sm, time |-> line.time]}]

\* Mutant of HandleDoClose: only failures that were reported count.
HandleDoCloseReported(p, line) ==
    LET fail == FailOf(p, line.cs)
    IN  Remembered([bornMap |-> p.bornMap \ {line.cs}, failMap |-> ForgetFail(p, line.cs)],
            IF fail # {} THEN Event("LOGIN_FAIL", line, (CHOOSE f \in fail : TRUE).time)
            ELSE NoEvent)

\* A close of a client whose login failed or was never answered.
HandleDoClose(p, line) ==
    LET fail == FailOf(p, line.cs)
    IN  Remembered([bornMap |-> p.bornMap \ {line.cs}, failMap |-> ForgetFail(p, line.cs)],
            CASE fail # {} -> Event("LOGIN_FAIL", line, (CHOOSE f \in fail : TRUE).time)
              [] fail = {} /\ line.cs \in p.bornMap -> Event("LOGIN_FAIL", line, line.time)
              [] OTHER -> NoEvent)

HandleLogoff(p, line) ==
    Remembered(p, IF line.audited THEN Event("LOGOFF", line, line.time) ELSE NoEvent)

Parse(p, line) ==
    CASE line.kind = "server session born"      -> Remembered(HandleBorn(p, line), NoEvent)
      [] line.kind = "update_cmd_stats"         -> HandleLoginCmdStats(p, line)
      [] line.kind = "error_transfer"           -> Remembered(HandleErrorTransfer(p, line), NoEvent)
      [] line.kind = "client session do_io_close" -> HandleDoClose(p, line)
      [] line.kind = "COM_QUIT"                 -> HandleLogoff(p, line)
=============================================================================
