------------------------------ MODULE Sessions -------------------------------
(***************************************************************************)
(* The two rows of a login through a proxy: PROXY rows from obproxy.log,   *)
(* SERVER rows from observer.log, tied by proxy_sessid                     *)
(* (internal/db/session.go, internal/logproc/handler.go, processor.go,     *)
(* proxy_parser.go, runLogsLoop of cmd/obauditor/main.go).                 *)
(*                                                                         *)
(* Each log has a daemon of its own, as on the hosts of proxies and        *)
(* observers.  A tick reads every file of the log that has news with a     *)
(* fresh parser, line by line, and ends with SyncFailedProxySessions.      *)
(* Offsets and rotation are as LogIngest has them under its assumptions    *)
(* RotationSeen and HeaderAtOnce; lines count 1 each.                      *)
(***************************************************************************)
EXTENDS Integers, FiniteSets, Sequences, ProxyParser

Sources == {"SERVER", "PROXY"}

CONSTANTS
    Clients,     \* client sessions; their names are cs_id and proxy_sessid
    SmId,        \* SmId[c]: the sm_id an error_transfer of c bears
    FailureKinds,\* the lines that report a failed login: update_cmd_stats,
                 \* with older proxies error_transfer
    MaxServers,  \* bound: server sessions of a client session
    MaxLines,    \* bound: MaxLines[s] lines are written to log s
    MaxFiles,    \* bound: MaxFiles[s] files of log s, the active one included
    MaxFaults    \* bound: crashes, files not read, statements that failed,
                 \* rotations between the listing of a file and its open

ASSUME SessionsAssumption ==
    /\ DOMAIN SmId = Clients
    /\ FailureKinds \subseteq {"update_cmd_stats", "error_transfer"}
    /\ MaxServers \in Nat \ {0} /\ MaxFaults \in Nat
    /\ MaxFiles \in [Sources -> Nat \ {0}] /\ MaxLines \in [Sources -> Nat]

VARIABLES
    audited,  \* per client: its user is not in config ignoredUsers
    phase,    \* per client: "new", "born", "in", "refused", "quit", "gone"
    answer,   \* per client: what the proxy answered: "none", "ok", "fail"
    servers,  \* per client: its server sessions, each with login and end
    log,      \* per log: the lines written
    begins,   \* per log and file: lines written before it
    logfiles, \* per log and file name: the record of the table logfiles
    sessions, \* the rows of the table sessions
    daemon,   \* per log: where its log loop is
    failed,   \* <<log, line>> whose statement failed at least once
    faults

clients == <<audited, phase, answer, servers>>
files == <<log, begins>>
vars == <<clients, files, logfiles, sessions, daemon, failed, faults>>

SmIds == {SmId[c] : c \in Clients}

-----------------------------------------------------------------------------
(* Files are numbered; the last one bears the active name, every other its *)
(* number.                                                                 *)

Active == 0
Names(s) == 0..MaxFiles[s] - 1
Current(s) == Len(begins[s])
FileNamed(s, name) == IF name = Active THEN Current(s) ELSE name
EndOf(s, k) == IF k = Current(s) THEN Len(log[s]) ELSE begins[s][k + 1]

\* file, offset: how far which file was read; ip: file_ip is known.
NoRecord == [new |-> TRUE, file |-> 0, offset |-> 0, ip |-> FALSE]

Idle == [at |-> "idle", todo |-> {}, file |-> 0, offset |-> 0, ip |-> FALSE,
         parser |-> NewParser]

Init ==
    /\ audited \in [Clients -> BOOLEAN]
    /\ phase = [c \in Clients |-> "new"]
    /\ answer = [c \in Clients |-> "none"]
    /\ servers = [c \in Clients |-> <<>>]
    /\ log = [s \in Sources |-> <<>>]
    /\ begins = [s \in Sources |-> <<0>>]
    /\ logfiles = [s \in Sources |-> [n \in Names(s) |-> NoRecord]]
    /\ sessions = {}
    /\ daemon = [s \in Sources |-> Idle]
    /\ failed = {}
    /\ faults = 0

-----------------------------------------------------------------------------
(* Clients, proxy and observers, and what they log.                        *)

Line(s, kind, c, ok) ==
    [kind |-> kind, cs |-> c, sm |-> SmId[c], audited |-> audited[c], ok |-> ok,
     time |-> Len(log[s]) + 1]

Write(s, kind, c, ok) ==
    /\ Len(log[s]) < MaxLines[s]
    /\ log' = [log EXCEPT ![s] = Append(@, Line(s, kind, c, ok))]
    /\ UNCHANGED <<begins, logfiles, sessions, daemon, failed, faults>>

Refused(c) == \E n \in DOMAIN servers[c] : ~servers[c][n].ok
Ended(c) == phase[c] \in {"quit", "gone"}

\* The proxy opens a server session, for the login or later for another server.
Born(c) ==
    /\ phase[c] \in {"new", "in"}
    /\ phase' = [phase EXCEPT ![c] = IF @ = "new" THEN "born" ELSE @]
    /\ Len(servers[c]) < MaxServers
    /\ servers' = [servers EXCEPT
        ![c] = Append(@, [login |-> FALSE, ok |-> TRUE, closed |-> FALSE])]
    /\ Write("PROXY", "server session born", c, TRUE)
    /\ UNCHANGED <<audited, answer>>

ServerLogin(c, n, ok) ==
    /\ ~servers[c][n].login
    /\ servers' = [servers EXCEPT ![c][n].login = TRUE, ![c][n].ok = ok]
    /\ Write("SERVER", "MySQL LOGIN", c, ok)
    /\ UNCHANGED <<audited, phase, answer>>

\* The proxy answers the login; it may say ok to one that the server refuses.
AnswerOk(c) ==
    /\ phase[c] = "born"
    /\ servers[c][1].login
    /\ answer' = [answer EXCEPT ![c] = "ok"]
    /\ phase' = [phase EXCEPT ![c] = "in"]
    /\ Write("PROXY", "update_cmd_stats", c, TRUE)
    /\ UNCHANGED <<audited, servers>>

AnswerFail(c, kind) ==
    /\ phase[c] = "born"
    /\ Refused(c)
    /\ answer' = [answer EXCEPT ![c] = "fail"]
    /\ phase' = [phase EXCEPT ![c] = "refused"]
    /\ Write("PROXY", kind, c, FALSE)
    /\ UNCHANGED <<audited, servers>>

Quit(c) ==
    /\ phase[c] = "in"
    /\ ~Refused(c)
    /\ phase' = [phase EXCEPT ![c] = "quit"]
    /\ Write("PROXY", "COM_QUIT", c, TRUE)
    /\ UNCHANGED <<audited, answer, servers>>

\* After a quit, a refusal, or because the client is gone.
Close(c) ==
    /\ phase[c] \notin {"new", "gone"}
    /\ phase' = [phase EXCEPT ![c] = "gone"]
    /\ Write("PROXY", "client session do_io_close", c, TRUE)
    /\ UNCHANGED <<audited, answer, servers>>

ServerClose(c, n) ==
    /\ servers[c][n].login /\ ~servers[c][n].closed
    /\ Ended(c) \/ ~servers[c][n].ok \/ n < Len(servers[c])
    /\ servers' = [servers EXCEPT ![c][n].closed = TRUE]
    /\ Write("SERVER", "connection close", c, TRUE)
    /\ UNCHANGED <<audited, phase, answer>>

Fault == faults < MaxFaults /\ faults' = faults + 1

\* A daemon has listed the active file and not opened it yet.
ListedOnly(s) == daemon[s].at = "next" /\ daemon[s].todo # {}

Rotate(s) ==
    /\ begins[s][Current(s)] < Len(log[s])
    /\ Current(s) < MaxFiles[s]
    /\ begins' = [begins EXCEPT ![s] = Append(@, Len(log[s]))]
    /\ IF ListedOnly(s) THEN Fault ELSE UNCHANGED faults
    /\ UNCHANGED <<clients, log, logfiles, sessions, daemon, failed>>

World ==
    \/ \E c \in Clients :
        \/ Born(c)
        \/ \E n \in DOMAIN servers[c], ok \in BOOLEAN : ServerLogin(c, n, ok)
        \/ AnswerOk(c)
        \/ \E kind \in FailureKinds : AnswerFail(c, kind)
        \/ Quit(c)
        \/ Close(c)
        \/ \E n \in DOMAIN servers[c] : ServerClose(c, n)
    \/ \E s \in Sources : Rotate(s)

-----------------------------------------------------------------------------
(* The statements on sessions.                                             *)

Row(s, event, ip) ==
    [source |-> s, ip |-> ip, sess |-> event.cs, login |-> event.time,
     ok |-> event.type = "LOGIN_OK", closed |-> FALSE]

SameSess(r, q) ==
    r.source = q.source /\ r.ip = q.ip /\ r.sess = q.sess /\ r.login = q.login

\* Mutant of InsertLogin: no unique key.
InsertAlways(rows, row) == rows \cup {row}

\* INSERT IGNORE under uk_sess.
InsertLogin(rows, row) ==
    IF \E r \in rows : SameSess(r, row) THEN rows ELSE rows \cup {row}

\* Mutant of UpdateLogoff: the PROXY row only.
UpdateLogoffProxy(rows, c) ==
    {IF r.sess = c /\ ~r.closed /\ r.source = "PROXY"
     THEN [r EXCEPT !.closed = TRUE] ELSE r : r \in rows}

\* Both rows of the proxy_sessid in one statement.
UpdateLogoff(rows, c) ==
    {IF r.sess = c /\ ~r.closed THEN [r EXCEPT !.closed = TRUE] ELSE r : r \in rows}

\* Mutants of SyncFailed: the outcome of the server's login is not asked for;
\* the server's row has to be open.
SyncAnyServer(rows) ==
    {IF /\ r.source = "PROXY" /\ ~r.closed
        /\ \E q \in rows : q.source = "SERVER" /\ q.sess = r.sess
     THEN [r EXCEPT !.closed = TRUE, !.ok = FALSE] ELSE r : r \in rows}

SyncServerOpen(rows) ==
    {IF /\ r.source = "PROXY" /\ ~r.closed
        /\ \E q \in rows : q.source = "SERVER" /\ q.sess = r.sess /\ ~q.ok /\ ~q.closed
     THEN [r EXCEPT !.closed = TRUE, !.ok = FALSE] ELSE r : r \in rows}

\* SyncFailedProxySessions: PROXY rows whose login the server has refused.
SyncFailed(rows) ==
    {IF /\ r.source = "PROXY" /\ ~r.closed
        /\ \E q \in rows : q.source = "SERVER" /\ q.sess = r.sess /\ ~q.ok /\ q.closed
     THEN [r EXCEPT !.closed = TRUE, !.ok = FALSE] ELSE r : r \in rows}

\* ParseObServerLine: stateless; a close bears no user name.
ParseObServerLine(line) ==
    CASE line.kind = "MySQL LOGIN" /\ line.audited ->
            Event(IF line.ok THEN "LOGIN_OK" ELSE "LOGIN_FAIL", line, line.time)
      [] line.kind = "connection close" -> Event("LOGOFF", line, line.time)
      [] OTHER -> NoEvent

Parsed(s, parser, line) ==
    IF s = "SERVER" THEN Remembered(parser, ParseObServerLine(line)) ELSE Parse(parser, line)

\* handleLogin and handleLogoff.
Handle(s, event, ip) ==
    CASE event.type \in {"LOGIN_OK", "LOGIN_FAIL"} -> InsertLogin(sessions, Row(s, event, ip))
      [] event.type = "LOGOFF" -> UpdateLogoff(sessions, event.cs)
      [] OTHER -> sessions

-----------------------------------------------------------------------------
(* A tick of one daemon.                                                   *)

HasNews(s, name) ==
    LET r == logfiles[s][name]
        k == FileNamed(s, name)
    IN  r.new \/ r.file # k \/ r.offset < EndOf(s, k)

\* ReadDir, without the files that have not changed.
List(s) ==
    /\ daemon[s].at = "idle"
    /\ daemon' = [daemon EXCEPT
        ![s].at = "next",
        ![s].todo = {name \in 0..Current(s) - 1 : HasNews(s, name)}]
    /\ UNCHANGED <<clients, files, logfiles, sessions, failed, faults>>

\* Rotated files are read by name and the active one last.
Listed(s) ==
    LET rotated == daemon[s].todo \ {Active}
    IN  IF rotated = {} THEN Active ELSE CHOOSE n \in rotated : \A m \in rotated : n <= m

NextFile(s) == [Idle EXCEPT !.at = "next", !.todo = daemon[s].todo \ {Listed(s)}]

\* The address of a SERVER file stands in its first line, that of a PROXY
\* file has to be found unless the record of the name has it.
Open(s) ==
    /\ daemon[s].at = "next"
    /\ daemon[s].todo # {}
    /\ LET f == Listed(s)
           k == FileNamed(s, f)
           r == logfiles[s][f]
       IN  daemon' = [daemon EXCEPT
                ![s].at = "read",
                ![s].file = k,
                ![s].offset = IF r.file = k THEN r.offset ELSE begins[s][k],
                ![s].ip = r.ip \/ s = "SERVER"]
    /\ UNCHANGED <<clients, files, logfiles, sessions, failed, faults>>

NextLine(s) == log[s][daemon[s].offset + 1]

FindsIp(s) ==
    s = "PROXY" /\ ~daemon[s].ip /\ NextLine(s).kind = "server session born"

\* The parser has seen the line and its bytes count, whatever becomes of the
\* statement; UpdateFileIp saves the address at once in a record that exists.
LineLeft(s) ==
    /\ daemon[s].at = "read"
    /\ daemon[s].offset < EndOf(s, daemon[s].file)
    /\ LET name == Listed(s) IN
        logfiles' = [logfiles EXCEPT ![s][name].ip = @ \/ (FindsIp(s) /\ ~logfiles[s][name].new)]
    /\ daemon' = [daemon EXCEPT
        ![s].offset = @ + 1,
        ![s].ip = @ \/ FindsIp(s),
        ![s].parser = Parsed(s, @, NextLine(s)).parser]
    /\ UNCHANGED <<clients, files>>

EventOf(s) == Parsed(s, daemon[s].parser, NextLine(s)).event

ReadLine(s) ==
    /\ LineLeft(s)
    /\ sessions' = Handle(s, EventOf(s), daemon[s].ip \/ FindsIp(s))
    /\ UNCHANGED <<failed, faults>>

StatementFails(s) ==
    /\ LineLeft(s)
    /\ EventOf(s) # NoEvent
    /\ Fault
    /\ failed' = failed \cup {<<s, daemon[s].offset + 1>>}
    /\ UNCHANGED sessions

SaveRecord(s) ==
    /\ daemon[s].at = "read"
    /\ daemon[s].offset = EndOf(s, daemon[s].file)
    /\ logfiles' = [logfiles EXCEPT ![s][Listed(s)] =
        [new |-> FALSE, file |-> daemon[s].file, offset |-> daemon[s].offset, ip |-> daemon[s].ip]]
    /\ daemon' = [daemon EXCEPT ![s] = NextFile(s)]
    /\ UNCHANGED <<clients, files, sessions, failed, faults>>

FileFails(s) ==
    /\ daemon[s].todo # {}
    /\ Fault
    /\ daemon' = [daemon EXCEPT ![s] = NextFile(s)]
    /\ UNCHANGED <<clients, files, logfiles, sessions, failed>>

\* The tick of the log loop ends with the reconciliation.
EndTick(s) ==
    /\ daemon[s].at = "next"
    /\ daemon[s].todo = {}
    /\ sessions' = SyncFailed(sessions)
    /\ daemon' = [daemon EXCEPT ![s] = Idle]
    /\ UNCHANGED <<clients, files, logfiles, failed, faults>>

\* The process dies, or the reconciliation fails.
Crash(s) ==
    /\ daemon[s].at # "idle"
    /\ Fault
    /\ daemon' = [daemon EXCEPT ![s] = Idle]
    /\ UNCHANGED <<clients, files, logfiles, sessions, failed>>

Tick(s) == List(s) \/ Open(s) \/ ReadLine(s) \/ SaveRecord(s) \/ EndTick(s)

Next ==
    \/ World
    \/ \E s \in Sources : Tick(s) \/ StatementFails(s) \/ FileFails(s) \/ Crash(s)

Spec == Init /\ [][Next]_vars

\* Both log loops go on ticking; systemd restarts the process.
FairSpec == Spec /\ \A s \in Sources : WF_vars(Tick(s))

-----------------------------------------------------------------------------
(* Properties.                                                             *)

Time(s) == 1..Len(log[s])

KindsOf(s) ==
    IF s = "SERVER" THEN {"MySQL LOGIN", "connection close"}
    ELSE {"server session born", "update_cmd_stats", "error_transfer", "COM_QUIT",
          "client session do_io_close"}

Kinds == UNION {KindsOf(s) : s \in Sources}

\* What the variables hold; a reader never stands beyond the end of its file.
TypeOK ==
    /\ audited \in [Clients -> BOOLEAN]
    /\ phase \in [Clients -> {"new", "born", "in", "refused", "quit", "gone"}]
    /\ answer \in [Clients -> {"none", "ok", "fail"}]
    /\ servers \in [Clients -> Seq([login : BOOLEAN, ok : BOOLEAN, closed : BOOLEAN])]
    /\ log \in [Sources -> Seq([kind : Kinds, cs : Clients, sm : SmIds, audited : BOOLEAN,
                                ok : BOOLEAN, time : Nat])]
    /\ begins \in [Sources -> Seq(Nat)]
    /\ DOMAIN logfiles = Sources /\ DOMAIN daemon = Sources
    /\ \A s \in Sources :
        /\ Current(s) \in 1..MaxFiles[s]
        /\ \A i \in Time(s) : log[s][i].kind \in KindsOf(s) /\ log[s][i].time = i
        /\ logfiles[s] \in [Names(s) -> [new : BOOLEAN, file : 0..MaxFiles[s],
                                      offset : 0..Len(log[s]), ip : BOOLEAN]]
        /\ daemon[s] \in [at : {"idle", "next", "read"}, todo : SUBSET Names(s),
                          file : 0..MaxFiles[s], offset : 0..Len(log[s]), ip : BOOLEAN,
                          parser : [bornMap : SUBSET Clients,
                                    failMap : SUBSET [cs : SmIds, time : Time(s)]]]
        /\ daemon[s].at = "read" =>
            /\ daemon[s].file \in 1..Current(s)
            /\ daemon[s].offset \in begins[s][daemon[s].file]..EndOf(s, daemon[s].file)
    /\ sessions \subseteq [source : Sources, ip : BOOLEAN, sess : Clients,
                           login : Nat, ok : BOOLEAN, closed : BOOLEAN]
    /\ \A r \in sessions : r.login \in Time(r.source)
    /\ failed \subseteq UNION {{s} \X Time(s) : s \in Sources}
    /\ faults \in 0..MaxFaults

LinesOf(s, c, kinds) == {i \in Time(s) : log[s][i].cs = c /\ log[s][i].kind \in kinds}

\* The proxy opened more than one server session for c.
BornAgain(c) == \E i, j \in LinesOf("PROXY", c, {"server session born"}) : i # j

\* An error_transfer bears the name of c as its sm_id, be it its own or another's.
NamedInError(c) ==
    \E i \in Time("PROXY") : log["PROXY"][i].kind = "error_transfer" /\ log["PROXY"][i].sm = c

\* What the rows say is what happened (handleLoginCmdStats, handleDoClose,
\* SyncFailedProxySessions), over ticks, replays and rotations, which make the
\* parser see parts of a login only: no success is recorded of a client that
\* was refused, and a failure of one that was let in only where the parser
\* confuses two events of one name, which takes a second server session or an
\* error_transfer with that name.  handleDoClose then does not look at the user
\* either: these are the only rows of users that are not audited.
OutcomeTrue ==
    \A r \in sessions :
        /\ audited[r.sess] \/ (r.source = "PROXY" /\ ~r.ok /\ NamedInError(r.sess))
        /\ CASE r.source = "PROXY" /\ r.ok  -> answer[r.sess] = "ok"
             [] r.source = "PROXY" /\ ~r.ok ->
                    \/ answer[r.sess] # "ok" \/ Refused(r.sess)
                    \/ BornAgain(r.sess) \/ NamedInError(r.sess)
             [] r.source = "SERVER" /\ r.ok ->
                    \E n \in DOMAIN servers[r.sess] : servers[r.sess][n].ok
             [] OTHER                       -> Refused(r.sess)

\* "ignoredUsers: users excluded from audit" (src/README.md:87).
IgnoredLeaveNoRow == \A r \in sessions : audited[r.sess]

\* A login leaves at most one row, however often its lines are read and whatever
\* part of them a tick sees: a SERVER row for each login line, and one PROXY row
\* for a client that has one server session and that no error_transfer names.
OneRowPerLogin ==
    \A r, q \in sessions : r.source = q.source /\ r.sess = q.sess =>
        \/ r = q
        \/ r.source = "SERVER" /\ r.login # q.login
        \/ r.source = "PROXY" /\ (BornAgain(r.sess) \/ NamedInError(r.sess))

\* "A login leaves one row" without that: what an error_transfer reports leaves
\* a second one where its lines lie in three files.
OneRowAlways ==
    \A r, q \in sessions : r.source = "PROXY" /\ q.source = "PROXY" /\ r.sess = q.sess => r = q

SomeServerClosed(c) == \E n \in DOMAIN servers[c] : servers[c][n].closed

\* No row is closed of a client at work whose server sessions are all open and
\* accepted (UpdateLogoff, SyncFailed).  The end of one of several server
\* sessions does close the rows of all: ClosedAfterClient.
ClosedAfterEnd ==
    \A r \in sessions : r.closed => Ended(r.sess) \/ Refused(r.sess) \/ SomeServerClosed(r.sess)

\* What a client with one server session may count on.
ClosedAfterClient == \A r \in sessions : r.closed => Ended(r.sess) \/ Refused(r.sess)

\* Whether the lines of c are all there is to know of its login.
LoginLogged(c) ==
    phase[c] = "gone" \/ LinesOf("PROXY", c, {"update_cmd_stats"}) # {}

\* What a tick missed because it saw only a part of a login, the rotated file
\* brings back: once it is read as a whole, a login within it has its PROXY
\* row, and one that also quit within it is closed (readAndProcess, bornMap).
RecoveredByRotation ==
    \A c \in Clients, k \in 1..Current("PROXY") - 1 :
        LET lines == {i \in Time("PROXY") : log["PROXY"][i].cs = c}
        IN  (/\ audited[c] /\ LoginLogged(c)
             /\ lines \subseteq (begins["PROXY"][k] + 1)..EndOf("PROXY", k)
             /\ ~logfiles["PROXY"][k].new
             /\ \A i \in lines : <<"PROXY", i>> \notin failed)
            => \E r \in sessions :
                /\ r.source = "PROXY" /\ r.sess = c
                /\ LinesOf("PROXY", c, {"COM_QUIT"}) # {} => r.closed

\* "PROXY says success, SERVER has rejected the login" does not stay: again and
\* again no PROXY row is open whose SERVER row is a closed failure.
RefusedIsClosed ==
    []<>(\A r, q \in sessions :
            r.source = "PROXY" /\ q.source = "SERVER" /\ q.sess = r.sess /\ ~q.ok /\ q.closed
            => r.closed)

\* "SyncFailedProxySessions finds such inconsistencies" (ARCHITECTURE.md 7.1):
\* the server's verdict reaches the PROXY row in the end.
RefusedIsCorrected ==
    []<>(\A r, q \in sessions :
            r.source = "PROXY" /\ q.source = "SERVER" /\ q.sess = r.sess /\ ~q.ok /\ q.closed
            => ~r.ok)

\* The log of a row tells of an end of its client after the login.
EndLogged(r) ==
    \E i \in LinesOf(r.source, r.sess,
                     {IF r.source = "PROXY" THEN "COM_QUIT" ELSE "connection close"}) :
        i > r.login

\* As long as no step fails, the PROXY row of a client that has quit and the
\* SERVER row of a closed connection are closed in the end, each by its own log,
\* in whatever order the two daemons execute the logins and the logoffs.
EndedIsClosed ==
    <>[](faults = 0 => \A r \in sessions : EndLogged(r) => r.closed)

\* "born and cmd_stats always lie in one file" (ARCHITECTURE.md 6.2): a login
\* whose lines were read has its row.
LoginReadHasRow ==
    \A c \in Clients :
        LET r == logfiles["PROXY"][Active]
        IN  (/\ audited[c] /\ faults = 0
             /\ LinesOf("PROXY", c, {"update_cmd_stats"}) # {}
             /\ Current("PROXY") = 1 /\ r.offset = Len(log["PROXY"]))
            => \E q \in sessions : q.source = "PROXY" /\ q.sess = c

\* "No window with the SERVER row closed and the PROXY row open"
\* (ARCHITECTURE.md 7.1).
ClosedTogether ==
    \A r, q \in sessions :
        r.source = "PROXY" /\ q.source = "SERVER" /\ r.sess = q.sess => r.closed = q.closed
=============================================================================
