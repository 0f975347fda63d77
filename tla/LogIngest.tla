------------------------------ MODULE LogIngest ------------------------------
(***************************************************************************)
(* Reading the observers' logs, LogFileProcessor and LogLineHandler        *)
(* (internal/logproc/processor.go, handler.go, internal/db/logfile.go).    *)
(*                                                                         *)
(* One directory.  The observer appends lines to observer.log and renames  *)
(* it from time to time.  A tick lists the directory, then reads every     *)
(* listed file by name from the byte offset kept in the table logfiles,    *)
(* turns each complete line into a statement on the table sessions, and    *)
(* saves the offset after the last line.  Nothing is transactional.        *)
(*                                                                         *)
(* Lines are numbered in the order of writing and carry that number as     *)
(* their time.  All take two bytes: the second one ends the line.  Only    *)
(* direct connections are here, those with a proxy_sessid of 0.            *)
(***************************************************************************)
EXTENDS Integers, FiniteSets, Sequences

CONSTANTS
    Sessids,       \* session ids the observer gives out
    IdsReused,     \* TRUE: an id may be given out again after its logoff
    RotationSeen,  \* TRUE: a new log file stays shorter than the record of its
                   \* predecessor says until a tick has read it
    HeaderAtOnce,  \* TRUE: a log file never exists without its first line,
                   \* the one that tells the observer's address, and
                   \* readServerIpFromFirstLine never fails to open it
    MaxLines,      \* bound: lines written
    MaxFiles,      \* bound: log files, the active one included
    MaxFaults      \* bound: crashes, files not read, statements that failed

ASSUME LogIngestAssumption ==
    /\ IdsReused \in BOOLEAN /\ RotationSeen \in BOOLEAN /\ HeaderAtOnce \in BOOLEAN
    /\ MaxLines \in Nat /\ MaxFiles \in Nat \ {0} /\ MaxFaults \in Nat

\* What ParseObServerLine makes of a line; the login of an ignored user and
\* everything that is neither a login nor a close is noise.
Lines == [kind : {"LOGIN", "LOGOFF"}, sess : Sessids] \cup {[kind |-> "noise"]}

VARIABLES
    log,       \* the complete lines the observer has written
    begins,    \* per file: how many lines were written before it
    tail,      \* 1 while the last line of the active file lacks its end
    logfiles,  \* per file name the record of the table logfiles
    sessions,  \* the rows of the table sessions
    proc,      \* where the log loop is
    handled,   \* lines whose statement was executed at least once
    failed,    \* lines whose statement failed at least once
    faults

world == <<log, begins, tail>>
vars == <<world, logfiles, sessions, proc, handled, failed, faults>>

-----------------------------------------------------------------------------
(* Files.  File k is the k-th one ever; the last one bears the active name *)
(* and every other the name k, which sorts like its time of rotation.      *)

Active == 0
Names == 0..MaxFiles - 1
Current == Len(begins)
FileNamed(name) == IF name = Active THEN Current ELSE name

LinesOf(k) == (IF k = Current THEN Len(log) ELSE begins[k + 1]) - begins[k]
Bytes(k) == 2 * LinesOf(k) + (IF k = Current THEN tail ELSE 0)

\* The record of a file not in the table.  offset counts lines; file is the
\* file the offset belongs to, which the code does not know.
NoRecord == [new |-> TRUE, size |-> 0, offset |-> 0, ip |-> FALSE, file |-> 0]

\* at: the next step; todo: names and sizes listed; ip: serverIp is known;
\* file, offset: what is open and how far it was read.
Idle == [at |-> "idle", todo |-> <<>>, ip |-> FALSE, file |-> 0, offset |-> 0]

Init ==
    /\ log = <<>>
    /\ begins = <<0>>
    /\ tail = 0
    /\ logfiles = [n \in Names |-> NoRecord]
    /\ sessions = {}
    /\ proc = Idle
    /\ handled = {}
    /\ failed = {}
    /\ faults = 0

-----------------------------------------------------------------------------
(* The observer.                                                           *)

LastOf(sess) ==
    LET mine == {i \in DOMAIN log : log[i].kind # "noise" /\ log[i].sess = sess}
    IN  IF mine = {} THEN "never" ELSE log[CHOOSE i \in mine : \A j \in mine : j <= i].kind

\* A new file of this many bytes is shorter than its predecessor was when it
\* was listed, and than what was read of it.
Detectable(bytes) ==
    RotationSeen =>
        /\ LET r == logfiles[Active]
           IN  r.offset > 0 /\ r.file < Current => bytes < r.size /\ bytes < 2 * r.offset
        /\ proc.at = "read" /\ Head(proc.todo).name = Active /\ proc.file < Current
              => bytes < Head(proc.todo).size /\ bytes < 2 * proc.offset

BeginLine ==
    /\ tail = 0
    /\ Len(log) < MaxLines
    /\ Detectable(Bytes(Current) + 1)
    /\ tail' = 1
    /\ UNCHANGED <<log, begins, logfiles, sessions, proc, handled, failed, faults>>

EndLine(line) ==
    /\ tail = 1
    /\ line.kind = "LOGIN" =>
        LastOf(line.sess) = "never" \/ (IdsReused /\ LastOf(line.sess) = "LOGOFF")
    /\ line.kind = "LOGOFF" => LastOf(line.sess) = "LOGIN"
    /\ Detectable(Bytes(Current) + 1)
    /\ log' = Append(log, line)
    /\ tail' = 0
    /\ UNCHANGED <<begins, logfiles, sessions, proc, handled, failed, faults>>

Rotate ==
    /\ tail = 0
    /\ LinesOf(Current) > 0
    /\ Current < MaxFiles
    /\ begins' = Append(begins, Len(log))
    /\ UNCHANGED <<log, tail, logfiles, sessions, proc, handled, failed, faults>>

Observer ==
    \/ BeginLine
    \/ \E line \in Lines : EndLine(line)
    \/ Rotate

-----------------------------------------------------------------------------
(* The statements on sessions.                                             *)

\* Mutant of InsertLogin: no unique key, a replayed login is a row again.
InsertAlways(rows, line, ip) ==
    rows \cup {[ip |-> ip, sess |-> log[line].sess, login |-> line, logoff |-> 0]}

\* INSERT IGNORE on (source, server_ip, cluster_name, session_id, login_time).
InsertLogin(rows, line, ip) ==
    IF \E r \in rows : r.ip = ip /\ r.sess = log[line].sess /\ r.login = line
    THEN rows
    ELSE rows \cup {[ip |-> ip, sess |-> log[line].sess, login |-> line, logoff |-> 0]}

UpdateLogoffDirect(rows, line) ==
    {IF r.ip /\ r.sess = log[line].sess /\ r.logoff = 0 THEN [r EXCEPT !.logoff = line] ELSE r :
        r \in rows}

\* Handle: the event of a line becomes at most one statement.
Handle(rows, line, ip) ==
    CASE log[line].kind = "LOGIN" -> InsertLogin(rows, line, ip)
      [] log[line].kind = "LOGOFF" /\ ip -> UpdateLogoffDirect(rows, line)
      [] OTHER -> rows

-----------------------------------------------------------------------------
(* processDirectory and processFile.                                       *)

Fault == faults < MaxFaults /\ faults' = faults + 1

NextFile == [Idle EXCEPT !.at = "next", !.todo = Tail(proc.todo)]

\* ReadDir and Info, rotated files by name, the active one last.  The records
\* are loaded here too; nobody but this loop changes them, each once a tick.
List ==
    /\ proc.at = "idle"
    /\ proc' = [Idle EXCEPT
        !.at = "next",
        !.todo = [k \in 1..Current |->
            [name |-> IF k = Current THEN Active ELSE k, size |-> Bytes(k)]]]
    /\ UNCHANGED <<world, logfiles, sessions, handled, failed, faults>>

EndTick ==
    /\ proc.at = "next"
    /\ proc.todo = <<>>
    /\ proc' = Idle
    /\ UNCHANGED <<world, logfiles, sessions, handled, failed, faults>>

ShouldResetToStart(f) ==
    f.name = Active /\ ~logfiles[f.name].new /\ f.size < logfiles[f.name].size

StartOffset(f) == IF ShouldResetToStart(f) THEN 0 ELSE logfiles[f.name].offset

\* Mutant of NoChanges: the size alone decides.
SameSize(f) == ~logfiles[f.name].new /\ f.size = logfiles[f.name].size

NoChanges(f) ==
    /\ ~logfiles[f.name].new
    /\ f.size = logfiles[f.name].size
    /\ 2 * StartOffset(f) >= f.size

SkipFile ==
    /\ proc.at = "next"
    /\ proc.todo # <<>>
    /\ NoChanges(Head(proc.todo))
    /\ proc' = NextFile
    /\ UNCHANGED <<world, logfiles, sessions, handled, failed, faults>>

\* readServerIpFromFirstLine, unless the record has the address.
ReadServerIp ==
    /\ proc.at = "next"
    /\ proc.todo # <<>>
    /\ LET f == Head(proc.todo)
       IN  /\ ~NoChanges(f)
           /\ proc' = [proc EXCEPT
                !.at = "open",
                !.offset = StartOffset(f),
                !.ip = \/ logfiles[f.name].ip
                       \/ HeaderAtOnce
                       \/ LinesOf(FileNamed(f.name)) > 0]
    /\ UNCHANGED <<world, logfiles, sessions, handled, failed, faults>>

\* Mutant of SeekTo: no look at the size of what was opened.
SeekBlindly(offset, k) == offset

SeekTo(offset, k) == IF 2 * offset <= Bytes(k) THEN offset ELSE 0

\* os.Open by name: the listed file may have been renamed since.
Open ==
    /\ proc.at = "open"
    /\ LET k == FileNamed(Head(proc.todo).name)
       IN  proc' = [proc EXCEPT !.at = "read", !.file = k, !.offset = SeekTo(@, k)]
    /\ UNCHANGED <<world, logfiles, sessions, handled, failed, faults>>

NextLine == begins[proc.file] + proc.offset + 1

LineLeft ==
    /\ proc.at = "read"
    /\ proc.offset < LinesOf(proc.file)
    /\ proc' = [proc EXCEPT !.offset = @ + 1]
    /\ UNCHANGED <<world, logfiles>>

ReadLine ==
    /\ LineLeft
    /\ sessions' = Handle(sessions, NextLine, proc.ip)
    /\ handled' = handled \cup {NextLine}
    /\ UNCHANGED <<failed, faults>>

\* An error of the statement is logged and the line counts as read.
StatementFails ==
    /\ LineLeft
    /\ log[NextLine].kind # "noise"
    /\ Fault
    /\ failed' = failed \cup {NextLine}
    /\ UNCHANGED <<sessions, handled>>

\* Mutant of EndOffset: the bytes of an unfinished line are counted.
WithTail == proc.offset + (IF proc.file = Current THEN tail ELSE 0)

\* At the end of the file the bytes of an unfinished line are taken back.
EndOffset == proc.offset

\* End of file; the record is inserted or updated with the listed size.
SaveRecord ==
    /\ proc.at = "read"
    /\ proc.offset = LinesOf(proc.file)
    /\ LET f == Head(proc.todo)
       IN  logfiles' = [logfiles EXCEPT ![f.name] =
            [new |-> FALSE, size |-> f.size, offset |-> EndOffset,
             ip |-> proc.ip, file |-> proc.file]]
    /\ proc' = NextFile
    /\ UNCHANGED <<world, sessions, handled, failed, faults>>

\* Mutant of FileFails: the record is saved as if the file had been read.
FileFailsSaved ==
    /\ proc.at \in {"open", "read"}
    /\ Fault
    /\ LET f == Head(proc.todo)
       IN  logfiles' = [logfiles EXCEPT ![f.name] =
            [new |-> FALSE, size |-> f.size, offset |-> f.size \div 2,
             ip |-> proc.ip, file |-> FileNamed(f.name)]]
    /\ proc' = NextFile
    /\ UNCHANGED <<world, sessions, handled, failed>>

\* The file cannot be opened or read to its end, or the record not saved:
\* logged, and the next file is tried.
FileFails ==
    /\ proc.at \in {"open", "read"}
    /\ Fault
    /\ proc' = NextFile
    /\ UNCHANGED <<world, logfiles, sessions, handled, failed>>

Crash ==
    /\ proc.at # "idle"
    /\ Fault
    /\ proc' = Idle
    /\ UNCHANGED <<world, logfiles, sessions, handled, failed>>

Tick == List \/ EndTick \/ SkipFile \/ ReadServerIp \/ Open \/ ReadLine \/ SaveRecord

Next == Observer \/ Tick \/ StatementFails \/ FileFails \/ Crash

Spec == Init /\ [][Next]_vars

\* RunLoop ticks for ever, systemd restarts the process; faults are bounded.
FairSpec == Spec /\ WF_vars(Tick)

-----------------------------------------------------------------------------
(* Properties.                                                             *)

\* What the variables hold; an open file is never read beyond its end.
TypeOK ==
    /\ log \in Seq(Lines)
    /\ Len(log) \in 0..MaxLines
    /\ begins \in Seq(0..MaxLines) /\ Current \in 1..MaxFiles
    /\ tail \in {0, 1}
    /\ logfiles \in [Names -> [new : BOOLEAN, size : 0..2 * MaxLines,
                               offset : 0..MaxLines, ip : BOOLEAN, file : 0..MaxFiles]]
    /\ sessions \subseteq
        [ip : BOOLEAN, sess : Sessids, login : 1..MaxLines, logoff : 0..MaxLines]
    /\ proc \in [at : {"idle", "next", "open", "read"},
                 todo : Seq([name : Names, size : 0..2 * MaxLines]),
                 ip : BOOLEAN, file : 0..MaxFiles, offset : 0..MaxLines]
    /\ proc.at = "read" => proc.file \in 1..Current /\ proc.offset \in 0..LinesOf(proc.file)
    /\ handled \subseteq DOMAIN log /\ failed \subseteq DOMAIN log
    /\ faults \in 0..MaxFaults

FileOf(i) == CHOOSE k \in 1..Current : begins[k] < i /\ i <= begins[k] + LinesOf(k)
NameOf(k) == IF k = Current THEN Active ELSE k

\* The records will have the line read: it lies beyond the offset, or the file
\* will be found to have been rotated.
WillBeRead(i) ==
    LET k == FileOf(i)
        r == logfiles[NameOf(k)]
    IN  \/ r.new
        \/ r.offset < i - begins[k]
        \/ k = Current /\ Bytes(k) < r.size

\* No line is left behind (readAndProcess, shouldResetToStart): whatever the
\* order of rotation, listing, opening and saving, and whichever step fails,
\* a complete line was handed to the handler or the saved offsets lead to it.
NothingSkipped == \A i \in DOMAIN log : i \in handled \cup failed \/ WillBeRead(i)

\* Replay is harmless for logins (uk_sess): crashes make lines be read again
\* and every rotation makes the whole file be read again, yet a login never
\* gets a second row, and one whose INSERT was executed has its row.
\* SessionTrailSpec implies it.
OneRowPerLogin ==
    \A i \in DOMAIN log :
        LET rows == {r \in sessions : r.login = i}
        IN  /\ Cardinality(rows) <= 1
            /\ log[i].kind = "LOGIN" /\ i \in handled => rows # {}

\* Reading a rotated file as a whole repairs what was missed before: once its
\* record is saved, a session that came and went within it is closed, unless
\* one of the two statements has failed.
ClosedByRotation ==
    \A i, j \in DOMAIN log :
        (/\ log[i].kind = "LOGIN" /\ log[j].kind = "LOGOFF"
         /\ log[i].sess = log[j].sess /\ i < j
         /\ FileOf(i) = FileOf(j) /\ FileOf(i) < Current
         /\ ~logfiles[FileOf(i)].new
         /\ {i, j} \cap failed = {})
        => \A r \in sessions : r.login = i => r.logoff # 0

\* Every complete line reaches the handler in the end: again and again there
\* is none left, whatever failed before (RunLoop, SaveRecord).
AllHandled == []<>(DOMAIN log \subseteq handled \cup failed)

\* Reading the files implements the trail of sessions: over rotations, replays,
\* failures and restarts the table changes only as some line that was written
\* says, and a login whose row has appeared never makes one again.
Trail == INSTANCE SessionTrail WITH
    done <- handled,
    rows <- {[sess |-> r.sess, login |-> r.login, logoff |-> r.logoff] : r \in sessions}

SessionTrailSpec == Trail!Spec

\* "Idempotency" of statements that are executed again (ARCHITECTURE.md 5.5):
\* a line handled before changes no row.
RepeatChangesNothing == [][sessions' # sessions => handled' # handled]_vars

\* A session is only closed by a LOGOFF written after its login.
LogoffAfterLogin == \A r \in sessions : r.logoff = 0 \/ r.login < r.logoff

\* "The offset always agrees with the rows" (ARCHITECTURE.md 1): a login
\* before the saved offset of its file has a row.
OffsetMeansRows ==
    \A i \in DOMAIN log :
        log[i].kind = "LOGIN" /\ ~WillBeRead(i) => \E r \in sessions : r.login = i

\* "Two lines keep their physical order" (ARCHITECTURE.md 1).
LinesInOrder == \A i, j \in DOMAIN log : i < j /\ j \in handled => i \in handled \cup failed
=============================================================================
